CONSTANTS
  Tabs = {t1, t2}
  Users = {u1, u2}
  Nobody = Nobody
  NoToken = NoToken
  Password = Password
  Idle = 1
  Absolute = 2
  MaxTime = 3
  MaxSid = 2
  MaxCalls = 2
  MaxDisturbances = 1
SPECIFICATION Spec
PROPERTIES RevokedStaysOut ActsAsShown UnattendedBrowserEnds ActiveUserStaysIn
SYMMETRY Interchangeable
