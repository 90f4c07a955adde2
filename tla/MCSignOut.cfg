CONSTANTS
  Tabs = {t1}
  Users = {u1}
  Nobody = Nobody
  NoToken = NoToken
  Password = Password
  Idle = 1
  Absolute = 2
  MaxTime = 3
  MaxSid = 2
  MaxCalls = 1
  MaxDisturbances = 0
SPECIFICATION Spec
PROPERTIES SignOutRevokes
