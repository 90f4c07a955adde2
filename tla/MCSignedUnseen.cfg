CONSTANTS
  Infinity = 100000000
  NoTier = NoTier
  NoUser = NoUser
  System = System
  Nobody = Nobody
  Nothing = Nothing
  req = req
  mgr = mgr
  fin = fin
  Users <- MCUsers
  InitialUsers <- MCInitialUsers
  Contents <- MCContents
  Files = {}
  MaxAttachments = 1
  MaxNotifications = 1
  MaxPrf = 1
  MaxAudit = 9
  MaxLog = 0
  Reviewers = {mgr, fin}
  Buyers = {req}
  BellSize = 1
  MaxCalls = 2
SPECIFICATION DSpec
PROPERTIES SignedAsShown
