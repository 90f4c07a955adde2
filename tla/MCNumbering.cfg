CONSTANTS
  Infinity = 100000000
  NoTier = NoTier
  NoUser = NoUser
  System = System
  req = req
  Users = {req}
  InitialUsers <- MCInitialUsers
  Contents <- MCContents
  Files = {f1, f2}
  MaxAttachments = 1
  MaxNotifications = 3
  MaxPrf = 2
  MaxAudit = 5
  MaxLog = 0
SPECIFICATION NumberingSpec
PROPERTIES NumbersNeverReused
