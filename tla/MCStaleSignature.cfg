CONSTANTS
  Infinity = 100000000
  NoTier = NoTier
  NoUser = NoUser
  System = System
  req = req
  mgr = mgr
  chf = chf
  fin = fin
  Users <- MCUsers
  InitialUsers <- MCInitialUsers
  Contents <- MCContents
  Files = {}
  MaxAttachments = 1
  MaxNotifications = 2
  MaxPrf = 1
  MaxAudit = 9
  MaxLog = 0
SPECIFICATION Spec
INVARIANTS SignedMeansSigned
