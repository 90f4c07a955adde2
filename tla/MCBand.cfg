CONSTANTS
  Infinity = 100000000
  NoTier = NoTier
  NoUser = NoUser
  System = System
  req = req
  dir = dir
  adm = adm
  Users <- MCUsers
  InitialUsers <- MCInitialUsers
  Contents <- MCContents
  Files = {}
  MaxAttachments = 1
  MaxNotifications = 2
  MaxPrf = 1
  MaxAudit = 6
  MaxLog = 2
SPECIFICATION Spec
INVARIANTS EveryApproverHasABand
