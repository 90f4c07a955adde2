CONSTANTS
  Infinity = 100000000
  NoTier = NoTier
  NoUser = NoUser
  System = System
  req = req
  mgr = mgr
  Users <- MCUsers
  InitialUsers <- MCInitialUsers
  Contents <- MCContents
  Files = {f1, f2}
  MaxAttachments = 1
  MaxNotifications = 1
  MaxPrf = 1
  MaxAudit = 4
  MaxLog = 0
  Author = req
  MaxTransfers = 2
SPECIFICATION USpec
INVARIANTS NoNoticeOfADraft UploadsTypeOK FilesAreTheOwners RemovedIsGone ZoneShowsTheRecord
PROPERTIES EveryChangeIsAudited
SYMMETRY Alike
