SPECIFICATION FairSpec
CONSTANTS
  fresh = fresh
  Texts = {fresh, sparse, begun, whole, bad}
  Worthy = {begun, whole, bad}
  Sound = {fresh, sparse, begun, whole}
  Offered = {begun, whole, bad}
  Complete = {whole}
  MaxPurchases = 2
  MaxDrafts = 2
  MaxCalls = 2
  MaxDisturbances = 0
CHECK_DEADLOCK FALSE
INVARIANTS EditorTypeOK OneDraftPerPurchase PatientUserLosesNothing
PROPERTIES SubmittedNeverChanges AutosaveCatchesUp
