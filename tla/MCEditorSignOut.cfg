SPECIFICATION FairSpec
CONSTANTS
  fresh = fresh
  Texts = {fresh, whole, bad}
  Worthy = {whole, bad}
  Sound = {fresh, whole}
  Offered = {whole, bad}
  Complete = {whole}
  MaxPurchases = 2
  MaxDrafts = 2
  MaxCalls = 2
  MaxDisturbances = 1
CHECK_DEADLOCK FALSE
INVARIANTS SignOutKeepsTheDraft
