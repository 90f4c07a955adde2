CONSTANTS
  Calls = {c1, c2, c3}
  Readers = {r1, r2}
  NoCopy = NoCopy
  MaxCrashes = 1
SPECIFICATION FairSpec
INVARIANTS DoneIsKeptUnlessOvertaken RefusedLeavesNoTrace
PROPERTIES EveryCallIsSettled
CHECK_DEADLOCK FALSE
