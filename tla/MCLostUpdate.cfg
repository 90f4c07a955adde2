CONSTANTS
  Calls = {c1, c2}
  Readers = {r1}
  NoCopy = NoCopy
  MaxCrashes = 1
SPECIFICATION Spec
INVARIANTS DoneIsKept
CHECK_DEADLOCK FALSE
