\* Two calls from one end and one from the other, one write in flight each way.
SPECIFICATION FairSpec
CONSTANTS
  a1 = a1
  a2 = a2
  b1 = b1
  Calls = {a1, a2, b1}
  FromA = {a1, a2}
  Limit <- MCLimit
  Capacity = 1
  Closing = {"a", "b"}
  None = None
CHECK_DEADLOCK FALSE
INVARIANT FramesWhole
PROPERTY OnlyClinchHangs
