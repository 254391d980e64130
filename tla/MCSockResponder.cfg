\* Two buffer requests, one of an unknown operation, and two streams, under a limit of one each.
SPECIFICATION Spec
CONSTANTS
  b1 = b1
  b2 = b2
  s1 = s1
  s2 = s2
  Reqs = {b1, b2, s1, s2}
  Streams = {s1, s2}
  Unknown = {b2}
  Failing = {b1, s1}
  Quitters = {s1}
  BufferLimit = 1
  StreamLimit = 1
  BufferMinWait = 5
  BufferMaxWait = 8
  StreamMinWait = 0
  StreamMaxWait = 0
  Width = 8
  Millisecond = 2
  DefaultMinWait = 2
  DefaultMaxWait = 6
  MaxParts = 1
  MaxWrites = 1
  MaxNotes = 0
  None = None
INVARIANT CountsAreRight
 
INVARIANT PartsInOrder
INVARIANT WaitWithinLimits
PROPERTY RefusedOnlyAtLimit
