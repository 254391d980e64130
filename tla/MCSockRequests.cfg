\* Two BufferRequests, a retry, protocol errors, an application that closes.
SPECIFICATION Spec
CONSTANTS
  c1 = c1
  c2 = c2
  k1 = k1
  Calls = {c1, c2}
  Streams = {}
  StreamAnswered = {}
  Closers = {k1}
  Reader = Reader
  None = None
  IdSpace = 3
  FaultCodes = {2}
  ReadTimeouts = FALSE
  MaxRetries = 1
  MaxParts = 0
SYMMETRY CallSymmetry
INVARIANT OwnAnswer
INVARIANT NoOrphan
INVARIANT FullInv
INVARIANT NothingLeft
INVARIANT ClosedOnceAndLast
