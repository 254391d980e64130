\* A BufferRequest and a StreamRequest under fair scheduling, with read timeouts.
SPECIFICATION FairSpec
CONSTANTS
  c1 = c1
  c2 = c2
  k1 = k1
  Calls = {c1, c2}
  Streams = {c2}
  StreamAnswered = {}
  Closers = {}
  Reader = Reader
  None = None
  IdSpace = 3
  FaultCodes = {}
  ReadTimeouts = TRUE
  MaxRetries = 0
  MaxParts = 1
PROPERTY KeepsPromise
PROPERTY CloseEndsRequests
 
