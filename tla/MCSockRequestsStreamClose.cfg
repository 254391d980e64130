\* Close while a stream's consumer is busy.
SPECIFICATION FairSpec
CONSTANTS
  c1 = c1
  c2 = c2
  k1 = k1
  Calls = {c2}
  Streams = {c2}
  StreamAnswered = {}
  Closers = {k1}
  Reader = Reader
  None = None
  IdSpace = 4
  FaultCodes = {}
  ReadTimeouts = FALSE
  MaxRetries = 0
  MaxParts = 1
CHECK_DEADLOCK FALSE
PROPERTY CloseEndsStreams
