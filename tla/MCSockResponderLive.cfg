\* Two buffer requests, a stream and a notification under fair scheduling.
SPECIFICATION FairSpec
CONSTANTS
  b1 = b1
  b2 = b2
  s1 = s1
  s2 = s2
  Reqs = {b1, b2, s1}
  Streams = {s1}
  Unknown = {}
  Failing = {b1}
  Quitters = {s1}
  BufferLimit = 1
  StreamLimit = 1
  BufferMinWait = 5
  BufferMaxWait = 8
  StreamMinWait = 0
  StreamMaxWait = 0
  Width = 8
  Millisecond = 2
  DefaultMinWait = 2
  DefaultMaxWait = 6
  MaxParts = 2
  MaxWrites = 0
  MaxNotes = 1
  None = None
 
PROPERTY EveryRequestAnswered
PROPERTY HandlersEnd
