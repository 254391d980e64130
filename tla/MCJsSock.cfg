\* Two requests and a stream request by the application and two requests by the server,
\* any three of them, over three connections; a queue of one.
SPECIFICATION FairSpec
CONSTANTS
  r1 = r1
  r2 = r2
  s1 = s1
  q1 = q1
  q2 = q2
  Reqs = {r1, r2}
  Streams = {s1}
  Asks = {q1, q2}
  Retriers = {}
  NextOf <- NoNext
  LateResults = FALSE
  Refusals = TRUE
  Ends = TRUE
  IdSpace = 4
  SendBufferLimit = 1
  MaxConns = 3
  MaxCalls = 3
  MaxWrites = 2
  None = None
INVARIANT SettledOnce
INVARIANT NothingForgotten
INVARIANT ResultsMatch
PROPERTY EverySettled
PROPERTY EndCloses
