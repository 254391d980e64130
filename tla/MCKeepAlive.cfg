\* Up to five WebSockets and two keepalive objects, a network that comes and goes.
SPECIFICATION FairSpec
CONSTANTS
  MinDelay = 3
  MaxDelay = 10
  ShortDelay = 1
  WaitsForOnline = TRUE
  Reopens = TRUE
  Listens = TRUE
  MaxSockets = 5
  MaxObjects = 2
INVARIANT OneSocket
INVARIANT OneAttempt
PROPERTY KeepsTrying
 
