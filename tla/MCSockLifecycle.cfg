\* One connection: every way for it to end, with heartbeats, requests, failures and Shutdown.
SPECIFICATION FairSpec
CONSTANTS
  ReadTimeout = 3
  Heartbeat = 2
  PeerHeartbeat = 2
  ShutdownTimeout = 1
  CanClose = TRUE
  CanShutdown = TRUE
  EarlyShutdown = FALSE
  PeerFails = TRUE
  MaxConns = 1
  MaxSends = 2
 
INVARIANT ReadLeavesClosed
 
PROPERTY GoroutinesEnd
