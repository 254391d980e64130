------------------------------- MODULE Server -------------------------------
(***************************************************************************)
(* A server's listener (src/server.go): the loop of Accept, Close, and the *)
(* signal handler of EnableUnixSocketGC.  s.Listener is read and written by *)
(* all of them with no mutex.  What is done with a connection once it has  *)
(* been accepted is SockLifecycle's.                                       *)
(*                                                                         *)
(* The kernel's socket, its queue and its errors are external.             *)
(***************************************************************************)
EXTENDS Integers

CONSTANTS
  Conns,       \* connections that clients may make
  Closers,     \* goroutines that may call Close
  Signalled,   \* of those, the ones that wait for a signal, and exit afterwards
  MaxErrors    \* bound: temporary errors

ASSUME ServerAssumption == Signalled \subseteq Closers /\ MaxErrors \in Nat

VARIABLES
  Listener,    \* TRUE until s.Listener is nil
  open,        \* the socket is open
  queue,       \* connections made and not accepted
  accepted,    \* connections with a goroutine in Server.accept
  acceptor,    \* where the goroutine in Accept is
  tempDelay,   \* in milliseconds
  error,       \* what Listener.Accept failed with last
  errors,      \* temporary errors so far
  closer,      \* where each goroutine that calls Close is
  process      \* "running", or how it ended

serverVars ==
  <<Listener, open, queue, accepted, acceptor, tempDelay, error, errors, closer, process>>

MaxDelay == 1000

ServerTypeOK ==
  /\ {Listener, open} \subseteq BOOLEAN
  /\ queue \subseteq Conns /\ accepted \subseteq Conns
  /\ acceptor \in {"idle", "loop", "accept", "sleep", "returned"}
  /\ tempDelay \in {0} \cup 5 .. MaxDelay /\ errors \in 0 .. MaxErrors
  /\ error \in {"none", "temporary", "other", "closed"}
  /\ closer \in [Closers -> {"idle", "tested", "closed", "returned"}]
  /\ process \in {"running", "panicked", "exited"}

ServerInit ==
  /\ Listener = TRUE /\ open = TRUE
  /\ queue = {} /\ accepted = {} /\ acceptor = "idle"
  /\ tempDelay = 0 /\ error = "none" /\ errors = 0
  /\ closer = [k \in Closers |-> "idle"] /\ process = "running"

\* A read without a mutex: what s.Listener is, or what it was.
Seen == {Listener, TRUE}

\* A call of a method of nil, which nobody recovers.
Panics == process' = "panicked" /\ UNCHANGED <<open, queue, acceptor, closer>>

-----------------------------------------------------------------------------
(* Accept.                                                                  *)

Accept ==
  /\ acceptor = "idle" /\ acceptor' = "loop"
  /\ UNCHANGED <<Listener, open, queue, accepted, tempDelay, error, errors, closer, process>>

ReadListener ==
  /\ acceptor = "loop"
  /\ \E l \in Seen :
       \/ l /\ acceptor' = "accept" /\ UNCHANGED <<open, queue, closer, process>>
       \/ ~l /\ Panics
  /\ UNCHANGED <<Listener, accepted, tempDelay, error, errors>>

TakeConn ==
  /\ acceptor = "accept" /\ open
  /\ \E c \in queue : queue' = queue \ {c} /\ accepted' = accepted \cup {c}
  /\ acceptor' = "loop"
  /\ UNCHANGED <<Listener, open, tempDelay, error, errors, closer, process>>

Fails(e) ==
  CASE e = "closed"    -> ~open
    [] e = "other"     -> open
    [] e = "temporary" -> open /\ errors < MaxErrors

\* The first wait is 5 ms, the next is twice the last, up to a second.
Backoff(d) ==
  LET next == IF d = 0 THEN 5 ELSE 2 * d IN IF next > MaxDelay THEN MaxDelay ELSE next

AcceptErrorReturns(e) ==             \* mutant: a temporary error ends Accept too
  /\ acceptor = "accept" /\ Fails(e)
  /\ error' = e
  /\ acceptor' = "returned" /\ UNCHANGED <<tempDelay, errors>>
  /\ UNCHANGED <<Listener, open, queue, accepted, closer, process>>
AcceptError(e) ==
  /\ acceptor = "accept" /\ Fails(e)
  /\ error' = e
  /\ \/ /\ e = "temporary" /\ errors' = errors + 1
        /\ tempDelay' = Backoff(tempDelay) /\ acceptor' = "sleep"
     \/ e # "temporary" /\ acceptor' = "returned" /\ UNCHANGED <<tempDelay, errors>>
  /\ UNCHANGED <<Listener, open, queue, accepted, closer, process>>

Wake ==
  /\ acceptor = "sleep" /\ acceptor' = "loop"
  /\ UNCHANGED <<Listener, open, queue, accepted, tempDelay, error, errors, closer, process>>

-----------------------------------------------------------------------------
(* Close, by the application or after a signal.                             *)

Close(k) ==
  /\ closer[k] = "idle"
  /\ \E l \in Seen : closer' = [closer EXCEPT ![k] = IF l THEN "tested" ELSE "returned"]
  /\ UNCHANGED <<Listener, open, queue, accepted, acceptor, tempDelay, error, errors, process>>

\* The kernel drops the connections that nobody has accepted.
CloseListener(k) ==
  /\ closer[k] = "tested"
  /\ \E l \in Seen :
       \/ /\ l /\ open' = FALSE /\ queue' = {}
          /\ closer' = [closer EXCEPT ![k] = "closed"] /\ UNCHANGED <<acceptor, process>>
       \/ ~l /\ Panics
  /\ UNCHANGED <<Listener, accepted, tempDelay, error, errors>>

ForgetListener(k) ==
  /\ closer[k] = "closed"
  /\ Listener' = FALSE /\ closer' = [closer EXCEPT ![k] = "returned"]
  /\ UNCHANGED <<open, queue, accepted, acceptor, tempDelay, error, errors, process>>

Exit(k) ==
  /\ k \in Signalled /\ closer[k] = "returned" /\ process' = "exited"
  /\ UNCHANGED <<Listener, open, queue, accepted, acceptor, tempDelay, error, errors, closer>>

-----------------------------------------------------------------------------
Connect(c) ==
  /\ open /\ c \notin queue \cup accepted /\ queue' = queue \cup {c}
  /\ UNCHANGED <<Listener, open, accepted, acceptor, tempDelay, error, errors, closer, process>>

ServerGone == acceptor = "returned" \/ process # "running"

ServerNext ==
  \/ /\ process = "running"
     /\ \/ Accept \/ ReadListener \/ TakeConn \/ Wake
        \/ \E e \in {"temporary", "other", "closed"} : AcceptError(e)
        \/ \E c \in Conns : Connect(c)
        \/ \E k \in Closers : Close(k) \/ CloseListener(k) \/ ForgetListener(k) \/ Exit(k)
  \/ ServerGone /\ UNCHANGED serverVars

\* The goroutine in Accept runs when it can, and its sleeps end.  Nobody need
\* connect or close, and nothing need fail.
ServerFairness ==
  WF_serverVars(/\ process = "running"
                /\ ReadListener \/ TakeConn \/ Wake \/ AcceptError("closed"))

ServerSpec == ServerInit /\ [][ServerNext]_serverVars /\ ServerFairness

-----------------------------------------------------------------------------
\* While it listens, Accept gets to every connection, whatever temporary errors come
\* in between, unless another error has made it return; and once the listener is closed, be it
\* while it waits, sleeps or starts a connection, it comes to its end.
ServesUntilClosed ==
  /\ \A c \in Conns :
       c \in queue /\ acceptor # "idle" ~> \/ c \in accepted \/ ~open \/ process # "running"
                                           \/ acceptor = "returned" /\ error = "other"
  /\ ~open /\ acceptor # "idle" ~> acceptor = "returned" \/ process # "running"

\* Not so in the code.  Accept "Blocks until Close() is called or an error occurs"
\* (server.go:119): then it returns, and Close is no reason to crash.
CloseIsClean == process # "panicked"
=============================================================================
