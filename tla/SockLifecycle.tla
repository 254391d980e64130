--------------------------- MODULE SockLifecycle ---------------------------
(***************************************************************************)
(* The life of a Sock (src/sock.go), from Adopt to the end of Read: the    *)
(* handshake, the read loop with its deadline, heartbeats, Shutdown, and   *)
(* the same Sock adopting another connection after one has closed.  What   *)
(* the messages say is left to SockRequests and SockResponder; here it     *)
(* matters when they come.                                                 *)
(*                                                                         *)
(* Processes: for each connection the goroutine that shakes hands, calls   *)
(* the accept handler and then reads (Server.accept, onAccept, or          *)
(* ConnectReader and its go s.Read), one that sends heartbeats, and the    *)
(* goroutines of request handlers; and the application.  The peer and the  *)
(* network are external.  Time is counted in ticks; the goroutines of      *)
(* gotalk itself take none, handlers and the application any number.       *)
(***************************************************************************)
EXTENDS Integers, Sequences, FiniteSets

CONSTANTS
  ReadTimeout,      \* Limits.ReadTimeout, 0: none
  Heartbeat,        \* Sock.HeartbeatInterval, 0: none
  PeerHeartbeat,    \* the peer's, 0: none
  ShutdownTimeout,  \* the timeout given to Shutdown
  CanClose, CanShutdown, \* what the application may call
  EarlyShutdown,    \* TRUE when Shutdown may be called at any time, not only during Read
  PeerFails,        \* TRUE when the peer may leave, send errors, junk, another version
  MaxConns,         \* bound: connections adopted
  MaxSends          \* bound: messages from the peer, heartbeats not counted

ASSUME LifecycleAssumption ==
  /\ ReadTimeout \in Nat /\ Heartbeat \in Nat /\ PeerHeartbeat \in Nat
  /\ ShutdownTimeout \in Nat \ {0} /\ MaxConns \in Nat \ {0} /\ MaxSends \in Nat
  /\ {CanClose, CanShutdown, EarlyShutdown, PeerFails} \subseteq BOOLEAN

VARIABLES
  conn,        \* Sock.conn, the connection adopted last; 0: none
  closex,      \* Sock.closex, as a switch
  closeCode,   \* Sock.closeCode: 0, or a protocol error code + 1
  net,         \* connections, by number
  reader,      \* for each connection, the goroutine that serves it
  beat,        \* for each, the goroutine that sends heartbeats
  running,     \* for each, the request handlers that run
  wg,          \* shutdownWg: whether it is set, and its counter
  closed,      \* calls of CloseHandler: connection, goroutine, code
  strayed,     \* TRUE once a response has gone to a connection its request did not come from
  sends        \* messages from the peer so far

vars == <<conn, closex, closeCode, net, reader, beat, running, wg, closed, strayed, sends>>

Conns   == 1 .. MaxConns
App     == 0      \* the application, among goroutines
None    == -1     \* no deadline, no code
Unsupported == 1
InvalidMsg  == 2
Timeout     == 3
MaxTime == IF ReadTimeout > ShutdownTimeout THEN ReadTimeout ELSE ShutdownTimeout
Kinds   == {"request", "other", "error", "junk"}

Connection ==
  [open : BOOLEAN, gone : BOOLEAN, version : {"none", "ours", "other", "read"},
   in : {<<>>} \cup {<<m>> : m \in Kinds}, readDl : None .. MaxTime, writeDl : None .. MaxTime,
   told : None .. 3, peerBeat : 0 .. PeerHeartbeat, silence : 0 .. MaxTime]
Stages ==
  {"none", "greet", "version", "accept", "entry", "deadline", "read", "ending", "done"}
TypeOK ==
  /\ conn \in 0 .. MaxConns /\ closex \in {0, 1} /\ closeCode \in 0 .. 4
  /\ net \in [1 .. conn -> Connection]
  /\ reader \in [Conns -> [pc : Stages, on : 0 .. MaxConns]]
  /\ beat \in [Conns -> [pc : {"none", "send", "wait", "done"}, left : 0 .. Heartbeat,
                         stop : BOOLEAN]]
  /\ running \in [Conns -> Nat]
  /\ wg \in [set : BOOLEAN, count : Int] /\ strayed \in BOOLEAN /\ sends \in 0 .. MaxSends
  /\ closed \in Seq([conn : Conns, by : App .. MaxConns, code : 0 .. 4])

Fresh == [open |-> TRUE, gone |-> FALSE, version |-> "none", in |-> <<>>, readDl |-> None,
          writeDl |-> None, told |-> None, peerBeat |-> PeerHeartbeat, silence |-> 0]
Init ==
  /\ conn = 0 /\ closex = 0 /\ closeCode = 0 /\ net = <<>>
  /\ reader = [c \in Conns |-> [pc |-> "none", on |-> 0]]
  /\ beat = [c \in Conns |-> [pc |-> "none", left |-> 0, stop |-> FALSE]]
  /\ running = [c \in Conns |-> 0]
  /\ wg = [set |-> FALSE, count |-> 0]
  /\ closed = <<>> /\ strayed = FALSE /\ sends = 0

-----------------------------------------------------------------------------
(* Closing and writing.                                                     *)

\* Close, called by the goroutine by, where n is net as the same step leaves it
\* and cc the close code: only the first call does anything.
CloseSock(n, cc, by) ==
  /\ closex' = 1
  /\ net' = IF closex = 0 THEN [n EXCEPT ![conn].open = FALSE] ELSE n
  /\ closed' = IF closex = 0 THEN Append(closed, [conn |-> conn, by |-> by, code |-> cc])
               ELSE closed
  /\ closeCode' = cc

\* CloseError: the peer is told first, where it can be.
CanWrite(c)   == net[c].open /\ net[c].writeDl # 0
WriteFails(c) == ~CanWrite(c) \/ net[c].gone
Told(n, code) == [n EXCEPT ![conn].told = IF CanWrite(conn) THEN code ELSE @]
CloseError(n, code, by) == CloseSock(Told(n, code), code + 1, by)

StaysOpen == UNCHANGED <<closex, closeCode, closed>>
To(p, pc) == reader' = [reader EXCEPT ![p].pc = pc]

-----------------------------------------------------------------------------
(* Adopt and Handshake.                                                     *)

\* Adopt, on a Sock that is new, or that was closed and that the goroutine which
\* shook hands for the last connection has left.
Adopt ==
  /\ conn < MaxConns /\ (conn > 0 => closex = 1 /\ ~wg.set)
  /\ conn > 0 => reader[conn].pc \notin {"greet", "version", "accept"}
  /\ conn' = conn + 1 /\ net' = Append(net, Fresh)
  /\ closex' = 0 /\ closeCode' = 0
  /\ To(conn + 1, "greet")
  /\ UNCHANGED <<beat, running, wg, closed, strayed, sends>>

Greet(p) ==
  /\ reader[p].pc = "greet"
  /\ \/ CanWrite(conn) /\ To(p, "version") /\ UNCHANGED net /\ StaysOpen
     \/ WriteFails(conn) /\ To(p, "done") /\ CloseSock(net, closeCode, p)
  /\ UNCHANGED <<conn, beat, running, wg, strayed, sends>>

\* ReadVersion.  No deadline is set before it.
VersionBad(c) ==
  \/ ~net[c].open \/ net[c].readDl = 0 \/ net[c].version = "other"
  \/ net[c].version = "none" /\ net[c].gone
Version(p) ==
  /\ reader[p].pc = "version"
  /\ \/ /\ ~VersionBad(conn) /\ net[conn].version = "ours" /\ To(p, "accept")
        /\ net' = [net EXCEPT ![conn].version = "read"] /\ StaysOpen
     \/ VersionBad(conn) /\ To(p, "done") /\ CloseSock(net, closeCode, p)
  /\ UNCHANGED <<conn, beat, running, wg, strayed, sends>>

\* AcceptHandler, OnConnect, or what the caller of Connect does: it returns.
Accept(p) ==
  /\ reader[p].pc = "accept" /\ To(p, "entry")
  /\ UNCHANGED <<conn, closex, closeCode, net, beat, running, wg, closed, strayed, sends>>

-----------------------------------------------------------------------------
(* Read.                                                                    *)

\* Read returns at once on a Sock that was shut down; else it takes the connection,
\* and starts the heartbeats.
Entry(p) ==
  /\ reader[p].pc = "entry"
  /\ \/ wg.set /\ To(p, "done") /\ UNCHANGED beat
     \/ /\ ~wg.set /\ reader' = [reader EXCEPT ![p] = [pc |-> "deadline", on |-> conn]]
        /\ beat' = IF Heartbeat > 0 THEN [beat EXCEPT ![p].pc = "send"] ELSE beat
  /\ UNCHANGED <<conn, closex, closeCode, net, running, wg, closed, strayed, sends>>

\* SetReadDeadline, at the top of each round.  It fails on a closed connection, and
\* Read returns at once.
DeadlineOnce(p) ==                   \* mutant: the deadline is set before the first round only
  LET c == reader[p].on IN
  /\ reader[p].pc = "deadline"
  /\ To(p, "read") /\ StaysOpen
  /\ net' = IF ReadTimeout > 0 /\ net[c].readDl = None
            THEN [net EXCEPT ![c].readDl = ReadTimeout] ELSE net
  /\ UNCHANGED <<conn, beat, running, wg, strayed, sends>>
Deadline(p) ==
  LET c == reader[p].on IN
  /\ reader[p].pc = "deadline"
  /\ \/ ReadTimeout = 0 /\ To(p, "read") /\ UNCHANGED net /\ StaysOpen
     \/ /\ ReadTimeout > 0 /\ net[c].open /\ To(p, "read")
        /\ net' = [net EXCEPT ![c].readDl = ReadTimeout] /\ StaysOpen
     \/ ReadTimeout > 0 /\ ~net[c].open /\ To(p, "done") /\ CloseSock(net, closeCode, p)
  /\ UNCHANGED <<conn, beat, running, wg, strayed, sends>>

\* ReadMsg and what its outcome leads to.
Expired(c) == net[c].open /\ net[c].readDl = 0
Broken(c)  == ~net[c].open \/ (~Expired(c) /\ net[c].gone /\ net[c].in = <<>>)
HasMsg(c)  == net[c].open /\ ~Expired(c) /\ net[c].in # <<>>
CanRead(c) == Expired(c) \/ Broken(c) \/ HasMsg(c)

ReadTimesOutDone(p) ==               \* mutant: a shutdown is completed here too
  /\ reader[p].pc = "read" /\ Expired(reader[p].on)
  /\ To(p, "ending")
  /\ IF wg.set THEN CloseSock(net, closeCode, p) /\ wg' = [wg EXCEPT !.count = @ - 1]
     ELSE CloseError(net, Timeout, p) /\ UNCHANGED wg
  /\ UNCHANGED <<conn, beat, running, strayed, sends>>
ReadTimesOut(p) ==
  /\ reader[p].pc = "read" /\ Expired(reader[p].on)
  /\ To(p, "ending")
  /\ IF wg.set THEN UNCHANGED net /\ StaysOpen ELSE CloseError(net, Timeout, p)
  /\ UNCHANGED <<conn, beat, running, wg, strayed, sends>>

ReadBreaks(p) ==
  /\ reader[p].pc = "read" /\ Broken(reader[p].on)
  /\ To(p, "ending") /\ CloseSock(net, closeCode, p)
  /\ UNCHANGED <<conn, beat, running, wg, strayed, sends>>

ReadMessage(p) ==
  LET c == reader[p].on
      rest == [net EXCEPT ![c].in = <<>>]
      m == Head(net[c].in)
  IN
  /\ reader[p].pc = "read" /\ HasMsg(c)
  /\ \/ m \in {"request", "other"} /\ To(p, "deadline") /\ net' = rest /\ StaysOpen
     \/ \* MsgTypeProtocolError, with the peer's code
        /\ m = "error" /\ To(p, "ending")
        /\ IF wg.set THEN net' = rest /\ closeCode' = InvalidMsg + 1 /\ UNCHANGED <<closex, closed>>
           ELSE CloseSock(rest, InvalidMsg + 1, p)
     \/ m = "junk" /\ To(p, "ending") /\ CloseError(rest, InvalidMsg, p)
  /\ running' = IF m = "request" THEN [running EXCEPT ![c] = @ + 1] ELSE running
  /\ UNCHANGED <<conn, beat, wg, strayed, sends>>

\* After the loop: a shutdown is completed, and the heartbeats are stopped.  The
\* channel holds the one value, so that the send never waits.
Stopped(p) == IF Heartbeat > 0 THEN [beat EXCEPT ![p].stop = TRUE] ELSE beat
EndingOpen(p) ==                     \* mutant: the Sock is not closed at the end of a shutdown
  /\ reader[p].pc = "ending" /\ To(p, "done") /\ beat' = Stopped(p)
  /\ wg' = IF wg.set THEN [wg EXCEPT !.count = @ - 1] ELSE wg
  /\ UNCHANGED <<conn, closex, closeCode, net, closed, running, strayed, sends>>
Ending(p) ==
  /\ reader[p].pc = "ending" /\ To(p, "done") /\ beat' = Stopped(p)
  /\ IF wg.set THEN CloseSock(net, closeCode, p) /\ wg' = [wg EXCEPT !.count = @ - 1]
     ELSE UNCHANGED <<wg, net>> /\ StaysOpen
  /\ UNCHANGED <<conn, running, strayed, sends>>

-----------------------------------------------------------------------------
(* Heartbeats and handlers.  Both write to the connection the Sock has now. *)

SendHeartbeatOn(p) ==                \* mutant: a heartbeat that failed is not the last
  /\ beat[p].pc = "send"
  /\ beat' = [beat EXCEPT ![p].pc = "wait", ![p].left = Heartbeat]
  /\ UNCHANGED <<conn, closex, closeCode, net, reader, running, wg, closed, strayed, sends>>
SendHeartbeat(p) ==
  /\ beat[p].pc = "send"
  /\ \/ CanWrite(conn) /\ beat' = [beat EXCEPT ![p].pc = "wait", ![p].left = Heartbeat]
     \/ WriteFails(conn) /\ beat' = [beat EXCEPT ![p].pc = "done"]
  /\ UNCHANGED <<conn, closex, closeCode, net, reader, running, wg, closed, strayed, sends>>

\* The interval has passed, or Read has ended; where both hold, either.
AfterInterval(p) ==
  /\ beat[p].pc = "wait"
  /\ \/ beat[p].left = 0 /\ beat' = [beat EXCEPT ![p].pc = "send"]
     \/ beat[p].stop /\ beat' = [beat EXCEPT ![p].pc = "done"]
  /\ UNCHANGED <<conn, closex, closeCode, net, reader, running, wg, closed, strayed, sends>>

HandlerEnds(c) ==
  /\ running[c] > 0 /\ running' = [running EXCEPT ![c] = @ - 1]
  /\ \/ CanWrite(conn) /\ strayed' = (strayed \/ c # conn) /\ UNCHANGED net /\ StaysOpen
     \/ WriteFails(conn) /\ CloseSock(net, closeCode, c) /\ UNCHANGED strayed
  /\ UNCHANGED <<conn, reader, beat, wg, sends>>

-----------------------------------------------------------------------------
(* The application.                                                         *)

Close ==
  /\ CanClose /\ conn > 0 /\ closex = 0
  /\ CloseSock(net, closeCode, App)
  /\ UNCHANGED <<conn, reader, beat, running, wg, strayed, sends>>

\* Shutdown, after wg.Add(1).  The application has the Sock from the accept handler
\* on, or from when Connect has returned.
Shutdown ==
  /\ CanShutdown /\ conn > 0 /\ ~wg.set
  /\ reader[conn].pc \in {"deadline", "read"}
       \cup (IF EarlyShutdown THEN {"accept", "entry", "ending", "done"} ELSE {})
  /\ wg' = [set |-> TRUE, count |-> wg.count + 1]
  /\ net' = IF ~net[conn].open THEN net
            ELSE [net EXCEPT ![conn].readDl = ShutdownTimeout, ![conn].writeDl = ShutdownTimeout]
  /\ UNCHANGED <<conn, closex, closeCode, reader, beat, running, closed, strayed, sends>>

-----------------------------------------------------------------------------
(* The peer, and time.                                                      *)

Peer(c, n) ==
  /\ c \in DOMAIN net /\ ~net[c].gone /\ net' = n
  /\ UNCHANGED <<conn, closex, closeCode, reader, beat, running, wg, closed, strayed>>

PeerGreets ==
  \E c \in DOMAIN net, v \in {"ours"} \cup (IF PeerFails THEN {"other"} ELSE {}) :
    /\ net[c].version = "none" /\ net[c].open
    /\ Peer(c, [net EXCEPT ![c].version = v]) /\ UNCHANGED sends
Greeted(c) == net[c].version \in {"ours", "read"} /\ net[c].open
\* What comes after the deadline comes too late.
Arrives(c, m) == [net EXCEPT ![c].in = IF @ = <<>> THEN <<m>> ELSE @,
                             ![c].silence = IF net[c].readDl = 0 THEN @ ELSE 0]
PeerSends ==
  \E c \in DOMAIN net, m \in IF PeerFails THEN Kinds ELSE {"request", "other"} :
    /\ Greeted(c) /\ net[c].in = <<>> /\ sends < MaxSends
    /\ Peer(c, Arrives(c, m)) /\ sends' = sends + 1
\* A heartbeat behind a message that was not read yet makes no difference.
PeerBeats ==
  \E c \in DOMAIN net :
    /\ Greeted(c) /\ PeerHeartbeat > 0 /\ net[c].peerBeat = 0
    /\ Peer(c, [Arrives(c, "other") EXCEPT ![c].peerBeat = PeerHeartbeat]) /\ UNCHANGED sends
PeerLeaves ==
  \E c \in DOMAIN net :
    PeerFails /\ net[c].open /\ Peer(c, [net EXCEPT ![c].gone = TRUE]) /\ UNCHANGED sends

\* What happens before time passes.
Busy(p) ==
  \/ reader[p].pc \in {"greet", "entry", "deadline", "ending"}
  \/ reader[p].pc = "version" /\ (VersionBad(conn) \/ net[conn].version = "ours")
  \/ reader[p].pc = "read" /\ CanRead(reader[p].on)
  \/ beat[p].pc = "send"
  \/ beat[p].pc = "wait" /\ (beat[p].left = 0 \/ beat[p].stop)
BeatDue(c) == PeerHeartbeat > 0 /\ Greeted(c) /\ ~net[c].gone /\ net[c].peerBeat = 0
Less(t)    == IF t > 0 THEN t - 1 ELSE t
Tick ==
  /\ \A p \in Conns : ~Busy(p)
  /\ \A c \in DOMAIN net : ~BeatDue(c)
  /\ net' = [c \in DOMAIN net |-> IF ~net[c].open THEN net[c] ELSE
       [net[c] EXCEPT !.readDl = Less(@), !.writeDl = Less(@),
                      !.peerBeat = IF Greeted(c) /\ ~net[c].gone THEN Less(@) ELSE @,
                      !.silence = IF @ < MaxTime THEN @ + 1 ELSE @]]
  /\ beat' = [p \in Conns |-> IF beat[p].pc = "wait" THEN [beat[p] EXCEPT !.left = Less(@)]
                              ELSE beat[p]]
  /\ <<net, beat>>' # <<net, beat>>
  /\ UNCHANGED <<conn, closex, closeCode, reader, running, wg, closed, strayed, sends>>

\* Nothing is left to do, unless the peer or the application does something.
Resting ==
  /\ \A p \in Conns : ~Busy(p) /\ running[p] = 0 /\ reader[p].pc # "accept"
  /\ UNCHANGED vars

ReaderStep(p) ==
  \/ Greet(p) \/ Version(p) \/ Entry(p) \/ Deadline(p)
  \/ ReadTimesOut(p) \/ ReadBreaks(p) \/ ReadMessage(p) \/ Ending(p)
BeatStep(p) == SendHeartbeat(p) \/ AfterInterval(p)
PeerStep == PeerGreets \/ PeerSends \/ PeerBeats \/ PeerLeaves
Next ==
  \/ Adopt \/ Close \/ Shutdown \/ PeerStep \/ Tick \/ Resting
  \/ \E p \in Conns : ReaderStep(p) \/ BeatStep(p) \/ Accept(p) \/ HandlerEnds(p)

Spec == Init /\ [][Next]_vars

\* Goroutines that can run do, time passes, handlers and callbacks return, and the
\* peer sends the heartbeats it is set to send.
FairSpec ==
  /\ Spec /\ WF_vars(Tick) /\ WF_vars(PeerBeats)
  /\ \A p \in Conns : /\ WF_vars(ReaderStep(p)) /\ WF_vars(BeatStep(p))
                      /\ WF_vars(Accept(p)) /\ WF_vars(HandlerEnds(p))

-----------------------------------------------------------------------------
(* Properties.                                                              *)

\* A connection is closed for a timeout only after ReadTimeout ticks in which the
\* peer sent nothing: whatever comes in, a heartbeat too, gives it as much again.
TimeoutMeansSilence ==
  \A i \in DOMAIN closed :
    closed[i].code = Timeout + 1 => net[closed[i].conn].silence >= ReadTimeout

\* Whichever way Read ends, and however a Shutdown meets a timeout, an error or the
\* end of the connection, it leaves a closed connection (sock.go:687).
ReadLeavesClosed ==
  \A p \in Conns : reader[p].pc = "done" /\ reader[p].on # 0 => ~net[reader[p].on].open

\* A shutdown meets timeouts, errors, junk, Close and the end of the connection at
\* any moment.  wg.Done is called once at most for the one wg.Add, as one more would
\* panic.  And it is called, unless the peer goes on to send for ever, or Read finds
\* at the top of a round that another goroutine has closed the connection.
PeerQuiet == \A c \in DOMAIN net : net[c].open => net[c].silence > 0
ReadCutOff == closex = 1 /\ \E p \in Conns : reader[p].on # 0 /\ reader[p].pc = "done"
DoneOnce ==
  [](wg.count >= 0) /\ (<>[]PeerQuiet => (wg.set ~> (wg.count = 0 \/ ReadCutOff)))

\* Once its connection is closed, by whom it may be, the goroutines of a Sock end.
GoroutinesEnd ==
  \A c \in Conns :
    (c \in DOMAIN net /\ ~net[c].open) ~>
      (reader[c].pc = "done" /\ beat[c].pc \in {"none", "done"})

-----------------------------------------------------------------------------
(* What the documentation says, and the code does not do.                   *)

\* sock.go:915-919: "any work in handlers does not account to the timeout (and is
\* unlimited.)", and "once all work is complete, calls s.Close() and wg.Done()".
ShutdownWaits == wg.set /\ wg.count = 0 => \A c \in Conns : running[c] = 0

\* The same: wg.Done is called at last.
ShutdownEnds == wg.set ~> wg.count = 0

\* README.md:337: a version that is not supported is answered by "a ProtocolError
\* message ... with code 1".
RefusalIsTold ==
  \A c \in DOMAIN net : net[c].version = "other" /\ ~net[c].open /\ reader[c].pc = "done"
    /\ ~net[c].gone /\ (\A i \in DOMAIN closed : closed[i].by # App) => net[c].told = Unsupported

\* sock.go:118-119 and 686-687: a connection that was adopted is read from until it
\* is closed, not until a goroutine of the one before it closes it.
AdoptedStays ==
  \A i \in DOMAIN closed : closed[i].by \in {App, closed[i].conn}

\* README.md:363: a request's id has no purpose beyond identity for its requestor:
\* a response goes to the connection its request came from.
ResponsesStay == ~strayed
=============================================================================
