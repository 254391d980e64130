------------------------------- MODULE Duplex -------------------------------
(***************************************************************************)
(* Two Socks on one connection that holds a bounded amount of data each    *)
(* way (src/sock.go; net.Pipe, TCP with its buffers).  Both ends make      *)
(* requests and answer them.  A message is two writes, its header and its  *)
(* payload, by a goroutine that holds connmu; a write waits while the      *)
(* other end does not read.  A reader starts a goroutine for a request,    *)
(* except one over the limit, which it refuses itself; a result it hands   *)
(* over under pendingResMu, which Close holds while it waits for connmu.   *)
(*                                                                         *)
(* This is the composition that SockRequests and SockResponder each see    *)
(* one half of.  A call that waits for connmu may as well not have begun,  *)
(* and a handler that waits for it may as well still be at work.           *)
(***************************************************************************)
EXTENDS Integers, Sequences, FiniteSets

CONSTANTS
  Calls,    \* goroutines in BufferRequest
  FromA,    \* those of them at end "a"; the others are at "b"
  Limit,    \* Limits.BufferRequests at each end
  Capacity, \* how many writes the connection holds each way
  Closing,  \* ends whose application may call Close
  None

ASSUME DuplexAssumption ==
  /\ FromA \subseteq Calls /\ Capacity \in Nat \ {0}
  /\ Limit \in [{"a", "b"} -> Nat] /\ Closing \subseteq {"a", "b"}

Ends     == {"a", "b"}
Other(e) == IF e = "a" THEN "b" ELSE "a"
CallEnd(c) == IF c \in FromA THEN "a" ELSE "b"

\* The goroutines: calls, handlers of calls, the two readers, and applications that
\* close.
Call(c)    == <<"call", c>>
Handler(c) == <<"handler", c>>
Reader(e)  == <<"reader", e>>
Closer(e)  == <<"closer", e>>
Procs == ({"call", "handler"} \X Calls) \cup ({"reader", "closer"} \X Ends)
End(p) == CASE p[1] = "call" -> CallEnd(p[2])
            [] p[1] = "handler" -> Other(CallEnd(p[2]))
            [] OTHER -> p[2]

ASSUME NoneAssumption == None \notin Procs

VARIABLES
  pc,      \* where each goroutine is
  connmu,  \* at each end, who holds the mutex
  pipe,    \* to each end, the writes not yet read
  reading, \* at each end, the message whose payload the reader reads or which it answers
  count,   \* at each end, requests counted
  chan,    \* what each call's channel holds
  closex,  \* ends where Close has begun
  open     \* ends whose connection is open

vars == <<pc, connmu, pipe, reading, count, chan, closex, open>>

\* A request, a result or a refusal, and for which call.
Messages == [t : {"r", "R", "e"}, call : Calls]
NoMsg    == None
Chunks   == [msg : Messages, part : {"head", "body"}]

TypeOK ==
  /\ pc \in [Procs -> {"idle", "lock", "head", "body", "await", "sleep", "read", "payload",
                       "result", "refuse", "close", "closing", "ending", "done"}]
  /\ connmu \in [Ends -> Procs \cup {None}]
  /\ pipe \in [Ends -> Seq(Chunks)] /\ \A e \in Ends : Len(pipe[e]) <= Capacity
  /\ reading \in [Ends -> Messages \cup {NoMsg}]
  /\ count \in [Ends -> Nat]
  /\ chan \in [Calls -> {"empty", "R", "e", "closed"}]
  /\ closex \subseteq Ends /\ open \subseteq Ends

Init ==
  /\ pc = [p \in Procs |-> CASE p[1] = "reader" -> "read" [] p[1] = "call" -> "lock"
                          [] OTHER -> "idle"]
  /\ connmu = [e \in Ends |-> None]
  /\ pipe = [e \in Ends |-> <<>>] /\ reading = [e \in Ends |-> NoMsg]
  /\ count = [e \in Ends |-> 0]
  /\ chan = [c \in Calls |-> "empty"]
  /\ closex = {} /\ open = Ends

Goto(p, label) == pc' = [pc EXCEPT ![p] = label]

-----------------------------------------------------------------------------
(* writeMsg, the same for everyone who writes.                              *)

\* What a goroutine writes.
MsgOf(p) == CASE p[1] = "call" -> [t |-> "r", call |-> p[2]]
              [] p[1] = "handler" -> [t |-> "R", call |-> p[2]]
              [] OTHER -> [t |-> "e", call |-> reading[p[2]].call]

\* After a write, and after one that failed.
Written(p) == CASE p[1] = "call" -> "await" [] p[1] = "handler" -> "done" [] OTHER -> "read"
Failed(p)  == IF p[1] = "call" THEN "done" ELSE "close"

\* A handler's place in the limit is given back when it has answered.
Counted(p, label) ==
  count' = IF p[1] = "handler" /\ label = "done" THEN [count EXCEPT ![End(p)] = @ - 1] ELSE count

Lock(p) ==
  LET e == End(p) IN
  /\ pc[p] = "lock" /\ connmu[e] = None
  /\ IF e \in open THEN connmu' = [connmu EXCEPT ![e] = p] /\ Goto(p, "head")
     ELSE Goto(p, Failed(p)) /\ UNCHANGED connmu
  /\ UNCHANGED <<pipe, reading, count, chan, closex, open>>

UnlocksEarly(p) == TRUE             \* mutant: connmu is given up before the payload is written
Unlocks(p) == pc[p] = "body"

\* conn.Write, which waits for room.  What is written to an end that has closed is
\* lost, where it does not fail.
Write(p) ==
  LET e == End(p) o == Other(e) IN
  /\ pc[p] \in {"head", "body"} /\ Len(pipe[o]) < Capacity
  /\ pipe' = IF o \in open THEN [pipe EXCEPT ![o] = Append(@, [msg |-> MsgOf(p), part |-> pc[p]])]
             ELSE pipe
  /\ connmu' = IF Unlocks(p) THEN [connmu EXCEPT ![e] = None] ELSE connmu
  /\ IF pc[p] = "head" THEN Goto(p, "body") /\ UNCHANGED count
     ELSE Goto(p, Written(p)) /\ Counted(p, "done")
  /\ UNCHANGED <<reading, chan, closex, open>>

\* It fails once the other end has closed.
WriteFails(p) ==
  LET e == End(p) IN
  /\ pc[p] \in {"head", "body"} /\ Other(e) \notin open
  /\ connmu' = [connmu EXCEPT ![e] = None]
  /\ Goto(p, Failed(p))
  /\ UNCHANGED <<pipe, reading, count, chan, closex, open>>

-----------------------------------------------------------------------------
(* BufferRequest.                                                           *)

\* A result or the end of the Sock; after a refusal the call sleeps.  How it then
\* sends its request again is in SockRequests.
Receive(c) ==
  /\ pc[Call(c)] = "await" /\ chan[c] # "empty"
  /\ Goto(Call(c), IF chan[c] = "e" THEN "sleep" ELSE "done")
  /\ chan' = [chan EXCEPT ![c] = "empty"]
  /\ UNCHANGED <<connmu, pipe, reading, count, closex, open>>

-----------------------------------------------------------------------------
(* The reader.                                                              *)

\* ReadMsg; for a request, incBufferReq.
ReadHead(e) ==
  LET p == Reader(e) IN
  /\ pc[p] = "read" /\ e \in open /\ pipe[e] # <<>> /\ Head(pipe[e]).part = "head"
  /\ LET m == Head(pipe[e]).msg IN
       /\ reading' = [reading EXCEPT ![e] = m]
       /\ count' = IF m.t = "r" /\ count[e] < Limit[e] THEN [count EXCEPT ![e] = @ + 1] ELSE count
       /\ Goto(p, IF m.t = "r" /\ count[e] >= Limit[e] THEN "refuse" ELSE "payload")
  /\ pipe' = [pipe EXCEPT ![e] = Tail(@)]
  /\ UNCHANGED <<connmu, chan, closex, open>>

\* The payload, and then the handler's goroutine, the refusal, or the call.
ReadBody(e) ==
  LET p == Reader(e)  m == reading[e] IN
  /\ pc[p] \in {"payload", "refuse"} /\ e \in open /\ pipe[e] # <<>>
  /\ Head(pipe[e]) = [msg |-> m, part |-> "body"]
  /\ pipe' = [pipe EXCEPT ![e] = Tail(@)]
  /\ CASE pc[p] = "refuse" -> Goto(p, "lock") /\ UNCHANGED <<reading, chan>>
       [] pc[p] # "refuse" /\ m.t = "r" ->
            /\ pc' = [pc EXCEPT ![p] = "read", ![Handler(m.call)] = "lock"]
            /\ reading' = [reading EXCEPT ![e] = NoMsg] /\ UNCHANGED chan
       [] OTHER -> Goto(p, "result") /\ UNCHANGED <<reading, chan>>
  /\ UNCHANGED <<connmu, count, closex, open>>

\* pendingResMu is held by a Close that is on its way.
ResMuFree(e) == \A p \in Procs : End(p) = e => pc[p] # "ending"

\* readResponse.  A call that Close has told is not in the table any more.
Deliver(e) ==
  LET m == reading[e] IN
  /\ pc[Reader(e)] = "result" /\ ResMuFree(e)
  /\ chan' = IF e \in open THEN [chan EXCEPT ![m.call] = m.t] ELSE chan
  /\ reading' = [reading EXCEPT ![e] = NoMsg]
  /\ Goto(Reader(e), "read")
  /\ UNCHANGED <<connmu, pipe, count, closex, open>>

\* The other end has closed and all it wrote was read, or this end has closed.
ReadFails(e) ==
  LET p == Reader(e) IN
  /\ pc[p] \in {"read", "payload", "refuse"}
  /\ e \notin open \/ (Other(e) \notin open /\ pipe[e] = <<>>)
  /\ Goto(p, "close")
  /\ UNCHANGED <<connmu, pipe, reading, count, chan, closex, open>>

-----------------------------------------------------------------------------
(* Close, by whoever calls it first.                                        *)

CloseBegins(p) ==
  /\ pc[p] = "close" \/ (p[1] = "closer" /\ p[2] \in Closing /\ pc[p] = "idle")
  /\ closex' = closex \cup {End(p)}
  /\ Goto(p, IF End(p) \in closex THEN "done" ELSE "closing")
  /\ Counted(p, pc'[p])
  /\ UNCHANGED <<connmu, pipe, reading, chan, open>>

\* Close takes pendingResMu, and then waits for connmu.
CloseLocks(p) ==
  /\ pc[p] = "closing" /\ ResMuFree(End(p))
  /\ Goto(p, "ending")
  /\ UNCHANGED <<connmu, pipe, reading, count, chan, closex, open>>

CloseEndsQuietly(p) ==              \* mutant: calls that wait are not told
  LET e == End(p) IN
  /\ pc[p] = "ending" /\ connmu[e] = None
  /\ open' = open \ {e}
  /\ Goto(p, "done") /\ Counted(p, "done")
  /\ pipe' = [pipe EXCEPT ![e] = <<>>]
  /\ UNCHANGED <<connmu, reading, chan, closex>>
CloseEnds(p) ==
  LET e == End(p) IN
  /\ pc[p] = "ending" /\ connmu[e] = None
  /\ open' = open \ {e}
  /\ chan' = [c \in Calls |->
       IF CallEnd(c) = e /\ pc[Call(c)] = "await" /\ chan[c] = "empty" THEN "closed" ELSE chan[c]]
  /\ Goto(p, "done") /\ Counted(p, "done")
  /\ pipe' = [pipe EXCEPT ![e] = <<>>]
  /\ UNCHANGED <<connmu, reading, closex>>
-----------------------------------------------------------------------------

WriterStep(p) == Lock(p) \/ Write(p) \/ WriteFails(p) \/ CloseLocks(p) \/ CloseEnds(p)
ReaderStep(e) == ReadHead(e) \/ ReadBody(e) \/ Deliver(e) \/ ReadFails(e)
Next ==
  \/ \E p \in Procs : WriterStep(p) \/ CloseBegins(p)
  \/ \E e \in Ends : ReaderStep(e)
  \/ \E c \in Calls : Receive(c)

\* The connection is full both ways, and neither reader will read again: it waits to
\* write a refusal, or for pendingResMu, whose Close waits for connmu.
Stuck(e) ==
  \/ pc[Reader(e)] \in {"lock", "head", "body"}
  \/ pc[Reader(e)] = "result" /\ ~ResMuFree(e)
Clinch == \A e \in Ends : Stuck(e) /\ connmu[e] # None /\ Len(pipe[Other(e)]) = Capacity

\* Every call has returned, or sleeps, and every Close that began has ended.
Quiet == \A p \in Procs : pc[p] \in {"idle", "sleep", "done"} \/ (p[1] = "reader" /\ pc[p] = "read")

Spec == Init /\ [][Next]_vars

\* Goroutines that can run do; as each has a finite number of steps to go, it takes
\* no more than that one of them goes on.  Applications need not call Close.
FairSpec ==
  Spec /\ WF_vars(Next /\ \A e \in Ends : pc[Closer(e)] = "idle" => pc'[Closer(e)] = "idle")

-----------------------------------------------------------------------------
(* Properties.                                                              *)

\* What is on its way to the reader at e, with the message it is in the middle of.
Begun(e)  == IF pc[Reader(e)] \in {"payload", "refuse"}
             THEN <<[msg |-> reading[e], part |-> "head"]>> ELSE <<>>
Coming(e) == Begun(e) \o pipe[e]
Reads(e)  == e \in open /\ pc[Reader(e)] \notin {"close", "closing", "ending", "done"}

\* Many goroutines write, two writes per message; what comes to a reader is whole
\* messages but for the last.
Whole(s) ==
  \A i \in 1 .. Len(s) :
    IF i % 2 = 1 THEN s[i].part = "head" ELSE s[i] = [msg |-> s[i - 1].msg, part |-> "body"]
FramesWhole == \A e \in Ends : Reads(e) => Whole(Coming(e))

\* Requests both ways, answers, refusals and Close share two pipes and two mutexes.
\* Every call returns and every Close ends, except when both readers are caught.
OnlyClinchHangs == []<>(Quiet \/ Clinch)

-----------------------------------------------------------------------------
(* The inductive invariant.                                                 *)

Typed ==
  /\ pc \in [Procs -> {"idle", "lock", "head", "body", "await", "sleep", "read", "payload",
                       "result", "refuse", "close", "closing", "ending", "done"}]
  /\ connmu \in [Ends -> Procs \cup {None}]
  /\ pipe \in [Ends -> Seq(Chunks)]
  /\ reading \in [Ends -> Messages \cup {NoMsg}]
  /\ open \subseteq Ends

\* Where a goroutine of each kind can be.
Paths ==
  /\ \A c \in Calls : pc[Call(c)] \in {"lock", "head", "body", "await", "sleep", "done"}
  /\ \A c \in Calls : pc[Handler(c)] \notin {"await", "sleep", "read", "payload", "result", "refuse"}
  /\ \A e \in Ends : pc[Reader(e)] \notin {"idle", "await", "sleep"}
  /\ \A e \in Ends : pc[Closer(e)] \in {"idle", "closing", "ending", "done"}

\* connmu is held for a whole message, on an open connection; and the reader knows
\* what it is in the middle of.
Writing(p) == pc[p] \in {"head", "body"}
Held ==
  /\ \A p \in Procs : connmu[End(p)] = p <=> Writing(p)
  /\ \A p \in Procs : Writing(p) => End(p) \in open
  /\ \A e \in Ends : pc[Reader(e)] \in {"payload", "refuse", "result", "lock", "head", "body"} =>
                       reading[e] \in Messages

\* A message is cut exactly while its writer is between its two writes.
Cuts(p, e) == End(p) = Other(e) /\ pc[p] = "body"
Framed ==
  \A e \in Ends : Reads(e) =>
    /\ Whole(Coming(e))
    /\ Len(Coming(e)) % 2 = 1 <=> \E p \in Procs : Cuts(p, e)
    /\ \A p \in Procs : Cuts(p, e) => Coming(e)[Len(Coming(e))].msg = MsgOf(p)

\* A request is sent once, by a call at the other end, and its handler waits for it.
Sent(c) == pc[Call(c)] \notin {"lock", "head"}
IsReq(chunk) == chunk.msg.t = "r"
Expected(s, e) ==
  \A i \in 1 .. Len(s) : IsReq(s[i]) =>
    LET c == s[i].msg.call IN CallEnd(c) = Other(e) /\ Sent(c) /\ pc[Handler(c)] = "idle"
Unrepeated(s) ==
  \A i, j \in 1 .. Len(s) :
    IsReq(s[i]) /\ s[i].msg = s[j].msg /\ s[i].part = s[j].part => i = j
Once ==
  /\ \A e \in Ends : Reads(e) => Expected(Coming(e), e) /\ Unrepeated(Coming(e))
  /\ \A c \in Calls : pc[Handler(c)] # "idle" => pc[Call(c)] \notin {"lock", "head", "body"}

DuplexInv == Typed /\ Paths /\ Held /\ Framed /\ Once

-----------------------------------------------------------------------------
(* What the documentation says, and the code does not do.                   *)

\* README.md:81: requests, results and notifications "share a single connection
\* without blocking each other".
CallsReturn == []<>Quiet
=============================================================================
