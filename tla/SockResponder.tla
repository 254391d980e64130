--------------------------- MODULE SockResponder ---------------------------
(***************************************************************************)
(* The responding side of one gotalk socket (src/sock.go): the goroutine   *)
(* in Sock.Read takes requests off the connection, counts them against the *)
(* limits of src/limits.go, and starts one goroutine per accepted request; *)
(* that goroutine runs the handler and writes the response.  The parts of  *)
(* a stream request reach its handler through a channel of capacity one,   *)
(* which the reader finds in pendingReq.                                   *)
(*                                                                         *)
(* A request stands for its id.  The requester is external: it sends its   *)
(* requests, and all parts of a stream, without waiting for an answer, and *)
(* it may leave.  A handler is external too: what one may do is a constant.*)
(***************************************************************************)
EXTENDS Limits, Sequences, FiniteSets

CONSTANTS
  Reqs,          \* the requests, each with an id of its own
  Streams,       \* those of them that are stream requests
  Unknown,       \* those whose operation has no handler
  Failing,       \* those whose handler may return an error or, if buffered, panic
  Quitters,      \* stream requests whose handler may return before end of stream
  BufferLimit, StreamLimit, \* Limits.BufferRequests, Limits.StreamRequests
  BufferMinWait, BufferMaxWait, StreamMinWait, StreamMaxWait, \* of Limits
  MaxParts,      \* bound: parts of a stream request after the first, its end included
  MaxWrites,     \* bound: parts a stream handler writes
  MaxNotes,      \* bound: notifications sent
  None           \* no request

ASSUME ReqsAssumption ==
  /\ IsFiniteSet(Reqs) /\ None \notin Reqs
  /\ Streams \subseteq Reqs /\ Unknown \subseteq Reqs
  /\ Failing \subseteq Reqs /\ Quitters \subseteq Streams
ASSUME ConfigAssumption ==
  /\ BufferLimit \in 0 .. Width - 1 /\ StreamLimit \in 0 .. Width - 1
  /\ BufferMinWait \in Int /\ BufferMaxWait \in Int
  /\ StreamMinWait \in Int /\ StreamMaxWait \in Int
ASSUME BoundsAssumption ==
  /\ MaxParts \in Nat \ {0} /\ MaxWrites \in Nat /\ MaxNotes \in Nat

VARIABLES
  next, notes, wire, gone,   \* requester: parts sent of each request, notifications
                             \* sent, messages in flight, TRUE once it has left
  conn,                      \* "open" or "closed"; Close is one step here
  rpc, rmsg, rkind, rwait,   \* reader: where it is, the message it is about, its
                             \* answer, and the wait in that
  bufferCount, streamCount,  \* the two limitCounters
  pendingReq, rch,           \* requests with a channel in the table; each channel's slot
  hpc, eos,                  \* handlers: where each is; those whose writer wrote EOS
  got, out,                  \* parts each handler received; responses written per request
  panicked                   \* requests whose handler panicked

reqVars  == <<next, notes, gone>>
limVars  == <<bufferCount, streamCount>>
ansVars  == <<rmsg, rkind, rwait>>
readVars == <<rpc, ansVars>>
chanVars == <<pendingReq, rch>>
handVars == <<hpc, eos, got, panicked>>
vars == <<reqVars, wire, conn, readVars, limVars, chanVars, handVars, out>>

Buffers   == Reqs \ Streams
\* A message: part k of a request (0: the one that opens it), or a notification.
Messages  == [r : Reqs \cup {None}, k : 0 .. MaxParts]
NoMsg     == [r |-> None, k |-> 0]
IsEOS(m)  == m.k = MaxParts
ResKinds  == {"R", "S", "EOS", "E", "e"}

TypeOK ==
  /\ next \in [Reqs -> 0 .. MaxParts + 1] /\ notes \in 0 .. MaxNotes
  /\ wire \in Seq(Messages) /\ gone \in BOOLEAN
  /\ conn \in {"open", "closed"}
  /\ rpc \in {"read", "respond", "part", "note", "ended", "crashed"}
  /\ rmsg \in Messages /\ rkind \in {"E", "e"} /\ rwait \in 0 .. Width - 1
  /\ bufferCount \in 0 .. Width - 1 /\ streamCount \in 0 .. Width - 1
  /\ pendingReq \subseteq Streams /\ rch \in [Reqs -> Seq(0 .. MaxParts)]
  /\ hpc \in [Reqs -> {"none", "run", "R", "E", "close", "dec", "done"}]
  /\ eos \subseteq Reqs
  /\ got \in [Reqs -> Seq(0 .. MaxParts)]
  /\ out \in [Reqs -> Seq(ResKinds)]
  /\ panicked \subseteq Buffers

Init ==
  /\ next = [r \in Reqs |-> 0] /\ notes = 0 /\ wire = <<>> /\ gone = FALSE
  /\ conn = "open"
  /\ rpc = "read" /\ rmsg = NoMsg /\ rkind = "E" /\ rwait = 0
  /\ bufferCount = 0 /\ streamCount = 0
  /\ pendingReq = {} /\ rch = [r \in Reqs |-> <<>>]
  /\ hpc = [r \in Reqs |-> "none"] /\ eos = {}
  /\ got = [r \in Reqs |-> <<>>] /\ out = [r \in Reqs |-> <<>>]
  /\ panicked = {}

-----------------------------------------------------------------------------
(* The requester.                                                           *)

Total(r) == IF r \in Streams THEN MaxParts + 1 ELSE 1

Send ==
  /\ ~gone
  /\ \/ \E r \in Reqs :
          /\ next[r] < Total(r)
          /\ wire' = Append(wire, [r |-> r, k |-> next[r]])
          /\ next' = [next EXCEPT ![r] = @ + 1]
          /\ UNCHANGED notes
     \/ /\ notes < MaxNotes
        /\ wire' = Append(wire, NoMsg)
        /\ notes' = notes + 1
        /\ UNCHANGED next
  /\ UNCHANGED <<gone, conn, readVars, limVars, chanVars, handVars, out>>

Leave ==
  /\ ~gone /\ gone' = TRUE
  /\ UNCHANGED <<next, notes, wire, conn, readVars, limVars, chanVars, handVars, out>>

-----------------------------------------------------------------------------
(* The counters of the limits.                                              *)

DecOf(r) ==
  IF r \in Streams
  THEN streamCount' = Dec(StreamLimit, streamCount) /\ UNCHANGED bufferCount
  ELSE bufferCount' = Dec(BufferLimit, bufferCount) /\ UNCHANGED streamCount

-----------------------------------------------------------------------------
(* The goroutine in Sock.Read.                                              *)

Taking(m) ==
  /\ rpc = "read" /\ conn = "open" /\ wire # <<>> /\ m = Head(wire)
  /\ wire' = Tail(wire)

\* Read leaves its loop on any error, and closes the socket.
Stop == rpc' = "ended" /\ conn' = "closed" /\ UNCHANGED ansVars

\* An answer with one of these waits; the panic where there is none ends the
\* process with all its goroutines.
Refuse(m, kind, waits) ==
  /\ rmsg' = m /\ rkind' = kind
  /\ IF waits # {} THEN rpc' = "respond" /\ rwait' \in waits /\ UNCHANGED hpc
     ELSE rpc' = "crashed" /\ hpc' = [r \in Reqs |-> "none"] /\ UNCHANGED rwait
  /\ UNCHANGED chanVars
RefuseFor(m) == Refuse(m, "e", IF m.r \in Streams THEN Waits(StreamMinWait, StreamMaxWait)
                                                 ELSE Waits(BufferMinWait, BufferMaxWait))
RefuseError(m) == Refuse(m, "E", {0})

\* readBufferReq up to the dispatch of its handler.
readBufferReq(m) ==
  LET try == Inc(BufferLimit, bufferCount) IN
  /\ m.r \in Buffers
  /\ bufferCount' = try[2]
  /\ CASE ~try[1] -> RefuseFor(m)
       [] try[1] /\ m.r \in Unknown -> RefuseError(m)
       [] OTHER -> /\ hpc' = [hpc EXCEPT ![m.r] = "run"]
                   /\ UNCHANGED <<readVars, chanVars>>
  /\ UNCHANGED streamCount

\* readStreamReq up to the dispatch of its handler, which finds the first part
\* in its channel.
readStreamReq(m) ==
  LET try == Inc(StreamLimit, streamCount) IN
  /\ m.r \in Streams /\ m.k = 0
  /\ streamCount' = try[2]
  /\ CASE ~try[1] -> IF StreamLimit > 0 THEN RefuseFor(m) ELSE RefuseError(m)
       [] try[1] /\ m.r \in Unknown -> RefuseError(m)
       [] OTHER -> /\ pendingReq' = pendingReq \cup {m.r}
                   /\ rch' = [rch EXCEPT ![m.r] = <<0>>]
                   /\ hpc' = [hpc EXCEPT ![m.r] = "run"]
                   /\ UNCHANGED readVars
  /\ UNCHANGED bufferCount

ReadRequest ==
  /\ \E m \in Messages : Taking(m) /\ (readBufferReq(m) \/ readStreamReq(m))
  /\ UNCHANGED <<reqVars, conn, eos, got, panicked, out>>

\* The refusal has gone out.  An unknown operation was counted; a request over
\* the limit was not.
WasCounted(kind) ==
  kind = "E" /\ (rmsg.r \in Streams => StreamLimit > 0)
GiveBack == IF WasCounted(rkind) THEN DecOf(rmsg.r) ELSE UNCHANGED limVars

\* respondRetry, respondError, and what their caller does after.
Respond ==
  /\ rpc = "respond"
  /\ GiveBack
  /\ \/ /\ conn = "open"
        /\ out' = [out EXCEPT ![rmsg.r] = Append(@, rkind)]
        /\ rpc' = "read" /\ UNCHANGED conn
     \/ /\ conn = "closed" \/ gone
        /\ rpc' = "ended" /\ conn' = "closed" /\ UNCHANGED out
  /\ rwait' = 0 /\ UNCHANGED <<rmsg, rkind>>
  /\ UNCHANGED <<reqVars, wire, chanVars, handVars>>

\* readStreamReqPart finds the channel, or ends the connection.
readStreamReqPart ==
  /\ \E m \in Messages :
       /\ Taking(m) /\ m.k > 0
       /\ IF m.r \in pendingReq
          THEN rpc' = "part" /\ rmsg' = m /\ UNCHANGED <<rkind, rwait, conn>>
          ELSE Stop
  /\ UNCHANGED <<reqVars, limVars, chanVars, handVars, out>>

HasRoomAlways(r) == TRUE            \* mutant: a part replaces one not yet taken
HasRoom(r) == rch[r] = <<>>

\* rch <- b: waits until the handler has taken the part before this one.
PassPart ==
  /\ rpc = "part" /\ HasRoom(rmsg.r)
  /\ rch' = [rch EXCEPT ![rmsg.r] = <<rmsg.k>>]
  /\ rpc' = "read"
  /\ UNCHANGED <<reqVars, wire, conn, ansVars, limVars, pendingReq, handVars, out>>

\* A message whose header arrived and whose payload did not.  What was counted
\* for a request is counted down again; for a part, what its request had been
\* counted is counted down here as well as by its handler.
ReadCutPayload ==
  /\ \E m \in Messages :
       /\ Taking(m) /\ Len(wire) = 1 /\ gone /\ ~IsEOS(m)
       /\ IF m.k > 0 /\ m.r \in pendingReq
          THEN DecOf(m.r) ELSE UNCHANGED limVars
  /\ Stop
  /\ UNCHANGED <<reqVars, chanVars, handVars, out>>

\* readNotification runs the handler on this goroutine.
readNotification ==
  /\ \/ Taking(NoMsg) /\ rpc' = "note"
     \/ rpc = "note" /\ rpc' = "read" /\ UNCHANGED wire
  /\ UNCHANGED <<reqVars, conn, ansVars, limVars, chanVars, handVars, out>>

ReadFails ==
  /\ rpc = "read"
  /\ conn = "closed" \/ (gone /\ wire = <<>>)
  /\ Stop
  /\ UNCHANGED <<reqVars, wire, limVars, chanVars, handVars, out>>

ReaderStep ==
  \/ ReadRequest \/ Respond \/ readStreamReqPart \/ PassPart
  \/ ReadCutPayload \/ readNotification \/ ReadFails

-----------------------------------------------------------------------------
(* The goroutine of an accepted request.                                    *)

Step(r, label) == hpc' = [hpc EXCEPT ![r] = label]
Counted(r) == hpc[r] \in {"run", "R", "E", "close", "dec"}

BufferHandlerNoRecover(r) ==        \* mutant: a panic ends its goroutine
  /\ r \in Buffers /\ hpc[r] = "run"
  /\ \/ Step(r, "R") /\ UNCHANGED panicked
     \/ r \in Failing /\ Step(r, "none") /\ panicked' = panicked \cup {r}
  /\ UNCHANGED <<reqVars, wire, conn, readVars, limVars, chanVars, eos, got, out>>

\* A buffer request's handler returns; a panic is recovered and answered the
\* way an error is.
BufferHandler(r) ==
  /\ r \in Buffers /\ hpc[r] = "run"
  /\ \/ Step(r, "R") /\ UNCHANGED panicked
     \/ r \in Failing /\ Step(r, "E") /\ UNCHANGED panicked
     \/ r \in Failing /\ Step(r, "E") /\ panicked' = panicked \cup {r}
  /\ UNCHANGED <<reqVars, wire, conn, readVars, limVars, chanVars, eos, got, out>>

\* A stream request's handler: b := <-rch.
TakePart(r) ==
  /\ r \in Streams /\ hpc[r] = "run" /\ rch[r] # <<>>
  /\ got' = [got EXCEPT ![r] = Append(@, Head(rch[r]))]
  /\ rch' = [rch EXCEPT ![r] = <<>>]
  /\ UNCHANGED <<reqVars, wire, conn, readVars, limVars, pendingReq, hpc, eos, panicked, out>>

\* streamWriter.Write and streamWriter.Close, called by a handler that does not
\* write after it has closed.  A write that fails tells only the handler.
Says(r, kind) ==
  \/ conn = "open" /\ out' = [out EXCEPT ![r] = Append(@, kind)]
  \/ (conn = "closed" \/ gone) /\ UNCHANGED out
WritePart(r) ==
  /\ r \in Streams /\ hpc[r] = "run" /\ r \notin eos
  /\ \/ Len(out[r]) < MaxWrites /\ Says(r, "S") /\ UNCHANGED eos
     \/ Says(r, "EOS") /\ eos' = eos \cup {r}
  /\ UNCHANGED <<reqVars, wire, conn, readVars, limVars, chanVars, hpc, got, panicked>>

\* A stream request's handler returns: only after an error does its channel
\* leave the table.
SawEnd(r) == got[r] # <<>> /\ got[r][Len(got[r])] = MaxParts
StreamHandler(r) ==
  /\ r \in Streams /\ hpc[r] = "run"
  /\ \/ (SawEnd(r) \/ r \in Quitters) /\ Step(r, "close") /\ UNCHANGED pendingReq
     \/ r \in Failing /\ Step(r, "E") /\ pendingReq' = pendingReq \ {r}
  /\ UNCHANGED <<reqVars, wire, conn, readVars, limVars, rch, eos, got, panicked, out>>

\* respondOK or respondError; the socket is closed when that fails.
AnswerTwice(r) ==                   \* mutant: an error is followed by a result
  /\ hpc[r] \in {"R", "E"}
  /\ \/ conn = "open" /\ out' = [out EXCEPT ![r] = Append(@, hpc[r])] /\ UNCHANGED conn
     \/ (conn = "closed" \/ gone) /\ conn' = "closed" /\ UNCHANGED out
  /\ Step(r, CASE r \in Streams -> "close" [] hpc[r] = "E" -> "R" [] OTHER -> "dec")
  /\ UNCHANGED <<reqVars, wire, readVars, limVars, chanVars, eos, got, panicked>>
Answer(r) ==
  /\ hpc[r] \in {"R", "E"}
  /\ \/ conn = "open" /\ out' = [out EXCEPT ![r] = Append(@, hpc[r])] /\ UNCHANGED conn
     \/ (conn = "closed" \/ gone) /\ conn' = "closed" /\ UNCHANGED out
  /\ Step(r, IF r \in Streams THEN "close" ELSE "dec")
  /\ UNCHANGED <<reqVars, wire, readVars, limVars, chanVars, eos, got, panicked>>

MustEndNever(r) == FALSE            \* mutant: the handler is left to end its stream
MustEnd(r) == r \notin eos

\* out.Close() after the handler: write EOS unless the handler has.
CloseWriter(r) ==
  /\ hpc[r] = "close"
  /\ IF MustEnd(r)
     THEN \/ conn = "open" /\ out' = [out EXCEPT ![r] = Append(@, "EOS")] /\ UNCHANGED conn
          \/ (conn = "closed" \/ gone) /\ conn' = "closed" /\ UNCHANGED out
     ELSE UNCHANGED <<conn, out>>
  /\ eos' = eos \cup {r}
  /\ Step(r, "dec")
  /\ UNCHANGED <<reqVars, wire, readVars, limVars, chanVars, got, panicked>>

\* The request no longer counts.
Finish(r) ==
  /\ hpc[r] = "dec"
  /\ DecOf(r)
  /\ Step(r, "done")
  /\ UNCHANGED <<reqVars, wire, conn, readVars, chanVars, eos, got, panicked, out>>

HandlerStep(r) ==
  \/ BufferHandler(r) \/ TakePart(r) \/ WritePart(r) \/ StreamHandler(r)
  \/ Answer(r) \/ CloseWriter(r) \/ Finish(r)

\* Where everything may stop: the reader has ended, or waits for a handler that
\* is gone; each handler has ended, or waits for a part that will not come.
Starved(r) == r \in Streams /\ hpc[r] = "run" /\ rch[r] = <<>> /\ ~SawEnd(r)
Terminating ==
  /\ rpc = "ended" \/ (rpc = "part" /\ hpc[rmsg.r] \in {"close", "dec", "done"})
  /\ \A r \in Reqs : hpc[r] \in {"none", "done"} \/ Starved(r)
  /\ UNCHANGED vars

Next ==
  \/ Send \/ Leave \/ ReaderStep
  \/ \E r \in Reqs : HandlerStep(r)
  \/ Terminating

Spec == Init /\ [][Next]_vars

\* The Go scheduler runs every goroutine that can run, and handlers return.
\* A handler need not write parts of its own.
HandlerEnds(r) ==
  BufferHandler(r) \/ TakePart(r) \/ StreamHandler(r) \/ Answer(r) \/ CloseWriter(r) \/ Finish(r)
FairSpec == Spec /\ WF_vars(ReaderStep) /\ \A r \in Reqs : WF_vars(HandlerEnds(r))

-----------------------------------------------------------------------------
(* Properties.                                                              *)

Alive(S) == {r \in S : Counted(r)}

\* What a counter should say: the handlers of S that run, and a refusal that is to
\* be counted down once it has gone out.
Held(S) == Cardinality(Alive(S)) +
  (IF rpc = "respond" /\ rmsg.r \in S /\ WasCounted(rkind) THEN 1 ELSE 0)
Within(limit, count, S) == limit # Unlimited => count = Held(S) /\ Held(S) <= limit

\* Between inc and dec many goroutines move the counters.  Never more handlers
\* run at a time than the limits allow, and no refusal, error or panic leaves a
\* count behind or takes one too many while the socket is being read.
CountsAreRight ==
  rpc \notin {"ended", "crashed"} =>
    /\ Within(BufferLimit, bufferCount, Buffers)
    /\ Within(StreamLimit, streamCount, Streams)

\* The limits turn a request away only when as many others as they allow have
\* not come to their end, however these ended.
RefusedOnlyAtLimit ==
  [][rpc = "read" /\ rpc' = "respond" /\ rkind' = "e" =>
       IF rmsg'.r \in Streams THEN Cardinality(Alive(Streams)) = StreamLimit
       ELSE Cardinality(Alive(Buffers)) = BufferLimit]_vars

\* limits.go:35-39: whoever is turned away is told to wait for the minimum time at
\* least, and for the maximum at most, as these were configured.
WaitWithinLimits ==
  rpc = "respond" /\ rkind = "e" =>
    LET min == IF rmsg.r \in Streams THEN StreamMinWait ELSE BufferMinWait
        max == IF rmsg.r \in Streams THEN StreamMaxWait ELSE BufferMaxWait
    IN /\ min > 0 => rwait >= min \div Millisecond
       /\ max > 0 => rwait <= max \div Millisecond

\* However handlers fail or panic, and whatever the peer does, a requester
\* reads at most one answer to a buffer request, and of a stream its parts,
\* then possibly an error, then at most one end.
AnswersWellFormed ==
  \A r \in Reqs :
    IF r \in Buffers THEN Len(out[r]) <= 1 /\ (out[r] # <<>> => out[r][1] \in {"R", "E", "e"})
    ELSE /\ \A i \in 1 .. Len(out[r]) : out[r][i] = "S" =>
              \A j \in 1 .. i : out[r][j] = "S"
         /\ Cardinality({i \in 1 .. Len(out[r]) : out[r][i] = "EOS"}) <= 1
         /\ Cardinality({i \in 1 .. Len(out[r]) : out[r][i] \in {"E", "e"}}) <= 1

\* Parts pass from the reader to a handler through one slot: the handler gets
\* each of them, once, in the order sent, whatever else the reader reads.
PartsInOrder ==
  \A r \in Streams : \A i \in 1 .. Len(got[r]) : got[r][i] = i - 1

\* A stream handler that has returned before its stream ended: its channel stays, and
\* the reader waits on that for ever once it is full.
QuitEarly(r) == r \in Quitters /\ hpc[r] \in {"close", "dec", "done"} /\ ~SawEnd(r)
SomeQuitEarly == \E r \in Reqs : QuitEarly(r)

\* A request that reached a live connection is answered, even when other
\* handlers are slow and the limits turn some requests away; unless the reader is
\* held by a handler that returned too early.
Answered(r) ==
  IF r \in Streams THEN \E i \in 1 .. Len(out[r]) : out[r][i] # "S" ELSE out[r] # <<>>
EveryRequestAnswered ==
  \A r \in Reqs : next[r] = Total(r) ~> (Answered(r) \/ conn = "closed" \/ SomeQuitEarly)

\* A handler that has started comes to its end, and its place in the limits with
\* it, even when it panics or the connection closes while it runs.  The one that
\* does not is a stream handler cut off from its parts by the end of the connection.
HandlersEnd ==
  /\ \A r \in Buffers : hpc[r] = "run" ~> hpc[r] = "done"
  /\ \A r \in Streams : (hpc[r] = "run" /\ next[r] = Total(r)) ~>
       (hpc[r] = "done" \/ (Starved(r) /\ conn = "closed") \/ SomeQuitEarly)

\* A well-behaved requester, which never sends an illegal message, keeps its
\* connection until it leaves.
ClosedOnlyByPeer == conn = "closed" => gone

-----------------------------------------------------------------------------
(* What the documentation says, and the code does not do.                   *)

\* handle.go:36: "Panic is recovered, a stack trace is logged, and connection is
\* closed."
PanicCloses == \A r \in panicked : hpc[r] = "done" => conn = "closed"

\* README.md:81: requests "share a single connection without blocking each
\* other": the reader does not wait for a handler for ever.
ReaderMovesOn == (rpc = "part") ~> (rpc # "part")

\* limits.go:35-36: there is a "minimum time" and a "max time to wait" when the limit has
\* been reached, which may be the same: that is no reason for the process to end.
NeverCrashes == rpc # "crashed"

\* limits.go:32: BufferRequests is the "max number of concurrent buffer
\* requests": one is turned away only when that many others are unanswered.
TurnedAwayOnlyWhenFull ==
  \A r \in Buffers : rpc = "respond" /\ rmsg.r = r /\ rkind = "e" =>
    Cardinality({q \in Buffers \ {r} : next[q] = 1 /\ out[q] = <<>>}) >= BufferLimit

\* README.md:481: "handling of streaming requests should be limited and
\* RetryResult used to throttle requests": the throttled requester, which has
\* sent its parts without waiting, keeps its connection.
ThrottleKeepsConnection ==
  (\E r \in Streams : out[r] = <<"e">>) => conn = "open" \/ gone

\* README.md:481: a stream request's resources are held "for the duration of
\* the stream session": its handler ends once the connection has.
StreamHandlersEnd ==
  \A r \in Streams : (conn = "closed" /\ hpc[r] = "run") ~> hpc[r] = "done"
=============================================================================
