------------------------------- MODULE JsSock -------------------------------
(***************************************************************************)
(* The JavaScript Sock (src/js/gotalk/index.js): requests with callbacks,  *)
(* a queue of messages for when there is no connection, one WebSocket at a *)
(* time, and a keepalive object that opens the next one.  Each action is   *)
(* one turn of the event loop: a call by the application or an event of    *)
(* the WebSocket, with every callback it runs.                             *)
(*                                                                         *)
(* The server is external.  It makes a fresh Sock per connection, whose    *)
(* request ids start again at zero; it answers and asks in any order, and  *)
(* it or the network may end a connection.                                 *)
(***************************************************************************)
EXTENDS Integers, FiniteSets, SequencesExt

CONSTANTS
  Reqs,          \* requests the application makes
  Streams,       \* stream requests it makes
  Asks,          \* requests the server makes
  Retriers,      \* those of Reqs whose callback makes the next one when it fails
  NextOf,        \* Retriers -> Reqs: the request a callback makes
  LateResults,   \* TRUE when handlers may answer after their connection ended
  Refusals,      \* TRUE when the server may answer with a RetryResult
  Ends,          \* TRUE when the application may call end()
  IdSpace,       \* number of request ids; 36^4 in the code
  SendBufferLimit, \* Sock.sendBufferLimit
  MaxConns,      \* bound: connections opened
  MaxCalls,      \* bound: requests and stream requests made, by both sides
  MaxWrites,     \* bound: parts of a stream request, its empty last one included
  None

ASSUME JsSockAssumption ==
  /\ Reqs \cap Asks = {} /\ None \notin Reqs \cup Asks /\ Retriers \subseteq Reqs
  /\ Streams \cap (Reqs \cup Asks) = {} /\ MaxWrites \in Nat /\ MaxCalls \in Nat
  /\ NextOf \in [Retriers -> Reqs \ Retriers]
  /\ LateResults \in BOOLEAN /\ Refusals \in BOOLEAN /\ Ends \in BOOLEAN
  /\ IdSpace \in Nat \ {0} /\ SendBufferLimit \in Nat /\ MaxConns \in Nat

VARIABLES
  ws,            \* Sock.ws: "none", "open", or "closing"
  conn,          \* connections opened so far; the latest is the current one
  isOpen,        \* Sock._isOpen
  keepalive,     \* TRUE while Sock.keepalive will open another connection
  sendq,         \* Sock._sendq
  nextOpID, pendingRes, pendingClose, \* of Sock; None: no callback under that id
  streams,       \* per stream request: whether its callback is in the table (under an id
                 \* of its own), parts written, whether it was ended, events it emitted
  settled,       \* per request, what its callback was called with, in turn
  handling,      \* server requests a handler works on, with their connection and id
  wire, inbox,   \* messages to and from the server on the current connection
  asked,         \* requests the server has on this connection, and their ids
  srvNext, srvPending, \* server: next id, and what each id stands for
  srvGot,        \* per server request, what it was answered with
  srvStream,     \* where the server is with each stream request, on this connection
  made, begun    \* requests made by the application; requests made by the server

sockVars == <<ws, conn, isOpen, keepalive, sendq, nextOpID, pendingRes, pendingClose>>
srvVars  == <<asked, srvNext, srvPending, srvGot, srvStream, begun>>
vars == <<sockVars, streams, settled, handling, wire, inbox, srvVars, made>>

Ids == 0 .. IdSpace - 1
Unsettled == {r \in made : settled[r] = <<>>}
\* Requests, parts of stream requests, and results by this side, for whom they are,
\* and with what id; and what the server sends.
Outgoing == [t : {"r", "R", "s", "p"}, id : Ids, for : Reqs \cup Asks \cup Streams]
Incoming == [t : {"r", "R", "S", "EOS", "E", "e"}, id : Ids, for : Reqs \cup Asks \cup Streams]
Request0 == [entry |-> FALSE, wrote |-> 0, ended |-> FALSE, seen |-> <<>>]

TypeOK ==
  /\ ws \in {"none", "open", "closing"} /\ conn \in 0 .. MaxConns
  /\ isOpen \in BOOLEAN /\ keepalive \in BOOLEAN /\ pendingClose \in BOOLEAN
  /\ sendq \in Seq(Outgoing) /\ Len(sendq) <= SendBufferLimit
  /\ nextOpID \in Ids /\ pendingRes \in [Ids -> Reqs \cup {None}]
  /\ streams \in [Streams -> [entry : BOOLEAN, wrote : 0 .. MaxWrites, ended : BOOLEAN,
                               seen : Seq({"data", "end", "error"})]]
  /\ srvStream \in [Streams -> {"none", "open", "ended", "failed"}]
  /\ settled \in [Reqs -> Seq(Reqs \cup {"error"})]
  /\ handling \subseteq [q : Asks, conn : 1 .. MaxConns, id : Ids]
  /\ wire \in Seq(Outgoing) /\ inbox \in Seq(Incoming)
  /\ asked \subseteq [r : Reqs, id : Ids]
  /\ srvNext \in Ids /\ srvPending \in [Ids -> Asks \cup {None}]
  /\ srvGot \in [Asks -> Asks \cup {None}]
  /\ made \subseteq Reqs /\ begun \subseteq Asks

NoEntries == [i \in Ids |-> None]
Init ==
  /\ ws = "none" /\ conn = 0 /\ isOpen = FALSE /\ keepalive = TRUE
  /\ sendq = <<>> /\ nextOpID = 0 /\ pendingRes = NoEntries /\ pendingClose = FALSE
  /\ settled = [r \in Reqs |-> <<>>] /\ handling = {}
  /\ streams = [s \in Streams |-> Request0] /\ srvStream = [s \in Streams |-> "none"]
  /\ wire = <<>> /\ inbox = <<>> /\ asked = {}
  /\ srvNext = 0 /\ srvPending = NoEntries /\ srvGot = [q \in Asks |-> None]
  /\ made = {} /\ begun = {}

-----------------------------------------------------------------------------
(* Requests and messages.                                                   *)

HasPendingRes ==
  (\E i \in Ids : pendingRes[i] # None) \/ (\E s \in Streams : streams[s].entry)
NextIdStuck(i) == i                 \* mutant: every request has the same id
NextId(i) == (i + 1) % IdSpace

\* Sock.sendMsg: m is sent, queued, or refused because the queue is full.  A
\* WebSocket that is closing takes a message and drops it.
CanQueue == Len(sendq) < SendBufferLimit
Sends(m) ==
  CASE isOpen /\ ws = "open"    -> wire' = Append(wire, m) /\ UNCHANGED sendq
    [] isOpen /\ ws = "closing" -> UNCHANGED <<wire, sendq>>
    [] OTHER -> sendq' = Append(sendq, m) /\ UNCHANGED wire
Accepts == isOpen \/ CanQueue

MayCall ==
  Cardinality(made) + Cardinality(begun) + Cardinality({s \in Streams : streams[s] # Request0})
    < MaxCalls

\* bufferRequest: the callback is registered under a new id, and taken back and
\* called when the message cannot be sent.
Request ==
  MayCall /\ \E r \in Reqs \ made :
    /\ r \notin Range(NextOf)
    /\ made' = made \cup {r}
    /\ nextOpID' = NextId(nextOpID)
    /\ IF Accepts
       THEN /\ Sends([t |-> "r", id |-> nextOpID, for |-> r])
            /\ pendingRes' = [pendingRes EXCEPT ![nextOpID] = r]
            /\ UNCHANGED settled
       ELSE /\ pendingRes' = [pendingRes EXCEPT ![nextOpID] = None]
            /\ settled' = [settled EXCEPT ![r] = Append(@, "error")]
            /\ UNCHANGED <<sendq, wire>>
    /\ UNCHANGED <<ws, conn, isOpen, keepalive, pendingClose, streams, handling, inbox, srvVars>>

\* streamRequest registers the callback before anything is written.
StreamRequest ==
  \E s \in Streams :
    /\ MayCall /\ streams[s] = Request0
    /\ streams' = [streams EXCEPT ![s].entry = TRUE]
    /\ UNCHANGED <<sockVars, settled, handling, wire, inbox, srvVars, made>>

\* StreamRequest.write, and end, which writes the empty last part.  A write that
\* cannot be queued throws; the next one is a further part all the same.  An
\* application may write until it has ended the request, whatever it hears of it.
Part(s) == [t |-> IF streams[s].wrote = 0 THEN "s" ELSE "p", id |-> 0, for |-> s]
Write ==
  \E s \in Streams, last \in BOOLEAN :
    /\ streams[s].entry \/ streams[s].seen # <<>>
    /\ ~streams[s].ended /\ streams[s].wrote < MaxWrites
    /\ streams' = [streams EXCEPT ![s].wrote = @ + 1, ![s].ended = last /\ Accepts]
    /\ IF Accepts THEN Sends(Part(s)) ELSE UNCHANGED <<sendq, wire>>
    /\ UNCHANGED <<ws, conn, isOpen, keepalive, nextOpID, pendingRes, pendingClose, settled,
                   handling, inbox, srvVars, made>>

\* handleRes: the callback leaves the table, the socket closes when end() waited
\* for that, and then the callback is called.
KeepEntry(i) == pendingRes          \* mutant: the callback stays
TakeEntry(i) == [pendingRes EXCEPT ![i] = None]
EndDueNever == FALSE                \* mutant: the last answer closes nothing
EndDue == pendingClose /\ ~HasPendingRes'
HandleRes ==
  /\ ws = "open" /\ inbox # <<>> /\ Head(inbox).t = "R"
  /\ LET m == Head(inbox)
         r == pendingRes[m.id]
     IN /\ pendingRes' = TakeEntry(m.id)
        /\ UNCHANGED streams
        /\ ws' = IF EndDue THEN "closing" ELSE ws
        /\ settled' = IF r = None THEN settled ELSE [settled EXCEPT ![r] = Append(@, m.for)]
  /\ inbox' = Tail(inbox)
  /\ UNCHANGED <<conn, isOpen, keepalive, sendq, nextOpID, pendingClose, handling, wire,
                 srvVars, made>>

\* The same for a stream request, whose callback stays until the empty part, or an
\* error.
EntryKept(t) == t = "S"
Event(t) == CASE t = "S" -> "data" [] t = "EOS" -> "end" [] t = "E" -> "error"
HandleStreamRes ==
  /\ ws = "open" /\ inbox # <<>> /\ Head(inbox).t \in {"S", "EOS", "E"}
  /\ LET m == Head(inbox) IN
       /\ streams' = IF ~streams[m.for].entry THEN streams
                     ELSE [streams EXCEPT ![m.for].entry = EntryKept(m.t),
                                          ![m.for].seen = Append(@, Event(m.t))]
       /\ UNCHANGED pendingRes
       /\ ws' = IF ~EntryKept(m.t) /\ EndDue THEN "closing" ELSE ws
  /\ inbox' = Tail(inbox)
  /\ UNCHANGED <<conn, isOpen, keepalive, sendq, nextOpID, pendingClose, settled, handling,
                 wire, srvVars, made>>

\* handleMsg finds no handler for a RetryResult: closeError.
HandleRetryRes ==
  /\ ws = "open" /\ inbox # <<>> /\ Head(inbox).t = "e"
  /\ ws' = "closing"
  /\ inbox' = Tail(inbox)
  /\ UNCHANGED <<conn, isOpen, keepalive, sendq, nextOpID, pendingRes, pendingClose,
                 streams, settled, handling, wire, srvVars, made>>

HandleReqShared ==                  \* mutant: all handlers see the latest id
  /\ ws = "open" /\ inbox # <<>> /\ Head(inbox).t = "r"
  /\ handling' = {[h EXCEPT !.id = Head(inbox).id] : h \in handling}
                 \cup {[q |-> Head(inbox).for, conn |-> conn, id |-> Head(inbox).id]}
  /\ inbox' = Tail(inbox)
  /\ UNCHANGED <<sockVars, streams, settled, wire, srvVars, made>>

\* A request by the server: its handler is called with a result function that
\* knows the request's id, and not its connection.
HandleReq ==
  /\ ws = "open" /\ inbox # <<>> /\ Head(inbox).t = "r"
  /\ handling' = handling \cup {[q |-> Head(inbox).for, conn |-> conn, id |-> Head(inbox).id]}
  /\ inbox' = Tail(inbox)
  /\ UNCHANGED <<sockVars, streams, settled, wire, srvVars, made>>

\* The handler calls result(value), or drops its work with its connection.
Result ==
  \E h \in handling :
    /\ handling' = handling \ {h}
    /\ IF ((h.conn = conn /\ isOpen) \/ LateResults) /\ Accepts
       THEN Sends([t |-> "R", id |-> h.id, for |-> h.q])
       ELSE UNCHANGED <<sendq, wire>>
    /\ UNCHANGED <<ws, conn, isOpen, keepalive, nextOpID, pendingRes, pendingClose,
                   streams, settled, inbox, srvVars, made>>

-----------------------------------------------------------------------------
(* Connections.                                                             *)

\* ws.onopen: adopt the WebSocket, send the version, then all that was queued.
FlushNone == <<>>                   \* mutant: the queue is dropped
Flush == sendq
OnOpen ==
  /\ ws = "none" /\ keepalive /\ conn < MaxConns
  /\ ws' = "open" /\ conn' = conn + 1 /\ isOpen' = TRUE
  /\ wire' = Flush /\ sendq' = <<>>
  /\ inbox' = <<>> /\ asked' = {} /\ srvNext' = 0 /\ srvPending' = NoEntries
  /\ srvStream' = [s \in Streams |-> "none"]
  /\ UNCHANGED <<keepalive, nextOpID, pendingRes, pendingClose, streams, settled, handling,
                 srvGot, made, begun>>

\* ws.onclose: resetSock calls every callback with an error, then forgets them
\* all; only then is the Sock no longer open.  A callback that makes a request
\* has it queued, since there is no WebSocket, and forgotten with the others;
\* the loop over the callbacks does not come to the new one.
Failed(r) == r \in Range(pendingRes)
Again == {NextOf[r] : r \in {q \in Retriers : Failed(q)}} \ made
Queued == SubSeq(SetToSeq(Again), 1, IF Cardinality(Again) <= SendBufferLimit - Len(sendq)
                                     THEN Cardinality(Again) ELSE SendBufferLimit - Len(sendq))
OnClose ==
  /\ ws \in {"open", "closing"}
  /\ ws' = "none" /\ isOpen' = FALSE /\ pendingClose' = FALSE
  /\ pendingRes' = NoEntries
  /\ settled' = [r \in Reqs |->
       IF Failed(r) \/ (r \in Again /\ r \notin Range(Queued)) THEN Append(settled[r], "error") ELSE settled[r]]
  /\ made' = made \cup Again
  /\ nextOpID' = Cardinality(Again) % IdSpace
  /\ sendq' = sendq \o [i \in DOMAIN Queued |-> [t |-> "r", id |-> (i - 1) % IdSpace, for |-> Queued[i]]]
  /\ streams' = [s \in Streams |->
       IF streams[s].entry THEN [streams[s] EXCEPT !.entry = FALSE, !.seen = Append(@, "error")]
       ELSE streams[s]]
  /\ wire' = <<>> /\ inbox' = <<>> /\ asked' = {} /\ srvPending' = NoEntries
  /\ srvStream' = [s \in Streams |-> "none"]
  /\ UNCHANGED <<conn, keepalive, handling, srvNext, srvGot, begun>>

\* end(): keepalive stops; with callbacks outstanding the first call only notes it.
End ==
  /\ Ends /\ (keepalive \/ pendingClose)
  /\ keepalive' = FALSE
  /\ IF ~pendingClose /\ HasPendingRes
     THEN pendingClose' = TRUE /\ UNCHANGED ws
     ELSE ws' = (IF ws = "open" THEN "closing" ELSE ws) /\ UNCHANGED pendingClose
  /\ UNCHANGED <<conn, isOpen, sendq, nextOpID, pendingRes, streams, settled, handling, wire,
                 inbox, srvVars, made>>

-----------------------------------------------------------------------------
(* The server.                                                              *)

\* A part of a stream request it does not know, or has answered with an error, is an
\* illegal message: the server closes the connection.
Illegal(m) == m.t = "p" /\ srvStream[m.for] \in {"none", "failed"}
ServerReads ==
  /\ ws # "none" /\ wire # <<>>
  /\ LET m == Head(wire)
         q == srvPending[m.id]
     IN
     /\ asked' = IF m.t = "r" THEN asked \cup {[r |-> m.for, id |-> m.id]} ELSE asked
     /\ srvStream' = IF m.t = "s" THEN [srvStream EXCEPT ![m.for] = "open"] ELSE srvStream
     /\ srvPending' = IF m.t = "R" THEN [srvPending EXCEPT ![m.id] = None] ELSE srvPending
     /\ srvGot' = IF m.t = "R" /\ q # None THEN [srvGot EXCEPT ![q] = m.for] ELSE srvGot
     /\ ws' = IF Illegal(m) THEN "closing" ELSE ws
  /\ wire' = Tail(wire)
  /\ UNCHANGED <<conn, isOpen, keepalive, sendq, nextOpID, pendingRes, pendingClose, streams,
                 settled, handling, inbox, srvNext, made, begun>>

ServerAnswers ==
  /\ ws = "open"
  /\ \E a \in asked :
       /\ asked' = asked \ {a}
       /\ \E t \in {"R"} \cup (IF Refusals THEN {"e"} ELSE {}) :
            inbox' = Append(inbox, [t |-> t, id |-> a.id, for |-> a.r])
  /\ UNCHANGED <<sockVars, streams, settled, handling, wire, srvNext, srvPending, srvGot,
                 srvStream, made, begun>>

\* A stream request is answered by a part and an end; or by an error or a refusal,
\* and an end follows an error.
ServerStreams ==
  /\ ws = "open"
  /\ \E s \in Streams, ts \in {<<"S", "EOS">>, <<"E", "EOS">>} \cup (IF Refusals THEN {<<"e">>} ELSE {}) :
       /\ srvStream[s] = "open"
       /\ srvStream' = [srvStream EXCEPT ![s] = IF ts[1] = "S" THEN "ended" ELSE "failed"]
       /\ inbox' = inbox \o [i \in DOMAIN ts |-> [t |-> ts[i], id |-> 0, for |-> s]]
  /\ UNCHANGED <<sockVars, streams, settled, handling, wire, asked, srvNext, srvPending, srvGot,
                 made, begun>>

ServerAsks ==
  /\ ws = "open"
  /\ MayCall
  /\ \E q \in Asks \ begun :
       /\ begun' = begun \cup {q}
       /\ srvPending' = [srvPending EXCEPT ![srvNext] = q]
       /\ srvNext' = NextId(srvNext)
       /\ inbox' = Append(inbox, [t |-> "r", id |-> srvNext, for |-> q])
  /\ UNCHANGED <<sockVars, streams, settled, handling, wire, asked, srvGot, srvStream, made>>

HandleMsg == HandleRes \/ HandleStreamRes \/ HandleRetryRes \/ HandleReq
\* Nothing more can happen: no connection is left to open.
Stopped == ws = "none" /\ (~keepalive \/ conn = MaxConns) /\ UNCHANGED vars

Next ==
  \/ Request \/ StreamRequest \/ Write \/ HandleMsg \/ Result \/ OnOpen \/ OnClose \/ End
  \/ ServerReads \/ ServerAnswers \/ ServerStreams \/ ServerAsks \/ Stopped
Spec == Init /\ [][Next]_vars

\* The browser delivers what arrives and completes a close, keepalive opens the
\* next connection, and the server answers.  Nobody must end a connection.
FairSpec ==
  /\ Spec
  /\ WF_vars(HandleMsg) /\ WF_vars(OnOpen) /\ WF_vars(ServerReads)
  /\ WF_vars(ServerAnswers) /\ WF_vars(ServerStreams)
  /\ WF_vars(ws = "closing" /\ OnClose)

-----------------------------------------------------------------------------
(* Properties.                                                              *)

\* Across reconnects, queueing and ids that start again at zero, a callback is
\* called at most once, with an error or the answer to its own request; and a stream
\* request emits one end or error at most, and nothing after that.
SettledOnce ==
  /\ \A r \in Reqs : settled[r] \in {<<>>, <<"error">>, <<r>>}
  /\ \A s \in Streams : \A i \in 1 .. Len(streams[s].seen) - 1 : streams[s].seen[i] = "data"

\* A request whose callback was not called is still in the table, so that an
\* answer or a close can find it, and its message is in one place at most; and so is
\* a stream request that has emitted no end.
Copies(r) == Cardinality({i \in DOMAIN sendq : sendq[i].for = r})
             + Cardinality({i \in DOMAIN wire : wire[i].for = r})
Over(s) == LET e == streams[s].seen IN e # <<>> /\ e[Len(e)] # "data"
NothingForgotten ==
  /\ \A r \in Unsettled : (\E i \in Ids : pendingRes[i] = r) /\ Copies(r) <= 1
  /\ \A s \in Streams : streams[s] # Request0 => streams[s].entry # Over(s)

\* Every request is settled while keepalive may open connections, the connection
\* coming and going at any time; and so is a stream request that was ended, whatever
\* became of its parts.
GaveUp == (ws = "none" /\ conn = MaxConns) \/ ~keepalive
EverySettled ==
  /\ \A r \in Reqs : r \in made ~> (settled[r] # <<>> \/ GaveUp)
  /\ \A s \in Streams : streams[s].ended ~> (Over(s) \/ GaveUp)

\* gotalk.d.ts:153-154: after end() "the socket will close when all pending requests
\* has finished", here for a Sock that is connected when it is called, and unless
\* the application leaves a stream request unfinished.
EndCloses ==
  (pendingClose /\ isOpen) ~>
    (ws = "none" \/ \E s \in Streams : streams[s].entry /\ ~streams[s].ended)

\* README.md:363: a request id "has no purpose beyond identity".  A handler's result
\* reaches the request it was called for, unless LateResults lets it come after its
\* connection has ended.
ResultsMatch == \A q \in Asks : srvGot[q] \in {None, q}

-----------------------------------------------------------------------------
(* What the documentation says, and the code does not do.                   *)

\* README.md:296: StreamRequest = "s" requestID operation payload StreamReqPart*: the
\* parts follow the start, on the connection that the start was sent on.
PartsFollowStart ==
  ws = "open" /\ wire # <<>> /\ Head(wire).t = "p" => srvStream[Head(wire).for] # "none"

\* gotalk.d.ts:110-112: request returns a promise for its result; it is kept or
\* broken also when the request is made as another one fails.
RetriedSettled ==
  \A r \in Reqs : r \in made ~> (settled[r] # <<>> \/ (ws = "none" /\ conn = MaxConns))

\* README.md:408: the answer to a RetryResult is to wait and to try again.
RefusalKeepsConnection ==
  [][HandleRetryRes => ws' = ws]_vars

\* gotalk.d.ts:153-154: after end() the pending requests finish, and then the
\* socket closes.
EndFinishes == pendingClose ~> (~HasPendingRes)
=============================================================================
