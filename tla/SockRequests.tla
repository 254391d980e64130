---------------------------- MODULE SockRequests ----------------------------
(***************************************************************************)
(* The requesting side of one gotalk socket (src/sock.go, src/request.go): *)
(* the goroutines that send requests, the goroutine in Sock.Read that      *)
(* hands responses to them, and the goroutines that close the socket.      *)
(*                                                                         *)
(* The four meet in pendingRes, the table of response channels; in two     *)
(* mutexes, pendingResMu and connmu; and in the channels themselves, which *)
(* are written with no mutex held.  Each action below is one stretch of    *)
(* code between two points where another goroutine can interfere.          *)
(*                                                                         *)
(* The peer is external: it may answer the requests it was sent in any     *)
(* order, leave, break the connection or report a protocol error.          *)
(***************************************************************************)
EXTENDS Integers, Sequences, FiniteSets

CONSTANTS
  Calls,         \* goroutines that send one request each
  Streams,       \* those of Calls that use StreamRequest, not BufferRequest
  StreamAnswered,\* BufferRequest calls the peer may answer with a stream
  Closers,       \* application goroutines that call Close or CloseError once
  Reader,        \* the goroutine in Sock.Read
  IdSpace,       \* number of request ids; 2^32 in the code
  FaultCodes,    \* codes given to CloseError and sent in protocol errors
  ReadTimeouts,  \* TRUE when Limits.ReadTimeout is not 0
  MaxRetries,    \* bound: how many RetryRes messages the peer sends
  MaxParts,      \* bound: how many parts a streamed response has before EOS
  None           \* no call, no goroutine, no response

ASSUME CallsAssumption == /\ Streams \subseteq Calls
                          /\ StreamAnswered \subseteq Calls \ Streams
                          /\ None \notin Calls
ASSUME ClosersAssumption == /\ Reader \notin Closers
                            /\ None \notin Closers \cup {Reader}
ASSUME NoneAssumption == None \notin [t : {"R", "S", "EOS", "E", "e"}, n : Nat]
ASSUME OwnersAssumption == Calls \cap (Closers \cup {Reader}) = {}
ASSUME BoundsAssumption == /\ IdSpace \in Nat \ {0}
                           /\ FaultCodes \subseteq Nat
                           /\ ReadTimeouts \in BOOLEAN
                           /\ MaxRetries \in Nat
                           /\ MaxParts \in Nat

VARIABLES
  nextOpID, pendingRes,      \* Sock.nextOpID, Sock.pendingRes (None: no entry)
  resmu, connmu,             \* who holds pendingResMu across steps; who holds connmu
  conn,                      \* Sock.conn: "open", or "closed" by conn.Close()
  closeCode, closex,         \* Sock.closeCode (0: none), Sock.closex
  shutdownWg,                \* TRUE once Sock.shutdownWg is not nil
  pc, id, chan,              \* per call: where it is, its id, its channel's slot
  issued, cur,               \* registrations so far; per call, its latest one
  rpc, rmsg, rdst,           \* reader: where it is, the response it holds, for whom
  cpc, arg, loaded, told,    \* closing: where, CloseError's code, code read, codes reported
  peer, asked, inbox,        \* peer: here or gone, requests it holds, messages it sent
  retries, served, refused,  \* RetryRes sent, calls it served, calls it turned down
  cut                        \* calls whose response lost its payload on the wire

sockVars  == <<nextOpID, pendingRes, resmu, connmu, conn, closeCode, closex, shutdownWg>>
callVars  == <<pc, id, chan, issued, cur>>
readVars  == <<rpc, rmsg, rdst, cut>>
closeVars == <<cpc, arg, loaded, told>>
peerVars  == <<peer, asked, inbox, retries, served, refused>>
vars == <<sockVars, callVars, readVars, closeVars, peerVars>>

Ids      == 0 .. IdSpace - 1
Buffers  == Calls \ Streams
Procs    == Closers \cup {Reader}

\* How a call can end: it got its data, the peer's error, a stream where it
\* expected one buffer, or a local error (closed socket, failed write).
Ends == {"data", "error", "streaming", "closed"}
Ended(c) == pc[c] \in Ends

\* Kinds of responses; "EOS" is a MsgTypeStreamRes with no payload.
ResKinds == {"R", "S", "EOS", "E", "e"}
\* What goes through a response channel.  n is the registration it answers,
\* 0 when Close made it up.
Responses == [t : ResKinds, n : Nat]
\* What the peer sends: responses, protocol errors "f" with their code in n, and
\* messages of no known type, "?".
Messages == [t : ResKinds \cup {"f", "?"}, id : Ids, n : Nat]

InTable(c) == \E i \in Ids : pendingRes[i] = c

TypeOK ==
  /\ nextOpID \in Ids
  /\ pendingRes \in [Ids -> Calls \cup {None}]
  /\ resmu \in Procs \cup {None}
  /\ connmu \in Calls \cup Procs \cup {None}
  /\ conn \in {"open", "closed"}
  /\ closeCode \in Nat /\ closex \in Nat /\ shutdownWg \in BOOLEAN
  /\ pc \in [Calls -> {"send", "register", "write", "writing", "end", "ending",
                       "forget", "await", "busy"} \cup Ends]
  /\ id \in [Calls -> Ids]
  /\ chan \in [Calls -> Responses \cup {None}]
  /\ issued \in Nat /\ cur \in [Calls -> Nat]
  /\ rpc \in {"read", "deliver", "closing", "exit", "final", "done"}
  /\ rmsg \in Responses \cup {None} /\ rdst \in Calls \cup {None}
  /\ cpc \in [Procs -> {"idle", "error", "close", "resmu", "connmu", "drain",
                        "callback", "done"}]
  /\ arg \in [Procs -> Nat]
  /\ loaded \in Nat /\ told \in Seq(Nat)
  /\ peer \in {"here", "gone"}
  /\ asked \subseteq [c : Calls, id : Ids, n : Nat, parts : Nat]
  /\ inbox \in Seq(Messages)
  /\ retries \in Nat
  /\ served \subseteq Calls /\ refused \subseteq Calls /\ cut \subseteq Calls

Init ==
  /\ nextOpID = 0 /\ pendingRes = [i \in Ids |-> None]
  /\ resmu = None /\ connmu = None /\ conn = "open"
  /\ closeCode = 0 /\ closex = 0 /\ shutdownWg = FALSE
  /\ pc = [c \in Calls |-> "send"] /\ id = [c \in Calls |-> 0]
  /\ chan = [c \in Calls |-> None]
  /\ issued = 0 /\ cur = [c \in Calls |-> 0]
  /\ rpc = "read" /\ rmsg = None /\ rdst = None
  /\ cpc = [p \in Procs |-> "idle"] /\ arg = [p \in Procs |-> 0]
  /\ loaded = 0 /\ told = <<>>
  /\ peer = "here" /\ asked = {} /\ inbox = <<>> /\ retries = 0
  /\ served = {} /\ refused = {} /\ cut = {}

-----------------------------------------------------------------------------
(* A goroutine that sends a request.                                        *)

Goto(c, label) == pc' = [pc EXCEPT ![c] = label]

\* SendRequest's first test; StreamRequest has none.
SendRequest(c) ==
  /\ pc[c] = "send"
  /\ Goto(c, IF shutdownWg /\ c \in Buffers THEN "closed" ELSE "register")
  /\ UNCHANGED <<sockVars, id, chan, issued, cur, readVars, closeVars, peerVars>>

NewOpIDStuck   == nextOpID          \* mutant: the counter is not moved
NewOpID == (nextOpID + 1) % IdSpace

\* registerResChan: overwrites whatever the table holds under that id.
registerResChan(c) ==
  /\ pc[c] = "register" /\ resmu = None
  /\ pendingRes' = [pendingRes EXCEPT ![nextOpID] = c]
  /\ id' = [id EXCEPT ![c] = nextOpID]
  /\ nextOpID' = NewOpID
  /\ issued' = issued + 1
  /\ cur' = [cur EXCEPT ![c] = issued + 1]
  /\ Goto(c, "write")
  /\ UNCHANGED <<resmu, connmu, conn, closeCode, closex, shutdownWg, chan,
                 readVars, closeVars, peerVars>>

\* writeMsg: connmu is held until conn.Write has returned.
WriteLock(c) ==
  /\ pc[c] \in {"write", "end"} /\ connmu = None
  /\ connmu' = c
  /\ Goto(c, IF pc[c] = "write" THEN "writing" ELSE "ending")
  /\ UNCHANGED <<nextOpID, pendingRes, resmu, conn, closeCode, closex, shutdownWg,
                 id, chan, issued, cur, readVars, closeVars, peerVars>>

\* The message is out.  A peer that has left may not have been noticed yet.
\* BufferRequest goes on to its channel, where a response may already be; a
\* StreamRequest's owner ends its request, and later turns to the channel.
AfterWrite(c) ==
  CASE c \in Buffers -> "await"
    [] c \in Streams /\ pc[c] = "writing" -> "end"
    [] c \in Streams /\ pc[c] = "ending" -> "busy"

WriteOK(c) ==
  /\ pc[c] \in {"writing", "ending"} /\ conn = "open"
  /\ connmu' = None
  /\ Goto(c, AfterWrite(c))
  /\ asked' = IF pc[c] = "writing" /\ peer = "here"
              THEN asked \cup {[c |-> c, id |-> id[c], n |-> cur[c], parts |-> MaxParts]}
              ELSE asked
  /\ UNCHANGED <<nextOpID, pendingRes, resmu, conn, closeCode, closex, shutdownWg,
                 id, chan, issued, cur, readVars, closeVars, peer, inbox, retries,
                 served, refused>>

\* The connection is closed, broken, or past the deadline Shutdown set.
WriteFail(c) ==
  /\ pc[c] \in {"writing", "ending"}
  /\ conn = "closed" \/ peer = "gone" \/ shutdownWg
  /\ connmu' = None
  /\ Goto(c, "forget")
  /\ UNCHANGED <<nextOpID, pendingRes, resmu, conn, closeCode, closex, shutdownWg,
                 id, chan, issued, cur, readVars, closeVars, peerVars>>

\* Mutant: the entry stays.
forgetResChanNot(c) ==
  /\ pc[c] = "forget" /\ resmu = None
  /\ Goto(c, "closed")
  /\ UNCHANGED <<sockVars, id, chan, issued, cur, readVars, closeVars, peerVars>>

\* forgetResChan, from SendRequest or from StreamRequest.finalize.
forgetResChan(c) ==
  /\ pc[c] = "forget" /\ resmu = None
  /\ pendingRes' = [pendingRes EXCEPT ![id[c]] = None]
  /\ Goto(c, "closed")
  /\ UNCHANGED <<nextOpID, resmu, connmu, conn, closeCode, closex, shutdownWg,
                 id, chan, issued, cur, readVars, closeVars, peerVars>>

\* Mutants: an error is taken for data; a retry waits without sending again.
BufferNextNoError(r) ==
  CASE r.t \in {"R", "E"} -> "data"
    [] r.t = "e" -> "send"
    [] r.t \in {"S", "EOS"} -> "streaming"
BufferNextNoResend(r) ==
  CASE r.t = "R" -> "data"
    [] r.t = "E" -> IF r.n = 0 THEN "closed" ELSE "error"
    [] r.t = "e" -> "await"
    [] r.t \in {"S", "EOS"} -> "streaming"

\* What BufferRequest does with a response: retry, or return.
BufferNext(r) ==
  CASE r.t = "R" -> "data"
    [] r.t = "E" -> IF r.n = 0 THEN "closed" ELSE "error"
    [] r.t = "e" -> "send"
    [] r.t \in {"S", "EOS"} -> "streaming"

\* What the consumer of a StreamRequest's channel does with it: it reads parts
\* until end of stream and gives up on anything else.
StreamNext(r) ==
  CASE r.t = "S" -> "busy"
    [] r.t \in {"EOS", "R"} -> "data"
    [] r.t \in {"E", "e"} -> IF r.n = 0 THEN "closed" ELSE "error"

Receive(c) ==
  /\ pc[c] = "await" /\ chan[c] # None
  /\ chan' = [chan EXCEPT ![c] = None]
  /\ Goto(c, IF c \in Streams THEN StreamNext(chan[c]) ELSE BufferNext(chan[c]))
  /\ UNCHANGED <<sockVars, id, issued, cur, readVars, closeVars, peerVars>>

\* A stream's consumer turns to its channel, or back to it after a part.
Consume(c) ==
  /\ pc[c] = "busy"
  /\ Goto(c, "await")
  /\ UNCHANGED <<sockVars, id, chan, issued, cur, readVars, closeVars, peerVars>>

CallStep(c) ==
  \/ SendRequest(c) \/ registerResChan(c)
  \/ WriteLock(c) \/ WriteOK(c) \/ WriteFail(c) \/ forgetResChan(c)
  \/ Receive(c) \/ Consume(c)

-----------------------------------------------------------------------------
(* The goroutine in Sock.Read.                                              *)

\* BufferRequest's channel has room for one response; StreamRequest's has
\* none, and takes a response only while its consumer waits for it.
CanSend(c) == chan[c] = None /\ (c \in Streams => pc[c] = "await")

KeepsEntry(t) == t \in {"S", "EOS"}

\* readResponse up to the unlock: look the channel up, and take it out of the
\* table unless more parts may follow.
readResponse ==
  /\ rpc = "read" /\ conn = "open" /\ resmu = None
  /\ inbox # <<>> /\ Head(inbox).t \in ResKinds
  /\ LET m  == Head(inbox)
         ch == pendingRes[m.id]
     IN /\ pendingRes' = IF KeepsEntry(m.t) THEN pendingRes
                         ELSE [pendingRes EXCEPT ![m.id] = None]
        /\ IF ch = None
           THEN UNCHANGED <<rpc, rmsg, rdst>>
           ELSE /\ rpc' = "deliver" /\ rdst' = ch
                /\ rmsg' = [t |-> m.t, n |-> m.n]
  /\ inbox' = Tail(inbox)
  /\ UNCHANGED <<nextOpID, resmu, connmu, conn, closeCode, closex, shutdownWg, cut,
                 callVars, closeVars, peer, asked, retries, served, refused>>

\* ch <- Response: no mutex is held, and the reader waits as long as it takes.
Deliver ==
  /\ rpc = "deliver" /\ CanSend(rdst)
  /\ chan' = [chan EXCEPT ![rdst] = rmsg]
  /\ rpc' = "read" /\ rmsg' = None /\ rdst' = None
  /\ UNCHANGED <<sockVars, pc, id, issued, cur, cut, closeVars, peerVars>>

\* The end of the read loop: what it does about an error.
ErrorInvalidMsg == 2
ErrorTimeout    == 3

StopWithClose ==
  /\ rpc' = "closing" /\ cpc' = [cpc EXCEPT ![Reader] = "close"]
  /\ UNCHANGED arg
StopWithError(code) ==
  /\ rpc' = "closing" /\ cpc' = [cpc EXCEPT ![Reader] = "error"]
  /\ arg' = [arg EXCEPT ![Reader] = code]
StopAsIs == rpc' = "exit" /\ UNCHANGED <<cpc, arg>>
StopOnTimeout == IF shutdownWg THEN StopAsIs ELSE StopWithError(ErrorTimeout)
Broken   == conn = "closed" \/ peer = "gone"
TimesOut == conn = "open" /\ (ReadTimeouts \/ shutdownWg)

\* ReadMsg fails: the connection ended, or nothing came in time.
ReadFails ==
  /\ rpc = "read"
  /\ \/ Broken /\ StopWithClose
     \/ TimesOut /\ inbox = <<>> /\ StopOnTimeout
  /\ UNCHANGED <<sockVars, callVars, rmsg, rdst, cut, loaded, told, peerVars>>

\* readResponse when the header arrived and the payload did not: it forgets
\* the channel and tells nobody.
ReadCutPayload ==
  /\ rpc = "read" /\ conn = "open" /\ resmu = None
  /\ inbox # <<>> /\ Head(inbox).t \in ResKinds \ {"EOS"}
  /\ LET i == Head(inbox).id IN
       /\ pendingRes' = [pendingRes EXCEPT ![i] = None]
       /\ cut' = IF pendingRes[i] = None THEN cut ELSE cut \cup {pendingRes[i]}
  /\ inbox' = Tail(inbox)
  /\ \/ Broken /\ StopWithClose
     \/ TimesOut /\ StopOnTimeout
  /\ UNCHANGED <<nextOpID, resmu, connmu, conn, closeCode, closex, shutdownWg,
                 callVars, rmsg, rdst, loaded, told, peer, asked, retries, served, refused>>

\* A protocol error message: note its code, then close.  A message of no known
\* type: report one.
ReadProtocolError ==
  /\ rpc = "read" /\ conn = "open" /\ inbox # <<>>
  /\ \/ /\ Head(inbox).t = "f"
        /\ closeCode' = Head(inbox).n + 1
        /\ IF shutdownWg THEN StopAsIs ELSE StopWithClose
     \/ /\ Head(inbox).t = "?"
        /\ StopWithError(ErrorInvalidMsg)
        /\ UNCHANGED closeCode
  /\ inbox' = Tail(inbox)
  /\ UNCHANGED <<nextOpID, pendingRes, resmu, connmu, conn, closex, shutdownWg, callVars,
                 rmsg, rdst, cut, loaded, told, peer, asked, retries, served, refused>>

\* After the loop: Close returned; a socket being shut down closes once more
\* and reports to its wait group.
ReadReturns ==
  /\ \/ rpc = "closing" /\ cpc[Reader] = "idle" /\ rpc' = "exit" /\ UNCHANGED cpc
     \/ rpc = "exit" /\ ~shutdownWg /\ rpc' = "done" /\ UNCHANGED cpc
     \/ rpc = "exit" /\ shutdownWg /\ rpc' = "final"
        /\ cpc' = [cpc EXCEPT ![Reader] = "close"]
     \/ rpc = "final" /\ cpc[Reader] = "idle" /\ rpc' = "done" /\ UNCHANGED cpc
  /\ UNCHANGED <<sockVars, callVars, rmsg, rdst, cut, arg, loaded, told, peerVars>>

ReaderStep ==
  readResponse \/ Deliver \/ ReadFails \/ ReadCutPayload \/ ReadProtocolError \/ ReadReturns

-----------------------------------------------------------------------------
(* Closing: Close and CloseError, by the reader or by the application.      *)

At(p, label) == cpc' = [cpc EXCEPT ![p] = label]
Returned(p)  == IF p = Reader THEN "idle" ELSE "done"

CallClose(p) ==
  /\ p \in Closers /\ cpc[p] = "idle"
  /\ \/ At(p, "close") /\ UNCHANGED arg
     \/ \E code \in FaultCodes : At(p, "error") /\ arg' = [arg EXCEPT ![p] = code]
  /\ UNCHANGED <<sockVars, callVars, readVars, loaded, told, peerVars>>

\* CloseError: store the code and tell the peer, then Close.
CloseError(p) ==
  /\ cpc[p] = "error" /\ connmu = None
  /\ closeCode' = arg[p] + 1
  /\ At(p, "close")
  /\ UNCHANGED <<nextOpID, pendingRes, resmu, connmu, conn, closex, shutdownWg,
                 callVars, readVars, arg, loaded, told, peerVars>>

\* Close's atomic switch: only the first caller goes on.
WonAlways == TRUE                   \* mutant: no switch
Won       == closex = 0

CloseSwitch(p) ==
  /\ cpc[p] = "close"
  /\ closex' = closex + 1
  /\ At(p, IF Won THEN "resmu" ELSE Returned(p))
  /\ UNCHANGED <<nextOpID, pendingRes, resmu, connmu, conn, closeCode, shutdownWg,
                 callVars, readVars, arg, loaded, told, peerVars>>

CloseLockRes(p) ==
  /\ cpc[p] = "resmu" /\ resmu = None
  /\ resmu' = p
  /\ At(p, "connmu")
  /\ UNCHANGED <<nextOpID, pendingRes, connmu, conn, closeCode, closex, shutdownWg,
                 callVars, readVars, arg, loaded, told, peerVars>>

CloseConn(p) ==
  /\ cpc[p] = "connmu" /\ connmu = None
  /\ connmu' = p
  /\ conn' = "closed"
  /\ loaded' = closeCode
  /\ At(p, "drain")
  /\ UNCHANGED <<nextOpID, pendingRes, resmu, closeCode, closex, shutdownWg,
                 callVars, readVars, arg, told, peerVars>>

CloseNote == [t |-> "E", n |-> 0]
TellNot(c) == chan                  \* mutant: entries are dropped without a word
Tell(c)    == IF CanSend(c) THEN [chan EXCEPT ![c] = CloseNote] ELSE chan

\* Mutant: the send waits for whoever does not receive.
CloseDrainWaits(p) ==
  /\ cpc[p] = "drain"
  /\ \E i \in Ids :
       /\ pendingRes[i] # None /\ CanSend(pendingRes[i])
       /\ pendingRes' = [pendingRes EXCEPT ![i] = None]
       /\ chan' = Tell(pendingRes[i])
  /\ UNCHANGED <<nextOpID, resmu, connmu, conn, closeCode, closex, shutdownWg,
                 pc, id, issued, cur, readVars, closeVars, peerVars>>

\* One round of the loop over pendingRes: a send that does not wait.  The entry
\* is dropped here and not with the whole table after the loop, which nobody
\* can tell apart while pendingResMu is held.
CloseDrain(p) ==
  /\ cpc[p] = "drain"
  /\ \E i \in Ids :
       /\ pendingRes[i] # None
       /\ pendingRes' = [pendingRes EXCEPT ![i] = None]
       /\ chan' = Tell(pendingRes[i])
  /\ UNCHANGED <<nextOpID, resmu, connmu, conn, closeCode, closex, shutdownWg,
                 pc, id, issued, cur, readVars, closeVars, peerVars>>

\* Mutant: pendingResMu is not released.
CloseUnlockOne(p) ==
  /\ cpc[p] = "drain" /\ \A i \in Ids : pendingRes[i] = None
  /\ connmu' = None
  /\ At(p, "callback")
  /\ UNCHANGED <<nextOpID, pendingRes, resmu, conn, closeCode, closex, shutdownWg,
                 callVars, readVars, arg, loaded, told, peerVars>>

CloseUnlock(p) ==
  /\ cpc[p] = "drain" /\ \A i \in Ids : pendingRes[i] = None
  /\ resmu' = None /\ connmu' = None
  /\ At(p, "callback")
  /\ UNCHANGED <<nextOpID, pendingRes, conn, closeCode, closex, shutdownWg,
                 callVars, readVars, arg, loaded, told, peerVars>>

\* CloseHandler(s, closeCode).
CloseCallback(p) ==
  /\ cpc[p] = "callback"
  /\ told' = Append(told, loaded)
  /\ At(p, Returned(p))
  /\ UNCHANGED <<sockVars, callVars, readVars, arg, loaded, peerVars>>

CloseStep(p) ==
  \/ CloseError(p) \/ CloseSwitch(p) \/ CloseLockRes(p) \/ CloseConn(p)
  \/ CloseDrain(p) \/ CloseUnlock(p) \/ CloseCallback(p)

\* Shutdown: mark the socket and set deadlines on the connection.
Shutdown ==
  /\ ~shutdownWg
  /\ shutdownWg' = TRUE
  /\ UNCHANGED <<nextOpID, pendingRes, resmu, connmu, conn, closeCode, closex,
                 callVars, readVars, closeVars, peerVars>>

-----------------------------------------------------------------------------
(* The peer.  What it sends once the socket is closed is never read.        *)

PeerUp == peer = "here" /\ conn = "open"
Reply(q, t) == [t |-> t, id |-> q.id, n |-> q.n]

\* It answers a request, or asks for it to be sent again later, unless it has
\* begun to answer in parts: then an error may still come.  A stream request is
\* answered by an error only: its data comes in parts.
Unanswered(q) == q.parts = MaxParts
PeerAnswer(q) ==
  /\ PeerUp
  /\ asked' = asked \ {q}
  /\ \/ /\ q.c \in Buffers /\ Unanswered(q)
        /\ inbox' = Append(inbox, Reply(q, "R"))
        /\ served' = served \cup {q.c}
        /\ UNCHANGED <<retries, refused>>
     \/ /\ inbox' = IF q.c \in Streams
                    THEN inbox \o <<Reply(q, "E"), Reply(q, "EOS")>>
                    ELSE Append(inbox, Reply(q, "E"))
        /\ refused' = refused \cup {q.c}
        /\ UNCHANGED <<retries, served>>
     \/ /\ retries < MaxRetries /\ retries' = retries + 1 /\ Unanswered(q)
        /\ inbox' = Append(inbox, Reply(q, "e"))
        /\ refused' = IF q.c \in Streams THEN refused \cup {q.c} ELSE refused
        /\ UNCHANGED served
  /\ UNCHANGED <<sockVars, callVars, readVars, closeVars, peer>>

OnePartLess(q) == [c |-> q.c, id |-> q.id, n |-> q.n, parts |-> q.parts - 1]

\* It answers in parts.
PeerStream(q) ==
  /\ PeerUp /\ q.c \in Streams \cup StreamAnswered
  /\ \/ /\ q.parts > 0
        /\ inbox' = Append(inbox, Reply(q, "S"))
        /\ asked' = (asked \ {q}) \cup {OnePartLess(q)}
        /\ UNCHANGED served
     \/ /\ inbox' = Append(inbox, Reply(q, "EOS"))
        /\ asked' = asked \ {q}
        /\ served' = IF q.c \in Streams THEN served \cup {q.c} ELSE served
  /\ refused' = IF q.c \in Streams THEN refused ELSE refused \cup {q.c}
  /\ UNCHANGED <<sockVars, callVars, readVars, closeVars, peer, retries>>

PeerFault ==
  /\ PeerUp
  /\ \/ \E code \in FaultCodes :
          inbox' = Append(inbox, [t |-> "f", id |-> 0, n |-> code])
     \/ inbox' = Append(inbox, [t |-> "?", id |-> 0, n |-> 0])
  /\ peer' = "gone"
  /\ UNCHANGED <<sockVars, callVars, readVars, closeVars, asked, retries, served, refused>>

PeerLeaves ==
  /\ PeerUp
  /\ peer' = "gone"
  /\ UNCHANGED <<sockVars, callVars, readVars, closeVars, asked, inbox, retries,
                 served, refused>>

PeerStep == PeerFault \/ PeerLeaves \/ \E q \in asked : PeerAnswer(q) \/ PeerStream(q)

-----------------------------------------------------------------------------
\* The reader waits to send to a call that has returned and receives no more.
ReaderStuck == rpc = "deliver" /\ Ended(rdst) /\ ~CanSend(rdst)

\* A call nothing will wake up any more: the payload of its response was lost,
\* the consumer of a stream was not receiving when Close came by, or the reader
\* is stuck with somebody else's response.
Stranded(c) == pc[c] = "await" /\ chan[c] = None /\ (c \in cut \cup Streams \/ ReaderStuck)

\* Everything has returned, or never will; the specification stutters.
Terminating ==
  /\ \A c \in Calls : Ended(c) \/ Stranded(c)
  /\ rpc = "done" \/ ReaderStuck
  /\ \A p \in Closers : cpc[p] = "done"
  /\ shutdownWg
  /\ UNCHANGED vars

Next ==
  \/ \E c \in Calls : CallStep(c)
  \/ ReaderStep
  \/ \E p \in Procs : CallClose(p) \/ CloseStep(p)
  \/ Shutdown \/ PeerStep \/ Terminating

Spec == Init /\ [][Next]_vars

\* Goroutines that can go on are scheduled; a write on the connection returns.
\* Nobody has to close the socket, and the peer owes nothing.
Fairness ==
  /\ \A c \in Calls : WF_vars(CallStep(c))
  /\ WF_vars(ReaderStep)
  /\ \A p \in Procs : WF_vars(CloseStep(p))

FairSpec == Spec /\ Fairness
-----------------------------------------------------------------------------
(* What should hold.                                                        *)

\* Fewer registrations than there are ids: no id has been used twice.  The
\* code relies on it and checks it nowhere.
NoIdReused == issued <= IdSpace

\* A response that answers another registration than the one its receiver
\* waits for.
Misplaced(c, r) == r # None /\ r.n # 0 /\ r.n # cur[c]

\* A call is only ever handed, by the reader or in its channel, the response
\* to its own latest request: not one to an attempt it has since repeated, nor
\* one to another goroutine's request (registerResChan, readResponse).
OwnAnswer ==
  NoIdReused => /\ \A c \in Calls : ~Misplaced(c, chan[c])
                /\ rpc = "deliver" => ~Misplaced(rdst, rmsg)

\* Whoever is going to wake a call up.
WillWake(c) == \/ chan[c] # None
               \/ rpc = "deliver" /\ rdst = c
               \/ pendingRes[id[c]] = c

\* A BufferRequest that waits has its response in its channel, or in the
\* reader's hands, or is still in pendingRes, where a response or Close will
\* find it -- whatever the interleaving of registration, write, delivery and
\* Close.  Only a lost payload breaks this (see CloseEndsEveryRequest).
NoOrphan ==
  NoIdReused => \A c \in Buffers \ cut : pc[c] = "await" => WillWake(c)

\* pendingRes holds nobody it should not, however calls, responses and Close come
\* between each other.  A BufferRequest that has returned is out of it on every path
\* (data, error, failed write, closed socket), and one that got an answer gets no
\* second one.  Once Close has let go of its locks only those calls are left that are
\* about to learn from their own failing write that they must leave: nothing
\* registered too late for Close waits there.
NothingLeft ==
  /\ NoIdReused => \A c \in Buffers \ StreamAnswered :
       /\ Ended(c) => ~InTable(c)
       /\ pc[c] \in {"data", "error"} => ~WillWake(c)
  /\ conn = "closed" /\ resmu = None =>
       \A c \in Calls : InTable(c) =>
         pc[c] \in {"write", "writing", "end", "ending", "forget"}

\* CloseHandler runs at most once per connection and only after every waiting
\* BufferRequest has been told (Close: switch, drain, unlock, callback).
ClosedOnceAndLast ==
  /\ Len(told) <= 1
  /\ told # <<>> /\ NoIdReused =>
       \A c \in Buffers \ cut : pc[c] = "await" =>
          chan[c] # None \/ (rpc = "deliver" /\ rdst = c)

\* The requester's promise, over the calls as their goroutines see them.
Status(c) ==
  CASE pc[c] = "data" -> "answered"
    [] pc[c] \in Ends \ {"data"} -> "failed"
    [] pc[c] = "send" /\ cur[c] = 0 -> "idle"
    [] OTHER -> IF cur[c] = 0 THEN "idle" ELSE "waiting"

Abstract == INSTANCE RequestReply WITH
  status <- [c \in Calls |-> Status(c)],
  link   <- IF conn = "closed" \/ peer = "gone" \/ shutdownWg THEN "down" ELSE "up"

\* Data comes only from a peer that served this very call, errors only from a
\* peer that turned it down or from a link that is down; both at most once.
KeepsPromise == Abstract!Spec

\* Close's "end any pending request-response channels": it ends every BufferRequest
\* under way, except one whose response lost its payload, and a StreamRequest whose
\* consumer is receiving, with nothing else on its way to it, when Close comes by.
Receiving(c) == pc[c] = "await" /\ chan[c] = None /\ rpc # "deliver"
CloseEndsRequests ==
  /\ \A c \in Buffers :
       conn = "closed" /\ cur[c] # 0 /\ NoIdReused ~> Ended(c) \/ c \in cut \/ ~NoIdReused
  /\ \A c \in Streams :
       conn = "closed" /\ resmu # None /\ InTable(c) /\ Receiving(c) ~> Ended(c)

\* Sock.Read "does not return until the socket is closed", and then does return:
\* with BufferRequests answered by one buffer each, the reader is never left
\* behind in a send nobody receives.
ReaderReturns == conn = "closed" ~> rpc = "done"

-----------------------------------------------------------------------------
(* What the documentation says and the code does not do.                    *)

\* sock.go:876, "end any pending request-response channels": no exception for a
\* response whose payload was lost.
CloseEndsEveryRequest ==
  \A c \in Buffers : conn = "closed" /\ cur[c] # 0 ~> Ended(c)

\* The same comment, for the channels of StreamRequests.
CloseEndsStreams ==
  \A c \in Streams : conn = "closed" /\ cur[c] # 0 ~> Ended(c)

\* README.md:81, "share a single connection without blocking each other": the
\* reader never waits for a call that has already returned.
ReaderNotStuck == ~ReaderStuck

\* sock.go:40, "code is >=0 and represents a ProtocolError* constant" when a
\* protocol error closed the socket; the constants are 0 to ErrorTimeout.
CloseCodeIsConstant == \A i \in 1 .. Len(told) : told[i] \in 0 .. ErrorTimeout
=============================================================================
