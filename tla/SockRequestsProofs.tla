------------------------- MODULE SockRequestsProofs -------------------------
(***************************************************************************)
(* What holds of SockRequests for every value of its constants: what calls *)
(* and answers are, how a socket closes, and that it implements            *)
(* RequestReply.                                                           *)
(***************************************************************************)
EXTENDS SockRequestsInv, TLAPS

USE CallsAssumption, ClosersAssumption, OwnersAssumption, NoneAssumption, BoundsAssumption

-----------------------------------------------------------------------------
(* Types.                                                                   *)

LEMMA InitTypeOK == Init => TypeOK
<1> SUFFICES ASSUME Init PROVE TypeOK OBVIOUS
<1> USE DEF Init
<1>1. nextOpID \in Ids /\ pendingRes \in [Ids -> Calls \cup {None}]
  BY DEF Ids
<1>2. /\ resmu \in Procs \cup {None} /\ connmu \in Calls \cup Procs \cup {None}
      /\ conn \in {"open", "closed"} /\ closeCode \in Nat /\ closex \in Nat
      /\ shutdownWg \in BOOLEAN
  OBVIOUS
<1>3. id \in [Calls -> Ids] /\ issued \in Nat /\ cur \in [Calls -> Nat]
  BY DEF Ids
<1>4. told \in Seq(Nat) /\ inbox \in Seq(Messages)
  OBVIOUS
<1>5. QED BY <1>1, <1>2, <1>3, <1>4 DEF TypeOK

\* A request id stays a request id when the counter wraps.
LEMMA NewOpIDType == nextOpID \in Ids => NewOpID \in Ids
  BY DEF Ids, NewOpID

\* A call's own steps keep the types.
LEMMA CallTypeOK ==
  ASSUME TypeOK, NEW c \in Calls, CallStep(c)
  PROVE  TypeOK'
<1> USE DEF TypeOK, Goto, sockVars, callVars, readVars, closeVars, peerVars
<1>1. CASE SendRequest(c)
  BY <1>1 DEF SendRequest, Ends
<1>2. CASE registerResChan(c)
  BY <1>2, NewOpIDType DEF registerResChan
<1>3. CASE WriteLock(c)
  BY <1>3 DEF WriteLock
<1>4. CASE WriteOK(c)
  BY <1>4 DEF WriteOK, AfterWrite, Buffers
<1>5. CASE WriteFail(c)
  BY <1>5 DEF WriteFail
<1>6. CASE forgetResChan(c)
  BY <1>6 DEF forgetResChan, Ends
<1>7. CASE Receive(c)
  <2>1. chan[c] \in Responses
    BY <1>7 DEF Receive
  <2>2. BufferNext(chan[c]) \in {"send"} \cup Ends
    BY <2>1 DEF BufferNext, Responses, ResKinds, Ends
  <2>3. StreamNext(chan[c]) \in {"busy"} \cup Ends
    BY <2>1 DEF StreamNext, Responses, ResKinds, Ends
  <2>4. QED BY <1>7, <2>2, <2>3 DEF Receive
<1>8. CASE Consume(c)
  BY <1>8 DEF Consume
<1>9. QED BY <1>1, <1>2, <1>3, <1>4, <1>5, <1>6, <1>7, <1>8 DEF CallStep

\* A response the peer sent is one a channel can carry.
LEMMA HeadType ==
  ASSUME TypeOK, inbox # <<>>
  PROVE  /\ Head(inbox) \in Messages
         /\ Tail(inbox) \in Seq(Messages)
         /\ Head(inbox).t \in ResKinds =>
              [t |-> Head(inbox).t, n |-> Head(inbox).n] \in Responses
<1>1. inbox \in Seq(Messages)
  BY DEF TypeOK
<1>2. Head(inbox) \in Messages /\ Tail(inbox) \in Seq(Messages)
  BY <1>1
<1>3. QED BY <1>2 DEF Messages, Responses

LEMMA ReaderTypeOK ==
  ASSUME TypeOK, ReaderStep
  PROVE  TypeOK'
<1> USE DEF TypeOK, sockVars, callVars, readVars, closeVars, peerVars, Procs
<1>1. CASE readResponse
  <2>1. /\ inbox' \in Seq(Messages)
        /\ Head(inbox) \in Messages
        /\ [t |-> Head(inbox).t, n |-> Head(inbox).n] \in Responses
    BY <1>1, HeadType DEF readResponse
  <2>2. Head(inbox).id \in Ids
    BY <2>1 DEF Messages
  <2>3. pendingRes' \in [Ids -> Calls \cup {None}]
    BY <1>1, <2>2 DEF readResponse
  <2>4. rpc' \in {"read", "deliver"} /\ rmsg' \in Responses \cup {None}
        /\ rdst' \in Calls \cup {None}
    BY <1>1, <2>1, <2>2 DEF readResponse
  <2>5. QED BY <1>1, <2>1, <2>3, <2>4 DEF readResponse
<1>2. CASE Deliver
  BY <1>2 DEF Deliver
<1>3. CASE ReadFails
  BY <1>3 DEF ReadFails, StopWithClose, StopOnTimeout, StopAsIs, StopWithError,
              ErrorTimeout
<1>4. CASE ReadCutPayload
  <2>1. inbox' \in Seq(Messages) /\ Head(inbox).id \in Ids
    BY <1>4, HeadType DEF ReadCutPayload, Messages
  <2>2. pendingRes' \in [Ids -> Calls \cup {None}] /\ cut' \subseteq Calls
    BY <1>4, <2>1 DEF ReadCutPayload
  <2>3. rpc' \in {"closing", "exit"} /\ arg' \in [Procs -> Nat]
        /\ cpc' \in [Procs -> {"idle", "error", "close", "resmu", "connmu", "drain",
                                "callback", "done"}]
    BY <1>4 DEF ReadCutPayload, StopWithClose, StopOnTimeout, StopAsIs, StopWithError,
                ErrorTimeout
  <2>4. QED BY <1>4, <2>1, <2>2, <2>3 DEF ReadCutPayload
<1>5. CASE ReadProtocolError
  <2>1. inbox' \in Seq(Messages) /\ Head(inbox).n \in Nat
    BY <1>5, HeadType DEF ReadProtocolError, Messages
  <2>2. rpc' \in {"closing", "exit"} /\ arg' \in [Procs -> Nat]
        /\ cpc' \in [Procs -> {"idle", "error", "close", "resmu", "connmu", "drain",
                                "callback", "done"}]
    BY <1>5 DEF ReadProtocolError, StopWithClose, StopAsIs, StopWithError, ErrorInvalidMsg
  <2>3. QED BY <1>5, <2>1, <2>2, SMTT(30) DEF ReadProtocolError
<1>6. CASE ReadReturns
  BY <1>6 DEF ReadReturns
<1>7. QED BY <1>1, <1>2, <1>3, <1>4, <1>5, <1>6 DEF ReaderStep

LEMMA CloseTypeOK ==
  ASSUME TypeOK, NEW p \in Procs, CallClose(p) \/ CloseStep(p)
  PROVE  TypeOK'
<1> USE DEF TypeOK, sockVars, callVars, readVars, closeVars, peerVars, At
<1> Returned(p) \in {"idle", "done"}
  BY DEF Returned
<1>1. CASE CallClose(p)
  <2>1. cpc' \in [Procs -> {"idle", "error", "close", "resmu", "connmu", "drain",
                           "callback", "done"}]
    BY <1>1 DEF CallClose
  <2>2. arg' \in [Procs -> Nat]
    BY <1>1 DEF CallClose
  <2>3. QED BY <1>1, <2>1, <2>2 DEF CallClose
<1>2. CASE CloseError(p)
  BY <1>2, SMTT(30) DEF CloseError
<1>3. CASE CloseSwitch(p)
  BY <1>3 DEF CloseSwitch
<1>4. CASE CloseLockRes(p)
  BY <1>4 DEF CloseLockRes
<1>5. CASE CloseConn(p)
  BY <1>5 DEF CloseConn
<1>6. CASE CloseDrain(p)
  <2>1. CloseNote \in Responses
    BY DEF CloseNote, Responses, ResKinds
  <2>2. PICK i \in Ids :
          /\ pendingRes[i] # None
          /\ pendingRes' = [pendingRes EXCEPT ![i] = None]
          /\ chan' = Tell(pendingRes[i])
    BY <1>6 DEF CloseDrain
  <2>3. chan' \in [Calls -> Responses \cup {None}]
    BY <2>1, <2>2 DEF Tell
  <2>4. pendingRes' \in [Ids -> Calls \cup {None}]
    BY <2>2
  <2>5. QED BY <1>6, <2>3, <2>4 DEF CloseDrain
<1>7. CASE CloseUnlock(p)
  BY <1>7 DEF CloseUnlock
<1>8. CASE CloseCallback(p)
  BY <1>8 DEF CloseCallback
<1>9. QED BY <1>1, <1>2, <1>3, <1>4, <1>5, <1>6, <1>7, <1>8 DEF CloseStep

\* What the peer appends to the connection are messages.
LEMMA ReplyType ==
  ASSUME TypeOK, NEW q \in asked, NEW t \in ResKinds
  PROVE  Reply(q, t) \in Messages
  BY DEF Reply, TypeOK, Messages

LEMMA FaultType ==
  ASSUME NEW code \in FaultCodes \cup {0}, NEW t \in {"f", "?"}
  PROVE  [t |-> t, id |-> 0, n |-> code] \in Messages
<1>1. 0 \in Ids /\ code \in Nat
  BY DEF Ids
<1>2. QED BY <1>1 DEF Messages

\* After a fault the inbox still holds messages.
LEMMA FaultInbox ==
  ASSUME inbox \in Seq(Messages), PeerFault
  PROVE  inbox' \in Seq(Messages)
<1>1. ASSUME NEW m \in Messages PROVE Append(inbox, m) \in Seq(Messages)
  OBVIOUS
<1>2. CASE \E code \in FaultCodes : inbox' = Append(inbox, [t |-> "f", id |-> 0, n |-> code])
  <2>1. PICK code \in FaultCodes : inbox' = Append(inbox, [t |-> "f", id |-> 0, n |-> code])
    BY <1>2
  <2>2. [t |-> "f", id |-> 0, n |-> code] \in Messages
    BY FaultType
  <2>3. QED BY <1>1, <2>1, <2>2
<1>3. CASE inbox' = Append(inbox, [t |-> "?", id |-> 0, n |-> 0])
  <2>1. [t |-> "?", id |-> 0, n |-> 0] \in Messages
    BY FaultType
  <2>2. QED BY <1>1, <1>3, <2>1
<1>4. QED BY <1>2, <1>3 DEF PeerFault

LEMMA PeerTypeOK ==
  ASSUME TypeOK, PeerStep
  PROVE  TypeOK'
<1> USE DEF TypeOK, sockVars, callVars, readVars, closeVars
<1>1. CASE PeerFault
  <2>1. inbox' \in Seq(Messages)
    BY <1>1, FaultInbox
  <2>2. QED BY <1>1, <2>1 DEF PeerFault
<1>2. CASE PeerLeaves
  BY <1>2 DEF PeerLeaves
<1>3. ASSUME NEW q \in asked, PeerAnswer(q)
      PROVE  TypeOK'
  <2>1. /\ Reply(q, "R") \in Messages /\ Reply(q, "E") \in Messages
        /\ Reply(q, "e") \in Messages /\ Reply(q, "EOS") \in Messages
    BY ReplyType DEF ResKinds
  <2>2. /\ Append(inbox, Reply(q, "R")) \in Seq(Messages)
        /\ Append(inbox, Reply(q, "E")) \in Seq(Messages)
        /\ Append(inbox, Reply(q, "e")) \in Seq(Messages)
        /\ inbox \o <<Reply(q, "E"), Reply(q, "EOS")>> \in Seq(Messages)
    BY <2>1
  <2>3. inbox' \in Seq(Messages) /\ q.c \in Calls
    BY <1>3, <2>2 DEF PeerAnswer
  <2>4. /\ retries' \in Nat /\ served' \subseteq Calls /\ refused' \subseteq Calls
        /\ asked' \subseteq asked
    BY <1>3, <2>3 DEF PeerAnswer
  <2>5. QED BY <1>3, <2>3, <2>4, SMTT(30) DEF PeerAnswer
<1>4. ASSUME NEW q \in asked, PeerStream(q)
      PROVE  TypeOK'
  <2>1. Reply(q, "S") \in Messages /\ Reply(q, "EOS") \in Messages
    BY ReplyType DEF ResKinds
  <2>6. q \in [c : Calls, id : Ids, n : Nat, parts : Nat]
    OBVIOUS
  <2>7. /\ Append(inbox, Reply(q, "S")) \in Seq(Messages)
        /\ Append(inbox, Reply(q, "EOS")) \in Seq(Messages)
    BY <2>1
  <2>2. inbox' \in Seq(Messages) /\ q.c \in Calls
    <3>1. inbox' = Append(inbox, Reply(q, "S")) \/ inbox' = Append(inbox, Reply(q, "EOS"))
      BY <1>4, Zenon DEF PeerStream
    <3>2. inbox' \in Seq(Messages)
      BY <3>1, <2>7, Zenon
    <3>3. q.c \in Calls
      BY <2>6
    <3>4. QED BY <3>2, <3>3
  <2>3. q.parts > 0 => OnePartLess(q) \in [c : Calls, id : Ids, n : Nat, parts : Nat]
    BY <2>6 DEF OnePartLess
  <2>4. asked' \subseteq [c : Calls, id : Ids, n : Nat, parts : Nat]
    BY <1>4, <2>3 DEF PeerStream
  <2>5. served' \subseteq Calls /\ refused' \subseteq Calls
    BY <1>4, <2>2 DEF PeerStream
  <2>8. QED BY <1>4, <2>2, <2>4, <2>5 DEF PeerStream
<1>5. QED BY <1>1, <1>2, <1>3, <1>4 DEF PeerStep

LEMMA NextTypeOK == TypeOK /\ [Next]_vars => TypeOK'
<1> SUFFICES ASSUME TypeOK, [Next]_vars PROVE TypeOK' OBVIOUS
<1>1. ASSUME NEW c \in Calls, CallStep(c) PROVE TypeOK'
  BY <1>1, CallTypeOK
<1>2. CASE ReaderStep
  BY <1>2, ReaderTypeOK
<1>3. ASSUME NEW p \in Procs, CallClose(p) \/ CloseStep(p) PROVE TypeOK'
  BY <1>3, CloseTypeOK
<1>4. CASE Shutdown
  BY <1>4 DEF Shutdown, TypeOK, callVars, readVars, closeVars, peerVars
<1>5. CASE PeerStep
  BY <1>5, PeerTypeOK
<1>6. CASE UNCHANGED vars
  BY <1>6 DEF TypeOK, vars, sockVars, callVars, readVars, closeVars, peerVars
<1>7. CASE Terminating
  BY <1>6, <1>7 DEF Terminating
<1>8. QED BY <1>1, <1>2, <1>3, <1>4, <1>5, <1>6, <1>7 DEF Next

\* Every variable keeps its type.
THEOREM TypeCorrect == Spec => []TypeOK
  BY InitTypeOK, NextTypeOK, PTL DEF Spec

-----------------------------------------------------------------------------
(* The inductive invariant, action by action.                               *)

\* A counter below the number of ids has not wrapped.
LEMMA SmallMod == ASSUME NEW n \in Nat \ {0}, NEW a \in 0 .. n - 1 PROVE a % n = a
  OBVIOUS

\* One genuine message after genuine messages.
LEMMA GenuineAppend ==
  ASSUME NEW s \in Seq(Messages), NEW x \in Messages, Genuine(x),
         \A k \in 1 .. Len(s) : Genuine(s[k])
  PROVE  /\ Append(s, x) \in Seq(Messages)
         /\ \A k \in 1 .. Len(Append(s, x)) : Genuine(Append(s, x)[k])
<1>0. Append(s, x) \in Seq(Messages)
  OBVIOUS
<1> SUFFICES ASSUME NEW k \in 1 .. Len(Append(s, x)) PROVE Genuine(Append(s, x)[k])
  OBVIOUS
<1>1. (k \in 1 .. Len(s) /\ Append(s, x)[k] = s[k]) \/ Append(s, x)[k] = x
  OBVIOUS
<1>2. QED BY <1>0, <1>1

\* SendRequest's shutdown test.
LEMMA SendKeepsCore ==
  ASSUME TypeOK, Core, NoIdReused, NEW c \in Calls, SendRequest(c)
  PROVE  Core'
<1> USE DEF Core, NoIdReused, Ids, InTable, Held, Buffers, sockVars, callVars,
            readVars, closeVars, peerVars
<1> USE DEF SendRequest, Goto, Ends
<1>1. Numbered'
  BY DEF TypeOK, Numbered
<1>2. Table'
  BY DEF TypeOK, Numbered, Table
<1>3. Fresh'
  BY DEF TypeOK, Table, Fresh, Numbered, Final
<1>4. Final'
  BY DEF TypeOK, Final, Table, Fresh
<1>5. Reachable'
  BY DEF TypeOK, Reachable, WillWake, Numbered, Table, Fresh
<1>6. Wire'
  BY DEF TypeOK, Wire, Genuine
<1>7. Own'
  BY DEF TypeOK, Own, Misplaced, Fresh
<1>8. QED BY <1>1, <1>2, <1>3, <1>4, <1>5, <1>6, <1>7

\* The one step that uses an id: it is the one the counter has reached, no table
\* entry has it, and nothing can reach the call from before.
LEMMA RegisterKeepsCore ==
  ASSUME TypeOK, Core, NoIdReused', NEW c \in Calls, registerResChan(c)
  PROVE  Core'
<1> USE DEF Core, NoIdReused, Ids, InTable, Held, Buffers, sockVars, callVars,
            readVars, closeVars, peerVars
<1> USE DEF registerResChan, Goto
<1>1. Numbered'
  <2>1. issued + 1 < IdSpace => (issued + 1) % IdSpace = issued + 1
    <3>1. IdSpace \in Nat \ {0} /\ issued \in Nat
      BY DEF TypeOK
    <3>2. issued + 1 < IdSpace => issued + 1 \in 0 .. IdSpace - 1
      BY <3>1
    <3>3. QED BY <3>1, <3>2, SmallMod
  <2>2. issued < IdSpace /\ nextOpID = issued /\ issued' = issued + 1
    BY DEF TypeOK, Numbered
  <2>3. issued' < IdSpace => nextOpID' = issued'
    BY <2>1, <2>2 DEF NewOpID
  <2>4. \A d \in Calls : cur'[d] <= issued' /\ (cur'[d] # 0 => id'[d] = cur'[d] - 1)
    BY <2>2 DEF TypeOK, Numbered
  <2>5. \A d, e \in Calls : cur'[d] # 0 /\ cur'[d] = cur'[e] => d = e
    BY <2>2 DEF TypeOK, Numbered
  <2>6. QED BY <2>3, <2>4, <2>5 DEF TypeOK, Numbered
<1>2. Table'
  <2>1. ~InTable(c)
    BY DEF Fresh
  <2>2. ASSUME NEW i \in Ids, pendingRes'[i] # None
        PROVE  cur'[pendingRes'[i]] # 0 /\ id'[pendingRes'[i]] = i
    <3>1. CASE i = nextOpID
      BY <3>1 DEF TypeOK
    <3>2. CASE i # nextOpID
      BY <2>1, <2>2, <3>2 DEF TypeOK, Table
    <3>3. QED BY <3>1, <3>2
  <2>3. QED BY <2>2 DEF Table
<1>3. Fresh'
  BY DEF TypeOK, Table, Fresh, Numbered, Final
<1>4. Final'
  BY DEF TypeOK, Final, Table, Fresh
<1>5. Reachable'
  BY DEF TypeOK, Reachable, WillWake, Numbered, Table, Fresh
<1>6. Wire'
  BY DEF TypeOK, Wire, Genuine
<1>7. Own'
  BY DEF TypeOK, Own, Misplaced, Fresh
<1>8. QED BY <1>1, <1>2, <1>3, <1>4, <1>5, <1>6, <1>7

LEMMA WriteLockKeepsCore ==
  ASSUME TypeOK, Core, NoIdReused, NEW c \in Calls, WriteLock(c)
  PROVE  Core'
<1> USE DEF Core, NoIdReused, Ids, InTable, Held, Buffers, sockVars, callVars,
            readVars, closeVars, peerVars
<1> USE DEF WriteLock, Goto
<1>1. Numbered'
  BY DEF TypeOK, Numbered
<1>2. Table'
  BY DEF TypeOK, Numbered, Table
<1>3. Fresh'
  BY DEF TypeOK, Table, Fresh, Numbered, Final
<1>4. Final'
  BY DEF TypeOK, Final, Table, Fresh
<1>5. Reachable'
  BY DEF TypeOK, Reachable, WillWake, Numbered, Table, Fresh
<1>6. Wire'
  BY DEF TypeOK, Wire, Genuine
<1>7. Own'
  BY DEF TypeOK, Own, Misplaced, Fresh
<1>8. QED BY <1>1, <1>2, <1>3, <1>4, <1>5, <1>6, <1>7

\* A written request puts its registration on the wire.
LEMMA WriteOKKeepsCore ==
  ASSUME TypeOK, Core, NoIdReused, NEW c \in Calls, WriteOK(c)
  PROVE  Core'
<1> USE DEF Core, NoIdReused, Ids, InTable, Held, Buffers, sockVars, callVars,
            readVars, closeVars, peerVars
<1> USE DEF WriteOK, AfterWrite, Goto
<1>1. Numbered'
  BY DEF TypeOK, Numbered
<1>2. Table'
  BY DEF TypeOK, Numbered, Table
<1>3. Fresh'
  BY DEF TypeOK, Table, Fresh, Numbered, Final
<1>4. Final'
  BY DEF TypeOK, Final, Table, Fresh
<1>5. Reachable'
  BY SMTT(30) DEF TypeOK, Reachable, WillWake, Numbered, Table, Fresh
<1>6. Wire'
  <2>1. cur[c] # 0 /\ id[c] = cur[c] - 1
    BY DEF Numbered
  <2>2. \A q \in asked' : q \in asked \/ (q.id = id[c] /\ q.n = cur[c])
    OBVIOUS
  <2>3. QED BY <2>1, <2>2 DEF Wire
<1>7. Own'
  BY DEF TypeOK, Own, Misplaced, Fresh
<1>8. QED BY <1>1, <1>2, <1>3, <1>4, <1>5, <1>6, <1>7

LEMMA WriteFailKeepsCore ==
  ASSUME TypeOK, Core, NoIdReused, NEW c \in Calls, WriteFail(c)
  PROVE  Core'
<1> USE DEF Core, NoIdReused, Ids, InTable, Held, Buffers, sockVars, callVars,
            readVars, closeVars, peerVars
<1> USE DEF WriteFail, Goto
<1>1. Numbered'
  BY DEF TypeOK, Numbered
<1>2. Table'
  BY DEF TypeOK, Numbered, Table
<1>3. Fresh'
  BY DEF TypeOK, Table, Fresh, Numbered, Final
<1>4. Final'
  BY DEF TypeOK, Final, Table, Fresh
<1>5. Reachable'
  BY DEF TypeOK, Reachable, WillWake, Numbered, Table, Fresh
<1>6. Wire'
  BY DEF TypeOK, Wire, Genuine
<1>7. Own'
  BY DEF TypeOK, Own, Misplaced, Fresh
<1>8. QED BY <1>1, <1>2, <1>3, <1>4, <1>5, <1>6, <1>7

\* Ids determine calls, so a call forgets no entry but its own.
LEMMA ForgetKeepsCore ==
  ASSUME TypeOK, Core, NoIdReused, NEW c \in Calls, forgetResChan(c)
  PROVE  Core'
<1> USE DEF Core, NoIdReused, Ids, InTable, Held, Buffers, sockVars, callVars,
            readVars, closeVars, peerVars
<1> USE DEF forgetResChan, Goto
<1>1. Numbered'
  BY DEF TypeOK, Numbered
<1>2. Table'
  BY DEF TypeOK, Numbered, Table
<1>3. Fresh'
  BY DEF TypeOK, Table, Fresh, Numbered, Final
<1>4. Final'
  BY DEF TypeOK, Final, Table, Fresh
<1>5. Reachable'
  BY DEF TypeOK, Reachable, WillWake, Numbered, Table, Fresh
<1>6. Wire'
  BY DEF TypeOK, Wire, Genuine
<1>7. Own'
  BY DEF TypeOK, Own, Misplaced, Fresh
<1>8. QED BY <1>1, <1>2, <1>3, <1>4, <1>5, <1>6, <1>7

\* A call that sends again cannot be reached by its old registration.
LEMMA ReceiveKeepsCore ==
  ASSUME TypeOK, Core, NoIdReused, NEW c \in Calls, Receive(c)
  PROVE  Core'
<1> USE DEF Core, NoIdReused, Ids, InTable, Held, Buffers, sockVars, callVars,
            readVars, closeVars, peerVars
<1> USE DEF Receive, Goto, BufferNext, StreamNext, Responses, ResKinds, Ends
<1>1. Numbered'
  BY DEF TypeOK, Numbered
<1>2. Table'
  BY DEF TypeOK, Numbered, Table
<1>3. Fresh'
  BY DEF TypeOK, Table, Fresh, Numbered, Final
<1>4. Final'
  BY DEF TypeOK, Final, Table, Fresh
<1>5. Reachable'
  BY SMTT(30) DEF TypeOK, Reachable, WillWake, Numbered, Table, Fresh
<1>6. Wire'
  BY DEF TypeOK, Wire, Genuine
<1>7. Own'
  BY DEF TypeOK, Own, Misplaced, Fresh
<1>8. QED BY <1>1, <1>2, <1>3, <1>4, <1>5, <1>6, <1>7

LEMMA ConsumeKeepsCore ==
  ASSUME TypeOK, Core, NoIdReused, NEW c \in Calls, Consume(c)
  PROVE  Core'
<1> USE DEF Core, NoIdReused, Ids, InTable, Held, Buffers, sockVars, callVars,
            readVars, closeVars, peerVars
<1> USE DEF Consume, Goto
<1>1. Numbered'
  BY DEF TypeOK, Numbered
<1>2. Table'
  BY DEF TypeOK, Numbered, Table
<1>3. Fresh'
  BY DEF TypeOK, Table, Fresh, Numbered, Final
<1>4. Final'
  BY DEF TypeOK, Final, Table, Fresh
<1>5. Reachable'
  BY DEF TypeOK, Reachable, WillWake, Numbered, Table, Fresh
<1>6. Wire'
  BY DEF TypeOK, Wire, Genuine
<1>7. Own'
  BY DEF TypeOK, Own, Misplaced, Fresh
<1>8. QED BY <1>1, <1>2, <1>3, <1>4, <1>5, <1>6, <1>7

\* A response found in the table is its owner's.
LEMMA ReadResponseKeepsCore ==
  ASSUME TypeOK, Core, NoIdReused, readResponse
  PROVE  Core'
<1> USE DEF Core, NoIdReused, Ids, InTable, Held, Buffers, sockVars, callVars,
            readVars, closeVars, peerVars
<1> USE DEF readResponse, KeepsEntry
<1> DEFINE m == Head(inbox)
           ch == pendingRes[m.id]
<1>h. /\ m \in Messages /\ m.t \in ResKinds /\ m.id \in Ids /\ m.n \in Nat
      /\ [t |-> m.t, n |-> m.n] \in Responses
  BY HeadType DEF Messages
<1>w. m.n # 0 /\ m.id = m.n - 1
  <2>1. 1 \in 1 .. Len(inbox) /\ inbox[1] = m
    BY DEF TypeOK
  <2>2. QED BY <2>1, <1>h DEF Wire, Genuine
<1>t. /\ pendingRes' = IF KeepsEntry(m.t) THEN pendingRes
                        ELSE [pendingRes EXCEPT ![m.id] = None]
      /\ ch # None => /\ rpc' = "deliver" /\ rdst' = ch
                      /\ rmsg' = [t |-> m.t, n |-> m.n]
      /\ ch = None => rpc' = "read"
      /\ UNCHANGED <<pc, id, chan, issued, cur, cut, conn, nextOpID>>
  BY DEF TypeOK
<1>s. \A i \in Ids : pendingRes'[i] # None => pendingRes'[i] = pendingRes[i]
  BY <1>t, <1>h DEF TypeOK
<1>1. Numbered'
  BY DEF TypeOK, Numbered
<1>2. Table'
  BY DEF TypeOK, Numbered, Table
<1>3. Fresh'
  <2>1. ASSUME NEW c \in Calls, pc[c] \in {"send", "register"}
        PROVE  ~InTable(c)' /\ chan'[c] = None /\ ~Held(c)'
    <3>1. ~InTable(c) /\ chan[c] = None
      BY <2>1 DEF Fresh
    <3>2. ch # c
      BY <3>1, <1>h
    <3>3. ~InTable(c)'
      BY <3>1, <1>s
    <3>4. QED BY <3>1, <3>2, <3>3, <1>t
  <2>2. QED BY <2>1, <1>t DEF Fresh
<1>4. Final'
  <2>1. ASSUME rpc' = "deliver"
        PROVE  /\ rmsg' # None /\ rdst' # None
               /\ ~KeepsEntry(rmsg'.t) => ~InTable(rdst)'
    <3>1. ch # None /\ rdst' = ch /\ rmsg' = [t |-> m.t, n |-> m.n] /\ rmsg'.t = m.t
      BY <2>1, <1>t
    <3>2. rmsg' # None
      BY <3>1, <1>h DEF Responses, ResKinds
    <3>3. ASSUME ~KeepsEntry(m.t), NEW i \in Ids PROVE pendingRes'[i] # ch
      <4>1. id[ch] = m.id
        BY <3>1, <1>h DEF Table
      <4>2. pendingRes[i] = ch => i = m.id
        BY <4>1, <3>1 DEF Table
      <4>3. pendingRes' = [pendingRes EXCEPT ![m.id] = None]
        BY <3>3, <1>t
      <4>4. QED BY <4>2, <4>3, <3>1, <1>h DEF TypeOK
    <3>4. QED BY <3>1, <3>2, <3>3
  <2>2. ASSUME NEW c \in Calls, chan[c] # None, chan[c].t = "e"
        PROVE  ~InTable(c)' /\ ~Held(c)'
    <3>1. ~InTable(c)
      BY <2>2 DEF Final
    <3>2. ch # c
      BY <3>1, <1>h
    <3>3. QED BY <3>1, <3>2, <1>s, <1>t
  <2>3. QED BY <2>1, <2>2, <1>t DEF Final
<1>5. Reachable'
  BY DEF TypeOK, Reachable, WillWake, Numbered, Table, Fresh
<1>6. Wire'
  BY DEF TypeOK, Wire, Genuine
<1>7. Own'
  <2>1. \A c \in Calls : ~Misplaced(c, chan[c])'
    BY <1>t DEF Own, Misplaced
  <2>2. ASSUME rpc' = "deliver" PROVE ~Misplaced(rdst, rmsg)'
    <3>1. ch # None /\ rdst' = ch /\ rmsg'.n = m.n
      BY <2>2, <1>t
    <3>2. ch \in Calls /\ id[ch] = m.id /\ cur[ch] # 0
      BY <3>1, <1>h DEF Table, TypeOK
    <3>3. id[ch] = cur[ch] - 1 /\ cur[ch] \in Nat
      BY <3>2 DEF Numbered, TypeOK
    <3>4. cur[ch] = m.n
      BY <3>2, <3>3, <1>w, <1>h
    <3>5. QED BY <3>1, <3>4, <1>t DEF Misplaced
  <2>3. QED BY <2>1, <2>2 DEF Own
<1>8. QED BY <1>1, <1>2, <1>3, <1>4, <1>5, <1>6, <1>7

\* What the reader held is now in the channel.
LEMMA DeliverKeepsCore ==
  ASSUME TypeOK, Core, NoIdReused, Deliver
  PROVE  Core'
<1> USE DEF Core, NoIdReused, Ids, InTable, Held, Buffers, sockVars, callVars,
            readVars, closeVars, peerVars
<1> USE DEF Deliver, CanSend, KeepsEntry
<1>1. Numbered'
  BY DEF TypeOK, Numbered
<1>2. Table'
  BY DEF TypeOK, Numbered, Table
<1>3. Fresh'
  BY DEF TypeOK, Table, Fresh, Numbered, Final
<1>4. Final'
  BY DEF TypeOK, Final, Table, Fresh
<1>5. Reachable'
  <2>1. rmsg # None /\ rdst \in Calls
    BY DEF Final, TypeOK
  <2>2. ASSUME NEW c \in Calls, WillWake(c) PROVE WillWake(c)'
    BY <2>1, <2>2 DEF WillWake, TypeOK
  <2>3. QED BY <2>2 DEF Reachable
<1>6. Wire'
  BY DEF TypeOK, Wire, Genuine
<1>7. Own'
  BY DEF TypeOK, Own, Misplaced, Fresh
<1>8. QED BY <1>1, <1>2, <1>3, <1>4, <1>5, <1>6, <1>7

LEMMA ReadFailsKeepsCore ==
  ASSUME TypeOK, Core, NoIdReused, ReadFails
  PROVE  Core'
<1> USE DEF Core, NoIdReused, Ids, InTable, Held, Buffers, sockVars, callVars,
            readVars, closeVars, peerVars
<1> USE DEF ReadFails, StopWithClose, StopOnTimeout, StopAsIs, StopWithError
<1>1. Numbered'
  BY DEF TypeOK, Numbered
<1>2. Table'
  BY DEF TypeOK, Numbered, Table
<1>3. Fresh'
  BY DEF TypeOK, Table, Fresh, Numbered, Final
<1>4. Final'
  BY DEF TypeOK, Final, Table, Fresh
<1>5. Reachable'
  BY DEF TypeOK, Reachable, WillWake, Numbered, Table, Fresh
<1>6. Wire'
  BY DEF TypeOK, Wire, Genuine
<1>7. Own'
  BY DEF TypeOK, Own, Misplaced, Fresh
<1>8. QED BY <1>1, <1>2, <1>3, <1>4, <1>5, <1>6, <1>7

LEMMA CutKeepsCore ==
  ASSUME TypeOK, Core, NoIdReused, ReadCutPayload
  PROVE  Core'
<1> USE DEF Core, NoIdReused, Ids, InTable, Held, Buffers, sockVars, callVars,
            readVars, closeVars, peerVars
<1> USE DEF ReadCutPayload, StopWithClose, StopOnTimeout, StopAsIs, StopWithError
<1>1. Numbered'
  BY DEF TypeOK, Numbered
<1>2. Table'
  BY DEF TypeOK, Numbered, Table
<1>3. Fresh'
  BY DEF TypeOK, Table, Fresh, Numbered, Final
<1>4. Final'
  BY DEF TypeOK, Final, Table, Fresh
<1>5. Reachable'
  BY DEF TypeOK, Reachable, WillWake, Numbered, Table, Fresh
<1>6. Wire'
  BY DEF TypeOK, Wire, Genuine
<1>7. Own'
  BY DEF TypeOK, Own, Misplaced, Fresh
<1>8. QED BY <1>1, <1>2, <1>3, <1>4, <1>5, <1>6, <1>7

LEMMA FaultKeepsCore ==
  ASSUME TypeOK, Core, NoIdReused, ReadProtocolError
  PROVE  Core'
<1> USE DEF Core, NoIdReused, Ids, InTable, Held, Buffers, sockVars, callVars,
            readVars, closeVars, peerVars
<1> USE DEF ReadProtocolError, StopWithClose, StopAsIs, StopWithError
<1>1. Numbered'
  BY DEF TypeOK, Numbered
<1>2. Table'
  BY DEF TypeOK, Numbered, Table
<1>3. Fresh'
  BY DEF TypeOK, Table, Fresh, Numbered, Final
<1>4. Final'
  BY DEF TypeOK, Final, Table, Fresh
<1>5. Reachable'
  BY DEF TypeOK, Reachable, WillWake, Numbered, Table, Fresh
<1>6. Wire'
  BY DEF TypeOK, Wire, Genuine
<1>7. Own'
  BY DEF TypeOK, Own, Misplaced, Fresh
<1>8. QED BY <1>1, <1>2, <1>3, <1>4, <1>5, <1>6, <1>7

LEMMA ReturnsKeepsCore ==
  ASSUME TypeOK, Core, NoIdReused, ReadReturns
  PROVE  Core'
<1> USE DEF Core, NoIdReused, Ids, InTable, Held, Buffers, sockVars, callVars,
            readVars, closeVars, peerVars
<1> USE DEF ReadReturns
<1>1. Numbered'
  BY DEF TypeOK, Numbered
<1>2. Table'
  BY DEF TypeOK, Numbered, Table
<1>3. Fresh'
  BY DEF TypeOK, Table, Fresh, Numbered, Final
<1>4. Final'
  BY DEF TypeOK, Final, Table, Fresh
<1>5. Reachable'
  BY DEF TypeOK, Reachable, WillWake, Numbered, Table, Fresh
<1>6. Wire'
  BY DEF TypeOK, Wire, Genuine
<1>7. Own'
  BY DEF TypeOK, Own, Misplaced, Fresh
<1>8. QED BY <1>1, <1>2, <1>3, <1>4, <1>5, <1>6, <1>7

\* Close takes an entry away only from a call it has told, or that has a response.
LEMMA DrainKeepsCore ==
  ASSUME TypeOK, Core, NoIdReused, NEW p \in Procs, CloseDrain(p)
  PROVE  Core'
<1> USE DEF Core, NoIdReused, Ids, InTable, Held, Buffers, sockVars, callVars,
            readVars, closeVars, peerVars
<1> USE DEF CloseDrain, Tell, CanSend, CloseNote
<1>1. Numbered'
  BY DEF TypeOK, Numbered
<1>2. Table'
  BY DEF TypeOK, Numbered, Table
<1>3. Fresh'
  BY DEF TypeOK, Table, Fresh, Numbered, Final
<1>4. Final'
  BY DEF TypeOK, Final, Table, Fresh
<1>5. Reachable'
  BY DEF TypeOK, Reachable, WillWake, Numbered, Table, Fresh
<1>6. Wire'
  BY DEF TypeOK, Wire, Genuine
<1>7. Own'
  BY DEF TypeOK, Own, Misplaced, Fresh
<1>8. QED BY <1>1, <1>2, <1>3, <1>4, <1>5, <1>6, <1>7

LEMMA CloseConnKeepsCore ==
  ASSUME TypeOK, Core, NoIdReused, NEW p \in Procs, CloseConn(p)
  PROVE  Core'
<1> USE DEF Core, NoIdReused, Ids, InTable, Held, Buffers, sockVars, callVars,
            readVars, closeVars, peerVars
<1> USE DEF CloseConn, At
<1>1. Numbered'
  BY DEF TypeOK, Numbered
<1>2. Table'
  BY DEF TypeOK, Numbered, Table
<1>3. Fresh'
  BY DEF TypeOK, Table, Fresh, Numbered, Final
<1>4. Final'
  BY DEF TypeOK, Final, Table, Fresh
<1>5. Reachable'
  BY DEF TypeOK, Reachable, WillWake, Numbered, Table, Fresh
<1>6. Wire'
  BY DEF TypeOK, Wire, Genuine
<1>7. Own'
  BY DEF TypeOK, Own, Misplaced, Fresh
<1>8. QED BY <1>1, <1>2, <1>3, <1>4, <1>5, <1>6, <1>7

\* The peer answers with the number and the id it was given.
LEMMA PeerKeepsCore ==
  ASSUME TypeOK, Core, NoIdReused, PeerStep
  PROVE  Core'
<1> USE DEF Core, NoIdReused, Ids, InTable, Held, Buffers, sockVars, callVars,
            readVars, closeVars, peerVars
<1> USE DEF PeerStep, PeerFault, PeerLeaves, PeerAnswer, PeerStream, Reply, OnePartLess, ResKinds
<1>u. UNCHANGED <<pc, id, chan, issued, cur, rpc, rmsg, rdst, cut, conn, nextOpID, pendingRes>>
  OBVIOUS
<1>1. Numbered'
  BY <1>u DEF Numbered
<1>2. Table'
  BY DEF TypeOK, Numbered, Table
<1>3. Fresh'
  BY DEF TypeOK, Table, Fresh, Numbered, Final
<1>4. Final'
  BY DEF TypeOK, Final, Table, Fresh
<1>5. Reachable'
  BY DEF TypeOK, Reachable, WillWake, Numbered, Table, Fresh
<1>6. Wire'
  <2>1. ASSUME NEW q \in asked, NEW t \in ResKinds
        PROVE  Reply(q, t) \in Messages /\ Genuine(Reply(q, t))
    <3>1. Reply(q, t) \in Messages
      BY ReplyType
    <3>2. QED BY <3>1 DEF Wire, Genuine
  <2>e. ASSUME NEW q \in asked
        PROVE  Reply(q, "E") \in Messages /\ Reply(q, "EOS") \in Messages
    BY <2>1
  <2>i. inbox \in Seq(Messages)
    BY DEF TypeOK
  <2>2. CASE PeerFault \/ PeerLeaves
    <3>1. asked' = asked
      BY <2>2
    <3>2. ASSUME NEW code \in FaultCodes \cup {0}, NEW t \in {"f", "?"}
          PROVE  /\ [t |-> t, id |-> 0, n |-> code] \in Messages
                 /\ Genuine([t |-> t, id |-> 0, n |-> code])
      <4>1. [t |-> t, id |-> 0, n |-> code] \in Messages
        BY FaultType, Zenon
      <4>2. QED BY <4>1 DEF Genuine
    <3>3. CASE PeerFault
      <4>1. PICK x \in Messages : inbox' = Append(inbox, x) /\ Genuine(x)
        BY <3>2, <3>3, Zenon DEF PeerFault
      <4>2. QED BY <3>1, <4>1, GenuineAppend DEF Wire, TypeOK
    <3>4. QED BY <2>2, <3>1, <3>3 DEF Wire
  <2>3. ASSUME NEW q \in asked, PeerAnswer(q)
        PROVE  Wire'
    <3>1. asked' \subseteq asked
      BY <2>3
    <3>2. \/ \E t \in ResKinds : inbox' = Append(inbox, Reply(q, t))
          \/ inbox' = Append(Append(inbox, Reply(q, "E")), Reply(q, "EOS"))
      <4>1. inbox \o <<Reply(q, "E"), Reply(q, "EOS")>>
              = Append(Append(inbox, Reply(q, "E")), Reply(q, "EOS"))
        BY <2>e, <2>i, SMTT(30)
      <4>2. QED BY <2>3, <4>1, Zenon DEF PeerAnswer, ResKinds
    <3>3. CASE \E t \in ResKinds : inbox' = Append(inbox, Reply(q, t))
      BY <3>1, <3>3, <2>1, GenuineAppend DEF Wire, TypeOK
    <3>4. CASE inbox' = Append(Append(inbox, Reply(q, "E")), Reply(q, "EOS"))
      <4>1. Append(inbox, Reply(q, "E")) \in Seq(Messages)
        BY <2>1, GenuineAppend DEF Wire, TypeOK
      <4>2. \A k \in 1 .. Len(Append(inbox, Reply(q, "E"))) :
              Genuine(Append(inbox, Reply(q, "E"))[k])
        BY <2>1, GenuineAppend DEF Wire, TypeOK
      <4>3. \A k \in 1 .. Len(inbox') : Genuine(inbox'[k])
        BY <2>1, <3>4, <4>1, <4>2, GenuineAppend
      <4>4. QED BY <3>1, <4>3 DEF Wire
    <3>5. QED BY <3>2, <3>3, <3>4
  <2>4. ASSUME NEW q \in asked, PeerStream(q)
        PROVE  Wire'
    <3>1. \A r \in asked' : r \in asked \/ (r.id = q.id /\ r.n = q.n)
      BY <2>4
    <3>2. \E t \in ResKinds : inbox' = Append(inbox, Reply(q, t))
      BY <2>4, Zenon DEF PeerStream, ResKinds
    <3>3. QED BY <3>1, <3>2, <2>1, GenuineAppend DEF Wire, TypeOK
  <2>5. QED BY <2>2, <2>3, <2>4
<1>7. Own'
  BY DEF TypeOK, Own, Misplaced, Fresh
<1>8. QED BY <1>1, <1>2, <1>3, <1>4, <1>5, <1>6, <1>7

\* Core reads none of the variables the other steps of closing change.
LEMMA FrameKeepsCore ==
  ASSUME Core, UNCHANGED <<nextOpID, pendingRes, conn, callVars, readVars, asked, inbox>>
  PROVE  Core'
<1> USE DEF Core, callVars, readVars
<1>1. Numbered' /\ Table'
  BY DEF Numbered, Table
<1>2. Fresh' /\ Final'
  BY DEF Fresh, Final, InTable, Held
<1>3. Reachable'
  BY DEF Reachable, WillWake
<1>4. Wire' /\ Own'
  BY DEF Wire, Genuine, Own, Misplaced
<1>5. QED BY <1>1, <1>2, <1>3, <1>4

LEMMA InitIInv == Init => IInv
<1> SUFFICES ASSUME Init PROVE IInv OBVIOUS
<1>1. TypeOK
  BY InitTypeOK
<1> USE DEF Init, InTable, Held, Buffers, Ids
<1>2. Numbered
  BY DEF Numbered
<1>3. Table /\ Fresh /\ Final /\ Reachable
  <2>1. \A i \in Ids : pendingRes[i] = None
    OBVIOUS
  <2>2. \A c \in Calls : ~InTable(c) /\ chan[c] = None /\ ~Held(c) /\ pc[c] = "send"
    BY <2>1
  <2>3. Table /\ Fresh
    BY <2>1, <2>2 DEF Table, Fresh
  <2>4. Final /\ Reachable
    BY <2>2 DEF Final, Reachable
  <2>5. QED BY <2>3, <2>4
<1>4. Wire /\ Own
  BY DEF Init, Wire, Genuine, Own, Misplaced
<1>5. QED BY <1>1, <1>2, <1>3, <1>4 DEF IInv, Core

\* Only a registration takes a number, and numbers are never given back.
LEMMA IssuedGrows ==
  ASSUME TypeOK, [Next]_vars
  PROVE  issued' = issued \/ issued' = issued + 1
<1>1. issued' = issued \/ \E c \in Calls : registerResChan(c)
  BY DEF Next, CallStep, SendRequest, WriteLock, WriteOK, WriteFail, forgetResChan,
         Receive, Consume, ReaderStep, readResponse, Deliver, ReadFails, ReadCutPayload,
         ReadProtocolError, ReadReturns, CallClose, CloseStep, CloseError, CloseSwitch,
         CloseLockRes, CloseConn, CloseDrain, CloseUnlock, CloseCallback, Shutdown,
         PeerStep, PeerFault, PeerLeaves, PeerAnswer, PeerStream, Terminating, vars,
         callVars
<1>2. QED BY <1>1 DEF registerResChan

LEMMA NextIInv == IInv /\ [Next]_vars => IInv'
<1> SUFFICES ASSUME IInv, [Next]_vars, NoIdReused' PROVE Core'
  BY NextTypeOK DEF IInv
<1>t. TypeOK
  BY DEF IInv
<1>m. NoIdReused
  BY <1>t, IssuedGrows DEF NoIdReused, TypeOK
<1>c. Core
  BY <1>m DEF IInv
<1>1. ASSUME NEW c \in Calls, CallStep(c) PROVE Core'
  BY <1>1, <1>t, <1>m, <1>c, SendKeepsCore, RegisterKeepsCore, WriteLockKeepsCore,
     WriteOKKeepsCore, WriteFailKeepsCore, ForgetKeepsCore, ReceiveKeepsCore,
     ConsumeKeepsCore DEF CallStep
<1>2. CASE ReaderStep
  BY <1>2, <1>t, <1>m, <1>c, ReadResponseKeepsCore, DeliverKeepsCore, ReadFailsKeepsCore,
     CutKeepsCore, FaultKeepsCore, ReturnsKeepsCore DEF ReaderStep
<1>3. ASSUME NEW p \in Procs, CallClose(p) \/ CloseStep(p) PROVE Core'
  <2>1. CASE CloseDrain(p) \/ CloseConn(p)
    BY <2>1, <1>t, <1>m, <1>c, DrainKeepsCore, CloseConnKeepsCore
  <2>2. CASE CallClose(p) \/ CloseError(p) \/ CloseSwitch(p) \/ CloseLockRes(p)
             \/ CloseUnlock(p) \/ CloseCallback(p)
    BY <2>2, <1>c, FrameKeepsCore DEF CallClose, CloseError, CloseSwitch, CloseLockRes,
       CloseUnlock, CloseCallback, sockVars, peerVars
  <2>3. QED BY <1>3, <2>1, <2>2 DEF CloseStep
<1>4. CASE Shutdown
  BY <1>4, <1>c, FrameKeepsCore DEF Shutdown, peerVars
<1>5. CASE PeerStep
  BY <1>5, <1>t, <1>m, <1>c, PeerKeepsCore
<1>6. CASE UNCHANGED vars
  BY <1>6, <1>c, FrameKeepsCore DEF vars, sockVars, peerVars
<1>7. CASE Terminating
  BY <1>6, <1>7 DEF Terminating
<1>8. QED BY <1>1, <1>2, <1>3, <1>4, <1>5, <1>6, <1>7 DEF Next

\* The strengthening holds in every reachable state.
THEOREM Invariance == Spec => []IInv
  BY InitIInv, NextIInv, PTL DEF Spec

\* While fewer requests were sent than there are ids, no call is ever handed the
\* response to another call's request or to an earlier attempt of its own.
THEOREM OwnAnswerAlways == Spec => []OwnAnswer
<1>1. IInv => OwnAnswer
  BY DEF IInv, Core, Own, OwnAnswer
<1>2. QED BY Invariance, <1>1, PTL

\* While fewer requests were sent than there are ids, a BufferRequest that waits
\* can always still be woken, by its response or by Close, unless its response's
\* payload was lost.
THEOREM NoOrphanAlways == Spec => []NoOrphan
<1>1. IInv => NoOrphan
  BY DEF IInv, Core, Reachable, NoOrphan
<1>2. QED BY Invariance, <1>1, PTL

-----------------------------------------------------------------------------
(* How a socket closes: CloseHandler runs once and last, and pendingRes is  *)
(* left with nobody it should not hold.                                     *)

-----------------------------------------------------------------------------
(* The switch: one goroutine closes.                                        *)

\* Switch reads the state of the closing goroutines and little else.
LEMMA FrameKeepsSwitch ==
  ASSUME Switch, UNCHANGED <<closex, conn, told, cpc, resmu>>,
         rpc' \in {"closing", "final"} \/ rpc \notin {"closing", "final"}
  PROVE  Switch'
  BY DEF Switch, InClose, HoldsRes

\* The reader starts a Close where its loop has ended, and never within one.
LEMMA ReaderKeepsSwitch ==
  ASSUME TypeOK, Switch, ReaderStep
  PROVE  Switch'
<1>r. Reader \in Procs
  BY DEF Procs
<1>1. CASE UNCHANGED <<closex, conn, told, cpc, resmu>> /\ rpc \in {"read", "deliver"}
  BY <1>1, FrameKeepsSwitch
<1>2. ASSUME UNCHANGED <<closex, conn, told, resmu>>, rpc = "read" \/ rpc = "exit",
             \/ rpc' = "exit" /\ cpc' = cpc
             \/ /\ rpc' \in {"closing", "final"}
                /\ cpc' = [cpc EXCEPT ![Reader] = "close"] \/ cpc' = [cpc EXCEPT ![Reader] = "error"]
      PROVE  Switch'
  BY <1>2, <1>r DEF Switch, TypeOK, InClose, HoldsRes
<1>3. CASE readResponse \/ Deliver
  BY <1>1, <1>3 DEF readResponse, Deliver, sockVars, closeVars
<1>4. CASE ReadFails \/ ReadCutPayload \/ ReadProtocolError
  BY <1>2, <1>4 DEF ReadFails, ReadCutPayload, ReadProtocolError, StopWithClose,
     StopWithError, StopOnTimeout, StopAsIs, sockVars
<1>5. CASE ReadReturns
  BY <1>5, <1>r DEF ReadReturns, sockVars, Switch, TypeOK, InClose, HoldsRes
<1>6. QED BY <1>3, <1>4, <1>5 DEF ReaderStep

\* Behind the switch a goroutine goes through Close alone.
LEMMA CloseKeepsSwitch ==
  ASSUME TypeOK, Switch, NEW p \in Procs, CallClose(p) \/ CloseStep(p)
  PROVE  Switch'
<1> USE DEF TypeOK, Switch, InClose, HoldsRes, At, Returned, callVars, readVars,
            sockVars, peerVars, Procs
<1>1. CASE CallClose(p)
  <2>1. p # Reader /\ cpc[p] = "idle" /\ UNCHANGED <<closex, conn, told, resmu, rpc>>
    BY <1>1 DEF CallClose
  <2>2. PICK l \in {"close", "error"} : cpc' = [cpc EXCEPT ![p] = l]
    BY <1>1 DEF CallClose
  <2>3. QED BY <2>1, <2>2
<1>2. CASE CloseError(p)
  BY <1>2 DEF CloseError
<1>3. CASE CloseSwitch(p)
  BY <1>3 DEF CloseSwitch, Won
<1>4. CASE CloseLockRes(p)
  BY <1>4 DEF CloseLockRes
<1>5. CASE CloseConn(p)
  BY <1>5 DEF CloseConn
<1>6. CASE CloseDrain(p)
  BY <1>6, FrameKeepsSwitch DEF CloseDrain, closeVars
<1>7. CASE CloseUnlock(p)
  BY <1>7 DEF CloseUnlock
<1>8. CASE CloseCallback(p)
  BY <1>8 DEF CloseCallback
<1>9. QED BY <1>1, <1>2, <1>3, <1>4, <1>5, <1>6, <1>7, <1>8 DEF CloseStep

LEMMA NextSwitch == TypeOK /\ Switch /\ [Next]_vars => Switch'
<1> SUFFICES ASSUME TypeOK, Switch, [Next]_vars PROVE Switch' OBVIOUS
<1>f. UNCHANGED <<closex, conn, told, cpc, resmu, rpc>> => Switch'
  BY FrameKeepsSwitch
<1>1. ASSUME NEW c \in Calls, CallStep(c) PROVE Switch'
  BY <1>1, <1>f DEF CallStep, SendRequest, registerResChan, WriteLock, WriteOK, WriteFail,
     forgetResChan, Receive, Consume, sockVars, closeVars, readVars
<1>2. CASE ReaderStep
  BY <1>2, ReaderKeepsSwitch
<1>3. ASSUME NEW p \in Procs, CallClose(p) \/ CloseStep(p) PROVE Switch'
  BY <1>3, CloseKeepsSwitch
<1>4. CASE Shutdown \/ PeerStep
  BY <1>4, <1>f DEF Shutdown, PeerStep, PeerFault, PeerLeaves, PeerAnswer, PeerStream,
     sockVars, closeVars, readVars
<1>5. CASE UNCHANGED vars \/ Terminating
  BY <1>5, <1>f DEF Terminating, vars, sockVars, closeVars, readVars
<1>6. QED BY <1>1, <1>2, <1>3, <1>4, <1>5 DEF Next

-----------------------------------------------------------------------------
(* Who is left in the table once Close has let go of it.                    *)

\* What Close leaves is an empty table; what comes after is a registration, and the
\* way of its call from there to forgetResChan.
LEMMA CallKeepsLate ==
  ASSUME TypeOK, Switch, Late, NEW c \in Calls, CallStep(c)
  PROVE  Late'
<1> USE DEF TypeOK, Late, Goto, Ids, sockVars
<1> SUFFICES ASSUME conn' = "closed", resmu' = None,
                    NEW i \in Ids, pendingRes'[i] # None
             PROVE  /\ id'[pendingRes'[i]] = i
                    /\ pc'[pendingRes'[i]] \in {"write", "writing", "forget"}
  OBVIOUS
<1>c. conn = "closed" /\ resmu = None
  BY DEF CallStep, SendRequest, registerResChan, WriteLock, WriteOK, WriteFail,
     forgetResChan, Receive, Consume
<1>1. CASE SendRequest(c)
  BY <1>c, <1>1 DEF SendRequest
<1>2. CASE registerResChan(c)
  BY <1>c, <1>2 DEF registerResChan
<1>3. CASE WriteLock(c)
  BY <1>c, <1>3 DEF WriteLock
<1>4. CASE WriteOK(c)
  BY <1>c, <1>4 DEF WriteOK
<1>5. CASE WriteFail(c)
  BY <1>c, <1>5 DEF WriteFail
<1>6. CASE forgetResChan(c)
  BY <1>c, <1>6 DEF forgetResChan
<1>7. CASE Receive(c)
  BY <1>c, <1>7 DEF Receive
<1>8. CASE Consume(c)
  BY <1>c, <1>8 DEF Consume
<1>9. QED BY <1>1, <1>2, <1>3, <1>4, <1>5, <1>6, <1>7, <1>8 DEF CallStep

\* Everybody else at most takes entries out.
LEMMA FrameKeepsLate ==
  ASSUME TypeOK, Late, UNCHANGED <<pc, id>>,
         conn' = "closed" /\ resmu' = None => conn = "closed" /\ resmu = None,
         \A i \in Ids : pendingRes'[i] # None => pendingRes'[i] = pendingRes[i]
  PROVE  Late'
  BY DEF Late

LEMMA CloseKeepsLate ==
  ASSUME TypeOK, Switch, Late, NEW p \in Procs, CallClose(p) \/ CloseStep(p)
  PROVE  Late'
<1> USE DEF sockVars, callVars
<1>1. CASE CallClose(p) \/ CloseError(p) \/ CloseSwitch(p) \/ CloseCallback(p)
  BY <1>1, FrameKeepsLate DEF CallClose, CloseError, CloseSwitch, CloseCallback
<1>2. CASE CloseLockRes(p) \/ CloseConn(p)
  <2>1. p # None
    BY DEF Procs
  <2>2. CASE CloseLockRes(p)
    BY <2>1, <2>2 DEF CloseLockRes, Late
  <2>3. CASE CloseConn(p)
    BY <2>1, <2>3 DEF CloseConn, Late, Switch, HoldsRes
  <2>4. QED BY <1>2, <2>2, <2>3
<1>3. CASE CloseDrain(p)
  <2>1. resmu = p /\ p # None
    BY <1>3 DEF CloseDrain, Switch, HoldsRes, Procs
  <2>2. QED BY <1>3, <2>1 DEF CloseDrain, Late
<1>4. CASE CloseUnlock(p)
  BY <1>4 DEF CloseUnlock, Late
<1>5. QED BY <1>1, <1>2, <1>3, <1>4 DEF CloseStep

LEMMA NextLate == TypeOK /\ Switch /\ Late /\ [Next]_vars => Late'
<1> SUFFICES ASSUME TypeOK, Switch, Late, [Next]_vars PROVE Late' OBVIOUS
<1>1. ASSUME NEW c \in Calls, CallStep(c) PROVE Late'
  BY <1>1, CallKeepsLate
<1>2. CASE ReaderStep
  <2>1. UNCHANGED <<pc, id, conn, resmu>>
    BY <1>2 DEF ReaderStep, readResponse, Deliver, ReadFails, ReadCutPayload,
       ReadProtocolError, ReadReturns, sockVars, callVars
  <2>2. \A i \in Ids : pendingRes'[i] # None => pendingRes'[i] = pendingRes[i]
    BY <1>2 DEF ReaderStep, readResponse, Deliver, ReadFails, ReadCutPayload,
       ReadProtocolError, ReadReturns, sockVars, TypeOK
  <2>3. QED BY <2>1, <2>2, FrameKeepsLate
<1>3. ASSUME NEW p \in Procs, CallClose(p) \/ CloseStep(p) PROVE Late'
  BY <1>3, CloseKeepsLate
<1>4. CASE Shutdown \/ PeerStep
  BY <1>4, FrameKeepsLate DEF Shutdown, PeerStep, PeerFault, PeerLeaves, PeerAnswer,
     PeerStream, sockVars, callVars
<1>5. CASE UNCHANGED vars \/ Terminating
  BY <1>5, FrameKeepsLate DEF Terminating, vars, sockVars, callVars
<1>6. QED BY <1>1, <1>2, <1>3, <1>4, <1>5 DEF Next

-----------------------------------------------------------------------------
(* A plain call gets one answer, and nothing holds on to it afterwards.     *)

\* A new message after messages that are no parts of a plain call's stream.
LEMMA WholeAppend ==
  ASSUME inbox \in Seq(Messages), NEW x \in Messages, inbox' = Append(inbox, x),
         UNCHANGED <<issued, cur>>,
         x.t \in {"S", "EOS"} => x.n <= issued /\ \A c \in Plain : cur[c] # x.n,
         \A k \in 1 .. Len(inbox) : inbox[k].t \in {"S", "EOS"} =>
           inbox[k].n <= issued /\ \A c \in Plain : cur[c] # inbox[k].n
  PROVE  \A k \in 1 .. Len(inbox') : inbox'[k].t \in {"S", "EOS"} =>
           inbox'[k].n <= issued' /\ \A c \in Plain : cur'[c] # inbox'[k].n
<1> SUFFICES ASSUME NEW k \in 1 .. Len(inbox'), inbox'[k].t \in {"S", "EOS"}
             PROVE  inbox'[k].n <= issued /\ \A c \in Plain : cur[c] # inbox'[k].n
  OBVIOUS
<1>1. (k \in 1 .. Len(inbox) /\ inbox'[k] = inbox[k]) \/ inbox'[k] = x
  OBVIOUS
<1>2. QED BY <1>1

\* What is asked and what is sent keep their owners when nobody registers.
LEMMA PeerKeepsOneAnswer ==
  ASSUME TypeOK, Core, OneAnswer, PeerStep
  PROVE  OneAnswer'
<1> USE DEF sockVars, callVars, readVars
<1>u. UNCHANGED <<issued, cur, rpc, rdst, rmsg>>
  BY DEF PeerStep, PeerFault, PeerLeaves, PeerAnswer, PeerStream
<1>i. inbox \in Seq(Messages)
  BY DEF TypeOK
<1>r. ASSUME NEW q \in asked, NEW t \in ResKinds
      PROVE  /\ Reply(q, t) \in Messages /\ Reply(q, t).t = t /\ Reply(q, t).n = q.n
             /\ q.n <= issued /\ \A c \in Plain : cur[c] = q.n => q.c = c
  BY ReplyType DEF Reply, OneAnswer
<1>a. \A r \in asked' : r.n <= issued' /\ \A c \in Plain : cur'[c] = r.n => r.c = c
  <2>1. CASE asked' \subseteq asked
    BY <2>1, <1>u DEF OneAnswer
  <2>2. CASE \E q \in asked : asked' = (asked \ {q}) \cup {OnePartLess(q)}
    <3>1. PICK q \in asked : asked' = (asked \ {q}) \cup {OnePartLess(q)}
      BY <2>2
    <3>2. OnePartLess(q).n = q.n /\ OnePartLess(q).c = q.c
      BY DEF OnePartLess
    <3>3. QED BY <3>1, <3>2, <1>u DEF OneAnswer
  <2>3. QED BY <2>1, <2>2 DEF PeerStep, PeerFault, PeerLeaves, PeerAnswer, PeerStream
<1>b. \A k \in 1 .. Len(inbox') : inbox'[k].t \in {"S", "EOS"} =>
        inbox'[k].n <= issued' /\ \A c \in Plain : cur'[c] # inbox'[k].n
  <2>1. CASE PeerFault
    <3>0. PICK t \in {"f", "?"}, code \in FaultCodes \cup {0} :
            inbox' = Append(inbox, [t |-> t, id |-> 0, n |-> code])
      BY <2>1 DEF PeerFault
    <3>1. PICK x \in Messages : inbox' = Append(inbox, x) /\ x.t \in {"f", "?"}
      BY <3>0, FaultType
    <3>2. QED BY <3>1, <1>i, <1>u, WholeAppend DEF OneAnswer
  <2>2. CASE PeerLeaves
    BY <2>2, <1>u DEF PeerLeaves, OneAnswer
  <2>3. ASSUME NEW q \in asked, PeerAnswer(q), q.c \notin Streams
        PROVE  \A k \in 1 .. Len(inbox') : inbox'[k].t \in {"S", "EOS"} =>
                 inbox'[k].n <= issued' /\ \A c \in Plain : cur'[c] # inbox'[k].n
    <3>1. PICK t \in {"R", "E", "e"} : inbox' = Append(inbox, Reply(q, t))
      BY <2>3 DEF PeerAnswer
    <3>2. Reply(q, t) \in Messages /\ Reply(q, t).t = t
      BY <1>r DEF ResKinds
    <3>3. QED BY <3>1, <3>2, <1>i, <1>u, WholeAppend DEF OneAnswer
  <2>4. ASSUME NEW q \in asked, q.c \notin Plain, NEW t \in ResKinds
        PROVE  /\ Reply(q, t) \in Messages
               /\ Reply(q, t).n <= issued /\ \A c \in Plain : cur[c] # Reply(q, t).n
    BY <2>4, <1>r
  <2>5. ASSUME NEW q \in asked, PeerAnswer(q), q.c \in Streams
        PROVE  \A k \in 1 .. Len(inbox') : inbox'[k].t \in {"S", "EOS"} =>
                 inbox'[k].n <= issued' /\ \A c \in Plain : cur'[c] # inbox'[k].n
    <3>1. q.c \notin Plain /\ q.c \notin Buffers
      BY <2>5 DEF Plain, Buffers
    <3>2. CASE inbox' = Append(inbox, Reply(q, "e"))
      BY <3>1, <3>2, <2>4, <1>i, <1>u, WholeAppend DEF OneAnswer, ResKinds
    <3>3. CASE inbox' = inbox \o <<Reply(q, "E"), Reply(q, "EOS")>>
      <4>1. Reply(q, "E") \in Messages /\ Reply(q, "EOS") \in Messages
        BY <1>r DEF ResKinds
      <4>2. ASSUME NEW k \in 1 .. Len(inbox')
            PROVE  \/ k \in 1 .. Len(inbox) /\ inbox'[k] = inbox[k]
                   \/ inbox'[k] \in {Reply(q, "E"), Reply(q, "EOS")}
        BY <3>3, <4>1, <1>i
      <4>3. QED BY <3>1, <4>2, <2>4, <1>u DEF OneAnswer, ResKinds
    <3>4. QED BY <2>5, <3>1, <3>2, <3>3 DEF PeerAnswer
  <2>6. ASSUME NEW q \in asked, PeerStream(q)
        PROVE  \A k \in 1 .. Len(inbox') : inbox'[k].t \in {"S", "EOS"} =>
                 inbox'[k].n <= issued' /\ \A c \in Plain : cur'[c] # inbox'[k].n
    <3>1. q.c \notin Plain
      BY <2>6 DEF PeerStream, Plain, Buffers
    <3>2. PICK t \in {"S", "EOS"} : inbox' = Append(inbox, Reply(q, t))
      BY <2>6, Zenon DEF PeerStream
    <3>3. QED BY <3>1, <3>2, <2>4, <1>i, <1>u, WholeAppend DEF OneAnswer, ResKinds
  <2>7. QED BY <2>1, <2>2, <2>3, <2>5, <2>6 DEF PeerStep
<1>c. rpc' = "deliver" /\ rdst' \in Plain => ~KeepsEntry(rmsg'.t)
  BY <1>u DEF OneAnswer
<1>d. QED BY <1>a, <1>b, <1>c DEF OneAnswer

\* A message taken off the connection leaves messages of the same kind.
LEMMA TailKeepsOneAnswer ==
  ASSUME TypeOK, OneAnswer, inbox # <<>>, inbox' = Tail(inbox),
         UNCHANGED <<issued, cur, asked>>,
         rpc' = "deliver" /\ rdst' \in Plain => ~KeepsEntry(rmsg'.t)
  PROVE  OneAnswer'
<1>i. inbox \in Seq(Messages)
  BY DEF TypeOK
<1>1. \A k \in 1 .. Len(inbox') : k + 1 \in 1 .. Len(inbox) /\ inbox'[k] = inbox[k + 1]
  BY <1>i
<1>2. QED BY <1>1 DEF OneAnswer

LEMMA FrameKeepsOneAnswer ==
  ASSUME OneAnswer, UNCHANGED <<issued, cur, asked, inbox>>,
         UNCHANGED <<rpc, rdst, rmsg>> \/ rpc' # "deliver"
  PROVE  OneAnswer'
  BY DEF OneAnswer

\* The reader hands on what the peer sent to the one it was meant for.
LEMMA ReaderKeepsOneAnswer ==
  ASSUME TypeOK, Core, OneAnswer, ReaderStep
  PROVE  OneAnswer'
<1> USE DEF sockVars, callVars, peerVars
<1>1. CASE readResponse
  <2> DEFINE m  == Head(inbox)
             ch == pendingRes[m.id]
  <2>1. ASSUME rpc' = "deliver", rdst' \in Plain PROVE ~KeepsEntry(rmsg'.t)
    <3>h. m \in Messages /\ inbox \in Seq(Messages) /\ inbox # <<>>
      BY <1>1, HeadType DEF readResponse, TypeOK
    <3>0. 1 \in 1 .. Len(inbox) /\ inbox[1] = m
      BY <3>h
    <3>1. ch # None /\ rdst' = ch /\ rmsg' = [t |-> m.t, n |-> m.n] /\ m.t \in ResKinds
      BY <1>1, <2>1 DEF readResponse
    <3>2. m.n # 0 /\ m.id = m.n - 1 /\ m.id \in Ids /\ m.n \in Nat
      BY <3>0, <3>1, <3>h DEF Core, Wire, Genuine, Messages
    <3>3. ch \in Calls /\ cur[ch] \in Nat /\ cur[ch] # 0 /\ id[ch] = m.id
      BY <3>1, <3>2 DEF Core, Table, TypeOK
    <3>4. id[ch] = cur[ch] - 1
      BY <3>3 DEF Core, Numbered
    <3>5. cur[ch] = m.n
      BY <3>2, <3>3, <3>4
    <3>6. m.t \notin {"S", "EOS"}
      BY <3>0, <3>1, <3>5, <2>1 DEF OneAnswer
    <3>7. QED BY <3>1, <3>6 DEF KeepsEntry
  <2>2. QED BY <1>1, <2>1, TailKeepsOneAnswer DEF readResponse
<1>2. CASE Deliver \/ ReadFails \/ ReadReturns
  BY <1>2, FrameKeepsOneAnswer DEF Deliver, ReadFails, ReadReturns, StopWithClose,
     StopOnTimeout, StopAsIs, StopWithError
<1>3. CASE ReadCutPayload \/ ReadProtocolError
  <2>1. rpc' # "deliver"
    BY <1>3 DEF ReadCutPayload, ReadProtocolError, StopWithClose,
       StopOnTimeout, StopAsIs, StopWithError
  <2>2. QED BY <1>3, <2>1, TailKeepsOneAnswer DEF ReadCutPayload, ReadProtocolError
<1>4. QED BY <1>1, <1>2, <1>3 DEF ReaderStep

\* A registration gets a number nothing under way carries.
LEMMA CallKeepsOneAnswer ==
  ASSUME TypeOK, Core, OneAnswer, NEW c \in Calls, CallStep(c)
  PROVE  OneAnswer'
<1> USE DEF sockVars, callVars, peerVars, readVars
<1>1. CASE registerResChan(c)
  <2>1. /\ issued \in Nat /\ issued' = issued + 1
        /\ \A d \in Calls : cur'[d] = cur[d] \/ cur'[d] = issued + 1
        /\ UNCHANGED <<asked, inbox, rpc, rdst, rmsg>>
    BY <1>1 DEF registerResChan, TypeOK
  <2>2. \A q \in asked : q.n \in Nat
    BY DEF TypeOK
  <2>3. inbox \in Seq(Messages) /\ \A k \in 1 .. Len(inbox) : inbox[k].n \in Nat
    <3>1. inbox \in Seq(Messages)
      BY DEF TypeOK
    <3>2. \A k \in 1 .. Len(inbox) : inbox[k] \in Messages
      BY <3>1
    <3>3. QED BY <3>1, <3>2 DEF Messages
  <2>4. QED BY <2>1, <2>2, <2>3 DEF OneAnswer, Plain, Buffers
<1>2. CASE WriteOK(c)
  <2>1. UNCHANGED <<issued, cur, inbox, rpc, rdst, rmsg>>
    BY <1>2 DEF WriteOK
  <2>2. CASE asked' = asked
    BY <2>1, <2>2 DEF OneAnswer
  <2>3. CASE pc[c] = "writing"
             /\ asked' = asked \cup {[c |-> c, id |-> id[c], n |-> cur[c], parts |-> MaxParts]}
    <3>1. cur[c] # 0 /\ cur[c] <= issued
          /\ \A d \in Calls : cur[c] # 0 /\ cur[c] = cur[d] => c = d
      BY <2>3 DEF Core, Numbered
    <3>2. QED BY <2>1, <2>3, <3>1 DEF OneAnswer, Plain, Buffers
  <2>4. QED BY <1>2, <2>2, <2>3 DEF WriteOK
<1>3. CASE SendRequest(c) \/ WriteLock(c) \/ WriteFail(c) \/ forgetResChan(c)
           \/ Receive(c) \/ Consume(c)
  BY <1>3, FrameKeepsOneAnswer DEF SendRequest, WriteLock, WriteFail, forgetResChan,
     Receive, Consume
<1>4. QED BY <1>1, <1>2, <1>3 DEF CallStep

\* A call's own steps: it returns with what was in its channel, or leaves the table.
LEMMA CallKeepsReleased ==
  ASSUME TypeOK, Core, Released, NEW c \in Calls, CallStep(c)
  PROVE  Released'
<1> USE DEF Core, Ids, InTable, Held, Ended, Ends, Goto, Plain, Buffers, sockVars,
            callVars, readVars, peerVars
<1>1. CASE SendRequest(c)
  BY <1>1 DEF SendRequest, TypeOK, Released, Fresh
<1>2. CASE registerResChan(c)
  BY <1>2 DEF registerResChan, TypeOK, Released, Fresh
<1>3. CASE WriteLock(c) \/ WriteFail(c)
  BY <1>3 DEF WriteLock, WriteFail, TypeOK, Released
<1>4. CASE WriteOK(c)
  BY <1>4 DEF WriteOK, AfterWrite, TypeOK, Released
<1>5. CASE forgetResChan(c)
  BY <1>5 DEF forgetResChan, TypeOK, Released, Table
<1>6. CASE Receive(c)
  BY <1>6 DEF Receive, TypeOK, Released
<1>7. CASE Consume(c)
  BY <1>7 DEF Consume, TypeOK, Released
<1>8. QED BY <1>1, <1>2, <1>3, <1>4, <1>5, <1>6, <1>7 DEF CallStep

\* A response reaches the reader from the table, and the channel from the reader.
LEMMA ReaderKeepsReleased ==
  ASSUME TypeOK, Core, OneAnswer, Released, ReaderStep, Core', OneAnswer'
  PROVE  Released'
<1> USE DEF Core, Ids, Plain, Buffers, sockVars, callVars, readVars, peerVars
<1>1. CASE readResponse
  <2> DEFINE ch == pendingRes[Head(inbox).id]
  <2>h. inbox \in Seq(Messages) /\ Head(inbox) \in Messages /\ Head(inbox).id \in Ids
    BY <1>1, HeadType DEF readResponse, TypeOK, Messages
  <2>1. /\ UNCHANGED <<pc, chan>>
        /\ rpc' = "deliver" => rdst' = ch /\ ch # None
        /\ \A i \in Ids : pendingRes'[i] # None => pendingRes'[i] = pendingRes[i]
    BY <1>1, <2>h DEF readResponse, TypeOK
  <2>2. ASSUME NEW c \in Plain, InTable(c)' PROVE InTable(c)
    BY <2>1, <2>2 DEF InTable
  <2>3. ASSUME NEW c \in Plain, Held(c)' PROVE InTable(c) /\ ~InTable(c)'
    <3>1. InTable(c)
      BY <2>1, <2>3, <2>h DEF Held, InTable
    <3>2. ~InTable(c)'
      BY <2>3 DEF Held, OneAnswer, Final
    <3>3. QED BY <3>1, <3>2
  <2>4. QED BY <2>1, <2>2, <2>3 DEF Released, Ended, Ends, InTable
<1>2. CASE Deliver
  <2>1. /\ UNCHANGED <<pc, pendingRes>> /\ rpc = "deliver" /\ rpc' = "read" /\ rdst \in Calls
        /\ chan' = [chan EXCEPT ![rdst] = rmsg]
    BY <1>2 DEF Deliver, TypeOK, Final
  <2>2. \A c \in Plain : ~Held(c)'
    BY <2>1 DEF Held
  <2>3. ASSUME NEW c \in Plain, chan'[c] # None PROVE ~InTable(c)'
    <3>1. CASE c = rdst
      <4>1. ~InTable(c)
        BY <2>1, <3>1 DEF OneAnswer, Final, Released
      <4>2. QED BY <4>1, <2>1 DEF InTable
    <3>2. CASE c # rdst
      BY <2>1, <2>3, <3>2 DEF Released, InTable, TypeOK
    <3>3. QED BY <3>1, <3>2
  <2>4. \A c \in Plain : pc'[c] \in {"data", "error"} => chan'[c] = None
    BY <2>1 DEF Released, Held, TypeOK
  <2>5. QED BY <2>1, <2>2, <2>3, <2>4 DEF Released, Ended, InTable
<1>3. CASE ReadFails \/ ReadCutPayload \/ ReadProtocolError \/ ReadReturns
  <2>1. UNCHANGED <<pc, chan>> /\ rpc' # "deliver"
    BY <1>3 DEF ReadFails, ReadCutPayload, ReadProtocolError, ReadReturns, StopWithClose,
       StopOnTimeout, StopAsIs, StopWithError
  <2>2. \A i \in Ids : pendingRes'[i] # None => pendingRes'[i] = pendingRes[i]
    BY <1>3 DEF ReadFails, ReadCutPayload, ReadProtocolError, ReadReturns, TypeOK
  <2>3. QED BY <2>1, <2>2 DEF Released, InTable, Held, Ended
<1>4. QED BY <1>1, <1>2, <1>3 DEF ReaderStep

\* Close gives its note only to calls it takes out of the table.
LEMMA DrainKeepsReleased ==
  ASSUME TypeOK, Core, Released, OneAnswer, NEW p \in Procs, CloseDrain(p)
  PROVE  Released'
<1> USE DEF Core, Ids, Plain, Buffers, readVars
<1>1. PICK i \in Ids : /\ pendingRes[i] # None
                       /\ pendingRes' = [pendingRes EXCEPT ![i] = None]
                       /\ chan' = Tell(pendingRes[i])
  BY DEF CloseDrain
<1>2. UNCHANGED <<pc, rpc, rdst>>
  BY DEF CloseDrain
<1>d. PICK d \in Calls : d = pendingRes[i]
  BY <1>1 DEF TypeOK
<1>3. InTable(d) /\ \A j \in Ids : pendingRes[j] = d => j = i
  BY <1>1, <1>d DEF Table, InTable
<1>4. ~InTable(d)'
  BY <1>1, <1>d, <1>3 DEF InTable, TypeOK
<1>5. \A c \in Plain : c # d => chan'[c] = chan[c]
  BY <1>1, <1>d DEF Tell, TypeOK
<1>6. \A c \in Plain : InTable(c)' => InTable(c)
  BY <1>1 DEF InTable, TypeOK
<1>7. d \in Plain => ~Ended(d) /\ ~Held(d)
  BY <1>3 DEF Released, OneAnswer, Final, Held
<1>8. QED BY <1>2, <1>3, <1>4, <1>5, <1>6, <1>7 DEF Released, Ended, Ends, Held

LEMMA FrameKeepsReleased ==
  ASSUME Released, UNCHANGED <<pc, chan, pendingRes, rpc, rdst>>
  PROVE  Released'
  BY DEF Released, InTable, Held, Ended

-----------------------------------------------------------------------------
(* The invariant, and what follows from it.                                 *)

LEMMA InitCloseInv == Init => CloseInv
<1> SUFFICES ASSUME Init PROVE CloseInv OBVIOUS
<1>1. IInv
  BY InitIInv
<1>2. Switch /\ Late
  BY DEF Init, Switch, Late, InClose, HoldsRes, Procs
<1>3. OneAnswer /\ Released
  BY DEF Init, OneAnswer, Released, InTable, Held, Ended, Ends, Ids, Plain, Buffers
<1>4. QED BY <1>1, <1>2, <1>3 DEF CloseInv

LEMMA NextCloseInv == CloseInv /\ [Next]_vars => CloseInv'
<1> SUFFICES ASSUME CloseInv, [Next]_vars PROVE CloseInv' OBVIOUS
<1>1. IInv' /\ TypeOK
  BY NextIInv DEF CloseInv, IInv
<1>2. Switch' /\ Late'
  BY <1>1, NextSwitch, NextLate DEF CloseInv
<1>3. ASSUME NoIdReused' PROVE OneAnswer' /\ Released'
  <2>m. NoIdReused
    BY <1>1, <1>3, IssuedGrows DEF NoIdReused, TypeOK
  <2>c. Core /\ OneAnswer /\ Released /\ Core'
    BY <1>1, <1>3, <2>m DEF CloseInv, IInv
  <2>1. ASSUME NEW c \in Calls, CallStep(c) PROVE OneAnswer' /\ Released'
    BY <2>1, <2>c, <1>1, CallKeepsOneAnswer, CallKeepsReleased
  <2>2. CASE ReaderStep
    BY <2>2, <2>c, <1>1, ReaderKeepsOneAnswer, ReaderKeepsReleased
  <2>3. ASSUME NEW p \in Procs, CallClose(p) \/ CloseStep(p) PROVE OneAnswer' /\ Released'
    <3>1. OneAnswer'
      BY <2>3, <2>c, FrameKeepsOneAnswer DEF CallClose, CloseStep, CloseError, CloseSwitch,
         CloseLockRes, CloseConn, CloseDrain, CloseUnlock, CloseCallback, callVars, readVars,
         peerVars
    <3>2. CASE CloseDrain(p)
      BY <3>1, <3>2, <2>3, <2>c, <1>1, DrainKeepsReleased
    <3>3. CASE ~CloseDrain(p)
      <4>1. UNCHANGED <<pc, chan, pendingRes, rpc, rdst>>
        BY <3>3, <2>3 DEF CallClose, CloseStep, CloseError, CloseSwitch, CloseLockRes,
           CloseConn, CloseUnlock, CloseCallback, callVars, readVars, sockVars
      <4>2. QED BY <3>1, <4>1, <2>c, FrameKeepsReleased
    <3>4. QED BY <3>1, <3>2, <3>3
  <2>4. CASE PeerStep
    BY <2>4, <2>c, <1>1, PeerKeepsOneAnswer, FrameKeepsReleased DEF PeerStep, PeerFault,
       PeerLeaves, PeerAnswer, PeerStream, callVars, readVars, sockVars
  <2>5. CASE Shutdown \/ Terminating \/ UNCHANGED vars
    BY <2>5, <2>c, FrameKeepsOneAnswer, FrameKeepsReleased DEF Shutdown, Terminating, vars,
       callVars, readVars, sockVars, peerVars
  <2>6. QED BY <2>1, <2>2, <2>3, <2>4, <2>5 DEF Next
<1>4. QED BY <1>1, <1>2, <1>3 DEF CloseInv

\* The strengthening for closing holds in every reachable state.
THEOREM CloseInvariance == Spec => []CloseInv
  BY InitCloseInv, NextCloseInv, PTL DEF Spec

\* pendingRes is left with nobody it should not hold: no BufferRequest that has
\* returned, and, once Close has let go of its locks, only calls that are about to
\* learn from their own failing write that they must leave.
THEOREM NothingLeftAlways == Spec => []NothingLeft
<1>1. ASSUME CloseInv PROVE NothingLeft
  <2> USE <1>1 DEF CloseInv
  <2>1. ASSUME NoIdReused, NEW c \in Plain
        PROVE  /\ Ended(c) => ~InTable(c)
               /\ pc[c] \in {"data", "error"} => ~WillWake(c)
    <3>1. id[c] \in Ids
      BY DEF IInv, TypeOK, Plain, Buffers
    <3>2. QED BY <2>1, <3>1 DEF Released, WillWake, InTable, Held, Ended, Ends
  <2>2. conn = "closed" /\ resmu = None =>
          \A c \in Calls : InTable(c) =>
            pc[c] \in {"write", "writing", "end", "ending", "forget"}
    BY DEF Late, InTable
  <2>3. QED BY <2>1, <2>2 DEF NothingLeft, Plain
<1>2. QED BY <1>1, CloseInvariance, PTL

\* CloseHandler runs at most once per connection, and only after every
\* BufferRequest that waits has its answer or Close's note on its way.
THEOREM ClosedOnceAndLastAlways == Spec => []ClosedOnceAndLast
<1>1. ASSUME CloseInv PROVE ClosedOnceAndLast
  <2> USE <1>1 DEF CloseInv
  <2>1. ASSUME told # <<>>, NoIdReused, NEW c \in Buffers \ cut, pc[c] = "await"
        PROVE  chan[c] # None \/ (rpc = "deliver" /\ rdst = c)
    <3>1. conn = "closed" /\ resmu = None
      BY <2>1 DEF Switch, IInv, TypeOK, InClose, HoldsRes
    <3>2. WillWake(c)
      BY <2>1 DEF IInv, Core, Reachable
    <3>3. pendingRes[id[c]] # c
      <4>1. c \in Calls /\ c # None /\ id[c] \in Ids
        BY DEF IInv, TypeOK, Buffers
      <4>2. QED BY <2>1, <3>1, <4>1 DEF Late
    <3>4. QED BY <3>2, <3>3 DEF WillWake
  <2>2. QED BY <2>1 DEF ClosedOnceAndLast, Switch
<1>2. QED BY <1>1, CloseInvariance, PTL

-----------------------------------------------------------------------------
(* SockRequests implements RequestReply: while no id has been used twice, a *)
(* call ends once, with data only if the peer served this very call, and    *)
(* with an error only if the peer turned it down or the link is down.       *)

-----------------------------------------------------------------------------
(* Steps that neither send nor hand on anything.                            *)

\* What a response says stays true while the peer only settles more calls.
LEMMA VouchedStays ==
  ASSUME served \subseteq served', refused \subseteq refused',
         NEW c, Untouched(c) => Untouched(c)', NEW t, Vouched(t, c)
  PROVE  Vouched(t, c)'
  BY DEF Vouched

\* A step may move calls on, except into the stretch before the write; take entries
\* out of the table; and bring the link down.
LEMMA QuietKeepsPromise ==
  ASSUME Promise, UNCHANGED <<asked, served, refused, inbox, issued, cur, chan>>,
         UNCHANGED <<rpc, rmsg, rdst>> \/ rpc' # "deliver",
         \A i \in Ids : pendingRes'[i] # None => pendingRes'[i] = pendingRes[i],
         conn = "closed" => conn' = "closed", LinkDown => LinkDown',
         \A c \in Calls :
           /\ pc'[c] \in {"send", "register", "write", "writing"} =>
                pc[c] \in {"send", "register", "write", "writing"}
           /\ pc'[c] \in {"write", "writing"} => pc[c] \in {"write", "writing"}
           /\ pc'[c] \in {"await", "busy"} => cur[c] # 0
           /\ pc'[c] = "forget" => LinkDown'
  PROVE  Promise'
<1> USE DEF Promise
<1>t. \A c \in Calls : InTable(c)' => InTable(c)
  BY DEF InTable
<1>u. \A c : Untouched(c)' <=> Untouched(c)
  BY DEF Untouched
<1>v. \A t, c : Vouched(t, c)' <=> Vouched(t, c)
  BY <1>u DEF Vouched
<1>1. Asked'
  BY DEF Asked, Unanswered
<1>2. Unsent'
  BY <1>u DEF Unsent, Held
<1>3. OnWire'
  <2>1. \A k \in 1 .. Len(inbox), c \in Calls : Overtaken(k, c) => Overtaken(k, c)'
    BY <1>t DEF Overtaken
  <2>2. QED BY <2>1, <1>v DEF OnWire
<1>4. InHand' /\ InChan'
  BY <1>v DEF InHand, InChan
<1>5. Waits'
  BY DEF Waits
<1>6. QED BY <1>1, <1>2, <1>3, <1>4, <1>5

\* A call's steps other than registering, sending its request and receiving.
LEMMA CallQuiet ==
  ASSUME TypeOK, Core, Promise, NEW c \in Calls,
         \/ SendRequest(c) \/ WriteLock(c) \/ WriteFail(c) \/ forgetResChan(c)
         \/ Consume(c) \/ (WriteOK(c) /\ asked' = asked /\ peer' = "gone")
         \/ (WriteOK(c) /\ asked' = asked /\ pc[c] = "ending")
  PROVE  Promise'
<1> USE DEF Goto, sockVars, callVars, readVars, peerVars
<1>1. /\ UNCHANGED <<asked, served, refused, inbox, issued, cur, chan, rpc, rmsg, rdst,
                     conn, peer, shutdownWg>>
      /\ \A d \in Calls : d # c => pc'[d] = pc[d]
  BY DEF SendRequest, WriteLock, WriteFail, forgetResChan, Consume, WriteOK, TypeOK
<1>2. \A i \in Ids : pendingRes'[i] # None => pendingRes'[i] = pendingRes[i]
  BY DEF SendRequest, WriteLock, WriteFail, forgetResChan, Consume, WriteOK, TypeOK
<1>3. \/ pc[c] = "send" /\ pc'[c] \in {"closed", "register"}
      \/ pc[c] = "write" /\ pc'[c] = "writing"
      \/ pc[c] = "end" /\ pc'[c] = "ending"
      \/ pc[c] \in {"writing", "ending"} /\ pc'[c] = "forget" /\ LinkDown
      \/ pc[c] = "forget" /\ pc'[c] = "closed"
      \/ pc[c] = "busy" /\ pc'[c] = "await"
      \/ pc[c] \in {"writing", "ending"} /\ pc'[c] \in {"await", "end", "busy"}
  BY DEF SendRequest, WriteLock, WriteFail, forgetResChan, Consume, WriteOK, AfterWrite,
         Buffers, TypeOK, LinkDown
<1>4. \A d \in Calls : /\ pc[d] \in {"await", "busy"} => cur[d] # 0
                       /\ pc[d] = "forget" => LinkDown
                       /\ pc[d] \in {"writing", "ending"} => cur[d] # 0
  BY DEF Promise, Waits, Core, Numbered
<1>5. LinkDown' <=> LinkDown
  BY <1>1 DEF LinkDown
<1>6. \A d \in Calls :
        /\ pc'[d] \in {"send", "register", "write", "writing"} =>
             pc[d] \in {"send", "register", "write", "writing"}
        /\ pc'[d] \in {"write", "writing"} => pc[d] \in {"write", "writing"}
        /\ pc'[d] \in {"await", "busy"} => cur[d] # 0
        /\ pc'[d] = "forget" => LinkDown'
  BY <1>1, <1>3, <1>4, <1>5
<1>7. QED BY <1>1, <1>2, <1>5, <1>6, QuietKeepsPromise

\* Steps of closing, but for the notes to pending calls; the end of the read loop.
LEMMA OthersQuiet ==
  ASSUME TypeOK, Promise,
         \/ \E p \in Procs : \/ CallClose(p) \/ CloseError(p) \/ CloseSwitch(p)
                             \/ CloseLockRes(p) \/ CloseConn(p) \/ CloseUnlock(p)
                             \/ CloseCallback(p)
         \/ ReadFails \/ ReadReturns \/ Shutdown \/ PeerLeaves \/ UNCHANGED vars
  PROVE  Promise'
<1> USE DEF sockVars, callVars, readVars, peerVars, vars
<1>1. /\ UNCHANGED <<asked, served, refused, inbox, issued, cur, chan, pc, pendingRes>>
      /\ UNCHANGED <<rpc, rmsg, rdst>> \/ rpc' # "deliver"
      /\ conn = "closed" => conn' = "closed"
      /\ peer = "gone" => peer' = "gone"
      /\ shutdownWg => shutdownWg'
  BY DEF CallClose, CloseError, CloseSwitch, CloseLockRes, CloseConn, CloseUnlock,
         CloseCallback, ReadFails, ReadReturns, Shutdown, PeerLeaves, StopWithClose,
         StopWithError, StopOnTimeout, StopAsIs
<1>2. LinkDown => LinkDown'
  BY <1>1 DEF LinkDown
<1>3. \A c \in Calls : /\ pc[c] \in {"await", "busy"} => cur[c] # 0
                       /\ pc[c] = "forget" => LinkDown
  BY DEF Promise, Waits
<1>4. QED BY <1>1, <1>2, <1>3, QuietKeepsPromise

-----------------------------------------------------------------------------
(* Registering, sending, receiving.                                         *)

\* The new number is on no message and on no request.
LEMMA RegisterKeepsPromise ==
  ASSUME TypeOK, Core, Promise, NEW c \in Calls, registerResChan(c)
  PROVE  Promise'
<1> USE DEF Promise
<1>1. /\ UNCHANGED <<asked, served, refused, inbox, chan, rpc, rmsg, rdst, conn, peer, shutdownWg>>
      /\ issued \in Nat /\ issued' = issued + 1 /\ cur'[c] = issued + 1
      /\ \A d \in Calls : d # c => cur'[d] = cur[d] /\ pc'[d] = pc[d]
      /\ pc[c] = "register" /\ pc'[c] = "write"
  BY DEF registerResChan, Goto, TypeOK, readVars, peerVars
<1>2. \A d \in Calls : d # c /\ InTable(d)' => InTable(d)
  BY DEF registerResChan, InTable, TypeOK, Ids
<1>3. Untouched(c) /\ chan[c] = None /\ ~Held(c)
  BY <1>1 DEF Unsent, Core, Fresh
<1>u. \A d : Untouched(d)' <=> Untouched(d)
  BY <1>1 DEF Untouched
<1>v. \A t, d : Vouched(t, d)' <=> Vouched(t, d)
  BY <1>1, <1>u DEF Vouched
<1>n. \A k \in 1 .. Len(inbox) : inbox[k].t \in ResKinds =>
        inbox[k].n \in Nat /\ inbox[k].n <= issued
  <2>1. inbox \in Seq(Messages)
    BY DEF TypeOK
  <2>2. \A k \in 1 .. Len(inbox) : inbox[k] \in Messages
    BY <2>1
  <2>3. QED BY <2>2 DEF OnWire, Messages
<1>4. Asked'
  BY <1>1, <1>3 DEF Asked, Untouched, Unanswered, TypeOK
<1>5. Unsent'
  BY <1>1, <1>3, <1>u, <1>n DEF Unsent, Held
<1>6. OnWire'
  <2>1. ASSUME NEW k \in 1 .. Len(inbox), inbox[k].t \in ResKinds,
               NEW d \in Calls, inbox[k].n = cur'[d]
        PROVE  d # c /\ (Vouched(inbox[k].t, d)' \/ Overtaken(k, d)')
    <3>1. d # c
      BY <1>1, <1>n, <2>1
    <3>2. Vouched(inbox[k].t, d) \/ Overtaken(k, d)
      BY <1>1, <2>1, <3>1 DEF OnWire
    <3>3. Overtaken(k, d) => Overtaken(k, d)'
      BY <1>1, <1>2, <3>1 DEF Overtaken
    <3>4. QED BY <3>1, <3>2, <3>3, <1>1, <1>v
  <2>2. QED BY <1>1, <1>n, <2>1 DEF OnWire
<1>7. InHand' /\ InChan'
  BY <1>1, <1>v DEF InHand, InChan
<1>8. Waits'
  BY <1>1 DEF Waits, LinkDown
<1>9. QED BY <1>4, <1>5, <1>6, <1>7, <1>8

\* The request is now with the peer; no response to it is under way yet.
LEMMA WriteKeepsPromise ==
  ASSUME TypeOK, Core, Promise, NEW c \in Calls, WriteOK(c), pc[c] = "writing",
         asked' = asked \cup {[c |-> c, id |-> id[c], n |-> cur[c], parts |-> MaxParts]}
  PROVE  Promise'
<1> USE DEF Promise
<1>1. /\ UNCHANGED <<served, refused, inbox, issued, cur, chan, rpc, rmsg, rdst, conn,
                     pendingRes, peer, shutdownWg>>
      /\ pc'[c] \in {"await", "end"}
      /\ \A d \in Calls : d # c => pc'[d] = pc[d]
  BY DEF WriteOK, Goto, AfterWrite, Buffers, TypeOK, readVars
<1>2. Untouched(c) /\ ~Held(c) /\ (chan[c] # None => chan[c].n = 0)
      /\ \A k \in 1 .. Len(inbox) : inbox[k].t \in ResKinds => inbox[k].n # cur[c]
  BY DEF Unsent
<1>u. \A d \in Calls : d # c => (Untouched(d)' <=> Untouched(d))
  BY <1>1 DEF Untouched
<1>v. \A t, d : d \in Calls /\ d # c => (Vouched(t, d)' <=> Vouched(t, d))
  BY <1>1, <1>u DEF Vouched
<1>3. Asked'
  <2> DEFINE new == [c |-> c, id |-> id[c], n |-> cur[c], parts |-> MaxParts]
  <2>1. \A q \in asked' : q \in asked \/ q = new
    OBVIOUS
  <2>2. \A q \in asked : q.c # c
    BY <1>2 DEF Untouched
  <2>3. c \notin served \cup refused
    BY <1>2 DEF Untouched
  <2>4. QED BY <1>1, <2>1, <2>2, <2>3 DEF Asked, Unanswered
<1>4. Unsent'
  BY <1>1, <1>u DEF Unsent, Held
<1>5. OnWire'
  <2>1. \A k \in 1 .. Len(inbox), d \in Calls : Overtaken(k, d) => Overtaken(k, d)'
    BY <1>1 DEF Overtaken, InTable
  <2>2. QED BY <1>1, <1>2, <1>v, <2>1 DEF OnWire
<1>6. InHand'
  BY <1>1, <1>2, <1>v DEF InHand, Held, TypeOK, Core, Final
<1>7. InChan'
  BY <1>1, <1>2, <1>v DEF InChan
<1>8. Waits'
  BY <1>1 DEF Waits, LinkDown, Core, Numbered
<1>9. QED BY <1>3, <1>4, <1>5, <1>6, <1>7, <1>8

\* A call that is told to retry goes back to where the peer knows nothing of it.
LEMMA ReceiveKeepsPromise ==
  ASSUME TypeOK, Core, Promise, NEW c \in Calls, Receive(c)
  PROVE  Promise'
<1> USE DEF Promise
<1>1. /\ UNCHANGED <<asked, served, refused, inbox, issued, cur, rpc, rmsg, rdst, conn,
                     pendingRes, peer, shutdownWg>>
      /\ \A d \in Calls : d # c => pc'[d] = pc[d] /\ chan'[d] = chan[d]
      /\ chan'[c] = None /\ pc[c] = "await" /\ chan[c] # None
      /\ pc'[c] = IF c \in Streams THEN StreamNext(chan[c]) ELSE BufferNext(chan[c])
  BY DEF Receive, Goto, TypeOK, sockVars, readVars, peerVars
<1>t. chan[c] \in Responses /\ chan[c].t \in ResKinds
  BY <1>1 DEF TypeOK, Responses
<1>2. pc'[c] \in {"busy", "send"} \cup Ends
      /\ (pc'[c] = "send" => c \notin Streams /\ chan[c].t = "e")
  BY <1>1, <1>t DEF StreamNext, BufferNext, ResKinds, Ends
<1>3. pc'[c] = "send" => Untouched(c)
  BY <1>1, <1>2 DEF InChan, Vouched
<1>u. \A d : Untouched(d)' <=> Untouched(d)
  BY <1>1 DEF Untouched
<1>v. \A t, d : Vouched(t, d)' <=> Vouched(t, d)
  BY <1>1, <1>u DEF Vouched
<1>4. Asked'
  BY <1>1 DEF Asked, Unanswered
<1>5. Unsent'
  BY <1>1, <1>2, <1>3, <1>u DEF Unsent, Held, Ends
<1>6. OnWire'
  <2>1. \A k \in 1 .. Len(inbox), d \in Calls : Overtaken(k, d) => Overtaken(k, d)'
    BY <1>1 DEF Overtaken, InTable
  <2>2. QED BY <1>1, <1>v, <2>1 DEF OnWire
<1>7. InHand' /\ InChan'
  BY <1>1, <1>v DEF InHand, InChan
<1>8. Waits'
  BY <1>1, <1>2 DEF Waits, LinkDown, Ends
<1>9. QED BY <1>4, <1>5, <1>6, <1>7, <1>8

-----------------------------------------------------------------------------
(* The reader and Close.                                                    *)

\* The message at the head is taken.  If it was an error, its call is out of the
\* table, and what follows for it stays overtaken.
LEMMA TailKeepsPromise ==
  ASSUME TypeOK, Core, Promise, inbox # <<>>, inbox' = Tail(inbox),
         UNCHANGED <<asked, served, refused, issued, cur, chan, pc, conn, peer, shutdownWg>>,
         \A c \in Calls : InTable(c)' => InTable(c),
         \A c \in Calls : Head(inbox).t = "E" /\ Head(inbox).n = cur[c] => ~InTable(c)',
         rpc' = "deliver" =>
           /\ rdst' \in Calls /\ rmsg'.n = cur[rdst'] /\ cur[rdst'] # 0
           /\ rmsg'.n = Head(inbox).n /\ rmsg'.t = Head(inbox).t
           /\ Head(inbox).t \in ResKinds /\ InTable(rdst')
  PROVE  Promise'
<1> USE DEF Promise
<1>i. inbox \in Seq(Messages) /\ Head(inbox) = inbox[1] /\ 1 \in 1 .. Len(inbox)
  BY DEF TypeOK
<1>s. \A k \in 1 .. Len(inbox') : k + 1 \in 1 .. Len(inbox) /\ inbox'[k] = inbox[k + 1]
  BY <1>i
<1>u. \A c : Untouched(c)' <=> Untouched(c)
  BY DEF Untouched
<1>v. \A t, c : Vouched(t, c)' <=> Vouched(t, c)
  BY <1>u DEF Vouched
<1>1. Asked'
  BY DEF Asked, Unanswered
<1>h. ASSUME rpc' = "deliver"
      PROVE  /\ Vouched(rmsg'.t, rdst') /\ rmsg'.n # 0
             /\ pc[rdst'] \notin {"write", "writing"}
  <2>1. Vouched(Head(inbox).t, rdst') \/ Overtaken(1, rdst')
    BY <1>h, <1>i DEF OnWire
  <2>2. ~Overtaken(1, rdst')
    BY <1>h DEF Overtaken
  <2>3. pc[rdst'] \notin {"write", "writing"}
    BY <1>h, <1>i DEF Unsent
  <2>4. QED BY <1>h, <2>1, <2>2, <2>3
<1>2. Unsent'
  BY <1>h, <1>s, <1>u DEF Unsent, Held
<1>3. OnWire'
  <2>1. ASSUME NEW k \in 1 .. Len(inbox'), inbox'[k].t \in ResKinds, NEW c \in Calls,
               inbox'[k].n = cur[c], Overtaken(k + 1, c)
        PROVE  Overtaken(k, c)'
    <3>1. inbox'[k].t = "EOS" /\ c \in Streams \cap refused
      BY <1>s, <2>1 DEF Overtaken
    <3>2. CASE ~InTable(c)
      BY <3>1, <3>2 DEF Overtaken
    <3>3. ASSUME NEW j \in 1 .. k, inbox[j].t = "E", inbox[j].n = cur[c]
          PROVE  Overtaken(k, c)'
      <4>1. CASE j = 1
        BY <1>i, <3>1, <3>3, <4>1 DEF Overtaken
      <4>2. CASE j # 1
        <5>1. j - 1 \in 1 .. k - 1 /\ j - 1 \in 1 .. Len(inbox') /\ inbox'[j - 1] = inbox[j]
          BY <1>s, <3>3, <4>2
        <5>2. QED BY <5>1, <3>1, <3>3, <2>1 DEF Overtaken
      <4>3. QED BY <4>1, <4>2
    <3>4. QED BY <1>s, <2>1, <3>2, <3>3 DEF Overtaken
  <2>2. QED BY <1>s, <1>v, <2>1 DEF OnWire
<1>4. InHand'
  BY <1>h, <1>v DEF InHand
<1>5. InChan'
  BY <1>v DEF InChan
<1>6. Waits'
  BY DEF Waits, LinkDown
<1>7. QED BY <1>1, <1>2, <1>3, <1>4, <1>5, <1>6

\* Each step of the reader that takes a message is of that form.
LEMMA ReadKeepsPromise ==
  ASSUME TypeOK, Core, Promise, readResponse \/ ReadCutPayload \/ ReadProtocolError
  PROVE  Promise'
<1> USE DEF sockVars, callVars, peerVars
<1> DEFINE m == Head(inbox)
<1>h. /\ inbox # <<>> /\ inbox' = Tail(inbox) /\ inbox \in Seq(Messages)
      /\ m \in Messages /\ m = inbox[1] /\ 1 \in 1 .. Len(inbox)
  <2>1. inbox # <<>> /\ inbox' = Tail(inbox)
    BY DEF readResponse, ReadCutPayload, ReadProtocolError
  <2>2. inbox \in Seq(Messages)
    BY DEF TypeOK
  <2>3. QED BY <2>1, <2>2, HeadType
<1>u. UNCHANGED <<asked, served, refused, issued, cur, chan, pc, conn, peer, shutdownWg, id>>
  BY DEF readResponse, ReadCutPayload, ReadProtocolError
<1>g. m.t \in ResKinds => m.n # 0 /\ m.id = m.n - 1 /\ m.n \in Nat /\ m.id \in Ids
  BY <1>h DEF Core, Wire, Genuine, Messages
<1>s. \A i \in Ids : pendingRes'[i] # None => pendingRes'[i] = pendingRes[i]
  BY DEF readResponse, ReadCutPayload, ReadProtocolError, TypeOK
<1>1. \A c \in Calls : InTable(c)' => InTable(c)
  BY <1>s DEF InTable
<1>2. ASSUME NEW c \in Calls, m.t = "E", m.n = cur[c] PROVE ~InTable(c)'
  <2>0. m.t \in ResKinds
    BY <1>2 DEF ResKinds
  <2>1. pendingRes'[m.id] = None
    BY <2>0, <1>2, <1>g DEF readResponse, ReadCutPayload, ReadProtocolError, KeepsEntry,
       ResKinds, TypeOK
  <2>2. id[c] = m.id
    BY <2>0, <1>2, <1>g DEF Core, Numbered
  <2>3. \A i \in Ids : pendingRes[i] = c => i = m.id
    BY <2>2 DEF Core, Table
  <2>4. QED BY <2>1, <2>3, <1>s DEF InTable
<1>3. ASSUME rpc' = "deliver"
      PROVE  /\ rdst' \in Calls /\ rmsg'.n = cur[rdst'] /\ cur[rdst'] # 0
             /\ rmsg'.n = m.n /\ rmsg'.t = m.t
             /\ m.t \in ResKinds /\ InTable(rdst')
  <2>1. readResponse /\ m.t \in ResKinds
    BY <1>3 DEF readResponse, ReadCutPayload, ReadProtocolError, StopWithClose, StopWithError,
       StopOnTimeout, StopAsIs
  <2>2. /\ pendingRes[m.id] # None /\ rdst' = pendingRes[m.id]
        /\ rmsg' = [t |-> m.t, n |-> m.n]
    BY <1>3, <2>1 DEF readResponse
  <2>3. rdst' \in Calls /\ InTable(rdst') /\ id[rdst'] = m.id /\ cur[rdst'] # 0
    BY <2>1, <2>2, <1>g DEF TypeOK, Core, Table, InTable
  <2>4. id[rdst'] = cur[rdst'] - 1 /\ cur[rdst'] \in Nat
    BY <2>3 DEF TypeOK, Core, Numbered
  <2>5. QED BY <2>1, <2>2, <2>3, <2>4, <1>g
<1>4. QED BY <1>h, <1>u, <1>1, <1>2, <1>3, TailKeepsPromise

\* What the reader held is in the channel.
LEMMA DeliverKeepsPromise ==
  ASSUME TypeOK, Core, Promise, Deliver
  PROVE  Promise'
<1> USE DEF Promise
<1>1. /\ UNCHANGED <<asked, served, refused, inbox, issued, cur, pc, conn,
                     pendingRes, peer, shutdownWg>>
      /\ rpc = "deliver" /\ rpc' = "read" /\ rdst \in Calls
      /\ chan' = [chan EXCEPT ![rdst] = rmsg] /\ chan \in [Calls -> Responses \cup {None}]
  BY DEF Deliver, Core, Final, sockVars, peerVars, TypeOK
<1>u. \A c : Untouched(c)' <=> Untouched(c)
  BY <1>1 DEF Untouched
<1>v. \A t, c : Vouched(t, c)' <=> Vouched(t, c)
  BY <1>1, <1>u DEF Vouched
<1>2. Asked'
  BY <1>1 DEF Asked, Unanswered
<1>3. Unsent'
  BY <1>1, <1>u DEF Unsent, Held
<1>4. OnWire'
  <2>1. \A k \in 1 .. Len(inbox), c \in Calls : Overtaken(k, c) => Overtaken(k, c)'
    BY <1>1 DEF Overtaken, InTable
  <2>2. QED BY <1>1, <1>v, <2>1 DEF OnWire
<1>5. InHand' /\ InChan'
  BY <1>1, <1>v DEF InHand, InChan
<1>6. Waits'
  BY <1>1 DEF Waits, LinkDown
<1>7. QED BY <1>2, <1>3, <1>4, <1>5, <1>6

\* Close's note goes to calls of a connection that is closed.
LEMMA DrainKeepsPromise ==
  ASSUME TypeOK, Core, Promise, NEW p \in Procs, CloseDrain(p), conn = "closed"
  PROVE  Promise'
<1> USE DEF Promise
<1>1. PICK i \in Ids : /\ pendingRes[i] # None
                       /\ pendingRes' = [pendingRes EXCEPT ![i] = None]
                       /\ chan' = Tell(pendingRes[i])
  BY DEF CloseDrain
<1>2. UNCHANGED <<asked, served, refused, inbox, issued, cur, pc, conn, rpc, rmsg, rdst, peer,
                  shutdownWg>>
  BY DEF CloseDrain, readVars, peerVars
<1>3. CloseNote # None /\ CloseNote.n = 0 /\ CloseNote.t = "E"
  BY DEF CloseNote, ResKinds
<1>4. \A c \in Calls : chan'[c] = chan[c] \/ chan'[c] = CloseNote
  BY <1>1 DEF Tell, TypeOK
<1>5. \A c \in Calls : InTable(c)' => InTable(c)
  BY <1>1 DEF InTable, TypeOK
<1>u. \A c : Untouched(c)' <=> Untouched(c)
  BY <1>2 DEF Untouched
<1>v. \A t, c : Vouched(t, c)' <=> Vouched(t, c)
  BY <1>2, <1>u DEF Vouched
<1>6. Asked'
  BY <1>2 DEF Asked, Unanswered
<1>7. Unsent'
  BY <1>2, <1>3, <1>4, <1>u DEF Unsent, Held
<1>8. OnWire'
  <2>1. \A k \in 1 .. Len(inbox), c \in Calls : Overtaken(k, c) => Overtaken(k, c)'
    BY <1>2, <1>5 DEF Overtaken
  <2>2. QED BY <1>2, <1>v, <2>1 DEF OnWire
<1>9. InHand' /\ InChan'
  BY <1>2, <1>3, <1>4, <1>v DEF InHand, InChan
<1>10. Waits'
  BY <1>2 DEF Waits, LinkDown
<1>11. QED BY <1>6, <1>7, <1>8, <1>9, <1>10

-----------------------------------------------------------------------------
(* The peer.                                                                *)

\* What the peer says of a request it holds: it settles that call and no other,
\* and appends what is true of it.
LEMMA SettleKeepsPromise ==
  ASSUME TypeOK, Core, Promise, NEW q \in asked,
         UNCHANGED <<sockVars, callVars, readVars, peer>>,
         served \subseteq served', served' \subseteq served \cup {q.c},
         refused \subseteq refused', refused' \subseteq refused \cup {q.c},
         \A r \in asked' :
           \/ r \in asked \ {q}
           \/ /\ r = OnePartLess(q) /\ q.parts > 0 /\ q.c \notin served'
              /\ q.c \in refused' => q.c \in Buffers,
         Len(inbox') \in Nat, Len(inbox') >= Len(inbox),
         \A k \in 1 .. Len(inbox) : inbox'[k] = inbox[k],
         \A k \in 1 .. Len(inbox') : k > Len(inbox) =>
           /\ inbox'[k].n = q.n
           /\ Vouched(inbox[k].t, q.c)' \/ Overtaken(k, q.c)'
  PROVE  Promise'
<1> USE DEF Promise, sockVars, callVars, readVars
<1>q. /\ q.c \in Calls /\ q.n = cur[q.c] /\ q.n # 0 /\ q.n <= issued /\ q.parts \in Nat
      /\ q.parts <= MaxParts /\ q.c \notin served
      /\ \A r \in asked : r.c = q.c => r = q
  BY DEF Asked, TypeOK, Core, Wire, Numbered
<1>o. \A c \in Calls : cur[c] = q.n => c = q.c
  BY <1>q DEF Core, Numbered
<1>p. OnePartLess(q).c = q.c /\ OnePartLess(q).n = q.n /\ OnePartLess(q).parts = q.parts - 1
  BY DEF OnePartLess
<1>u. \A c : Untouched(c) => c # q.c /\ Untouched(c)'
  BY <1>p DEF Untouched
<1>v. \A t, c : Vouched(t, c) => Vouched(t, c)'
  BY <1>u DEF Vouched
<1>l. Len(inbox) \in Nat
  BY DEF TypeOK
<1>1. Asked'
  <2>1. \A r \in asked' : r.n = cur[r.c] /\ r.parts <= MaxParts
    BY <1>p, <1>q DEF Asked
  <2>2. ASSUME NEW r \in asked'
        PROVE  r.c \notin served' /\ (r.c \in refused' => r.c \in Buffers /\ ~Unanswered(r))
    <3>1. CASE r \in asked \ {q}
      BY <3>1, <1>q DEF Asked
    <3>2. CASE r = OnePartLess(q)
      BY <3>2, <2>2, <1>p, <1>q DEF Unanswered, Asked
    <3>3. QED BY <3>1, <3>2
  <2>3. \A r, s \in asked' : r.c = s.c => r = s
    BY <1>p, <1>q DEF Asked
  <2>4. QED BY <2>1, <2>2, <2>3 DEF Asked, Unanswered
<1>2. Unsent'
  <2>1. ASSUME NEW c \in Calls, pc[c] \in {"write", "writing"}, NEW k \in 1 .. Len(inbox'),
               inbox'[k].t \in ResKinds
        PROVE  inbox'[k].n # cur[c]
    <3>1. c # q.c
      BY <2>1, <1>u DEF Unsent
    <3>2. CASE k <= Len(inbox)
      BY <2>1, <3>2, <1>l DEF Unsent
    <3>3. CASE k > Len(inbox)
      BY <2>1, <3>1, <3>3, <1>o
    <3>4. QED BY <3>2, <3>3, <1>l
  <2>2. QED BY <2>1, <1>u DEF Unsent, Held
<1>3. OnWire'
  <2>1. ASSUME NEW k \in 1 .. Len(inbox'), inbox'[k].t \in ResKinds
        PROVE  /\ inbox'[k].n <= issued
               /\ \A c \in Calls : inbox'[k].n = cur[c] =>
                    Vouched(inbox[k].t, c)' \/ Overtaken(k, c)'
    <3>1. CASE k <= Len(inbox)
      <4>1. k \in 1 .. Len(inbox) /\ inbox'[k] = inbox[k]
        BY <3>1, <1>l
      <4>2. \A c \in Calls : Overtaken(k, c) => Overtaken(k, c)'
        BY <4>1, <1>l DEF Overtaken, InTable
      <4>3. QED BY <2>1, <4>1, <4>2, <1>v DEF OnWire
    <3>2. CASE k > Len(inbox)
      BY <3>2, <1>q, <1>o
    <3>3. QED BY <3>1, <3>2, <1>l
  <2>2. QED BY <2>1 DEF OnWire
<1>4. InHand' /\ InChan'
  BY <1>v DEF InHand, InChan
<1>5. Waits'
  BY DEF Waits, LinkDown
<1>6. QED BY <1>1, <1>2, <1>3, <1>4, <1>5

\* One message after the others, or two.
LEMMA AppendFacts ==
  ASSUME NEW s \in Seq(Messages), NEW x \in Messages, NEW y \in Messages
  PROVE  /\ Len(Append(s, x)) = Len(s) + 1
         /\ \A k \in 1 .. Len(s) : Append(s, x)[k] = s[k]
         /\ Append(s, x)[Len(s) + 1] = x
         /\ Len(s \o <<x, y>>) = Len(s) + 2
         /\ \A k \in 1 .. Len(s) : (s \o <<x, y>>)[k] = s[k]
         /\ (s \o <<x, y>>)[Len(s) + 1] = x /\ (s \o <<x, y>>)[Len(s) + 2] = y
         /\ Len(s) \in Nat
  OBVIOUS

LEMMA AnswerKeepsPromise ==
  ASSUME TypeOK, Core, Promise, NEW q \in asked, PeerAnswer(q)
  PROVE  Promise'
<1> USE DEF Promise, closeVars
<1>i. inbox \in Seq(Messages)
  BY DEF TypeOK
<1>r. ASSUME NEW t \in ResKinds
      PROVE  Reply(q, t) \in Messages /\ Reply(q, t).t = t /\ Reply(q, t).n = q.n
  BY ReplyType DEF Reply
<1>q. q.c \in Calls /\ q.c \notin served /\ \A r \in asked' : r \in asked /\ r.c # q.c
  BY DEF Asked, PeerAnswer, TypeOK
<1>u. UNCHANGED <<sockVars, callVars, readVars, peer>> /\ asked' = asked \ {q}
  BY DEF PeerAnswer
<1>1. CASE q.c \in Buffers /\ inbox' = Append(inbox, Reply(q, "R"))
           /\ served' = served \cup {q.c} /\ UNCHANGED refused
  <2>1. Vouched("R", q.c)'
    BY <1>1 DEF Vouched
  <2>2. QED BY <1>1, <1>i, <1>r, <1>u, <2>1, AppendFacts, SettleKeepsPromise DEF ResKinds
<1>2. CASE q.c \in Streams /\ inbox' = inbox \o <<Reply(q, "E"), Reply(q, "EOS")>>
           /\ refused' = refused \cup {q.c} /\ UNCHANGED served
  <2>n. PICK n \in Nat : n = Len(inbox)
    BY <1>i
  <2>a. /\ Len(inbox') = n + 2
        /\ \A k \in 1 .. Len(inbox) : inbox'[k] = inbox[k]
        /\ inbox'[n + 1] = Reply(q, "E") /\ inbox'[n + 2] = Reply(q, "EOS")
    BY <1>2, <1>i, <1>r, <2>n, AppendFacts DEF ResKinds
  <2>1. Vouched("E", q.c)'
    BY <1>2 DEF Vouched
  <2>2. Overtaken(n + 2, q.c)'
    <3>1. n + 1 \in 1 .. (n + 2) - 1
      OBVIOUS
    <3>2. QED BY <1>2, <1>r, <2>a, <3>1 DEF Overtaken, ResKinds
  <2>4. ASSUME NEW k \in 1 .. Len(inbox'), k > Len(inbox)
        PROVE  inbox'[k].n = q.n /\ (Vouched(inbox[k].t, q.c)' \/ Overtaken(k, q.c)')
    <3>1. CASE k = n + 1
      BY <3>1, <1>r, <2>1, <2>a DEF ResKinds
    <3>2. CASE k = n + 2
      BY <3>2, <1>r, <2>2, <2>a DEF ResKinds
    <3>3. QED BY <2>n, <2>a, <2>4, <3>1, <3>2
  <2>5. Len(inbox') \in Nat /\ Len(inbox') >= Len(inbox)
    BY <2>n, <2>a
  <2>6. QED BY <1>2, <1>u, <2>a, <2>4, <2>5, SettleKeepsPromise
<1>3. CASE q.c \in Buffers /\ inbox' = Append(inbox, Reply(q, "E"))
           /\ refused' = refused \cup {q.c} /\ UNCHANGED served
  <2>1. Vouched("E", q.c)'
    BY <1>3 DEF Vouched
  <2>2. QED BY <1>3, <1>i, <1>r, <1>u, <2>1, AppendFacts, SettleKeepsPromise DEF ResKinds
<1>4. CASE Unanswered(q) /\ inbox' = Append(inbox, Reply(q, "e")) /\ UNCHANGED served
           /\ refused' = IF q.c \in Streams THEN refused \cup {q.c} ELSE refused
  <2>1. Vouched("e", q.c)'
    BY <1>4, <1>q, <1>u DEF Vouched, Untouched, Asked
  <2>2. QED BY <1>4, <1>i, <1>r, <1>u, <2>1, AppendFacts, SettleKeepsPromise DEF ResKinds
<1>5. QED BY <1>q, <1>1, <1>2, <1>3, <1>4 DEF PeerAnswer, Buffers

LEMMA StreamKeepsPromise ==
  ASSUME TypeOK, Core, Promise, NEW q \in asked, PeerStream(q)
  PROVE  Promise'
<1> USE DEF Promise, closeVars
<1>i. inbox \in Seq(Messages)
  BY DEF TypeOK
<1>r. ASSUME NEW t \in ResKinds
      PROVE  Reply(q, t) \in Messages /\ Reply(q, t).t = t /\ Reply(q, t).n = q.n
  BY ReplyType DEF Reply
<1>q. q.c \in Calls /\ q.c \notin served /\ q.parts \in Nat
  BY DEF Asked, TypeOK
<1>u. /\ UNCHANGED <<sockVars, callVars, readVars, peer>>
      /\ refused' = IF q.c \in Streams THEN refused ELSE refused \cup {q.c}
      /\ q.c \in refused => q.c \in Buffers
  BY DEF PeerStream, Asked
<1>1. CASE q.parts > 0 /\ inbox' = Append(inbox, Reply(q, "S")) /\ UNCHANGED served
           /\ asked' = (asked \ {q}) \cup {OnePartLess(q)}
  <2>1. Vouched("S", q.c)'
    BY <1>u DEF Vouched
  <2>2. \A r \in asked' : \/ r \in asked \ {q}
                          \/ /\ r = OnePartLess(q) /\ q.parts > 0 /\ q.c \notin served'
                             /\ q.c \in refused' => q.c \in Buffers
    BY <1>1, <1>q, <1>u DEF Buffers
  <2>3. QED BY <1>1, <1>i, <1>r, <1>u, <2>1, <2>2, AppendFacts, SettleKeepsPromise DEF ResKinds
<1>2. CASE inbox' = Append(inbox, Reply(q, "EOS")) /\ asked' = asked \ {q}
           /\ served' = IF q.c \in Streams THEN served \cup {q.c} ELSE served
  <2>1. Vouched("EOS", q.c)'
    BY <1>2, <1>u DEF Vouched
  <2>2. QED BY <1>2, <1>i, <1>r, <1>u, <2>1, AppendFacts, SettleKeepsPromise DEF ResKinds
<1>3. QED BY <1>1, <1>2 DEF PeerStream

\* A fault is no response.
LEMMA FaultKeepsPromise ==
  ASSUME TypeOK, Core, Promise, PeerFault
  PROVE  Promise'
<1> USE DEF Promise, sockVars, callVars, readVars, closeVars
<1>i. inbox \in Seq(Messages)
  BY DEF TypeOK
<1>1. PICK x \in Messages : inbox' = Append(inbox, x) /\ x.t \in {"f", "?"}
  <2>1. PICK t \in {"f", "?"}, code \in FaultCodes \cup {0} :
          inbox' = Append(inbox, [t |-> t, id |-> 0, n |-> code])
    BY DEF PeerFault
  <2>2. QED BY <2>1, FaultType
<1>a. /\ Len(inbox) \in Nat /\ Len(inbox') = Len(inbox) + 1
      /\ \A k \in 1 .. Len(inbox) : inbox'[k] = inbox[k]
      /\ inbox'[Len(inbox) + 1] = x /\ x.t \notin ResKinds
  BY <1>1, <1>i, AppendFacts DEF ResKinds
<1>k. ASSUME NEW k \in 1 .. Len(inbox'), inbox'[k].t \in ResKinds
      PROVE  k \in 1 .. Len(inbox) /\ inbox'[k] = inbox[k]
  BY <1>k, <1>a
<1>u. UNCHANGED <<sockVars, callVars, readVars, asked, served, refused>> /\ peer' = "gone"
  BY DEF PeerFault
<1>v. \A t, c : /\ Vouched(t, c)' <=> Vouched(t, c)
                /\ Untouched(c)' <=> Untouched(c)
  BY <1>u DEF Vouched, Untouched
<1>2. Asked' /\ Unsent'
  BY <1>u, <1>v, <1>k DEF Asked, Unsent, Unanswered, Held
<1>3. OnWire'
  <2>1. \A k \in 1 .. Len(inbox), c \in Calls : Overtaken(k, c) => Overtaken(k, c)'
    BY <1>u, <1>a DEF Overtaken, InTable
  <2>2. QED BY <1>u, <1>v, <1>k, <2>1 DEF OnWire
<1>4. InHand' /\ InChan'
  BY <1>u, <1>v DEF InHand, InChan
<1>5. Waits'
  BY <1>u DEF Waits, LinkDown
<1>6. QED BY <1>2, <1>3, <1>4, <1>5

-----------------------------------------------------------------------------
(* The invariant.                                                           *)

LEMMA InitPromise == Init => PromiseInv
<1> SUFFICES ASSUME Init PROVE PromiseInv OBVIOUS
<1>1. IInv
  BY InitIInv
<1>2. Promise
  BY DEF Init, Promise, Asked, Unsent, OnWire, InHand, InChan, Waits, Untouched
<1>3. QED BY <1>1, <1>2 DEF PromiseInv

LEMMA NextPromise == CloseInv /\ PromiseInv /\ [Next]_vars => PromiseInv'
<1> SUFFICES ASSUME CloseInv, PromiseInv, [Next]_vars PROVE PromiseInv' OBVIOUS
<1>1. IInv' /\ TypeOK
  BY NextIInv DEF PromiseInv, IInv
<1> SUFFICES ASSUME NoIdReused' PROVE Promise'
  BY <1>1 DEF PromiseInv
<1>2. NoIdReused
  BY <1>1, IssuedGrows DEF NoIdReused, TypeOK
<1>3. Core /\ Promise
  BY <1>2 DEF PromiseInv, IInv
<1>4. ASSUME NEW c \in Calls, CallStep(c) PROVE Promise'
  <2>1. CASE WriteOK(c)
    <3>1. CASE pc[c] = "writing" /\ peer = "here"
      BY <2>1, <3>1, <1>1, <1>3, WriteKeepsPromise DEF WriteOK
    <3>2. CASE pc[c] = "ending" \/ peer = "gone"
      BY <2>1, <3>2, <1>1, <1>3, CallQuiet DEF WriteOK, peerVars
    <3>3. QED BY <2>1, <3>1, <3>2, <1>1 DEF WriteOK, TypeOK
  <2>2. QED BY <1>4, <2>1, <1>1, <1>3, CallQuiet, RegisterKeepsPromise, ReceiveKeepsPromise
            DEF CallStep
<1>5. CASE ReaderStep
  BY <1>5, <1>1, <1>3, ReadKeepsPromise, DeliverKeepsPromise, OthersQuiet DEF ReaderStep
<1>6. ASSUME NEW p \in Procs, CallClose(p) \/ CloseStep(p) PROVE Promise'
  <2>1. CASE CloseDrain(p)
    <3>1. conn = "closed"
      BY <2>1 DEF CloseInv, Switch, CloseDrain
    <3>2. QED BY <2>1, <3>1, <1>1, <1>3, DrainKeepsPromise
  <2>2. QED BY <1>6, <2>1, <1>1, <1>3, OthersQuiet DEF CloseStep
<1>7. CASE PeerStep
  BY <1>7, <1>1, <1>3, OthersQuiet, FaultKeepsPromise, AnswerKeepsPromise, StreamKeepsPromise
     DEF PeerStep
<1>8. CASE Shutdown \/ Terminating \/ UNCHANGED vars
  BY <1>8, <1>1, <1>3, OthersQuiet DEF Terminating
<1>9. QED BY <1>4, <1>5, <1>6, <1>7, <1>8 DEF Next

-----------------------------------------------------------------------------
(* The refinement.                                                          *)

\* RequestReply's view of the state.
AbsStatus == [c \in Calls |-> Status(c)]
AbsLink   == IF LinkDown THEN "down" ELSE "up"

\* The initial state maps to an initial state.
LEMMA InitRefines == Init => Abstract!Init
<1> SUFFICES ASSUME Init PROVE Abstract!Init OBVIOUS
<1>1. \A c \in Calls : Status(c) = "idle"
  BY DEF Init, Status, Ends
<1>2. QED BY <1>1 DEF Init, Abstract!Init

\* What a call's goroutine is in between.
LEMMA StatusCases ==
  ASSUME TypeOK, NEW c \in Calls
  PROVE  /\ pc[c] = "data" => Status(c) = "answered"
         /\ pc[c] \in {"error", "streaming", "closed"} => Status(c) = "failed"
         /\ ~Ended(c) => Status(c) = IF cur[c] = 0 THEN "idle" ELSE "waiting"
  BY DEF Status, Ended, Ends

\* A step of one call's goroutine that leaves the peer and the link alone is a step
\* of the abstract call, if its status moves as that may.
LEMMA CallRefines ==
  ASSUME NEW c \in Calls, UNCHANGED <<served, refused, conn, peer, shutdownWg>>,
         \A d \in Calls : d # c => pc'[d] = pc[d] /\ cur'[d] = cur[d],
         \/ Status(c)' = Status(c)
         \/ Status(c) = "idle" /\ Status(c)' = "waiting"
         \/ Status(c) = "waiting" /\ Status(c)' = "answered" /\ c \in served
         \/ /\ Status(c) \in {"idle", "waiting"} /\ Status(c)' = "failed"
            /\ LinkDown \/ c \in refused
  PROVE  [Abstract!Next]_(Abstract!vars)
<1>1. \A d \in Calls : d # c => Status(d)' = Status(d)
  BY DEF Status
<1>2. AbsLink' = AbsLink
  BY DEF AbsLink, LinkDown
<1>3. AbsStatus' = [AbsStatus EXCEPT ![c] = Status(c)']
  BY <1>1 DEF AbsStatus
<1>4. AbsStatus[c] = Status(c)
  BY DEF AbsStatus
<1>5. CASE Status(c)' = Status(c)
  BY <1>1, <1>2, <1>5 DEF Abstract!vars, AbsLink, LinkDown
<1>6. CASE Status(c) = "idle" /\ Status(c)' = "waiting"
  <2>1. Abstract!Issue(c)
    BY <1>2, <1>3, <1>4, <1>6 DEF Abstract!Issue, Abstract!Move, AbsStatus, AbsLink, LinkDown
  <2>2. QED BY <2>1 DEF Abstract!Next
<1>7. CASE Status(c) = "waiting" /\ Status(c)' = "answered" /\ c \in served
  <2>1. Abstract!Answer(c)
    BY <1>2, <1>3, <1>4, <1>7 DEF Abstract!Answer, Abstract!Move, AbsStatus, AbsLink, LinkDown
  <2>2. QED BY <2>1 DEF Abstract!Next
<1>8. CASE /\ Status(c) \in {"idle", "waiting"} /\ Status(c)' = "failed"
           /\ LinkDown \/ c \in refused
  <2>1. Abstract!Fail(c)
    BY <1>2, <1>3, <1>4, <1>8 DEF Abstract!Fail, Abstract!Move, AbsStatus, AbsLink, LinkDown
  <2>2. QED BY <2>1 DEF Abstract!Next
<1>9. QED BY <1>5, <1>6, <1>7, <1>8

\* A step that moves no call and settles none brings the link down, or nothing.
LEMMA LinkRefines ==
  ASSUME UNCHANGED <<served, refused, pc, cur>>, LinkDown => LinkDown'
  PROVE  [Abstract!Next]_(Abstract!vars)
<1>1. \A d \in Calls : Status(d)' = Status(d)
  BY DEF Status
<1>2. CASE LinkDown' <=> LinkDown
  BY <1>1, <1>2 DEF Abstract!vars, LinkDown
<1>3. CASE LinkDown' /\ ~LinkDown
  <2>1. Abstract!LinkDown
    BY <1>1, <1>3 DEF Abstract!LinkDown, LinkDown
  <2>2. QED BY <2>1 DEF Abstract!Next
<1>4. QED BY <1>2, <1>3

\* A settling step serves one call that was issued, or refuses it, or does neither.
LEMMA SettleRefines ==
  ASSUME TypeOK, Core, Promise, NEW q \in asked,
         UNCHANGED <<pc, cur, conn, peer, shutdownWg>>,
         \/ served' = served /\ refused' = refused
         \/ served' = served \cup {q.c} /\ refused' = refused /\ q.c \notin refused
         \/ served' = served /\ refused' = refused \cup {q.c}
  PROVE  [Abstract!Next]_(Abstract!vars)
<1>1. \A d \in Calls : Status(d)' = Status(d)
  BY DEF Status
<1>2. AbsStatus' = AbsStatus /\ AbsLink' = AbsLink
  BY <1>1 DEF AbsStatus, AbsLink, LinkDown
<1>3. q.c \in Calls /\ cur[q.c] # 0 /\ q.c \notin served
  BY DEF Promise, Asked, TypeOK, Core, Wire
<1>4. Status(q.c) # "idle"
  BY <1>3, StatusCases DEF Ended, Ends
<1>5. AbsStatus[q.c] # "idle"
  BY <1>3, <1>4 DEF AbsStatus
<1>6. CASE served' = served /\ refused' = refused
  BY <1>1, <1>2, <1>6 DEF Abstract!vars, AbsLink, LinkDown
<1>7. CASE served' = served \cup {q.c} /\ refused' = refused /\ q.c \notin refused
  <2>1. Abstract!Serve(q.c)
    BY <1>1, <1>2, <1>3, <1>5, <1>7 DEF Abstract!Serve, AbsStatus, AbsLink, LinkDown
  <2>2. QED BY <2>1, <1>3 DEF Abstract!Next
<1>8. CASE served' = served /\ refused' = refused \cup {q.c}
  <2>1. CASE q.c \in refused
    BY <1>6, <1>8, <2>1
  <2>2. CASE q.c \notin refused
    <3>1. Abstract!Refuse(q.c)
      BY <1>1, <1>2, <1>3, <1>5, <1>8, <2>2 DEF Abstract!Refuse, AbsStatus, AbsLink, LinkDown
    <3>2. QED BY <3>1, <1>3 DEF Abstract!Next
  <2>3. QED BY <1>8, <2>1, <2>2
<1>9. QED BY <1>6, <1>7, <1>8

\* What a call takes from its channel ends it as the peer has settled it.
LEMMA ReceiveRefines ==
  ASSUME TypeOK, Core, Promise, NEW c \in Calls, Receive(c)
  PROVE  [Abstract!Next]_(Abstract!vars)
<1>1. /\ UNCHANGED <<served, refused, conn, peer, shutdownWg, cur>>
      /\ \A d \in Calls : d # c => pc'[d] = pc[d]
      /\ pc[c] = "await" /\ chan[c] # None
      /\ pc'[c] = IF c \in Streams THEN StreamNext(chan[c]) ELSE BufferNext(chan[c])
  BY DEF Receive, Goto, TypeOK, sockVars, peerVars
<1>2. chan[c] \in Responses /\ chan[c].t \in ResKinds
  BY <1>1 DEF TypeOK, Responses
<1>3. cur[c] # 0 /\ Status(c) = "waiting"
  BY <1>1, StatusCases DEF Promise, Waits, Ended, Ends
<1>4. IF chan[c].n = 0 THEN chan[c].t = "E" /\ LinkDown ELSE Vouched(chan[c].t, c)
  BY <1>1 DEF Promise, InChan, LinkDown
<1>5. \/ pc'[c] \in {"busy", "send"}
      \/ pc'[c] = "data" /\ c \in served
      \/ pc'[c] \in {"error", "streaming", "closed"} /\ (LinkDown \/ c \in refused)
  <2>1. CASE c \in Streams
    BY <1>1, <1>2, <1>4, <2>1 DEF StreamNext, Vouched, ResKinds
  <2>2. CASE c \notin Streams
    BY <1>1, <1>2, <1>4, <2>2 DEF BufferNext, Vouched, ResKinds
  <2>3. QED BY <2>1, <2>2
<1>6. \/ Status(c)' = "waiting"
      \/ Status(c)' = "answered" /\ c \in served
      \/ Status(c)' = "failed" /\ (LinkDown \/ c \in refused)
  BY <1>1, <1>3, <1>5 DEF Status, Ends
<1>7. QED BY <1>1, <1>3, <1>6, CallRefines

\* A call's other steps.
LEMMA CallStepRefines ==
  ASSUME TypeOK, Core, Promise, NEW c \in Calls, CallStep(c)
  PROVE  [Abstract!Next]_(Abstract!vars)
<1> USE DEF Goto, sockVars, peerVars
<1>u. UNCHANGED <<served, refused, conn, peer, shutdownWg>>
      /\ \A d \in Calls : d # c => pc'[d] = pc[d] /\ cur'[d] = cur[d]
  BY DEF CallStep, SendRequest, registerResChan, WriteLock, WriteOK, WriteFail,
         forgetResChan, Receive, Consume, callVars, TypeOK
<1>1. CASE SendRequest(c)
  <2>1. pc[c] = "send" /\ cur'[c] = cur[c]
        /\ (pc'[c] = "register" \/ (pc'[c] = "closed" /\ LinkDown))
    BY <1>1 DEF SendRequest, TypeOK, LinkDown
  <2>2. QED BY <1>u, <2>1, CallRefines DEF Status, Ends
<1>2. CASE registerResChan(c)
  <2>1. pc[c] = "register" /\ pc'[c] = "write" /\ cur'[c] # 0
    BY <1>2 DEF registerResChan, TypeOK
  <2>2. QED BY <1>u, <2>1, CallRefines DEF Status, Ends
<1>3. CASE WriteLock(c) \/ WriteOK(c) \/ WriteFail(c) \/ Consume(c)
  <2>1. cur'[c] = cur[c]
    BY <1>3 DEF WriteLock, WriteOK, WriteFail, Consume, callVars
  <2>2. pc[c] \in {"write", "writing", "end", "ending", "busy"}
        /\ pc'[c] \in {"writing", "ending", "await", "end", "busy", "forget"}
    BY <1>3 DEF WriteLock, WriteOK, WriteFail, Consume, AfterWrite, Buffers, TypeOK
  <2>3. QED BY <1>u, <2>1, <2>2, CallRefines DEF Status, Ends
<1>4. CASE forgetResChan(c)
  <2>1. pc[c] = "forget" /\ pc'[c] = "closed" /\ LinkDown
    BY <1>4 DEF forgetResChan, TypeOK, Promise, Waits
  <2>2. QED BY <1>u, <2>1, CallRefines DEF Status, Ends
<1>5. CASE Receive(c)
  BY <1>5, ReceiveRefines
<1>6. QED BY <1>1, <1>2, <1>3, <1>4, <1>5 DEF CallStep

\* Every step maps to a step of RequestReply or leaves its view unchanged.
LEMMA NextRefines ==
  ASSUME FullInv, NoIdReused, [Next]_vars
  PROVE  [Abstract!Next]_(Abstract!vars)
<1>1. TypeOK /\ Core /\ Promise
  BY DEF FullInv, PromiseInv, IInv
<1>2. ASSUME NEW c \in Calls, CallStep(c) PROVE [Abstract!Next]_(Abstract!vars)
  BY <1>1, <1>2, CallStepRefines
<1>3. CASE ReaderStep \/ PeerFault \/ PeerLeaves \/ Shutdown \/ UNCHANGED vars
  <2>1. UNCHANGED <<served, refused, pc, cur>> /\ (LinkDown => LinkDown')
    BY <1>3 DEF ReaderStep, readResponse, Deliver, ReadFails, ReadCutPayload,
       ReadProtocolError, ReadReturns, PeerFault, PeerLeaves, Shutdown, vars, sockVars,
       callVars, peerVars, LinkDown
  <2>2. QED BY <2>1, LinkRefines
<1>4. ASSUME NEW p \in Procs, CallClose(p) \/ CloseStep(p)
      PROVE  [Abstract!Next]_(Abstract!vars)
  <2>1. UNCHANGED <<served, refused, pc, cur>> /\ (LinkDown => LinkDown')
    BY <1>4 DEF CallClose, CloseStep, CloseError, CloseSwitch, CloseLockRes, CloseConn,
       CloseDrain, CloseUnlock, CloseCallback, sockVars, callVars, peerVars, LinkDown
  <2>2. QED BY <2>1, LinkRefines
<1>5. ASSUME NEW q \in asked, PeerAnswer(q) PROVE [Abstract!Next]_(Abstract!vars)
  <2>1. UNCHANGED <<pc, cur, conn, peer, shutdownWg>>
    BY <1>5 DEF PeerAnswer, sockVars, callVars
  <2>2. \/ served' = served /\ refused' = refused
        \/ served' = served \cup {q.c} /\ refused' = refused /\ q.c \notin refused
        \/ served' = served /\ refused' = refused \cup {q.c}
    BY <1>1, <1>5 DEF PeerAnswer, Promise, Asked
  <2>3. QED BY <1>1, <2>1, <2>2, SettleRefines
<1>6. ASSUME NEW q \in asked, PeerStream(q) PROVE [Abstract!Next]_(Abstract!vars)
  <2>1. UNCHANGED <<pc, cur, conn, peer, shutdownWg>>
    BY <1>6 DEF PeerStream, sockVars, callVars
  <2>2. \/ served' = served /\ refused' = refused
        \/ served' = served \cup {q.c} /\ refused' = refused /\ q.c \notin refused
        \/ served' = served /\ refused' = refused \cup {q.c}
    BY <1>1, <1>6 DEF PeerStream, Promise, Asked, Buffers
  <2>3. QED BY <1>1, <2>1, <2>2, SettleRefines
<1>7. QED BY <1>2, <1>3, <1>4, <1>5, <1>6 DEF Next, PeerStep, Terminating

\* The strengthening for the refinement holds in every reachable state.
THEOREM PromiseInvariance == Spec => []FullInv
<1>1. Init => FullInv
  BY InitCloseInv, InitPromise DEF FullInv
<1>2. FullInv /\ [Next]_vars => FullInv'
  BY NextCloseInv, NextPromise DEF FullInv
<1>3. QED BY <1>1, <1>2, PTL DEF Spec

\* As long as no id is used twice, the goroutines, the table and the channels of a
\* socket implement RequestReply: a call ends once, with data only if the peer served
\* this very call, with an error only if the peer turned it down or the link is down.
THEOREM Refinement == Spec /\ []NoIdReused => KeepsPromise
<1>1. Init => Abstract!Init
  BY InitRefines
<1>2. FullInv /\ NoIdReused /\ [Next]_vars => [Abstract!Next]_(Abstract!vars)
  BY NextRefines
<1>3. QED BY <1>1, <1>2, PromiseInvariance, PTL DEF Spec, KeepsPromise, Abstract!Spec
=============================================================================
