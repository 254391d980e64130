---------------------------- MODULE JsSockProofs ----------------------------
(***************************************************************************)
(* The JavaScript Sock: proofs for any number of requests, streams,        *)
(* connections and queued messages, as long as there are ids for all       *)
(* requests.                                                               *)
(***************************************************************************)
EXTENDS JsSockInv, FiniteSetTheorems, TLAPS

\* The ids, of which there are 36^4, do not start again within a connection.
EnoughIds ==
  /\ IsFiniteSet(Reqs) /\ Cardinality(Reqs) < IdSpace
  /\ IsFiniteSet(Asks) /\ Cardinality(Asks) < IdSpace

LEMMA Constants ==
  /\ IdSpace \in Nat /\ 0 \in Ids /\ Ids \subseteq Nat
  /\ SendBufferLimit \in Nat /\ MaxConns \in Nat /\ MaxWrites \in Nat
  /\ None \notin Reqs /\ None \notin Asks /\ Reqs \cap Asks = {}
  /\ Streams \cap Reqs = {} /\ Streams \cap Asks = {}
  /\ NextOf \in [Retriers -> Reqs \ Retriers]
BY JsSockAssumption DEF Ids

-----------------------------------------------------------------------------
(* Sequences by the messages they hold.                                     *)

LEMMA RangeOf ==
  ASSUME NEW T, NEW s \in Seq(T)
  PROVE  /\ Range(s) \subseteq T /\ (s = <<>> <=> Range(s) = {})
         /\ \A k \in 1 .. Len(s) : s[k] \in Range(s)
         /\ \A m \in Range(s) : \E k \in 1 .. Len(s) : s[k] = m
BY DEF Range

LEMMA RangeAppend ==
  ASSUME NEW T, NEW s \in Seq(T), NEW m \in T
  PROVE  Append(s, m) \in Seq(T) /\ Range(Append(s, m)) = Range(s) \cup {m}
<1>1. Append(s, m) \in Seq(T) /\ Len(Append(s, m)) = Len(s) + 1
  OBVIOUS
<1>2. /\ \A k \in 1 .. Len(s) : Append(s, m)[k] = s[k]
      /\ Append(s, m)[Len(s) + 1] = m
  OBVIOUS
<1>3. 1 .. Len(s) + 1 = (1 .. Len(s)) \cup {Len(s) + 1}
  OBVIOUS
<1>4. Range(Append(s, m)) = {Append(s, m)[k] : k \in 1 .. Len(s) + 1}
  BY <1>1 DEF Range
<1>5. Range(s) = {s[k] : k \in 1 .. Len(s)}
  BY DEF Range
<1>6. QED BY <1>1, <1>2, <1>3, <1>4, <1>5

LEMMA RangeConcat ==
  ASSUME NEW T, NEW s \in Seq(T), NEW q \in Seq(T)
  PROVE  s \o q \in Seq(T) /\ Range(s \o q) = Range(s) \cup Range(q)
<1>1. /\ s \o q \in Seq(T) /\ Len(s \o q) = Len(s) + Len(q)
      /\ Len(s) \in Nat /\ Len(q) \in Nat
      /\ DOMAIN s = 1 .. Len(s) /\ DOMAIN q = 1 .. Len(q) /\ DOMAIN (s \o q) = 1 .. Len(s) + Len(q)
  OBVIOUS
<1>2. /\ \A k \in 1 .. Len(s) : (s \o q)[k] = s[k] /\ k \in 1 .. Len(s) + Len(q)
      /\ \A k \in 1 .. Len(q) : (s \o q)[Len(s) + k] = q[k] /\ Len(s) + k \in 1 .. Len(s) + Len(q)
  BY <1>1
<1>3. \A k \in 1 .. Len(s) + Len(q) : k \in 1 .. Len(s) \/ k - Len(s) \in 1 .. Len(q)
  BY <1>1
<1>4. ASSUME NEW k \in 1 .. Len(s) + Len(q)
      PROVE  (s \o q)[k] \in Range(s) \cup Range(q)
  <2>1. CASE k \in 1 .. Len(s)
    BY <1>1, <1>2, <2>1 DEF Range
  <2>2. CASE k - Len(s) \in 1 .. Len(q)
    <3> DEFINE j == k - Len(s)
    <3>1. j \in 1 .. Len(q) /\ k = Len(s) + j
      BY <1>1, <2>2
    <3> HIDE DEF j
    <3>2. QED BY <1>1, <1>2, <3>1 DEF Range
  <2>3. QED BY <1>3, <2>1, <2>2
<1>5. Range(s \o q) \subseteq Range(s) \cup Range(q)
  BY <1>1, <1>4 DEF Range
<1>6. Range(s) \subseteq Range(s \o q) /\ Range(q) \subseteq Range(s \o q)
  BY <1>1, <1>2 DEF Range
<1>7. QED BY <1>1, <1>5, <1>6

LEMMA RangeTail ==
  ASSUME NEW T, NEW s \in Seq(T), s # <<>>
  PROVE  /\ Tail(s) \in Seq(T) /\ Range(Tail(s)) \subseteq Range(s)
         /\ Head(s) \in Range(s) /\ Head(s) \in T
         /\ Len(Tail(s)) <= Len(s)
         /\ \A k \in 1 .. Len(Tail(s)) : Tail(s)[k] = s[k + 1] /\ k + 1 \in 1 .. Len(s)
<1>1. Tail(s) \in Seq(T) /\ Len(Tail(s)) = Len(s) - 1 /\ Len(s) > 0
  OBVIOUS
<1>2. \A k \in 1 .. Len(s) - 1 : Tail(s)[k] = s[k + 1] /\ k + 1 \in 1 .. Len(s)
  BY <1>1
<1>3. Head(s) = s[1] /\ 1 \in 1 .. Len(s)
  BY <1>1
<1>4. Range(Tail(s)) \subseteq Range(s)
  BY <1>1, <1>2 DEF Range
<1>5. QED BY <1>1, <1>2, <1>3, <1>4 DEF Range

\* sendMsg: what it may do with a message, connected or not.
LEMMA SendsEffect ==
  ASSUME TypeOK, Link, NEW m \in Outgoing, Sends(m), Accepts
  PROVE  /\ isOpen => sendq' = sendq /\ wire' \in {wire, Append(wire, m)}
         /\ ~isOpen => wire' = wire /\ sendq' = Append(sendq, m)
         /\ sendq' \in Seq(Outgoing) /\ Len(sendq') <= SendBufferLimit
         /\ wire' \in Seq(Outgoing)
         /\ Range(sendq') \subseteq Range(sendq) \cup {m}
         /\ Range(wire') \subseteq Range(wire) \cup {m}
<1>1. ws \in {"none", "open", "closing"} /\ (isOpen <=> ws # "none")
      /\ sendq \in Seq(Outgoing) /\ wire \in Seq(Outgoing) /\ Len(sendq) <= SendBufferLimit
  BY DEF TypeOK, Link
<1>2. /\ isOpen => sendq' = sendq /\ wire' \in {wire, Append(wire, m)}
      /\ ~isOpen => wire' = wire /\ sendq' = Append(sendq, m)
  BY <1>1 DEF Sends
<1>3. ~isOpen => Len(sendq) < SendBufferLimit
  BY DEF Accepts, CanQueue
<1>4. /\ Append(sendq, m) \in Seq(Outgoing) /\ Len(Append(sendq, m)) = Len(sendq) + 1
      /\ Range(Append(sendq, m)) = Range(sendq) \cup {m}
  BY <1>1, RangeAppend
<1>5. Append(wire, m) \in Seq(Outgoing) /\ Range(Append(wire, m)) = Range(wire) \cup {m}
  BY <1>1, RangeAppend
<1>6. /\ sendq' \in Seq(Outgoing) /\ Len(sendq') <= SendBufferLimit
      /\ Range(sendq') \subseteq Range(sendq) \cup {m}
  <2>1. CASE isOpen
    BY <1>1, <1>2, <2>1
  <2>2. CASE ~isOpen
    <3>1. sendq' = Append(sendq, m) /\ Len(sendq) < SendBufferLimit
      BY <1>2, <1>3, <2>2
    <3>2. Len(sendq') <= SendBufferLimit
      BY <1>1, <1>4, <3>1, Constants
    <3>3. QED BY <1>4, <3>1, <3>2
  <2>3. QED BY <2>1, <2>2
<1>7. wire' \in Seq(Outgoing) /\ Range(wire') \subseteq Range(wire) \cup {m}
  BY <1>1, <1>2, <1>5
<1>8. QED BY <1>2, <1>6, <1>7

-----------------------------------------------------------------------------
(* Requests made by callbacks while the Sock is reset.                      *)

LEMMA AgainIs ==
  ASSUME TypeOK, EnoughIds
  PROVE  /\ Again \subseteq Reqs \ made /\ IsFiniteSet(Again) /\ Cardinality(Again) \in Nat
         /\ Cardinality(Again) < IdSpace /\ Cardinality(Again) % IdSpace = Cardinality(Again)
         /\ made \cup Again \in SUBSET Reqs /\ IsFiniteSet(made \cup Again)
         /\ Cardinality(Again) <= Cardinality(made \cup Again)
         /\ Retriers = {} => Again = {}
<1>1. Again \subseteq Reqs \ made
  BY Constants DEF Again
<1>2. made \cup Again \in SUBSET Reqs
  BY <1>1 DEF TypeOK
<1>3. IsFiniteSet(Again) /\ Cardinality(Again) <= Cardinality(Reqs)
  BY <1>1, FS_Subset DEF EnoughIds
<1>4. IsFiniteSet(made \cup Again)
  BY <1>2, FS_Subset DEF EnoughIds
<1>5. Cardinality(Again) <= Cardinality(made \cup Again)
  BY <1>4, FS_Subset
<1>6. Cardinality(Again) \in Nat /\ Cardinality(Reqs) \in Nat
  BY <1>3, FS_CardinalityType DEF EnoughIds
<1>7. Cardinality(Again) < IdSpace
  BY <1>3, <1>6, Constants DEF EnoughIds
<1>8. Cardinality(Again) % IdSpace = Cardinality(Again)
  BY <1>6, <1>7, Constants
<1>9. Retriers = {} => Again = {}
  BY DEF Again
<1>10. QED BY <1>1, <1>2, <1>3, <1>4, <1>5, <1>6, <1>7, <1>8, <1>9

LEMMA QueuedIs ==
  ASSUME TypeOK, EnoughIds
  PROVE  /\ Queued \in Seq(Again) /\ Len(Queued) <= Cardinality(Again)
         /\ Len(Queued) <= SendBufferLimit - Len(sendq)
         /\ \A i, j \in 1 .. Len(Queued) : Queued[i] = Queued[j] => i = j
<1> DEFINE n == Cardinality(Again)
           s == SetToSeq(Again)
           l == IF n <= SendBufferLimit - Len(sendq) THEN n ELSE SendBufferLimit - Len(sendq)
<1>1. /\ IsFiniteSet(Again) /\ n \in Nat
      /\ sendq \in Seq(Outgoing) /\ Len(sendq) \in Nat /\ Len(sendq) <= SendBufferLimit
  BY AgainIs DEF TypeOK
<1>2. \E f \in [1 .. n -> Again] : IsInjective(f)
  <2>1. ExistsBijection(1 .. n, Again)
    BY <1>1, FS_CardinalityType
  <2>2. QED BY <2>1 DEF ExistsBijection, Bijection, Injection, IsInjective
<1>3. s \in [1 .. n -> Again] /\ IsInjective(s)
  BY <1>2 DEF SetToSeq
<1>4. s \in Seq(Again) /\ Len(s) = n
  BY <1>1, <1>3
<1>5. l \in 0 .. n /\ l <= SendBufferLimit - Len(sendq)
  BY <1>1, Constants
<1>6. Queued = SubSeq(s, 1, l)
  BY DEF Queued
<1> HIDE DEF l, s, n
<1>7. SubSeq(s, 1, l) \in Seq(Again) /\ Len(SubSeq(s, 1, l)) = l
      /\ \A k \in 1 .. l : SubSeq(s, 1, l)[k] = s[k]
  BY <1>1, <1>4, <1>5
<1>8. \A i, j \in 1 .. l : s[i] = s[j] => i = j
  BY <1>1, <1>3, <1>5 DEF IsInjective
<1>9. QED BY <1>5, <1>6, <1>7, <1>8 DEF n

-----------------------------------------------------------------------------
(* What each turn does, in terms of what it adds and takes away.            *)

\* A request has an id of its own; it is on its way, or has failed.
LEMMA RequestEffect ==
  ASSUME TypeOK, Link, Made, EnoughIds, Request
  PROVE  \E r \in Reqs \ made :
           /\ made' = made \cup {r} /\ made' \in SUBSET Reqs
           /\ nextOpID' = nextOpID + 1 /\ nextOpID' \in Ids
           /\ Cardinality(made') = Cardinality(made) + 1
           /\ \/ /\ Accepts /\ Sends([t |-> "r", id |-> nextOpID, for |-> r])
                 /\ pendingRes' = [pendingRes EXCEPT ![nextOpID] = r] /\ settled' = settled
              \/ /\ pendingRes' = [pendingRes EXCEPT ![nextOpID] = None]
                 /\ settled' = [settled EXCEPT ![r] = <<"error">>]
                 /\ UNCHANGED <<sendq, wire>>
<1>1. PICK r \in Reqs \ made :
         /\ made' = made \cup {r} /\ nextOpID' = NextId(nextOpID)
         /\ IF Accepts
            THEN /\ Sends([t |-> "r", id |-> nextOpID, for |-> r])
                 /\ pendingRes' = [pendingRes EXCEPT ![nextOpID] = r] /\ settled' = settled
            ELSE /\ pendingRes' = [pendingRes EXCEPT ![nextOpID] = None]
                 /\ settled' = [settled EXCEPT ![r] = Append(@, "error")]
                 /\ UNCHANGED <<sendq, wire>>
  BY DEF Request
<1>2. /\ made' \in SUBSET Reqs /\ IsFiniteSet(made) /\ IsFiniteSet(made')
  BY <1>1, FS_Subset DEF TypeOK, EnoughIds
<1>3. /\ Cardinality(made') = Cardinality(made) + 1 /\ Cardinality(made') <= Cardinality(Reqs)
      /\ Cardinality(made) \in Nat /\ Cardinality(Reqs) \in Nat
  <2>1. Cardinality(made') = Cardinality(made) + 1
    BY <1>1, <1>2, FS_AddElement
  <2>2. QED BY <1>2, <2>1, FS_Subset, FS_CardinalityType DEF EnoughIds
<1>4. nextOpID \in Nat /\ nextOpID + 1 < IdSpace
  BY <1>3, Constants DEF TypeOK, Ids, Made, EnoughIds
<1>5. nextOpID' = nextOpID + 1 /\ nextOpID' \in Ids
  <2>1. (nextOpID + 1) % IdSpace = nextOpID + 1
    BY <1>4, Constants
  <2>2. QED BY <1>1, <1>4, <2>1, Constants DEF NextId, Ids
<1>6. settled[r] = <<>> /\ Append(settled[r], "error") = <<"error">>
  <2>1. settled[r] = <<>>
    BY <1>1 DEF Made
  <2>2. Append(<<>>, "error") = <<"error">>
    OBVIOUS
  <2>3. QED BY <2>1, <2>2
<1>7. QED BY <1>1, <1>2, <1>3, <1>5, <1>6

\* The same for a request of the server.
LEMMA AskEffect ==
  ASSUME TypeOK, srvNext <= Cardinality(begun), EnoughIds, ServerAsks
  PROVE  \E q \in Asks \ begun :
           /\ begun' = begun \cup {q} /\ Cardinality(begun') = Cardinality(begun) + 1
           /\ srvNext' = srvNext + 1 /\ srvNext' \in Ids
           /\ srvPending' = [srvPending EXCEPT ![srvNext] = q]
           /\ inbox' = Append(inbox, [t |-> "r", id |-> srvNext, for |-> q])
<1>1. PICK q \in Asks \ begun :
         /\ begun' = begun \cup {q} /\ srvNext' = NextId(srvNext)
         /\ srvPending' = [srvPending EXCEPT ![srvNext] = q]
         /\ inbox' = Append(inbox, [t |-> "r", id |-> srvNext, for |-> q])
  BY DEF ServerAsks
<1>2. begun' \in SUBSET Asks /\ IsFiniteSet(begun) /\ IsFiniteSet(begun')
  BY <1>1, FS_Subset DEF TypeOK, EnoughIds
<1>3. /\ Cardinality(begun') = Cardinality(begun) + 1 /\ Cardinality(begun') <= Cardinality(Asks)
      /\ Cardinality(begun) \in Nat /\ Cardinality(Asks) \in Nat
  <2>1. Cardinality(begun') = Cardinality(begun) + 1
    BY <1>1, <1>2, FS_AddElement
  <2>2. QED BY <1>2, <2>1, FS_Subset, FS_CardinalityType DEF EnoughIds
<1>4. srvNext \in Nat /\ srvNext + 1 < IdSpace
  BY <1>3, Constants DEF TypeOK, Ids, EnoughIds
<1>5. srvNext' = srvNext + 1 /\ srvNext' \in Ids
  <2>1. (srvNext + 1) % IdSpace = srvNext + 1
    BY <1>4, Constants
  <2>2. QED BY <1>1, <1>4, <2>1, Constants DEF NextId, Ids
<1>6. QED BY <1>1, <1>3, <1>5

\* A write adds a part of its stream.
StreamType == [entry : BOOLEAN, wrote : 0 .. MaxWrites, ended : BOOLEAN,
               seen : Seq({"data", "end", "error"})]
LEMMA WriteEffect ==
  ASSUME TypeOK, Link, Write
  PROVE  \E s \in Streams, x \in StreamType :
           /\ streams[s].entry \/ streams[s].seen # <<>>
           /\ x.entry = streams[s].entry /\ x.seen = streams[s].seen
           /\ streams' = [streams EXCEPT ![s] = x]
           /\ \/ \E t \in {"s", "p"} : Accepts /\ Sends([t |-> t, id |-> 0, for |-> s])
              \/ UNCHANGED <<sendq, wire>>
<1>1. PICK s \in Streams, last \in BOOLEAN :
         /\ streams[s].entry \/ streams[s].seen # <<>>
         /\ streams[s].wrote < MaxWrites
         /\ streams' = [streams EXCEPT ![s].wrote = @ + 1, ![s].ended = last /\ Accepts]
         /\ IF Accepts THEN Sends(Part(s)) ELSE UNCHANGED <<sendq, wire>>
  BY DEF Write
<1>2. PICK e \in BOOLEAN : e = (last /\ Accepts)
  OBVIOUS
<1>3. streams \in [Streams -> StreamType] /\ streams[s] \in StreamType
  BY DEF TypeOK, StreamType
<1>4. PICK w \in 0 .. MaxWrites : w = streams[s].wrote + 1
  <2>1. streams[s].wrote \in 0 .. MaxWrites
    BY <1>3 DEF StreamType
  <2>2. QED BY <1>1, <2>1, Constants
<1>5. PICK x : x = [[streams[s] EXCEPT !.wrote = w] EXCEPT !.ended = e]
  OBVIOUS
<1>6. x \in StreamType /\ x.entry = streams[s].entry /\ x.seen = streams[s].seen
  BY <1>3, <1>5 DEF StreamType
<1>7. streams' = [streams EXCEPT ![s] = x]
  BY <1>1, <1>2, <1>3, <1>4, <1>5
<1>8. \E t \in {"s", "p"} : Part(s) = [t |-> t, id |-> 0, for |-> s]
  BY DEF Part
<1>9. QED BY <1>1, <1>6, <1>7, <1>8

-----------------------------------------------------------------------------
(* Stream requests.                                                         *)

\* What a turn makes of a stream request: nothing, a beginning, a further part
\* written, or an event for it.
Evolves(q, x) ==
  \/ x = q
  \/ q = Request0 /\ x.entry /\ x.seen = <<>>
  \/ (q.entry \/ q.seen # <<>>) /\ x.entry = q.entry /\ x.seen = q.seen
  \/ q.entry /\ \E v \in {"data", "end", "error"} :
                   x.seen = Append(q.seen, v) /\ (x.entry <=> v = "data")

LEMMA EvolvesInStep ==
  ASSUME NEW q \in StreamType, NEW x \in StreamType, Evolves(q, x), InStep(q)
  PROVE  InStep(x)
<1>1. CASE x = q
  BY <1>1
<1>2. CASE x.entry /\ x.seen = <<>>
  <2>1. Len(x.seen) = 0
    BY <1>2
  <2>2. QED BY <1>2, <2>1 DEF InStep
<1>3. CASE (q.entry \/ q.seen # <<>>) /\ x.entry = q.entry /\ x.seen = q.seen
  BY <1>3 DEF InStep
<1>4. ASSUME q.entry, NEW v \in {"data", "end", "error"},
             x.seen = Append(q.seen, v), x.entry <=> v = "data"
      PROVE  InStep(x)
  <2>1. q.seen \in Seq({"data", "end", "error"}) /\ x.seen \in Seq({"data", "end", "error"})
    BY DEF StreamType
  <2>2. /\ Len(x.seen) = Len(q.seen) + 1 /\ Len(q.seen) \in Nat /\ x.seen # <<>>
        /\ \A i \in 1 .. Len(q.seen) : x.seen[i] = q.seen[i]
        /\ x.seen[Len(q.seen) + 1] = v
    BY <1>4, <2>1
  <2>3. \A i \in 1 .. Len(q.seen) : x.seen[i] = "data"
    BY <1>4, <2>2 DEF InStep
  <2>4. \A i \in 1 .. Len(x.seen) : i \in 1 .. Len(q.seen) \/ i = Len(q.seen) + 1
    BY <2>2
  <2>5. x.entry => \A i \in 1 .. Len(x.seen) : x.seen[i] = "data"
    BY <1>4, <2>2, <2>3, <2>4
  <2>6. ~x.entry => x.seen[Len(x.seen)] # "data"
    BY <1>4, <2>2
  <2>7. \A i \in 1 .. Len(x.seen) - 1 : x.seen[i] = "data"
    BY <2>2, <2>3
  <2>8. QED BY <2>2, <2>5, <2>6, <2>7 DEF InStep
<1>5. QED BY <1>1, <1>2, <1>3, <1>4 DEF Evolves

\* A stream that emits an event.
LEMMA EventIs ==
  ASSUME NEW q \in StreamType, NEW v \in {"data", "end", "error"}, NEW e \in BOOLEAN
  PROVE  LET x == [[q EXCEPT !.entry = e] EXCEPT !.seen = Append(q.seen, v)] IN
         x \in StreamType /\ x.entry = e /\ x.seen = Append(q.seen, v)
<1>1. Append(q.seen, v) \in Seq({"data", "end", "error"})
  BY DEF StreamType
<1>2. PICK w \in Seq({"data", "end", "error"}) : w = Append(q.seen, v)
  BY <1>1
<1>3. LET x == [[q EXCEPT !.entry = e] EXCEPT !.seen = w] IN
      x \in StreamType /\ x.entry = e /\ x.seen = w
  BY DEF StreamType
<1>4. QED BY <1>2, <1>3

LEMMA StreamsEffect ==
  ASSUME TypeOK, Link, Typed, [Next]_vars
  PROVE  /\ streams' \in [Streams -> StreamType]
         /\ \A s \in Streams : Evolves(streams[s], streams'[s])
<1>0. streams \in [Streams -> StreamType] /\ inbox \in Seq(Incoming)
  BY DEF TypeOK, StreamType
<1>1. CASE streams' = streams
  BY <1>0, <1>1 DEF Evolves
<1>2. CASE StreamRequest
  <2>1. PICK s \in Streams :
          streams[s] = Request0 /\ streams' = [streams EXCEPT ![s].entry = TRUE]
    BY <1>2 DEF StreamRequest
  <2>2. PICK x : x = [streams[s] EXCEPT !.entry = TRUE]
    OBVIOUS
  <2>3. x \in StreamType /\ x.entry /\ x.seen = streams[s].seen
    BY <1>0, <2>2 DEF StreamType
  <2>4. streams[s].seen = <<>>
    BY <2>1 DEF Request0
  <2>5. streams' = [streams EXCEPT ![s] = x]
    BY <1>0, <2>1, <2>2
  <2>6. QED BY <1>0, <2>1, <2>3, <2>4, <2>5 DEF Evolves
<1>3. CASE Write
  <2>1. PICK s \in Streams, x \in StreamType :
           /\ streams[s].entry \/ streams[s].seen # <<>>
           /\ x.entry = streams[s].entry /\ x.seen = streams[s].seen
           /\ streams' = [streams EXCEPT ![s] = x]
    BY <1>3, WriteEffect
  <2>2. QED BY <1>0, <2>1 DEF Evolves
<1>4. CASE HandleStreamRes
  <2> DEFINE m == Head(inbox)  s == m.for  q == streams[s]
  <2>1. m \in Range(inbox) /\ m.t \in {"S", "EOS", "E"}
    BY <1>0, <1>4, RangeTail DEF HandleStreamRes
  <2>2. s \in Streams
    BY <2>1 DEF Typed, ComesIn
  <2>3. q \in StreamType
    BY <1>0, <2>2
  <2>4. CASE ~q.entry
    BY <1>1, <1>4, <2>4 DEF HandleStreamRes
  <2>5. CASE q.entry
    <3>1. PICK v \in {"data", "end", "error"}, e \in BOOLEAN :
            v = Event(m.t) /\ e = EntryKept(m.t) /\ (e <=> v = "data")
      BY <2>1 DEF Event, EntryKept
    <3>2. streams' = [streams EXCEPT ![s].entry = e, ![s].seen = Append(@, v)]
      BY <1>4, <2>5, <3>1 DEF HandleStreamRes
    <3> HIDE DEF m
    <3>3. PICK x : x = [[q EXCEPT !.entry = e] EXCEPT !.seen = Append(q.seen, v)]
      OBVIOUS
    <3>4. x \in StreamType /\ x.entry = e /\ x.seen = Append(q.seen, v)
      BY <2>3, <3>3, EventIs
    <3>5. streams' = [streams EXCEPT ![s] = x]
      <4>1. PICK y : y = [q EXCEPT !.entry = e]
        OBVIOUS
      <4>2. y.seen = q.seen
        BY <2>3, <4>1 DEF StreamType
      <4>3. streams' = [[streams EXCEPT ![s].entry = e] EXCEPT ![s].seen = Append(q.seen, v)]
        BY <1>0, <2>2, <3>2, <4>1, <4>2
      <4>4. QED BY <1>0, <2>2, <3>3, <4>3
    <3>6. QED BY <1>0, <2>2, <2>5, <3>1, <3>4, <3>5 DEF Evolves
  <2>6. QED BY <2>4, <2>5
<1>5. CASE OnClose
  <2>1. streams' = [s \in Streams |->
          IF streams[s].entry THEN [streams[s] EXCEPT !.entry = FALSE, !.seen = Append(@, "error")]
          ELSE streams[s]]
    BY <1>5 DEF OnClose
  <2>2. ASSUME NEW s \in Streams
        PROVE  streams'[s] \in StreamType /\ Evolves(streams[s], streams'[s])
    <3>1. streams[s] \in StreamType
      BY <1>0
    <3>2. CASE ~streams[s].entry
      BY <2>1, <3>1, <3>2 DEF Evolves
    <3>3. CASE streams[s].entry
      <4>1. streams'[s] = [[streams[s] EXCEPT !.entry = FALSE] EXCEPT
                              !.seen = Append(streams[s].seen, "error")]
        BY <2>1, <3>1, <3>3 DEF StreamType
      <4>2. /\ streams'[s] \in StreamType /\ streams'[s].entry = FALSE
            /\ streams'[s].seen = Append(streams[s].seen, "error")
        BY <3>1, <4>1, EventIs
      <4>3. QED BY <3>3, <4>2 DEF Evolves
    <3>4. QED BY <3>2, <3>3
  <2>3. QED BY <2>1, <2>2
<1>6. CASE UNCHANGED vars
  BY <1>1, <1>6 DEF vars
<1>7. QED BY <1>1, <1>2, <1>3, <1>4, <1>5, <1>6 DEF Next, Request, HandleMsg, HandleRes,
     HandleRetryRes, HandleReq, Result, OnOpen, End, ServerReads, ServerAnswers, ServerStreams,
     ServerAsks, Stopped

-----------------------------------------------------------------------------
(* Messages.                                                                *)

LEMMA OutgoingIs ==
  ASSUME NEW t \in {"r", "R", "s", "p"}, NEW i \in Ids, NEW x \in Reqs \cup Asks \cup Streams
  PROVE  LET m == [t |-> t, id |-> i, for |-> x] IN
         m \in Outgoing /\ m.t = t /\ m.id = i /\ m.for = x
BY DEF Outgoing

LEMMA IncomingIs ==
  ASSUME NEW t \in {"r", "R", "S", "EOS", "E", "e"}, NEW i \in Ids,
         NEW x \in Reqs \cup Asks \cup Streams
  PROVE  LET m == [t |-> t, id |-> i, for |-> x] IN
         m \in Incoming /\ m.t = t /\ m.id = i /\ m.for = x
BY DEF Incoming

\* Requests, parts and results: the message they send, if they send one.
LEMMA SendersEffect ==
  ASSUME TypeOK, Link, Made, EnoughIds, Request \/ Write \/ Result
  PROVE  /\ UNCHANGED <<ws, conn, isOpen, keepalive, pendingClose, inbox, asked>>
         /\ \/ UNCHANGED <<sendq, wire>>
            \/ \E m \in Outgoing :
                 /\ Sends(m) /\ Accepts
                 /\ \/ Request /\ m.t = "r" /\ m.id = nextOpID /\ m.for \in Reqs \ made
                       /\ made' = made \cup {m.for} /\ nextOpID' = nextOpID + 1
                       /\ pendingRes' = [pendingRes EXCEPT ![nextOpID] = m.for]
                    \/ Write /\ m.t \in {"s", "p"} /\ m.for \in Streams
                    \/ Result /\ m.t = "R" /\ \E h \in handling :
                         /\ handling' = handling \ {h} /\ m.id = h.id /\ m.for = h.q
                         /\ LateResults \/ (h.conn = conn /\ isOpen)
<1>1. CASE Request
  <2>1. UNCHANGED <<ws, conn, isOpen, keepalive, pendingClose, inbox, asked>>
    BY <1>1 DEF Request, srvVars
  <2>2. PICK r \in Reqs \ made :
           /\ made' = made \cup {r} /\ nextOpID' = nextOpID + 1
           /\ \/ /\ Accepts /\ Sends([t |-> "r", id |-> nextOpID, for |-> r])
                 /\ pendingRes' = [pendingRes EXCEPT ![nextOpID] = r]
              \/ UNCHANGED <<sendq, wire>>
    BY <1>1, RequestEffect
  <2>3. nextOpID \in Ids
    BY DEF TypeOK
  <2>4. QED BY <1>1, <2>1, <2>2, <2>3, OutgoingIs
<1>2. CASE Write
  <2>1. UNCHANGED <<ws, conn, isOpen, keepalive, pendingClose, inbox, asked>>
    BY <1>2 DEF Write, srvVars
  <2>2. PICK s \in Streams :
           \/ \E t \in {"s", "p"} : Accepts /\ Sends([t |-> t, id |-> 0, for |-> s])
           \/ UNCHANGED <<sendq, wire>>
    BY <1>2, WriteEffect
  <2>3. QED BY <1>2, <2>1, <2>2, Constants, OutgoingIs
<1>3. CASE Result
  <2>1. UNCHANGED <<ws, conn, isOpen, keepalive, pendingClose, inbox, asked>>
    BY <1>3 DEF Result, srvVars
  <2>2. PICK h \in handling :
          /\ handling' = handling \ {h}
          /\ IF ((h.conn = conn /\ isOpen) \/ LateResults) /\ Accepts
             THEN Sends([t |-> "R", id |-> h.id, for |-> h.q])
             ELSE UNCHANGED <<sendq, wire>>
    BY <1>3 DEF Result
  <2>3. h.id \in Ids /\ h.q \in Asks
    BY <2>2 DEF TypeOK
  <2>4. QED BY <1>3, <2>1, <2>2, <2>3, OutgoingIs
<1>4. QED BY <1>1, <1>2, <1>3

\* What is received leaves the inbox.
LEMMA HandleEffect ==
  ASSUME TypeOK, HandleMsg
  PROVE  /\ inbox # <<>> /\ inbox' = Tail(inbox) /\ Head(inbox) \in Range(inbox)
         /\ inbox' \in Seq(Incoming) /\ Range(inbox') \subseteq Range(inbox)
         /\ ws = "open" /\ ws' \in {"open", "closing"}
         /\ UNCHANGED <<conn, isOpen, keepalive, sendq, nextOpID, pendingClose, wire, srvVars, made>>
<1>1. inbox # <<>> /\ inbox' = Tail(inbox) /\ ws = "open" /\ ws' \in {"open", "closing"}
      /\ UNCHANGED <<conn, isOpen, keepalive, sendq, nextOpID, pendingClose, wire, srvVars, made>>
  BY DEF HandleMsg, HandleRes, HandleStreamRes, HandleRetryRes, HandleReq, sockVars
<1>2. inbox \in Seq(Incoming)
  BY DEF TypeOK
<1>3. QED BY <1>1, <1>2, RangeTail

\* A close leaves only what callbacks had queued, numbered from zero.
LEMMA CloseEffect ==
  ASSUME TypeOK, Link, EnoughIds, OnClose
  PROVE  /\ wire' = <<>> /\ inbox' = <<>> /\ asked' = {} /\ pendingRes' = NoEntries
         /\ nextOpID' = Cardinality(Again) /\ made' = made \cup Again /\ nextOpID' \in Ids
         /\ sendq' \in Seq(Outgoing) /\ Len(sendq') <= SendBufferLimit
         /\ \A k \in 1 .. Len(sendq') :
              sendq'[k].t = "r" /\ sendq'[k].id < nextOpID' /\ sendq'[k].for \in Again
         /\ \A j, k \in 1 .. Len(sendq') : sendq'[j].for = sendq'[k].for => j = k
<1>1. /\ wire' = <<>> /\ inbox' = <<>> /\ asked' = {} /\ pendingRes' = NoEntries
      /\ made' = made \cup Again /\ isOpen
      /\ nextOpID' = Cardinality(Again) % IdSpace
      /\ sendq' = sendq \o [i \in DOMAIN Queued |->
                               [t |-> "r", id |-> (i - 1) % IdSpace, for |-> Queued[i]]]
  BY DEF OnClose, Link
<1>2. /\ Again \subseteq Reqs /\ Cardinality(Again) \in Nat /\ Cardinality(Again) < IdSpace
      /\ nextOpID' = Cardinality(Again)
  BY <1>1, AgainIs
<1>3. nextOpID' \in Ids
  BY <1>2, Constants DEF Ids
<1>4. /\ Queued \in Seq(Again) /\ Len(Queued) <= Cardinality(Again)
      /\ Len(Queued) <= SendBufferLimit
      /\ \A i, j \in 1 .. Len(Queued) : Queued[i] = Queued[j] => i = j
  <2>1. sendq = <<>> /\ Len(sendq) = 0
    BY <1>1 DEF Link
  <2>2. SendBufferLimit - Len(sendq) = SendBufferLimit
    BY <2>1, Constants
  <2>3. QED BY <2>2, QueuedIs
<1> DEFINE n == Len(Queued)
           q == [i \in 1 .. n |-> [t |-> "r", id |-> (i - 1) % IdSpace, for |-> Queued[i]]]
<1>5. n \in Nat /\ DOMAIN Queued = 1 .. n
  BY <1>4
<1>6. \A i \in 1 .. n : Queued[i] \in Again /\ (i - 1) % IdSpace = i - 1 /\ i - 1 \in Ids
                        /\ i - 1 < Cardinality(Again)
  <2>1. SUFFICES ASSUME NEW i \in 1 .. n
                 PROVE  Queued[i] \in Again /\ (i - 1) % IdSpace = i - 1 /\ i - 1 \in Ids
                        /\ i - 1 < Cardinality(Again)
    OBVIOUS
  <2>2. i - 1 \in Nat /\ i - 1 < Cardinality(Again) /\ i - 1 < IdSpace
    BY <1>2, <1>4, <1>5, Constants
  <2>3. QED BY <1>4, <1>5, <2>2, Constants DEF Ids
<1>7. \A i \in 1 .. n : q[i] \in Outgoing /\ q[i].t = "r" /\ q[i].id = i - 1 /\ q[i].for = Queued[i]
  BY <1>2, <1>6 DEF Outgoing
<1>8. sendq' = q
  <2>1. q \in Seq(Outgoing)
    BY <1>5, <1>7
  <2>2. sendq' = <<>> \o q
    BY <1>1, <1>5 DEF Link
  <2> HIDE DEF q
  <2>3. QED BY <2>1, <2>2
<1>9. q \in Seq(Outgoing) /\ Len(q) = n
  BY <1>5, <1>7
<1> HIDE DEF q, n
<1>10. /\ \A k \in 1 .. n : q[k].t = "r" /\ q[k].id < nextOpID' /\ q[k].for \in Again
       /\ \A j, k \in 1 .. n : q[j].for = q[k].for => j = k
  BY <1>2, <1>4, <1>6, <1>7 DEF n
<1>11. QED BY <1>1, <1>2, <1>3, <1>4, <1>8, <1>9, <1>10 DEF n

\* The server's answer to a stream request.
LEMMA StreamsAnswered ==
  ASSUME TypeOK, ServerStreams
  PROVE  /\ inbox' \in Seq(Incoming) /\ srvStream' \in [Streams -> {"none", "open", "ended", "failed"}]
         /\ \A m \in Range(inbox') : m \in Range(inbox)
              \/ (m.t \in {"S", "EOS", "E", "e"} /\ m.for \in Streams)
<1>1. PICK s \in Streams,
           ts \in {<<"S", "EOS">>, <<"E", "EOS">>} \cup (IF Refusals THEN {<<"e">>} ELSE {}) :
        /\ srvStream' = [srvStream EXCEPT ![s] = IF ts[1] = "S" THEN "ended" ELSE "failed"]
        /\ inbox' = inbox \o [i \in DOMAIN ts |-> [t |-> ts[i], id |-> 0, for |-> s]]
  BY DEF ServerStreams
<1>2. ts \in Seq({"S", "EOS", "E", "e"}) /\ DOMAIN ts = 1 .. Len(ts) /\ Len(ts) \in Nat
  <2>1. ts \in {<<"S", "EOS">>, <<"E", "EOS">>, <<"e">>}
    BY <1>1
  <2>2. <<"S", "EOS">> \in Seq({"S", "EOS", "E", "e"})
    OBVIOUS
  <2>3. <<"E", "EOS">> \in Seq({"S", "EOS", "E", "e"})
    OBVIOUS
  <2>4. <<"e">> \in Seq({"S", "EOS", "E", "e"})
    OBVIOUS
  <2>5. ts \in Seq({"S", "EOS", "E", "e"})
    BY <2>1, <2>2, <2>3, <2>4
  <2>6. QED BY <2>5
<1> DEFINE q == [i \in DOMAIN ts |-> [t |-> ts[i], id |-> 0, for |-> s]]
<1>3. \A i \in 1 .. Len(ts) : q[i] \in Incoming /\ q[i].t \in {"S", "EOS", "E", "e"} /\ q[i].for = s
  BY <1>2, Constants DEF Incoming
<1>4. q \in Seq(Incoming) /\ Len(q) = Len(ts)
  BY <1>2, <1>3
<1>5. inbox \in Seq(Incoming) /\ srvStream \in [Streams -> {"none", "open", "ended", "failed"}]
  BY DEF TypeOK
<1>6. inbox' = inbox \o q
  BY <1>1
<1> HIDE DEF q
<1>7. inbox' \in Seq(Incoming)
  BY <1>4, <1>5, <1>6
<1>8. Range(inbox') = Range(inbox) \cup Range(q)
  BY <1>4, <1>5, <1>6, RangeConcat
<1>9. \A m \in Range(q) : m.t \in {"S", "EOS", "E", "e"} /\ m.for = s
  BY <1>3, <1>4, RangeOf
<1>10. QED BY <1>1, <1>5, <1>7, <1>8, <1>9

-----------------------------------------------------------------------------
(* Preservation: types, the link, and what is under way.                    *)

LEMMA NextId_InIds == \A i \in Ids : NextId(i) \in Ids
BY Constants DEF NextId, Ids

LEMMA NextConn ==
  ASSUME TypeOK, Link, [Next]_vars
  PROVE  /\ ws' \in {"none", "open", "closing"} /\ conn' \in 0 .. MaxConns
         /\ isOpen' \in BOOLEAN /\ keepalive' \in BOOLEAN /\ pendingClose' \in BOOLEAN
         /\ isOpen' <=> ws' # "none"
         /\ isOpen' => conn' > 0
<1>1. /\ ws \in {"none", "open", "closing"} /\ conn \in 0 .. MaxConns
      /\ isOpen \in BOOLEAN /\ keepalive \in BOOLEAN /\ pendingClose \in BOOLEAN
      /\ isOpen <=> ws # "none" 
      /\ isOpen => conn > 0
  BY DEF TypeOK, Link
<1>2. CASE UNCHANGED <<ws, conn, isOpen, keepalive, pendingClose>>
  BY <1>1, <1>2
<1>3. CASE HandleMsg
  BY <1>1, <1>3, HandleEffect
<1>4. CASE OnOpen
  BY <1>1, <1>4, Constants DEF OnOpen
<1>5. CASE OnClose
  BY <1>1, <1>5 DEF OnClose
<1>6. CASE End
  BY <1>1, <1>6 DEF End
<1>7. CASE ServerReads
  BY <1>1, <1>7 DEF ServerReads
<1>8. QED BY <1>2, <1>3, <1>4, <1>5, <1>6, <1>7 DEF Next, Request, StreamRequest, Write, Result,
     ServerAnswers, ServerStreams, ServerAsks, Stopped, vars, sockVars

\* The queue, and what is sent.
LEMMA NextSendq ==
  ASSUME TypeOK, Link, Made, EnoughIds, [Next]_vars
  PROVE  /\ sendq' \in Seq(Outgoing) /\ Len(sendq') <= SendBufferLimit /\ wire' \in Seq(Outgoing)
         /\ isOpen' => sendq' = <<>>
         /\ ~isOpen' => wire' = <<>> /\ inbox' = <<>> /\ asked' = {}
<1>1. /\ sendq \in Seq(Outgoing) /\ Len(sendq) <= SendBufferLimit /\ wire \in Seq(Outgoing)
      /\ isOpen => sendq = <<>>
      /\ ~isOpen => wire = <<>> /\ inbox = <<>> /\ asked = {}
  BY DEF TypeOK, Link
<1>2. CASE Request \/ Write \/ Result
  <2>1. UNCHANGED <<isOpen, inbox, asked>>
    BY <1>2, SendersEffect
  <2>2. CASE UNCHANGED <<sendq, wire>>
    BY <1>1, <2>1, <2>2
  <2>3. CASE \E m \in Outgoing : Sends(m) /\ Accepts
    BY <1>1, <2>1, <2>3, SendsEffect
  <2>4. QED BY <1>2, <2>2, <2>3, SendersEffect
<1>3. CASE HandleMsg
  BY <1>1, <1>3, HandleEffect DEF Link, srvVars
<1>4. CASE OnOpen
  <2>1. sendq' = <<>> /\ wire' = sendq /\ isOpen'
    BY <1>4 DEF OnOpen, Flush
  <2>2. <<>> \in Seq(Outgoing) /\ Len(<<>>) = 0
    OBVIOUS
  <2>3. QED BY <1>1, <2>1, <2>2, Constants
<1>5. CASE OnClose
  <2>1. ~isOpen'
    BY <1>5 DEF OnClose
  <2>2. <<>> \in Seq(Outgoing)
    OBVIOUS
  <2>3. QED BY <1>5, <2>1, <2>2, CloseEffect
<1>6. CASE ServerReads
  <2>1. wire # <<>> /\ wire' = Tail(wire) /\ UNCHANGED <<sendq, isOpen>>
    BY <1>6 DEF ServerReads
  <2>2. isOpen
    BY <1>6 DEF ServerReads, Link
  <2>3. QED BY <1>1, <2>1, <2>2, RangeTail
<1>7. CASE ServerAnswers \/ ServerStreams \/ ServerAsks
  <2>1. isOpen /\ UNCHANGED <<isOpen, sendq, wire>>
    BY <1>7 DEF ServerAnswers, ServerStreams, ServerAsks, sockVars, Link
  <2>2. QED BY <1>1, <2>1
<1>8. CASE UNCHANGED <<isOpen, sendq, wire, inbox, asked>>
  BY <1>1, <1>8
<1>9. QED BY <1>2, <1>3, <1>4, <1>5, <1>6, <1>7, <1>8 DEF Next, StreamRequest, End, Stopped,
     vars, sockVars, srvVars

LEMMA NextInbox ==
  ASSUME TypeOK, Link, Made, Typed, EnoughIds, [Next]_vars
  PROVE  inbox' \in Seq(Incoming) /\ asked' \subseteq [r : Reqs, id : Ids]
         /\ \A m \in Range(inbox') : ComesIn(m)
<1>1. /\ inbox \in Seq(Incoming) /\ asked \subseteq [r : Reqs, id : Ids]
      /\ \A m \in Range(inbox) : ComesIn(m)
  BY DEF TypeOK, Typed
<1>2. CASE UNCHANGED <<inbox, asked>>
  BY <1>1, <1>2 DEF ComesIn
<1>3. CASE HandleMsg
  BY <1>1, <1>3, HandleEffect DEF srvVars, ComesIn
<1>4. CASE OnOpen \/ OnClose
  <2>1. inbox' = <<>> /\ asked' = {}
    BY <1>4 DEF OnOpen, OnClose
  <2>2. <<>> \in Seq(Incoming) /\ Range(<<>>) = {}
    BY DEF Range
  <2>3. QED BY <2>1, <2>2
<1>5. CASE ServerReads
  <2>1. /\ wire # <<>> /\ inbox' = inbox
        /\ \/ asked' = asked
           \/ Head(wire).t = "r" /\ asked' = asked \cup {[r |-> Head(wire).for, id |-> Head(wire).id]}
    BY <1>5 DEF ServerReads
  <2>2. Head(wire) \in Outgoing /\ Head(wire) \in Range(wire)
    BY <2>1, RangeTail DEF TypeOK
  <2>3. Head(wire).t = "r" => Head(wire).for \in Reqs
    BY <2>2 DEF Typed, GoesOut, TypeOK
  <2>4. Head(wire).id \in Ids
    BY <2>2 DEF Outgoing
  <2>5. QED BY <1>1, <2>1, <2>3, <2>4 DEF ComesIn
<1>6. CASE ServerAnswers
  <2>1. PICK a \in asked, t \in {"R", "e"} :
          asked' = asked \ {a} /\ inbox' = Append(inbox, [t |-> t, id |-> a.id, for |-> a.r])
    BY <1>6 DEF ServerAnswers
  <2>2. a.id \in Ids /\ a.r \in Reqs
    BY <1>1
  <2> DEFINE m == [t |-> t, id |-> a.id, for |-> a.r]
  <2>3. m \in Incoming /\ m.t = t /\ m.for = a.r
    BY <2>2, IncomingIs
  <2>4. ComesIn(m)
    BY <2>2, <2>3 DEF ComesIn
  <2>5. inbox' \in Seq(Incoming) /\ Range(inbox') = Range(inbox) \cup {m}
    BY <1>1, <2>1, <2>3, RangeAppend
  <2>6. QED BY <1>1, <2>1, <2>4, <2>5 DEF ComesIn
<1>7. CASE ServerStreams
  <2>1. asked' = asked
    BY <1>7 DEF ServerStreams
  <2>2. QED BY <1>1, <1>7, <2>1, StreamsAnswered DEF ComesIn
<1>8. CASE ServerAsks
  <2>1. PICK q \in Asks : inbox' = Append(inbox, [t |-> "r", id |-> srvNext, for |-> q])
    BY <1>8 DEF ServerAsks
  <2>2. asked' = asked /\ srvNext \in Ids
    BY <1>8 DEF ServerAsks, TypeOK
  <2> DEFINE m == [t |-> "r", id |-> srvNext, for |-> q]
  <2>3. m \in Incoming /\ m.t = "r" /\ m.for = q
    BY <2>2, IncomingIs
  <2>4. ComesIn(m)
    BY <2>3 DEF ComesIn
  <2>5. inbox' \in Seq(Incoming) /\ Range(inbox') = Range(inbox) \cup {m}
    BY <1>1, <2>1, <2>3, RangeAppend
  <2>6. QED BY <1>1, <2>2, <2>4, <2>5 DEF ComesIn
<1>9. CASE Request \/ Write \/ Result
  BY <1>2, <1>9, SendersEffect
<1>10. QED BY <1>2, <1>3, <1>4, <1>5, <1>6, <1>7, <1>8, <1>9 DEF Next, StreamRequest, End,
     Stopped, vars, sockVars, srvVars

-----------------------------------------------------------------------------
(* Preservation: the table of callbacks, and what they were called with.     *)

\* An answer finds the callback of its request, which was not called before, or none.
LEMMA HandleResEffect ==
  ASSUME TypeOK, Typed, Entries, Numbered, Made, HandleRes
  PROVE  /\ nextOpID' = nextOpID /\ made' = made
         /\ \E i \in Ids :
              /\ pendingRes' = [pendingRes EXCEPT ![i] = None]
              /\ \/ settled' = settled /\ pendingRes[i] = None
                 \/ /\ pendingRes[i] \in made
                    /\ settled' = [settled EXCEPT ![pendingRes[i]] = <<pendingRes[i]>>]
<1> DEFINE m == Head(inbox)  i == m.id  r == pendingRes[i]
<1>1. /\ inbox # <<>> /\ m.t = "R" /\ pendingRes' = TakeEntry(i)
      /\ settled' = IF r = None THEN settled ELSE [settled EXCEPT ![r] = Append(@, m.for)]
      /\ nextOpID' = nextOpID /\ made' = made
  BY DEF HandleRes
<1>2. m \in Incoming /\ m \in Range(inbox)
  BY <1>1, RangeTail DEF TypeOK
<1>3. i \in Ids /\ pendingRes' = [pendingRes EXCEPT ![i] = None]
  BY <1>1, <1>2 DEF Incoming, TakeEntry
<1>4. r \in {None, m.for}
  BY <1>1, <1>2 DEF Numbered, Leads
<1>5. CASE r = None
  BY <1>1, <1>3, <1>5
<1>6. CASE r # None
  <2>1. r \in made /\ settled[r] = <<>> /\ r = m.for
    BY <1>3, <1>4, <1>6 DEF Entries
  <2>2. Append(<<>>, r) = <<r>>
    OBVIOUS
  <2>3. settled' = [settled EXCEPT ![r] = <<r>>]
    BY <1>1, <1>6, <2>1, <2>2
  <2>4. QED BY <1>1, <1>3, <2>1, <2>3
<1>7. QED BY <1>5, <1>6

\* A close calls back those that are in the table, and those that could not be queued.
LEMMA CloseSettles ==
  ASSUME TypeOK, Entries, Made, EnoughIds, OnClose
  PROVE  /\ DOMAIN settled' = Reqs
         /\ \A r \in Reqs : settled'[r] = settled[r]
              \/ (settled'[r] = <<"error">> /\ r \in made \cup Again)
         /\ \A r \in made : (\E i \in Ids : pendingRes[i] = r) => settled'[r] # <<>>
<1>1. settled' = [r \in Reqs |->
        IF Failed(r) \/ (r \in Again /\ r \notin Range(Queued)) THEN Append(settled[r], "error")
        ELSE settled[r]]
  BY DEF OnClose
<1>2. pendingRes \in [Ids -> Reqs \cup {None}] /\ made \subseteq Reqs
  BY DEF TypeOK
<1>3. \A r : Failed(r) <=> \E i \in Ids : pendingRes[i] = r
  BY <1>2 DEF Failed, Range
<1>4. \A r \in Reqs : Failed(r) => r \in made /\ settled[r] = <<>>
  BY <1>3, Constants DEF Entries
<1>5. \A r \in Again : settled[r] = <<>>
  BY AgainIs DEF Made
<1>6. Append(<<>>, "error") = <<"error">> /\ <<"error">> # <<>>
  OBVIOUS
<1>7. QED BY <1>1, <1>2, <1>3, <1>4, <1>5, <1>6

LEMMA NextTable ==
  ASSUME TypeOK, Link, Typed, Entries, Numbered, Made, EnoughIds, [Next]_vars
  PROVE  /\ nextOpID' \in Ids /\ pendingRes' \in [Ids -> Reqs \cup {None}]
         /\ settled' \in [Reqs -> Seq(Reqs \cup {"error"})]
         /\ made \subseteq made' /\ made' \in SUBSET Reqs
         /\ Entries' /\ Made'
<1>1. /\ nextOpID \in Ids /\ pendingRes \in [Ids -> Reqs \cup {None}]
      /\ settled \in [Reqs -> Seq(Reqs \cup {"error"})] /\ made \in SUBSET Reqs
  BY DEF TypeOK
<1>2. CASE UNCHANGED <<nextOpID, pendingRes, settled, made>>
  BY <1>1, <1>2 DEF Entries, Made
<1>3. \A r \in Reqs : <<r>> \in Seq(Reqs \cup {"error"}) /\ <<r>> # <<>>
  OBVIOUS
<1>4. <<"error">> \in Seq(Reqs \cup {"error"}) /\ <<"error">> # <<>>
      /\ <<>> \in Seq(Reqs \cup {"error"})
  OBVIOUS
<1>5. CASE Request
  <2>1. PICK r \in Reqs \ made :
           /\ made' = made \cup {r} /\ made' \in SUBSET Reqs
           /\ nextOpID' = nextOpID + 1 /\ nextOpID' \in Ids
           /\ Cardinality(made') = Cardinality(made) + 1
           /\ \/ pendingRes' = [pendingRes EXCEPT ![nextOpID] = r] /\ settled' = settled
              \/ /\ pendingRes' = [pendingRes EXCEPT ![nextOpID] = None]
                 /\ settled' = [settled EXCEPT ![r] = <<"error">>]
    BY <1>5, RequestEffect
  <2>2. settled[r] = <<>>
    BY <2>1 DEF Made
  <2>3. /\ pendingRes' \in [Ids -> Reqs \cup {None}]
        /\ settled' \in [Reqs -> Seq(Reqs \cup {"error"})]
    BY <1>1, <1>4, <2>1
  <2>4. nextOpID \in Nat /\ Cardinality(made) \in Nat
    <3>1. IsFiniteSet(made)
      BY <1>1, FS_Subset DEF EnoughIds
    <3>2. QED BY <1>1, <3>1, FS_CardinalityType, Constants
  <2>5. Made'
    <3>1. nextOpID' <= Cardinality(made')
      BY <2>1, <2>4 DEF Made
    <3>2. \A q \in Reqs : settled'[q] \in {settled[q], <<"error">>} /\ (q # r => settled'[q] = settled[q])
      BY <1>1, <2>1
    <3>3. QED BY <2>1, <3>1, <3>2 DEF Made
  <2>6. Entries'
    <3>1. SUFFICES ASSUME NEW i \in Ids, pendingRes'[i] # None
                   PROVE  /\ i < nextOpID' /\ pendingRes'[i] \in made' /\ settled'[pendingRes'[i]] = <<>>
                          /\ \A j \in Ids : pendingRes'[j] = pendingRes'[i] => i = j
      BY DEF Entries
    <3>2. \A j \in Ids : j # nextOpID => pendingRes'[j] = pendingRes[j]
      BY <1>1, <2>1
    <3>3. \A j \in Ids : pendingRes[j] # None => pendingRes[j] \in made /\ pendingRes[j] # r
      BY <2>1 DEF Entries
    <3>4. CASE i = nextOpID
      <4>1. pendingRes'[i] = r /\ settled' = settled
        BY <1>1, <2>1, <3>1, <3>4
      <4>2. \A j \in Ids : pendingRes'[j] = r => i = j
        BY <2>1, <3>2, <3>3, <3>4, Constants
      <4>3. QED BY <2>1, <2>2, <2>4, <3>4, <4>1, <4>2
    <3>5. CASE i # nextOpID
      <4>1. pendingRes'[i] = pendingRes[i] /\ pendingRes[i] \in made /\ pendingRes[i] # r
        BY <3>1, <3>2, <3>3, <3>5
      <4>2. i < nextOpID /\ settled[pendingRes[i]] = <<>>
        BY <3>1, <4>1 DEF Entries
      <4>3. settled'[pendingRes'[i]] = <<>>
        BY <1>1, <2>1, <4>1, <4>2
      <4>4. i < nextOpID'
        BY <2>1, <2>4, <4>2, Constants
      <4>5. pendingRes'[nextOpID] \in {r, None}
        BY <1>1, <2>1
      <4>6. \A j \in Ids : pendingRes'[j] = pendingRes'[i] => i = j
        BY <3>1, <3>2, <4>1, <4>5 DEF Entries
      <4>7. QED BY <2>1, <4>1, <4>3, <4>4, <4>6
    <3>6. QED BY <3>4, <3>5
  <2>7. QED BY <2>1, <2>3, <2>5, <2>6
<1>6. CASE HandleRes
  <2>1. PICK i \in Ids :
          /\ nextOpID' = nextOpID /\ made' = made
          /\ pendingRes' = [pendingRes EXCEPT ![i] = None]
          /\ \/ settled' = settled /\ pendingRes[i] = None
             \/ /\ pendingRes[i] \in made
                /\ settled' = [settled EXCEPT ![pendingRes[i]] = <<pendingRes[i]>>]
    BY <1>6, HandleResEffect
  <2>2. /\ pendingRes' \in [Ids -> Reqs \cup {None}]
        /\ settled' \in [Reqs -> Seq(Reqs \cup {"error"})]
    BY <1>1, <1>3, <2>1
  <2>3. /\ \A j \in Ids : pendingRes'[j] # None => j # i /\ pendingRes'[j] = pendingRes[j]
        /\ \A q \in Reqs : q # pendingRes[i] => settled'[q] = settled[q]
        /\ \A q \in Reqs : settled'[q] \in {settled[q], <<q>>}
    BY <1>1, <2>1
  <2>4. Made'
    BY <1>1, <2>1, <2>3 DEF Made
  <2>5. Entries'
    BY <1>1, <2>1, <2>3 DEF Entries
  <2>6. QED BY <1>1, <2>1, <2>2, <2>4, <2>5
<1>7. CASE OnClose
  <2>1. /\ pendingRes' = NoEntries /\ made' = made \cup Again /\ nextOpID' = Cardinality(Again)
        /\ nextOpID' \in Ids
    BY <1>7, CloseEffect
  <2>2. /\ DOMAIN settled' = Reqs
        /\ \A r \in Reqs : settled'[r] = settled[r]
              \/ (settled'[r] = <<"error">> /\ r \in made \cup Again)
    BY <1>7, CloseSettles
  <2>3. settled' = [r \in Reqs |-> settled'[r]]
    BY <1>7, <2>2 DEF OnClose
  <2>4. settled' \in [Reqs -> Seq(Reqs \cup {"error"})]
    BY <1>1, <1>4, <2>2, <2>3
  <2>5. pendingRes' \in [Ids -> Reqs \cup {None}] /\ Entries'
    BY <2>1 DEF NoEntries, Entries
  <2>6. made' \in SUBSET Reqs /\ Cardinality(Again) <= Cardinality(made')
    BY <2>1, AgainIs
  <2>7. Made'
    BY <2>1, <2>2, <2>6 DEF Made
  <2>8. QED BY <2>1, <2>4, <2>5, <2>6, <2>7
<1>8. QED BY <1>2, <1>5, <1>6, <1>7 DEF Next, HandleMsg, HandleStreamRes, HandleRetryRes, HandleReq,
     StreamRequest, Write, Result, OnOpen, End, ServerReads, ServerAnswers, ServerStreams,
     ServerAsks, Stopped, vars, sockVars

-----------------------------------------------------------------------------
(* Preservation: handlers and the server.                                   *)

LEMMA NextServer ==
  ASSUME TypeOK, Link, Typed, [Next]_vars
  PROVE  /\ handling' \subseteq [q : Asks, conn : 1 .. MaxConns, id : Ids]
         /\ srvNext' \in Ids /\ srvPending' \in [Ids -> Asks \cup {None}]
         /\ srvGot' \in [Asks -> Asks \cup {None}] /\ begun' \in SUBSET Asks
         /\ srvStream' \in [Streams -> {"none", "open", "ended", "failed"}]
<1>1. /\ handling \subseteq [q : Asks, conn : 1 .. MaxConns, id : Ids]
      /\ srvNext \in Ids /\ srvPending \in [Ids -> Asks \cup {None}]
      /\ srvGot \in [Asks -> Asks \cup {None}] /\ begun \in SUBSET Asks
      /\ srvStream \in [Streams -> {"none", "open", "ended", "failed"}]
      /\ conn \in 0 .. MaxConns
  BY DEF TypeOK
<1>2. CASE UNCHANGED <<handling, srvNext, srvPending, srvGot, begun, srvStream>>
  BY <1>1, <1>2
<1>3. CASE HandleReq
  <2>1. /\ inbox # <<>> /\ Head(inbox).t = "r" /\ isOpen
        /\ handling' = handling \cup {[q |-> Head(inbox).for, conn |-> conn, id |-> Head(inbox).id]}
        /\ UNCHANGED <<srvNext, srvPending, srvGot, begun, srvStream>>
    BY <1>3 DEF HandleReq, Link, srvVars
  <2>2. Head(inbox) \in Incoming /\ Head(inbox) \in Range(inbox)
    BY <2>1, RangeTail DEF TypeOK
  <2>3. Head(inbox).for \in Asks /\ Head(inbox).id \in Ids
    BY <2>1, <2>2 DEF Typed, ComesIn, Incoming
  <2>4. conn \in 1 .. MaxConns
    BY <1>1, <2>1, Constants DEF Link
  <2>5. QED BY <1>1, <2>1, <2>3, <2>4
<1>4. CASE Result
  <2>1. handling' \subseteq handling /\ UNCHANGED srvVars
    BY <1>4 DEF Result
  <2>2. QED BY <1>1, <2>1 DEF srvVars
<1>5. CASE OnOpen \/ OnClose
  <2>1. /\ srvNext' \in {0, srvNext} /\ srvPending' = NoEntries
        /\ srvStream' = [s \in Streams |-> "none"] /\ UNCHANGED <<handling, srvGot, begun>>
    BY <1>5 DEF OnOpen, OnClose
  <2>2. QED BY <1>1, <2>1, Constants DEF NoEntries
<1>6. CASE ServerReads
  <2> DEFINE m == Head(wire)
  <2>1. /\ wire # <<>> /\ UNCHANGED <<handling, srvNext, begun>>
        /\ srvStream' = IF m.t = "s" THEN [srvStream EXCEPT ![m.for] = "open"] ELSE srvStream
        /\ srvPending' = IF m.t = "R" THEN [srvPending EXCEPT ![m.id] = None] ELSE srvPending
        /\ srvGot' = IF m.t = "R" /\ srvPending[m.id] # None
                     THEN [srvGot EXCEPT ![srvPending[m.id]] = m.for] ELSE srvGot
    BY <1>6 DEF ServerReads
  <2>2. m \in Range(wire)
    BY <2>1, RangeTail DEF TypeOK
  <2>3. m.t = "R" => m.for \in Asks
    BY <2>2 DEF Typed, GoesOut
  <2>4. srvStream' \in [Streams -> {"none", "open", "ended", "failed"}]
    BY <1>1, <2>1
  <2>5. srvPending' \in [Ids -> Asks \cup {None}]
    BY <1>1, <2>1
  <2>6. srvGot' \in [Asks -> Asks \cup {None}]
    BY <1>1, <2>1, <2>3
  <2>7. QED BY <1>1, <2>1, <2>4, <2>5, <2>6
<1>7. CASE ServerStreams
  BY <1>1, <1>7, StreamsAnswered DEF ServerStreams
<1>8. CASE ServerAsks
  <2>1. PICK q \in Asks \ begun :
          /\ begun' = begun \cup {q} /\ srvNext' = NextId(srvNext)
          /\ srvPending' = [srvPending EXCEPT ![srvNext] = q]
          /\ UNCHANGED <<handling, srvGot, srvStream>>
    BY <1>8 DEF ServerAsks
  <2>2. QED BY <1>1, <2>1, NextId_InIds
<1>9. QED BY <1>2, <1>3, <1>4, <1>5, <1>6, <1>7, <1>8 DEF Next, HandleMsg, HandleRes,
     HandleStreamRes, HandleRetryRes, Request, StreamRequest, Write, End, ServerAnswers, Stopped,
     vars, srvVars

LEMMA NextTypeOK ==
  ASSUME TypeOK, Link, Typed, Entries, Numbered, Made, EnoughIds, [Next]_vars
  PROVE  TypeOK'
BY NextConn, NextSendq, NextInbox, NextTable, NextServer, StreamsEffect DEF TypeOK, StreamType

LEMMA NextLink ==
  ASSUME TypeOK, Link, Made, EnoughIds, [Next]_vars
  PROVE  Link'
BY NextConn, NextSendq DEF Link

-----------------------------------------------------------------------------
(* Preservation: what is under way.                                         *)

LEMMA NextTyped ==
  ASSUME TypeOK, Link, Typed, Entries, Numbered, Made, EnoughIds, [Next]_vars
  PROVE  Typed'
<1>1. \A m : GoesOut(m) => GoesOut(m)'
  BY NextTable DEF GoesOut
<1>2. \A m \in Range(inbox') : ComesIn(m)'
  BY NextInbox DEF ComesIn
<1>3. SUFFICES (\A m \in Range(sendq') : GoesOut(m)') /\ (\A m \in Range(wire') : GoesOut(m)')
  BY <1>2 DEF Typed
<1>4. (\A m \in Range(sendq) : GoesOut(m)) /\ (\A m \in Range(wire) : GoesOut(m))
  BY DEF Typed
<1>5. Range(<<>>) = {}
  BY DEF Range
<1>6. CASE UNCHANGED <<sendq, wire>>
  BY <1>1, <1>4, <1>6
<1>7. CASE Request \/ Write \/ Result
  <2>1. ASSUME NEW m \in Outgoing, Sends(m), Accepts, GoesOut(m)'
        PROVE  \A x \in Range(sendq') \cup Range(wire') : GoesOut(x)'
    BY <1>1, <1>4, <2>1, SendsEffect
  <2>2. ASSUME NEW m \in Outgoing, Request, m.t = "r", made' = made \cup {m.for}
        PROVE  GoesOut(m)'
    BY <2>2 DEF GoesOut
  <2>3. ASSUME NEW m \in Outgoing, m.t \in {"s", "p"}, m.for \in Streams
        PROVE  GoesOut(m)'
    BY <2>3 DEF GoesOut
  <2>4. ASSUME NEW m \in Outgoing, m.t = "R", NEW h \in handling, m.for = h.q
        PROVE  GoesOut(m)'
    BY <2>4 DEF GoesOut, TypeOK
  <2>5. QED BY <1>6, <1>7, <2>1, <2>2, <2>3, <2>4, SendersEffect
<1>8. CASE OnOpen
  BY <1>1, <1>4, <1>5, <1>8 DEF OnOpen, Flush
<1>9. CASE OnClose
  <2>1. /\ wire' = <<>> /\ sendq' \in Seq(Outgoing) /\ made' = made \cup Again
        /\ \A k \in 1 .. Len(sendq') : sendq'[k].t = "r" /\ sendq'[k].for \in Again
    BY <1>9, CloseEffect
  <2>2. \A m \in Range(sendq') : m.t = "r" /\ m.for \in made'
    BY <2>1, RangeOf
  <2>3. QED BY <1>5, <2>1, <2>2 DEF GoesOut
<1>10. CASE ServerReads
  <2>1. wire # <<>> /\ wire' = Tail(wire) /\ sendq' = sendq /\ wire \in Seq(Outgoing)
    BY <1>10 DEF ServerReads, TypeOK
  <2>2. Range(wire') \subseteq Range(wire)
    BY <2>1, RangeTail
  <2>3. QED BY <1>1, <1>4, <2>1, <2>2
<1>11. QED BY <1>6, <1>7, <1>8, <1>9, <1>10 DEF Next, HandleMsg, HandleRes, HandleStreamRes,
     HandleRetryRes, HandleReq, StreamRequest, End, ServerAnswers, ServerStreams, ServerAsks,
     Stopped, vars, sockVars

\* Within a connection an id keeps leading to its request, or to nothing.
LEMMA LeadsOn ==
  ASSUME TypeOK, Link, Typed, Entries, Numbered, Made, EnoughIds, [Next]_vars, ~OnClose,
         NEW i \in Ids, NEW r, Leads(i, r)
  PROVE  Leads(i, r)'
<1>1. pendingRes \in [Ids -> Reqs \cup {None}] /\ nextOpID \in Ids
  BY DEF TypeOK
<1>2. CASE UNCHANGED <<pendingRes, nextOpID>>
  BY <1>2 DEF Leads
<1>3. CASE Request
  <2>1. nextOpID' = nextOpID + 1 /\ \E x \in Reqs \cup {None} :
                                       pendingRes' = [pendingRes EXCEPT ![nextOpID] = x]
    BY <1>3, RequestEffect
  <2>2. i < nextOpID /\ i < nextOpID + 1
    BY <1>1, Constants DEF Leads
  <2>3. pendingRes'[i] = pendingRes[i]
    BY <1>1, <2>1, <2>2, Constants
  <2>4. QED BY <2>1, <2>2, <2>3 DEF Leads
<1>4. CASE HandleRes
  <2>1. nextOpID' = nextOpID /\ \E j \in Ids : pendingRes' = [pendingRes EXCEPT ![j] = None]
    BY <1>4, HandleResEffect
  <2>2. pendingRes'[i] \in {pendingRes[i], None}
    BY <1>1, <2>1
  <2>3. QED BY <2>1, <2>2 DEF Leads
<1>5. QED BY <1>2, <1>3, <1>4 DEF Next, HandleMsg, HandleStreamRes, HandleRetryRes, HandleReq,
     StreamRequest, Write, Result, OnOpen, End, ServerReads, ServerAnswers, ServerStreams,
     ServerAsks, Stopped, vars, sockVars

LEMMA NextNumbered ==
  ASSUME TypeOK, Link, Typed, Entries, Numbered, Made, EnoughIds, [Next]_vars
  PROVE  Numbered'
<1>1. /\ \A m \in Range(sendq) : m.t = "r" => Leads(m.id, m.for)
      /\ \A m \in Range(wire) : m.t = "r" => Leads(m.id, m.for)
      /\ \A a \in asked : Leads(a.id, a.r)
      /\ \A m \in Range(inbox) : m.t = "R" => Leads(m.id, m.for)
  BY DEF Numbered
<1>2. /\ sendq \in Seq(Outgoing) /\ wire \in Seq(Outgoing) /\ inbox \in Seq(Incoming)
      /\ asked \subseteq [r : Reqs, id : Ids]
  BY DEF TypeOK
<1>3. /\ \A m \in Range(sendq) : m.id \in Ids
      /\ \A m \in Range(wire) : m.id \in Ids
      /\ \A m \in Range(inbox) : m.id \in Ids
      /\ \A a \in asked : a.id \in Ids
  <2>1. /\ Range(sendq) \subseteq Outgoing /\ Range(wire) \subseteq Outgoing
        /\ Range(inbox) \subseteq Incoming
    BY <1>2, RangeOf
  <2>2. QED BY <1>2, <2>1 DEF Outgoing, Incoming
<1>4. Range(<<>>) = {}
  BY DEF Range
<1>5. CASE OnClose
  <2>1. /\ wire' = <<>> /\ inbox' = <<>> /\ asked' = {} /\ pendingRes' = NoEntries
        /\ sendq' \in Seq(Outgoing)
        /\ \A k \in 1 .. Len(sendq') : sendq'[k].id < nextOpID'
    BY <1>5, CloseEffect
  <2>2. \A m \in Range(sendq') : m.id \in Ids /\ m.id < nextOpID'
    <3>1. /\ Range(sendq') \subseteq Outgoing
          /\ \A m \in Range(sendq') : \E k \in 1 .. Len(sendq') : sendq'[k] = m
      BY <2>1, RangeOf
    <3>2. QED BY <2>1, <3>1 DEF Outgoing
  <2>3. \A m \in Range(sendq') : Leads(m.id, m.for)'
    BY <2>1, <2>2 DEF Leads, NoEntries
  <2>4. QED BY <1>4, <2>1, <2>3 DEF Numbered
<1>6. ASSUME ~OnClose
      PROVE  Numbered'
  <2>1. /\ \A m \in Range(sendq) : m.t = "r" => Leads(m.id, m.for)'
        /\ \A m \in Range(wire) : m.t = "r" => Leads(m.id, m.for)'
        /\ \A a \in asked : Leads(a.id, a.r)'
        /\ \A m \in Range(inbox) : m.t = "R" => Leads(m.id, m.for)'
    BY <1>1, <1>3, <1>6, LeadsOn
  <2>2. CASE UNCHANGED <<sendq, wire, asked, inbox>>
    BY <2>1, <2>2 DEF Numbered, Leads
  <2>3. CASE Request \/ Write \/ Result
    <3>1. UNCHANGED <<inbox, asked>>
      BY <2>3, SendersEffect
    <3>2. CASE UNCHANGED <<sendq, wire>>
      BY <2>2, <3>1, <3>2
    <3>3. ASSUME NEW m \in Outgoing, Sends(m), Accepts, m.t = "r" => Leads(m.id, m.for)'
          PROVE  Numbered'
      <4>1. /\ Range(sendq') \subseteq Range(sendq) \cup {m}
            /\ Range(wire') \subseteq Range(wire) \cup {m}
        BY <3>3, SendsEffect
      <4>2. QED BY <2>1, <3>1, <3>3, <4>1 DEF Numbered, Leads
    <3>4. ASSUME NEW m \in Outgoing, m.id = nextOpID, m.for \in Reqs, nextOpID' = nextOpID + 1,
                 pendingRes' = [pendingRes EXCEPT ![nextOpID] = m.for]
          PROVE  Leads(m.id, m.for)'
      <4>1. nextOpID \in Ids /\ pendingRes \in [Ids -> Reqs \cup {None}]
        BY DEF TypeOK
      <4>2. pendingRes'[m.id] = m.for /\ m.id < nextOpID'
        BY <3>4, <4>1, Constants
      <4>3. QED BY <4>2 DEF Leads
    <3>5. QED BY <2>3, <3>2, <3>3, <3>4, SendersEffect
  <2>4. CASE HandleMsg
    <3>1. Range(inbox') \subseteq Range(inbox) /\ UNCHANGED <<sendq, wire, asked>>
      BY <2>4, HandleEffect DEF srvVars
    <3>2. QED BY <2>1, <3>1 DEF Numbered, Leads
  <2>5. CASE OnOpen
    <3>1. sendq' = <<>> /\ wire' = sendq /\ inbox' = <<>> /\ asked' = {}
      BY <2>5 DEF OnOpen, Flush
    <3>2. QED BY <1>4, <2>1, <3>1 DEF Numbered, Leads
  <2>6. CASE ServerReads
    <3>1. /\ wire # <<>> /\ wire' = Tail(wire) /\ UNCHANGED <<sendq, inbox>>
          /\ \/ asked' = asked
             \/ Head(wire).t = "r" /\ asked' = asked \cup {[r |-> Head(wire).for, id |-> Head(wire).id]}
      BY <2>6 DEF ServerReads
    <3>2. Range(wire') \subseteq Range(wire) /\ Head(wire) \in Range(wire)
      BY <1>2, <3>1, RangeTail
    <3>3. \A a \in asked' : Leads(a.id, a.r)'
      BY <2>1, <3>1, <3>2
    <3>4. QED BY <2>1, <3>1, <3>2, <3>3 DEF Numbered, Leads
  <2>7. CASE ServerAnswers
    <3>1. PICK a \in asked, t \in {"R", "e"} :
            /\ asked' = asked \ {a} /\ inbox' = Append(inbox, [t |-> t, id |-> a.id, for |-> a.r])
            /\ UNCHANGED <<sendq, wire>>
      BY <2>7 DEF ServerAnswers, sockVars
    <3> DEFINE m == [t |-> t, id |-> a.id, for |-> a.r]
    <3>2. a.id \in Ids /\ a.r \in Reqs
      BY <1>2
    <3>3. m \in Incoming /\ m.id = a.id /\ m.for = a.r
      BY <3>2, IncomingIs
    <3>4. Range(inbox') = Range(inbox) \cup {m} /\ Leads(m.id, m.for)'
      BY <1>2, <2>1, <3>1, <3>3, RangeAppend
    <3>5. QED BY <2>1, <3>1, <3>4 DEF Numbered, Leads
  <2>8. CASE ServerStreams
    <3>1. UNCHANGED <<sendq, wire, asked>>
      BY <2>8 DEF ServerStreams, sockVars
    <3>2. \A m \in Range(inbox') : m \in Range(inbox) \/ m.t # "R"
      BY <2>8, StreamsAnswered
    <3>3. QED BY <2>1, <3>1, <3>2 DEF Numbered, Leads
  <2>9. CASE ServerAsks
    <3>1. PICK q \in Asks : /\ inbox' = Append(inbox, [t |-> "r", id |-> srvNext, for |-> q])
                            /\ UNCHANGED <<sendq, wire, asked>>
      BY <2>9 DEF ServerAsks, sockVars
    <3> DEFINE m == [t |-> "r", id |-> srvNext, for |-> q]
    <3>2. srvNext \in Ids
      BY DEF TypeOK
    <3>3. m \in Incoming /\ m.t = "r"
      BY <3>2, IncomingIs
    <3>4. Range(inbox') = Range(inbox) \cup {m}
      BY <1>2, <3>1, <3>3, RangeAppend
    <3>5. QED BY <2>1, <3>1, <3>3, <3>4 DEF Numbered, Leads
  <2>10. QED BY <1>6, <2>2, <2>3, <2>4, <2>5, <2>6, <2>7, <2>8, <2>9 DEF Next, StreamRequest, End,
       Stopped, vars, sockVars, srvVars
<1>7. QED BY <1>5, <1>6

\* A message that is new to a sequence goes at its end.
LEMMA SingleAppend ==
  ASSUME NEW q \in Seq(Outgoing), NEW m \in Outgoing, Single(q),
         \A x \in Range(q) : x.for = m.for => x.t # "r" /\ m.t # "r"
  PROVE  Single(Append(q, m))
<1>1. /\ Len(Append(q, m)) = Len(q) + 1 /\ Len(q) \in Nat
      /\ \A k \in 1 .. Len(q) : Append(q, m)[k] = q[k] /\ q[k] \in Range(q)
      /\ Append(q, m)[Len(q) + 1] = m
  BY DEF Range
<1>2. \A k \in 1 .. Len(q) + 1 : k \in 1 .. Len(q) \/ k = Len(q) + 1
  BY <1>1
<1>3. SUFFICES ASSUME NEW j \in 1 .. Len(q) + 1, NEW k \in 1 .. Len(q) + 1,
                      Append(q, m)[j].t = "r", Append(q, m)[j].for = Append(q, m)[k].for
               PROVE  j = k
  BY <1>1 DEF Single
<1>4. CASE j \in 1 .. Len(q) /\ k \in 1 .. Len(q)
  BY <1>1, <1>3, <1>4 DEF Single
<1>5. CASE j \in 1 .. Len(q) /\ k = Len(q) + 1
  BY <1>1, <1>3, <1>5
<1>6. CASE j = Len(q) + 1 /\ k \in 1 .. Len(q)
  BY <1>1, <1>3, <1>6
<1>7. QED BY <1>2, <1>4, <1>5, <1>6

LEMMA NextSentOnce ==
  ASSUME TypeOK, Link, Typed, SentOnce, Made, EnoughIds, [Next]_vars
  PROVE  SentOnce'
<1>1. Single(sendq) /\ Single(wire)
  BY DEF SentOnce
<1>2. Single(<<>>)
  BY DEF Single
<1>3. sendq \in Seq(Outgoing) /\ wire \in Seq(Outgoing) /\ made \in SUBSET Reqs
  BY DEF TypeOK
<1>4. CASE UNCHANGED <<sendq, wire>>
  BY <1>1, <1>4 DEF SentOnce, Single
<1>5. CASE Request \/ Write \/ Result
  <2>1. ASSUME NEW m \in Outgoing, Sends(m), Accepts,
               m.t = "r" => m.for \in Reqs \ made,
               m.t # "r" => m.for \in Asks \cup Streams
        PROVE  SentOnce'
    <3>1. \A x \in Range(sendq) \cup Range(wire) :
            GoesOut(x) /\ x.t \in {"r", "R", "s", "p"}
      <4>1. Range(sendq) \subseteq Outgoing /\ Range(wire) \subseteq Outgoing
        BY <1>3, RangeOf
      <4>2. QED BY <4>1 DEF Typed, Outgoing
    <3>2. \A x \in Range(sendq) \cup Range(wire) : x.for = m.for => x.t # "r" /\ m.t # "r"
      BY <1>3, <2>1, <3>1, Constants DEF GoesOut
    <3>3. Single(Append(sendq, m)) /\ Single(Append(wire, m))
      BY <1>1, <1>3, <3>2, SingleAppend
    <3>4. sendq' \in {sendq, Append(sendq, m)} /\ wire' \in {wire, Append(wire, m)}
      BY <2>1, SendsEffect DEF TypeOK
    <3>5. Single(sendq') /\ Single(wire')
      BY <1>1, <3>3, <3>4
    <3>6. QED BY <3>5 DEF SentOnce, Single
  <2>2. \A h \in handling : h.q \in Asks
    BY DEF TypeOK
  <2>3. QED BY <1>4, <1>5, <2>1, <2>2, SendersEffect
<1>6. CASE OnOpen
  <2>1. sendq' = <<>> /\ wire' = sendq
    BY <1>6 DEF OnOpen, Flush
  <2>2. QED BY <1>1, <1>2, <2>1 DEF SentOnce, Single
<1>7. CASE OnClose
  <2>1. /\ wire' = <<>>
        /\ \A j, k \in 1 .. Len(sendq') : sendq'[j].for = sendq'[k].for => j = k
    BY <1>7, CloseEffect
  <2>2. QED BY <1>2, <2>1 DEF SentOnce, Single
<1>8. CASE ServerReads
  <2>1. wire # <<>> /\ wire' = Tail(wire) /\ sendq' = sendq
    BY <1>8 DEF ServerReads
  <2>2. /\ Tail(wire) \in Seq(Outgoing)
        /\ \A k \in 1 .. Len(Tail(wire)) : Tail(wire)[k] = wire[k + 1] /\ k + 1 \in 1 .. Len(wire)
    BY <1>3, <2>1, RangeTail
  <2>3. Single(Tail(wire))
    <3>1. SUFFICES ASSUME NEW j \in 1 .. Len(Tail(wire)), NEW k \in 1 .. Len(Tail(wire)),
                          Tail(wire)[j].t = "r", Tail(wire)[j].for = Tail(wire)[k].for
                   PROVE  j = k
      BY DEF Single
    <3>2. j + 1 = k + 1
      BY <1>1, <2>2, <3>1 DEF Single
    <3>3. j \in Int /\ k \in Int
      BY <2>2
    <3>4. QED BY <3>2, <3>3
  <2>4. QED BY <1>1, <2>1, <2>3 DEF SentOnce, Single
<1>9. QED BY <1>4, <1>5, <1>6, <1>7, <1>8 DEF Next, HandleMsg, HandleRes, HandleStreamRes,
     HandleRetryRes, HandleReq, StreamRequest, End, ServerAnswers, ServerStreams, ServerAsks,
     Stopped, vars, sockVars

LEMMA NextStreaming ==
  ASSUME TypeOK, Link, Typed, Streaming, [Next]_vars
  PROVE  Streaming'
<1>1. /\ streams \in [Streams -> StreamType] /\ streams' \in [Streams -> StreamType]
      /\ \A s \in Streams : Evolves(streams[s], streams'[s])
  BY StreamsEffect DEF TypeOK, StreamType
<1>2. \A s \in Streams : InStep(streams'[s])
  BY <1>1, EvolvesInStep DEF Streaming
<1>3. QED BY <1>2 DEF Streaming, InStep

LEMMA NextInTable ==
  ASSUME TypeOK, Link, Typed, Entries, Numbered, Made, InTable, Retriers = {}, EnoughIds,
         [Next]_vars
  PROVE  InTable'
<1>1. /\ pendingRes \in [Ids -> Reqs \cup {None}] /\ made \in SUBSET Reqs /\ nextOpID \in Ids
      /\ settled \in [Reqs -> Seq(Reqs \cup {"error"})]
  BY DEF TypeOK
<1>2. CASE UNCHANGED <<pendingRes, settled, made>>
  BY <1>2 DEF InTable
<1>3. CASE Request
  <2>1. PICK r \in Reqs \ made :
           /\ made' = made \cup {r}
           /\ \/ pendingRes' = [pendingRes EXCEPT ![nextOpID] = r] /\ settled' = settled
              \/ /\ pendingRes' = [pendingRes EXCEPT ![nextOpID] = None]
                 /\ settled' = [settled EXCEPT ![r] = <<"error">>]
    BY <1>3, RequestEffect
  <2>2. ASSUME NEW q \in made', settled'[q] = <<>>
        PROVE  \E i \in Ids : pendingRes'[i] = q
    <3>1. CASE q \in made
      <4>1. settled[q] = <<>>
        BY <1>1, <2>1, <2>2, <3>1
      <4>2. PICK i \in Ids : pendingRes[i] = q
        BY <3>1, <4>1 DEF InTable
      <4>3. i # nextOpID
        BY <1>1, <3>1, <4>2, Constants DEF Entries
      <4>4. QED BY <1>1, <2>1, <4>2, <4>3
    <3>2. CASE q = r
      <4>1. <<"error">> # <<>>
        OBVIOUS
      <4>2. QED BY <1>1, <2>1, <2>2, <3>2, <4>1
    <3>3. QED BY <2>1, <2>2, <3>1, <3>2
  <2>3. QED BY <2>2 DEF InTable
<1>4. CASE HandleRes
  <2>1. PICK i \in Ids :
          /\ made' = made
          /\ pendingRes' = [pendingRes EXCEPT ![i] = None]
          /\ \/ settled' = settled /\ pendingRes[i] = None
             \/ /\ pendingRes[i] \in made
                /\ settled' = [settled EXCEPT ![pendingRes[i]] = <<pendingRes[i]>>]
    BY <1>4, HandleResEffect
  <2>2. ASSUME NEW q \in made, settled'[q] = <<>>
        PROVE  \E j \in Ids : pendingRes'[j] = q
    <3>1. <<pendingRes[i]>> # <<>> /\ q # None
      BY <1>1, Constants
    <3>2. q # pendingRes[i] /\ settled[q] = <<>>
      <4>1. CASE settled' = settled /\ pendingRes[i] = None
        BY <2>2, <3>1, <4>1
      <4>2. CASE pendingRes[i] \in made
                 /\ settled' = [settled EXCEPT ![pendingRes[i]] = <<pendingRes[i]>>]
        BY <1>1, <2>2, <3>1, <4>2
      <4>3. QED BY <2>1, <4>1, <4>2
    <3>3. PICK j \in Ids : pendingRes[j] = q
      BY <3>2 DEF InTable
    <3>4. QED BY <1>1, <2>1, <3>2, <3>3
  <2>3. QED BY <2>1, <2>2 DEF InTable
<1>5. CASE OnClose
  <2>1. Again = {} /\ made' = made
    BY <1>5, AgainIs DEF OnClose
  <2>2. \A r \in Reqs : settled'[r] = <<>> => settled[r] = <<>>
    <3>1. <<"error">> # <<>>
      OBVIOUS
    <3>2. QED BY <1>5, <3>1, CloseSettles
  <2>3. \A r \in made : settled'[r] # <<>>
    BY <1>1, <1>5, <2>2, CloseSettles DEF InTable
  <2>4. QED BY <2>1, <2>3 DEF InTable
<1>6. QED BY <1>2, <1>3, <1>4, <1>5 DEF Next, HandleMsg, HandleStreamRes, HandleRetryRes, HandleReq,
     StreamRequest, Write, Result, OnOpen, End, ServerReads, ServerAnswers, ServerStreams,
     ServerAsks, Stopped, vars, sockVars

-----------------------------------------------------------------------------
(* Preservation: the server's ids, where no handler answers late.            *)

LEMMA MeansOn ==
  ASSUME TypeOK, srvNext <= Cardinality(begun), EnoughIds, [Next]_vars, ~OnOpen, ~OnClose,
         NEW i \in Ids, NEW q, Means(i, q)
  PROVE  Means(i, q)'
<1>1. srvPending \in [Ids -> Asks \cup {None}] /\ srvNext \in Ids
  BY DEF TypeOK
<1>2. CASE UNCHANGED <<srvPending, srvNext>>
  BY <1>2 DEF Means
<1>3. CASE ServerReads
  <2>1. srvNext' = srvNext /\ \/ srvPending' = srvPending
                              \/ srvPending' = [srvPending EXCEPT ![Head(wire).id] = None]
    BY <1>3 DEF ServerReads
  <2>2. srvPending'[i] \in {srvPending[i], None}
    BY <1>1, <2>1
  <2>3. QED BY <2>1, <2>2 DEF Means
<1>4. CASE ServerAsks
  <2>1. srvNext' = srvNext + 1 /\ \E x \in Asks : srvPending' = [srvPending EXCEPT ![srvNext] = x]
    BY <1>4, AskEffect
  <2>2. i < srvNext /\ i < srvNext + 1
    BY <1>1, Constants DEF Means
  <2>3. srvPending'[i] = srvPending[i]
    BY <1>1, <2>1, <2>2, Constants
  <2>4. QED BY <2>1, <2>2, <2>3 DEF Means
<1>5. QED BY <1>2, <1>3, <1>4 DEF Next, HandleMsg, HandleRes, HandleStreamRes, HandleRetryRes,
     HandleReq, Request, StreamRequest, Write, Result, End, ServerAnswers, ServerStreams, Stopped,
     vars, srvVars

LEMMA NextAnswers ==
  ASSUME TypeOK, Link, Typed, Made, Answers, ResultsMatch, ~LateResults, EnoughIds, [Next]_vars
  PROVE  Answers' /\ ResultsMatch'
<1>1. /\ srvNext <= Cardinality(begun)
      /\ \A h \in handling : h.conn <= conn
      /\ \A h \in handling : isOpen /\ h.conn = conn => Means(h.id, h.q)
      /\ \A m \in Range(inbox) : m.t = "r" => Means(m.id, m.for)
      /\ \A m \in Range(sendq) : m.t # "R"
      /\ \A m \in Range(wire) : m.t = "R" => Means(m.id, m.for)
  BY DEF Answers
<1>2. /\ sendq \in Seq(Outgoing) /\ wire \in Seq(Outgoing) /\ inbox \in Seq(Incoming)
      /\ handling \subseteq [q : Asks, conn : 1 .. MaxConns, id : Ids] /\ conn \in Nat
      /\ srvNext \in Ids /\ srvPending \in [Ids -> Asks \cup {None}] /\ begun \in SUBSET Asks
      /\ srvGot \in [Asks -> Asks \cup {None}]
  BY Constants DEF TypeOK
<1>3. /\ \A m \in Range(wire) : m.id \in Ids
      /\ \A m \in Range(inbox) : m.id \in Ids
      /\ \A h \in handling : h.id \in Ids /\ h.conn \in Nat
  <2>1. Range(wire) \subseteq Outgoing /\ Range(inbox) \subseteq Incoming
    BY <1>2, RangeOf
  <2>2. QED BY <1>2, <2>1 DEF Outgoing, Incoming
<1>4. Range(<<>>) = {}
  BY DEF Range
<1>5. Cardinality(begun) \in Nat
  <2>1. IsFiniteSet(begun)
    BY <1>2, FS_Subset DEF EnoughIds
  <2>2. QED BY <2>1, FS_CardinalityType
<1>6. CASE OnClose
  <2>1. ~isOpen' /\ UNCHANGED <<conn, handling, srvNext, begun, srvGot>>
    BY <1>6 DEF OnClose
  <2>2. wire' = <<>> /\ inbox' = <<>> /\ \A k \in 1 .. Len(sendq') : sendq'[k].t = "r"
    BY <1>6, CloseEffect
  <2>3. \A m \in Range(sendq') : m.t # "R"
    BY <1>6, <2>2, CloseEffect, RangeOf
  <2>4. QED BY <1>1, <1>4, <2>1, <2>2, <2>3 DEF Answers, ResultsMatch
<1>7. CASE OnOpen
  <2>1. /\ conn' = conn + 1 /\ srvNext' = 0 /\ UNCHANGED <<handling, begun, srvGot>>
        /\ wire' = sendq /\ sendq' = <<>> /\ inbox' = <<>>
    BY <1>7 DEF OnOpen, Flush
  <2>2. \A h \in handling : h.conn <= conn' /\ h.conn # conn'
    BY <1>1, <1>2, <1>3, <2>1
  <2>3. srvNext' <= Cardinality(begun')
    BY <1>5, <2>1
  <2>4. QED BY <1>1, <1>4, <2>1, <2>2, <2>3 DEF Answers, ResultsMatch
<1>8. ASSUME ~OnOpen, ~OnClose
      PROVE  Answers' /\ ResultsMatch'
  <2>1. /\ \A h \in handling : isOpen /\ h.conn = conn => Means(h.id, h.q)'
        /\ \A m \in Range(inbox) : m.t = "r" => Means(m.id, m.for)'
        /\ \A m \in Range(wire) : m.t = "R" => Means(m.id, m.for)'
    BY <1>1, <1>3, <1>8, MeansOn
  <2>2. UNCHANGED <<conn, isOpen>>
    BY <1>8, HandleEffect DEF Next, Request, StreamRequest, Write, Result, End, ServerReads,
       ServerAnswers, ServerStreams, ServerAsks, Stopped, vars, sockVars
  <2>3. CASE UNCHANGED <<handling, inbox, sendq, wire, srvNext, begun, srvGot>>
    BY <1>1, <2>1, <2>2, <2>3 DEF Answers, ResultsMatch, Means
  <2>4. CASE Request \/ Write \/ Result
    <3>1. handling' \subseteq handling /\ UNCHANGED <<srvNext, begun, srvGot>>
      BY <2>4 DEF Request, Write, Result, srvVars
    <3>2. inbox' = inbox
      BY <2>4, SendersEffect
    <3>3. CASE UNCHANGED <<sendq, wire>>
      BY <1>1, <2>1, <2>2, <3>1, <3>2, <3>3 DEF Answers, ResultsMatch, Means
    <3>4. ASSUME NEW m \in Outgoing, Sends(m), Accepts,
                 m.t = "R" => isOpen /\ Means(m.id, m.for)'
          PROVE  Answers' /\ ResultsMatch'
      <4>1. /\ Range(sendq') \subseteq Range(sendq) \cup {m}
            /\ Range(wire') \subseteq Range(wire) \cup {m}
            /\ isOpen => sendq' = sendq
        BY <3>4, SendsEffect
      <4>2. \A x \in Range(sendq') : x.t # "R"
        BY <1>1, <3>4, <4>1
      <4>3. \A x \in Range(wire') : x.t = "R" => Means(x.id, x.for)'
        BY <2>1, <3>4, <4>1
      <4>4. QED BY <1>1, <2>1, <2>2, <3>1, <3>2, <4>2, <4>3 DEF Answers, ResultsMatch, Means
    <3>5. QED BY <2>1, <2>4, <3>3, <3>4, SendersEffect
  <2>5. CASE HandleMsg
    <3>1. /\ Range(inbox') \subseteq Range(inbox) /\ Head(inbox) \in Range(inbox)
          /\ UNCHANGED <<sendq, wire, srvNext, begun, srvGot>>
      BY <2>5, HandleEffect DEF srvVars
    <3>2. CASE handling' = handling
      BY <1>1, <2>1, <2>2, <3>1, <3>2 DEF Answers, ResultsMatch, Means
    <3>3. CASE HandleReq
      <4>1. Head(inbox).t = "r" /\ \E h : h = [q |-> Head(inbox).for, conn |-> conn, id |-> Head(inbox).id]
                                           /\ handling' = handling \cup {h}
        BY <3>3 DEF HandleReq
      <4>2. PICK h, m : /\ handling' = handling \cup {h} /\ m \in Range(inbox) /\ m.t = "r"
                        /\ h.id = m.id /\ h.q = m.for /\ h.conn = conn
        BY <3>1, <4>1
      <4>3. Means(h.id, h.q)' /\ h.conn <= conn
        BY <1>2, <2>1, <4>2
      <4>4. /\ \A g \in handling' : g.conn <= conn'
            /\ \A g \in handling' : isOpen' /\ g.conn = conn' => Means(g.id, g.q)'
        BY <1>1, <2>1, <2>2, <4>2, <4>3
      <4>5. QED BY <1>1, <2>1, <3>1, <4>4 DEF Answers, ResultsMatch, Means
    <3>4. QED BY <2>5, <3>2, <3>3 DEF HandleMsg, HandleRes, HandleStreamRes, HandleRetryRes
  <2>6. CASE ServerReads
    <3> DEFINE m == Head(wire)  q == srvPending[m.id]
    <3>1. /\ wire # <<>> /\ wire' = Tail(wire) /\ UNCHANGED <<handling, inbox, sendq, srvNext, begun>>
          /\ srvGot' = IF m.t = "R" /\ q # None THEN [srvGot EXCEPT ![q] = m.for] ELSE srvGot
      BY <2>6 DEF ServerReads
    <3>2. Range(wire') \subseteq Range(wire) /\ m \in Range(wire)
      BY <1>2, <3>1, RangeTail
    <3>3. m.t = "R" => q \in {None, m.for}
      BY <1>1, <3>2 DEF Means
    <3>4. \A x \in Asks : srvGot'[x] \in {srvGot[x], x}
      BY <1>2, <3>1, <3>3
    <3>5. QED BY <1>1, <2>1, <2>2, <3>1, <3>2, <3>4 DEF Answers, ResultsMatch, Means
  <2>7. CASE ServerAnswers
    <3>1. PICK a \in asked, t \in {"R", "e"} :
            /\ inbox' = Append(inbox, [t |-> t, id |-> a.id, for |-> a.r])
            /\ UNCHANGED <<handling, sendq, wire, srvNext, begun, srvGot>>
      BY <2>7 DEF ServerAnswers, sockVars
    <3> DEFINE m == [t |-> t, id |-> a.id, for |-> a.r]
    <3>2. a.id \in Ids /\ a.r \in Reqs
      BY DEF TypeOK
    <3>3. m \in Incoming /\ m.t = t
      BY <3>2, IncomingIs
    <3>4. Range(inbox') = Range(inbox) \cup {m}
      BY <1>2, <3>1, <3>3, RangeAppend
    <3>5. QED BY <1>1, <2>1, <2>2, <3>1, <3>3, <3>4 DEF Answers, ResultsMatch, Means
  <2>8. CASE ServerStreams
    <3>1. UNCHANGED <<handling, sendq, wire, srvNext, begun, srvGot>>
      BY <2>8 DEF ServerStreams, sockVars
    <3>2. \A m \in Range(inbox') : m \in Range(inbox) \/ m.t # "r"
      BY <2>8, StreamsAnswered
    <3>3. QED BY <1>1, <2>1, <2>2, <3>1, <3>2 DEF Answers, ResultsMatch, Means
  <2>9. CASE ServerAsks
    <3>1. PICK q \in Asks \ begun :
           /\ Cardinality(begun') = Cardinality(begun) + 1
           /\ srvNext' = srvNext + 1 /\ srvNext' \in Ids
           /\ srvPending' = [srvPending EXCEPT ![srvNext] = q]
           /\ inbox' = Append(inbox, [t |-> "r", id |-> srvNext, for |-> q])
      BY <1>1, <2>9, AskEffect
    <3>2. UNCHANGED <<handling, sendq, wire, srvGot>>
      BY <2>9 DEF ServerAsks, sockVars
    <3> DEFINE n == [t |-> "r", id |-> srvNext, for |-> q]
    <3>3. n \in Incoming /\ n.id = srvNext /\ n.for = q
      BY <1>2, IncomingIs
    <3>4. Range(inbox') = Range(inbox) \cup {n}
      BY <1>2, <3>1, <3>3, RangeAppend
    <3> HIDE DEF n
    <3>5. PICK m : m.id = srvNext /\ m.for = q /\ Range(inbox') = Range(inbox) \cup {m}
      BY <3>3, <3>4
    <3>6. Means(m.id, m.for)'
      <4>1. srvPending'[srvNext] = q /\ srvNext < srvNext'
        BY <1>2, <3>1, Constants
      <4>2. QED BY <3>5, <4>1 DEF Means
    <3>7. \A x \in Range(inbox') : x.t = "r" => Means(x.id, x.for)'
      BY <2>1, <3>6, <3>5
    <3>8. srvNext' <= Cardinality(begun')
      BY <1>1, <1>2, <1>5, <3>1, Constants
    <3>9. QED BY <1>1, <2>1, <2>2, <3>2, <3>7, <3>8 DEF Answers, ResultsMatch, Means
  <2>10. QED BY <1>8, <2>3, <2>4, <2>5, <2>6, <2>7, <2>8, <2>9 DEF Next, StreamRequest, End, Stopped,
       vars, sockVars, srvVars
<1>9. QED BY <1>6, <1>7, <1>8

-----------------------------------------------------------------------------
(* The theorems.                                                            *)

LEMMA InitJsInv ==
  ASSUME EnoughIds, Init
  PROVE  JsInv
<1>1. Range(<<>>) = {} /\ Len(<<>>) = 0
  BY DEF Range
<1>2. TypeOK
  <2>1. /\ <<>> \in Seq(Outgoing) /\ <<>> \in Seq(Incoming) /\ <<>> \in Seq(Reqs \cup {"error"})
        /\ <<>> \in Seq({"data", "end", "error"})
    OBVIOUS
  <2>2. Request0 \in StreamType
    BY <2>1, Constants DEF Request0, StreamType
  <2>3. NoEntries \in [Ids -> Reqs \cup {None}] /\ NoEntries \in [Ids -> Asks \cup {None}]
    BY DEF NoEntries
  <2>4. 0 \in 0 .. MaxConns /\ 0 \in Ids /\ 0 <= SendBufferLimit
    BY Constants
  <2>5. streams \in [Streams -> StreamType] /\ settled \in [Reqs -> Seq(Reqs \cup {"error"})]
    BY <2>1, <2>2 DEF Init
  <2>6. QED BY <1>1, <2>1, <2>3, <2>4, <2>5 DEF Init, TypeOK, StreamType
<1>3. Cardinality({}) = 0
  BY FS_EmptySet
<1>4. Link /\ Typed /\ Numbered
  BY <1>1 DEF Init, Link, Typed, Numbered
<1>5. Entries /\ Made
  BY <1>3 DEF Init, Entries, Made, NoEntries
<1>6. SentOnce
  BY <1>1 DEF Init, SentOnce, Single
<1>7. Streaming
  <2>1. ~Request0.entry /\ Request0.seen = <<>>
    BY DEF Request0
  <2>2. InStep(Request0)
    BY <1>1, <2>1 DEF InStep
  <2>3. QED BY <2>2 DEF Init, Streaming
<1>8. InTable
  BY DEF Init, InTable
<1>9. Answers /\ ResultsMatch
  BY <1>1, <1>3 DEF Init, Answers, ResultsMatch
<1>10. QED BY <1>2, <1>4, <1>5, <1>6, <1>7, <1>8, <1>9 DEF JsInv

LEMMA NextJsInv ==
  ASSUME EnoughIds, JsInv, [Next]_vars
  PROVE  JsInv'
<1>1. /\ TypeOK /\ Link /\ Typed /\ Entries /\ Numbered /\ SentOnce /\ Made /\ Streaming
      /\ Retriers = {} => InTable
      /\ ~LateResults => Answers /\ ResultsMatch
  BY DEF JsInv
<1>2. TypeOK' /\ Link' /\ Typed' /\ Numbered'
  BY <1>1, NextTypeOK, NextLink, NextTyped, NextNumbered
<1>3. Entries' /\ Made'
  BY <1>1, NextTable
<1>4. SentOnce' /\ Streaming'
  BY <1>1, NextSentOnce, NextStreaming
<1>5. Retriers = {} => InTable'
  BY <1>1, NextInTable
<1>6. ~LateResults => Answers' /\ ResultsMatch'
  BY <1>1, NextAnswers
<1>7. QED BY <1>2, <1>3, <1>4, <1>5, <1>6 DEF JsInv

\* A Sock keeps its parts in step with each other and with the server, whatever
\* comes and goes: index.js, sendMsg, resetSock and the handlers of messages.
THEOREM JsInvariance ==
  ASSUME EnoughIds
  PROVE  Spec => []JsInv
<1>1. Init => JsInv
  BY InitJsInv
<1>2. JsInv /\ [Next]_vars => JsInv'
  BY NextJsInv
<1>3. QED BY <1>1, <1>2, PTL DEF Spec

\* A callback is called once at most, with an error or the answer to its own request;
\* a stream request emits nothing after its end: index.js, handleRes and resetSock.
THEOREM SettledOnceAlways ==
  ASSUME EnoughIds
  PROVE  Spec => []SettledOnce
<1>1. JsInv => SettledOnce
  BY DEF JsInv, Made, Streaming, InStep, SettledOnce
<1>2. QED BY <1>1, JsInvariance, PTL

\* Where the messages of a sequence say a request is sent once, it is one message.
LEMMA OneCopy ==
  ASSUME NEW q \in Seq(Outgoing), Single(q), \A m \in Range(q) : GoesOut(m),
         NEW r \in Reqs, TypeOK
  PROVE  LET C == {i \in DOMAIN q : q[i].for = r} IN
         Cardinality(C) \in {0, 1} /\ (q = <<>> => Cardinality(C) = 0)
<1> DEFINE C == {i \in DOMAIN q : q[i].for = r}
<1>1. DOMAIN q = 1 .. Len(q)
  OBVIOUS
<1>2. \A i \in C : q[i].t = "r"
  <2>1. \A i \in 1 .. Len(q) : q[i] \in Range(q) /\ q[i] \in Outgoing
    BY RangeOf
  <2>2. QED BY <1>1, <2>1, Constants DEF GoesOut, Outgoing
<1>3. \A i, j \in C : i = j
  BY <1>1, <1>2 DEF Single
<1>4. C = {} \/ \E i \in C : C = {i}
  BY <1>3
<1>5. q = <<>> => C = {}
  BY <1>1
<1>6. QED BY <1>4, <1>5, FS_EmptySet, FS_Singleton

\* Where no callback makes a request of its own, a request that is not settled is in
\* the table, and its message is in one place at most: index.js, bufferRequest,
\* onopen and resetSock.
THEOREM NothingForgottenAlways ==
  ASSUME EnoughIds, Retriers = {}
  PROVE  Spec => []NothingForgotten
<1>1. JsInv => NothingForgotten
  <2>1. SUFFICES ASSUME JsInv PROVE NothingForgotten
    OBVIOUS
  <2>2. TypeOK /\ Link /\ Typed /\ SentOnce /\ InTable /\ Streaming
    BY <2>1 DEF JsInv
  <2>3. ASSUME NEW r \in Unsettled
        PROVE  (\E i \in Ids : pendingRes[i] = r) /\ Copies(r) <= 1
    <3>1. r \in made /\ settled[r] = <<>> /\ r \in Reqs
      BY <2>2 DEF Unsettled, TypeOK
    <3>2. sendq = <<>> \/ wire = <<>>
      BY <2>2 DEF Link
    <3>3. sendq \in Seq(Outgoing) /\ wire \in Seq(Outgoing)
      BY <2>2 DEF TypeOK
    <3> DEFINE A == Cardinality({i \in DOMAIN sendq : sendq[i].for = r})
               B == Cardinality({i \in DOMAIN wire : wire[i].for = r})
    <3>4. A \in {0, 1} /\ (sendq = <<>> => A = 0)
      BY <2>2, <3>1, <3>3, OneCopy DEF Typed, SentOnce
    <3>5. B \in {0, 1} /\ (wire = <<>> => B = 0)
      BY <2>2, <3>1, <3>3, OneCopy DEF Typed, SentOnce
    <3>6. Copies(r) = A + B
      BY DEF Copies
    <3> HIDE DEF A, B
    <3>7. Copies(r) <= 1
      BY <3>2, <3>4, <3>5, <3>6
    <3>8. QED BY <2>2, <3>1, <3>7 DEF InTable
  <2>4. ASSUME NEW s \in Streams, streams[s] # Request0
        PROVE  streams[s].entry # Over(s)
    <3>1. InStep(streams[s]) /\ streams[s] \in StreamType
      BY <2>2 DEF Streaming, TypeOK, StreamType
    <3>2. streams[s].seen \in Seq({"data", "end", "error"}) /\ streams[s].entry \in BOOLEAN
      BY <3>1 DEF StreamType
    <3>3. streams[s].seen # <<>> => Len(streams[s].seen) \in 1 .. Len(streams[s].seen)
      BY <3>2
    <3>4. QED BY <2>4, <3>1, <3>2, <3>3 DEF Over, InStep
  <2>5. QED BY <2>3, <2>4 DEF NothingForgotten
<1>2. QED BY <1>1, JsInvariance, PTL

\* Where no handler answers after its connection ended, a request of the server is
\* answered with its own result: index.js, handleReq and sendMsg.
THEOREM ResultsMatchAlways ==
  ASSUME EnoughIds, LateResults = FALSE
  PROVE  Spec => []ResultsMatch
<1>1. JsInv => ResultsMatch
  BY DEF JsInv
<1>2. QED BY <1>1, JsInvariance, PTL
=============================================================================
