------------------------ MODULE SockResponderProofs ------------------------
(***************************************************************************)
(* What holds of SockResponder for every number of requests, all limits    *)
(* and waits, and any split of the requests into failing, unknown and      *)
(* impatient ones.                                                         *)
(***************************************************************************)
EXTENDS SockResponderInv, FiniteSetTheorems, TLAPS

USE ReqsAssumption, ConfigAssumption, BoundsAssumption, WidthAssumption, DurationAssumption

-----------------------------------------------------------------------------
(* The counters and the waits of limits.go.                                 *)

Counts == 0 .. Width - 1

\* A remainder is a uint32.
LEMMA Wraps == ASSUME NEW x \in Int PROVE x % Width \in Counts
  BY DEF Counts

\* A remainder of what fits is itself.
LEMMA Fits == ASSUME NEW x \in Counts PROVE x % Width = x
  BY DEF Counts

\* Below a limit a request is counted, at the limit it is not, and nothing wraps.
LEMMA IncCounts ==
  ASSUME NEW limit \in Counts, NEW count \in Counts, count <= limit, limit # Unlimited
  PROVE  Inc(limit, count) = IF count = limit THEN <<FALSE, count>> ELSE <<TRUE, count + 1>>
<1>1. count + 1 \in Counts /\ (count + 1) % Width = count + 1
  BY Fits DEF Counts, Unlimited
<1>2. (((count + 1) % Width) - 1) % Width = count
  BY <1>1, Fits DEF Counts
<1>3. (count + 1) % Width > limit <=> count = limit
  BY <1>1 DEF Counts
<1>4. QED BY <1>1, <1>2, <1>3 DEF Inc

\* Counting down what was counted does not wrap.
LEMMA DecCounts ==
  ASSUME NEW limit \in Counts, NEW count \in Counts, count > 0, limit # Unlimited
  PROVE  Dec(limit, count) = count - 1
  BY Fits DEF Dec, Counts

\* Whatever they count, the counters stay uint32.
LEMMA CountsType ==
  ASSUME NEW limit \in Counts, NEW count \in Counts
  PROVE  /\ Inc(limit, count)[1] \in BOOLEAN /\ Inc(limit, count)[2] \in Counts
         /\ Dec(limit, count) \in Counts
<1>1. count + 1 \in Int /\ (count + 1) % Width \in Counts /\ count - 1 \in Int
  BY Wraps DEF Counts
<1>2. ((count + 1) % Width) - 1 \in Int
  BY <1>1 DEF Counts
<1>3. (((count + 1) % Width) - 1) % Width \in Counts /\ (count - 1) % Width \in Counts
  BY <1>1, <1>2, Wraps
<1>4. QED BY <1>1, <1>3 DEF Inc, Dec

\* The bounds of a wait are uint32, and so is the wait.
LEMMA WaitsType ==
  ASSUME NEW min \in Int, NEW max \in Int
  PROVE  /\ MinWait(min) \in Nat /\ MaxWait(min, max) \in Nat
         /\ Uint32Ms(MinWait(min)) \in Counts /\ Uint32Ms(MaxWait(min, max)) \in Counts
         /\ Waits(min, max) \subseteq Counts
<1>1. MinWait(min) \in Nat /\ MaxWait(min, max) \in Nat
  BY DEF MinWait, MaxWait
<1>2. ASSUME NEW d \in Nat PROVE Uint32Ms(d) \in Counts
  <2>1. d \div Millisecond \in Int
    OBVIOUS
  <2>2. QED BY <2>1, Wraps DEF Uint32Ms
<1>3. /\ Uint32Ms(MinWait(min)) \in Counts /\ Uint32Ms(MaxWait(min, max)) \in Counts
  BY <1>1, <1>2
<1>4. ASSUME NEW a \in Counts, NEW b \in Counts PROVE randUint32(a, b) \subseteq Counts
  <2>1. (b - a) % Width \in Counts
    BY Wraps DEF Counts
  <2>2. \A i \in 0 .. ((b - a) % Width) - 1 : (a + i) % Width \in Counts
    BY <2>1, Wraps DEF Counts
  <2>3. QED BY <2>2 DEF randUint32
<1>5. QED BY <1>1, <1>3, <1>4 DEF Waits

\* Dividing keeps the order.
LEMMA DivMonotone ==
  ASSUME NEW a \in Nat, NEW b \in Nat, a <= b
  PROVE  /\ a \div Millisecond \in Nat /\ b \div Millisecond \in Nat
         /\ a \div Millisecond <= b \div Millisecond
  OBVIOUS

\* Between ordered bounds that fit, a wait lies between them, and no maximum that
\* was raised to the minimum leaves one.
LEMMA WaitsBetween ==
  ASSUME NEW min \in Int, NEW max \in Int, MinWait(min) <= MaxWait(min, max),
         MaxWait(min, max) \div Millisecond < Width, NEW w \in Waits(min, max)
  PROVE  /\ w \in Nat
         /\ min > 0 => w >= min \div Millisecond
         /\ max > 0 => w <= max \div Millisecond
<1> DEFINE lo == MinWait(min) \div Millisecond
           hi == MaxWait(min, max) \div Millisecond
<1>1. MinWait(min) \in Nat /\ MaxWait(min, max) \in Nat
  BY WaitsType
<1>2. lo \in Nat /\ hi \in Nat /\ lo <= hi
  BY <1>1, DivMonotone
<1>3. lo \in Counts /\ hi \in Counts /\ hi - lo \in Counts
  BY <1>2 DEF Counts
<1> HIDE DEF lo, hi
<1>4. lo % Width = lo /\ hi % Width = hi /\ (hi - lo) % Width = hi - lo
  BY <1>3, Fits
<1>5. Uint32Ms(MinWait(min)) = lo /\ Uint32Ms(MaxWait(min, max)) = hi
  BY <1>4 DEF Uint32Ms, lo, hi
<1>6. w \in {(lo + i) % Width : i \in 0 .. (hi - lo) - 1}
  BY <1>4, <1>5 DEF Waits, randUint32
<1>7. PICK i \in 0 .. (hi - lo) - 1 : w = (lo + i) % Width
  BY <1>6
<1>8. lo + i \in Counts
  BY <1>2, <1>3 DEF Counts
<1>9. w = lo + i
  BY <1>7, <1>8, Fits
<1>10. w \in Nat /\ lo <= w /\ w < hi
  BY <1>2, <1>9
<1>11. min > 0 => lo = min \div Millisecond
  BY DEF lo, MinWait
<1>12. max > 0 => w <= max \div Millisecond
  <2>1. CASE max > 0 /\ max < MinWait(min)
    <3>1. MaxWait(min, max) = MinWait(min)
      BY <2>1 DEF MaxWait
    <3>2. hi = lo
      BY <3>1 DEF hi, lo
    <3>3. QED BY <1>2, <1>10, <3>2
  <2>2. CASE max > 0 /\ ~(max < MinWait(min))
    <3>1. hi = max \div Millisecond
      BY <2>2 DEF hi, MaxWait
    <3>2. QED BY <1>2, <1>10, <3>1
  <2>3. QED BY <2>1, <2>2
<1>13. QED BY <1>10, <1>11, <1>12

-----------------------------------------------------------------------------
(* Types.                                                                   *)

Labels == {"none", "run", "R", "E", "close", "dec", "done"}

LEMMA InitTypeOK == Init => TypeOK
<1> SUFFICES ASSUME Init PROVE TypeOK OBVIOUS
<1>1. NoMsg \in Messages
  BY DEF NoMsg, Messages
<1>2. 0 \in Counts
  BY DEF Counts
<1>3. rch \in [Reqs -> Seq(0 .. MaxParts)] /\ got \in [Reqs -> Seq(0 .. MaxParts)]
      /\ out \in [Reqs -> Seq(ResKinds)] /\ wire \in Seq(Messages)
  BY DEF Init
<1>4. next \in [Reqs -> 0 .. MaxParts + 1] /\ notes \in 0 .. MaxNotes
      /\ hpc \in [Reqs -> Labels]
  BY DEF Init, Labels
<1>5. QED BY <1>1, <1>2, <1>3, <1>4 DEF Init, TypeOK, Counts, Labels

\* A response is added to those of a request.
LEMMA Writes ==
  ASSUME out \in [Reqs -> Seq(ResKinds)], NEW r, NEW kind \in ResKinds
  PROVE  /\ [out EXCEPT ![r] = Append(@, kind)] \in [Reqs -> Seq(ResKinds)]
         /\ \A q \in Reqs \ {r} : [out EXCEPT ![r] = Append(@, kind)][q] = out[q]
         /\ r \in Reqs => [out EXCEPT ![r] = Append(@, kind)][r] = Append(out[r], kind)
<1>1. CASE r \in Reqs
  <2>1. out[r] \in Seq(ResKinds)
    BY <1>1
  <2>2. Append(out[r], kind) \in Seq(ResKinds)
    BY <2>1
  <2>3. QED BY <1>1, <2>2
<1>2. CASE r \notin Reqs
  <2>1. [out EXCEPT ![r] = Append(@, kind)] = out
    BY <1>2
  <2>2. QED BY <1>2, <2>1
<1>3. QED BY <1>1, <1>2

\* What the reader takes off the wire is a message.
LEMMA TakingType ==
  ASSUME TypeOK, NEW m \in Messages, Taking(m)
  PROVE  wire' \in Seq(Messages) /\ m.k \in 0 .. MaxParts /\ m.r \in Reqs \cup {None}
  BY DEF TypeOK, Taking, Messages

LEMMA ClientTypeOK == ASSUME TypeOK, Send \/ Leave PROVE TypeOK'
<1> USE DEF TypeOK, readVars, ansVars, limVars, chanVars, handVars
<1>1. CASE Leave
  BY <1>1 DEF Leave
<1>2. CASE Send
  <2>1. CASE \E r \in Reqs :
               /\ next[r] < Total(r)
               /\ wire' = Append(wire, [r |-> r, k |-> next[r]])
               /\ next' = [next EXCEPT ![r] = @ + 1]
               /\ UNCHANGED notes
    <3>1. PICK r \in Reqs : /\ next[r] < Total(r)
                            /\ wire' = Append(wire, [r |-> r, k |-> next[r]])
                            /\ next' = [next EXCEPT ![r] = @ + 1]
                            /\ UNCHANGED notes
      BY <2>1
    <3>2. next[r] \in 0 .. MaxParts /\ next[r] + 1 \in 0 .. MaxParts + 1
      BY <3>1 DEF Total
    <3>3. [r |-> r, k |-> next[r]] \in Messages
      BY <3>2 DEF Messages
    <3>4. wire' \in Seq(Messages) /\ next' \in [Reqs -> 0 .. MaxParts + 1]
      BY <3>1, <3>2, <3>3
    <3>5. QED BY <1>2, <3>1, <3>4 DEF Send
  <2>2. CASE notes < MaxNotes /\ wire' = Append(wire, NoMsg) /\ notes' = notes + 1 /\ UNCHANGED next
    <3>1. NoMsg \in Messages
      BY DEF NoMsg, Messages
    <3>2. wire' \in Seq(Messages) /\ notes' \in 0 .. MaxNotes
      BY <2>2, <3>1
    <3>3. QED BY <1>2, <2>2, <3>2 DEF Send
  <2>3. QED BY <1>2, <2>1, <2>2 DEF Send
<1>3. QED BY <1>1, <1>2

\* Counting down.
LEMMA DecOfType ==
  ASSUME TypeOK, NEW r, DecOf(r)
  PROVE  bufferCount' \in Counts /\ streamCount' \in Counts
<1>1. /\ bufferCount \in Counts /\ streamCount \in Counts
      /\ BufferLimit \in Counts /\ StreamLimit \in Counts
  BY DEF TypeOK, Counts
<1>2. Dec(BufferLimit, bufferCount) \in Counts /\ Dec(StreamLimit, streamCount) \in Counts
  BY <1>1, CountsType
<1>3. QED BY <1>1, <1>2 DEF DecOf

\* An answer of the reader.
LEMMA RefuseType ==
  ASSUME TypeOK, NEW m \in Messages, NEW kind \in {"E", "e"}, NEW waits, waits \subseteq Counts,
         Refuse(m, kind, waits)
  PROVE  /\ rmsg' \in Messages /\ rkind' \in {"E", "e"} /\ rwait' \in Counts
         /\ rpc' \in {"respond", "crashed"}
         /\ hpc' \in [Reqs -> Labels] /\ UNCHANGED chanVars
  BY DEF TypeOK, Refuse, Counts, Labels

LEMMA RefusesType ==
  ASSUME TypeOK, NEW m \in Messages, RefuseFor(m) \/ RefuseError(m)
  PROVE  /\ rmsg' \in Messages /\ rkind' \in {"E", "e"} /\ rwait' \in Counts
         /\ rpc' \in {"respond", "crashed"}
         /\ hpc' \in [Reqs -> Labels] /\ UNCHANGED chanVars
<1>1. {0} \subseteq Counts
  BY DEF Counts
<1>2. Waits(StreamMinWait, StreamMaxWait) \subseteq Counts
      /\ Waits(BufferMinWait, BufferMaxWait) \subseteq Counts
  BY WaitsType
<1>3. CASE RefuseFor(m)
  BY <1>2, <1>3, RefuseType DEF RefuseFor
<1>4. CASE RefuseError(m)
  BY <1>1, <1>4, RefuseType DEF RefuseError
<1>5. QED BY <1>3, <1>4

LEMMA ReadCountsType ==
  ASSUME TypeOK, NEW m, readBufferReq(m) \/ readStreamReq(m)
  PROVE  bufferCount' \in Counts /\ streamCount' \in Counts
<1>1. /\ BufferLimit \in Counts /\ StreamLimit \in Counts
      /\ bufferCount \in Counts /\ streamCount \in Counts
  BY DEF TypeOK, Counts
<1>2. Inc(BufferLimit, bufferCount)[2] \in Counts /\ Inc(StreamLimit, streamCount)[2] \in Counts
  BY <1>1, CountsType
<1>3. QED BY <1>1, <1>2 DEF readBufferReq, readStreamReq

LEMMA ReaderTypeOK == ASSUME TypeOK, ReaderStep PROVE TypeOK'
<1> USE DEF TypeOK, reqVars, readVars, ansVars, limVars, chanVars, handVars, Counts, Labels
<1>1. CASE ReadRequest
  <2>1. PICK m \in Messages : Taking(m) /\ (readBufferReq(m) \/ readStreamReq(m))
    BY <1>1 DEF ReadRequest
  <2>2. wire' \in Seq(Messages)
    BY <2>1, TakingType
  <2>3. bufferCount' \in Counts /\ streamCount' \in Counts
    BY <2>1, ReadCountsType
  <2>4. \/ RefuseFor(m) \/ RefuseError(m)
        \/ /\ UNCHANGED readVars /\ hpc' = [hpc EXCEPT ![m.r] = "run"]
           /\ \/ UNCHANGED chanVars
              \/ /\ m.r \in Streams /\ pendingReq' = pendingReq \cup {m.r}
                 /\ rch' = [rch EXCEPT ![m.r] = <<0>>]
    BY <2>1 DEF readBufferReq, readStreamReq
  <2>5. /\ rmsg' \in Messages /\ rkind' \in {"E", "e"} /\ rwait' \in Counts
        /\ rpc' \in {"read", "respond", "crashed"} /\ hpc' \in [Reqs -> Labels]
        /\ pendingReq' \subseteq Streams /\ rch' \in [Reqs -> Seq(0 .. MaxParts)]
    <3>1. CASE RefuseFor(m) \/ RefuseError(m)
      BY <3>1, RefusesType
    <3>2. CASE /\ UNCHANGED readVars /\ hpc' = [hpc EXCEPT ![m.r] = "run"]
               /\ \/ UNCHANGED chanVars
                  \/ /\ m.r \in Streams /\ pendingReq' = pendingReq \cup {m.r}
                     /\ rch' = [rch EXCEPT ![m.r] = <<0>>]
      <4>1. <<0>> \in Seq(0 .. MaxParts)
        OBVIOUS
      <4>2. rpc = "read"
        BY <2>1 DEF Taking
      <4>3. rpc' = "read" /\ rmsg' = rmsg /\ rkind' = rkind /\ rwait' = rwait
        BY <3>2, <4>2
      <4>4. hpc' \in [Reqs -> Labels]
        BY <3>2
      <4>5. pendingReq' \subseteq Streams /\ rch' \in [Reqs -> Seq(0 .. MaxParts)]
        <5>1. CASE UNCHANGED chanVars
          BY <5>1
        <5>2. CASE /\ m.r \in Streams /\ pendingReq' = pendingReq \cup {m.r}
                   /\ rch' = [rch EXCEPT ![m.r] = <<0>>]
          <6>1. m.r \in Reqs
            BY <5>2
          <6>2. rch' \in [Reqs -> Seq(0 .. MaxParts)]
            BY <4>1, <5>2, <6>1
          <6>3. QED BY <5>2, <6>2
        <5>3. QED BY <3>2, <5>1, <5>2
      <4>6. QED BY <4>3, <4>4, <4>5
    <3>3. QED BY <2>4, <3>1, <3>2
  <2>6. QED BY <1>1, <2>2, <2>3, <2>5 DEF ReadRequest
<1>2. CASE Respond
  <2>1. bufferCount' \in Counts /\ streamCount' \in Counts
    BY <1>2, DecOfType DEF Respond, GiveBack
  <2>2. out' \in [Reqs -> Seq(ResKinds)]
    <3>1. rkind \in ResKinds
      BY DEF ResKinds
    <3>2. QED BY <1>2, <3>1, Writes DEF Respond
  <2>3. rwait' \in Counts /\ rpc' \in {"read", "ended"} /\ conn' \in {"open", "closed"}
    BY <1>2 DEF Respond
  <2>4. QED BY <1>2, <2>1, <2>2, <2>3 DEF Respond
<1>3. CASE readStreamReqPart
  <2>1. PICK m \in Messages : /\ Taking(m)
                              /\ IF m.r \in pendingReq
                                 THEN rpc' = "part" /\ rmsg' = m /\ UNCHANGED <<rkind, rwait, conn>>
                                 ELSE Stop
    BY <1>3 DEF readStreamReqPart
  <2>2. wire' \in Seq(Messages)
    BY <2>1, TakingType
  <2>3. QED BY <1>3, <2>1, <2>2 DEF readStreamReqPart, Stop
<1>4. CASE PassPart
  <2>1. rmsg.k \in 0 .. MaxParts
    BY DEF Messages
  <2>2. <<rmsg.k>> \in Seq(0 .. MaxParts)
    BY <2>1
  <2>3. rch' \in [Reqs -> Seq(0 .. MaxParts)]
    BY <1>4, <2>2 DEF PassPart
  <2>4. QED BY <1>4, <2>3 DEF PassPart
<1>5. CASE ReadCutPayload
  <2>1. wire' \in Seq(Messages)
    BY <1>5, TakingType DEF ReadCutPayload
  <2>2. bufferCount' \in Counts /\ streamCount' \in Counts
    BY <1>5, DecOfType DEF ReadCutPayload
  <2>3. QED BY <1>5, <2>1, <2>2 DEF ReadCutPayload, Stop
<1>6. CASE readNotification
  <2>1. wire' \in Seq(Messages)
    <3>1. NoMsg \in Messages
      BY DEF NoMsg, Messages
    <3>2. QED BY <1>6, <3>1, TakingType DEF readNotification
  <2>2. QED BY <1>6, <2>1 DEF readNotification
<1>7. CASE ReadFails
  BY <1>7 DEF ReadFails, Stop
<1>8. QED BY <1>1, <1>2, <1>3, <1>4, <1>5, <1>6, <1>7 DEF ReaderStep

LEMMA HandlerTypeOK == ASSUME TypeOK, NEW r \in Reqs, HandlerStep(r) PROVE TypeOK'
<1> USE DEF TypeOK, reqVars, readVars, ansVars, limVars, chanVars, handVars, Counts, Labels,
            Step, ResKinds
<1>1. CASE BufferHandler(r)
  BY <1>1 DEF BufferHandler, Buffers
<1>2. CASE TakePart(r)
  <2>1. Head(rch[r]) \in 0 .. MaxParts
    BY <1>2 DEF TakePart
  <2>2. got' \in [Reqs -> Seq(0 .. MaxParts)] /\ rch' \in [Reqs -> Seq(0 .. MaxParts)]
    BY <1>2, <2>1 DEF TakePart
  <2>3. QED BY <1>2, <2>2 DEF TakePart
<1>3. CASE WritePart(r)
  <2>1. out' \in [Reqs -> Seq(ResKinds)] /\ eos' \subseteq Reqs
    BY <1>3, Writes DEF WritePart, Says
  <2>2. QED BY <1>3, <2>1 DEF WritePart
<1>4. CASE StreamHandler(r)
  BY <1>4 DEF StreamHandler
<1>5. CASE Answer(r)
  <2>1. out' \in [Reqs -> Seq(ResKinds)]
    <3>1. hpc[r] \in ResKinds
      BY <1>5 DEF Answer
    <3>2. QED BY <1>5, <3>1, Writes DEF Answer
  <2>2. conn' \in {"open", "closed"} /\ hpc' \in [Reqs -> Labels]
    BY <1>5 DEF Answer
  <2>3. QED BY <1>5, <2>1, <2>2 DEF Answer
<1>6. CASE CloseWriter(r)
  <2>1. out' \in [Reqs -> Seq(ResKinds)]
    <3>1. "EOS" \in ResKinds
      OBVIOUS
    <3>2. QED BY <1>6, <3>1, Writes DEF CloseWriter
  <2>2. conn' \in {"open", "closed"} /\ hpc' \in [Reqs -> Labels] /\ eos' \subseteq Reqs
    BY <1>6 DEF CloseWriter
  <2>3. QED BY <1>6, <2>1, <2>2 DEF CloseWriter
<1>7. CASE Finish(r)
  <2>1. bufferCount' \in Counts /\ streamCount' \in Counts
    BY <1>7, DecOfType DEF Finish
  <2>2. QED BY <1>7, <2>1 DEF Finish
<1>8. QED BY <1>1, <1>2, <1>3, <1>4, <1>5, <1>6, <1>7 DEF HandlerStep

-----------------------------------------------------------------------------
(* The wire.                                                                *)

\* A message is taken off the front of the wire.
LEMMA Taken ==
  ASSUME TypeOK, NEW m, Taking(m)
  PROVE  /\ Len(wire) \in Nat /\ Len(wire) >= 1 /\ m = wire[1] /\ m \in Messages
         /\ Len(wire') = Len(wire) - 1 /\ wire' \in Seq(Messages)
         /\ \A i \in 1 .. Len(wire') : wire'[i] = wire[i + 1] /\ wire[i + 1] \in Messages
<1>1. wire \in Seq(Messages) /\ wire # <<>> /\ m = Head(wire) /\ wire' = Tail(wire)
  BY DEF TypeOK, Taking
<1>2. Len(wire) \in Nat /\ Len(wire) >= 1 /\ Len(wire') = Len(wire) - 1
  BY <1>1
<1>3. wire' \in Seq(Messages) /\ \A i \in 1 .. Len(wire') : wire'[i] = wire[i + 1]
  BY <1>1
<1>4. \A i \in 1 .. Len(wire) : wire[i] \in Messages
  BY <1>1
<1>5. m = wire[1]
  BY <1>1
<1>6. \A i \in 1 .. Len(wire') : i + 1 \in 1 .. Len(wire)
  BY <1>2
<1>7. QED BY <1>2, <1>3, <1>4, <1>5, <1>6

\* What messages are made of.
LEMMA MessageIs ==
  ASSUME NEW m \in Messages
  PROVE  m = Part(m.r, m.k) /\ m.k \in 0 .. MaxParts /\ m.r \in Reqs \cup {None}
BY DEF Messages, Part

LEMMA TakingKeepsWired ==
  ASSUME TypeOK, Wired, NEW m, Taking(m), next' = next
  PROVE  Wired'
<1>a. /\ Len(wire) \in Nat /\ Len(wire) >= 1 /\ m = wire[1] /\ m \in Messages
      /\ Len(wire') = Len(wire) - 1
      /\ \A i \in 1 .. Len(wire') : wire'[i] = wire[i + 1] /\ wire[i + 1] \in Messages
  BY Taken
<1> USE <1>a
<1>0. \A i \in 1 .. Len(wire') : i + 1 \in 1 .. Len(wire)
  OBVIOUS
<1>1. \A r \in Reqs : next'[r] <= Total(r)
  BY DEF Wired
<1>2. \A i \in 1 .. Len(wire') :
        IF wire'[i].r = None THEN wire'[i].k = 0 ELSE wire'[i].k < next'[wire'[i].r]
  BY <1>0 DEF Wired
<1>3. \A i, j \in 1 .. Len(wire') :
        i < j /\ wire'[i].r # None /\ wire'[i].r = wire'[j].r => wire'[i].k < wire'[j].k
  <2> SUFFICES ASSUME NEW i \in 1 .. Len(wire'), NEW j \in 1 .. Len(wire'), i < j,
                      wire'[i].r # None, wire'[i].r = wire'[j].r
               PROVE  wire'[i].k < wire'[j].k
    OBVIOUS
  <2>1. i + 1 \in 1 .. Len(wire) /\ j + 1 \in 1 .. Len(wire) /\ i + 1 < j + 1
    BY <1>0
  <2>2. wire[i + 1].k < wire[j + 1].k
    BY <2>1 DEF Wired
  <2>3. QED BY <2>2
<1>4. ASSUME NEW i \in 1 .. Len(wire'), NEW k \in 0 .. MaxParts,
             wire'[i].r # None, wire'[i].k < k, k < next'[wire'[i].r]
      PROVE  \E j \in i .. Len(wire') : wire'[j] = Part(wire'[i].r, k)
  <2>1. PICK j \in i + 1 .. Len(wire) : wire[j] = Part(wire[i + 1].r, k)
    BY <1>0, <1>4 DEF Wired
  <2>2. j - 1 \in i .. Len(wire') /\ wire'[j - 1] = wire[j]
    BY <2>1
  <2>3. QED BY <2>1, <2>2
<1>5. QED BY <1>1, <1>2, <1>3, <1>4 DEF Wired

\* A request's next part goes behind the parts before it.
LEMMA SendKeepsWired ==
  ASSUME TypeOK, Wired, NEW r \in Reqs, next[r] < Total(r),
         wire' = Append(wire, Part(r, next[r])), next' = [next EXCEPT ![r] = @ + 1]
  PROVE  Wired'
<1> DEFINE n == Len(wire)
<1>0. /\ n \in Nat /\ Len(wire') = n + 1 /\ wire'[n + 1].r = r /\ wire'[n + 1].k = next[r]
      /\ \A i \in 1 .. n : wire'[i] = wire[i] /\ wire[i] \in Messages
      /\ next[r] \in Nat /\ next'[r] = next[r] + 1 /\ \A q \in Reqs \ {r} : next'[q] = next[q]
      /\ r # None /\ Total(r) \in Nat
  BY DEF TypeOK, Part, Total
<1>1. \A q \in Reqs : next'[q] <= Total(q)
  BY <1>0 DEF Wired
<1>2. ASSUME NEW i \in 1 .. n + 1
      PROVE  /\ i = n + 1 \/ i \in 1 .. n
             /\ wire'[i].k \in Nat /\ wire'[i].r \in Reqs \cup {None}
  BY <1>0 DEF Messages
<1>3. \A i \in 1 .. n : wire[i].r = r => wire[i].k < next[r]
  BY <1>0 DEF Wired
<1>4. ASSUME NEW i \in 1 .. n + 1
      PROVE  IF wire'[i].r = None THEN wire'[i].k = 0 ELSE wire'[i].k < next'[wire'[i].r]
  <2>1. CASE i = n + 1
    BY <1>0, <2>1
  <2>2. CASE i \in 1 .. n
    <3>1. /\ wire[i].r \in Reqs \cup {None} /\ wire[i].k \in Nat
          /\ IF wire[i].r = None THEN wire[i].k = 0 ELSE wire[i].k < next[wire[i].r]
      BY <1>0, <2>2 DEF Wired, Messages
    <3>2. \A q \in Reqs : next[q] \in Nat
      BY DEF TypeOK
    <3>3. wire'[i] = wire[i]
      BY <1>0, <2>2
    <3>4. QED BY <1>0, <3>1, <3>2, <3>3
  <2>3. QED BY <1>2, <2>1, <2>2
<1>5. ASSUME NEW i \in 1 .. n + 1, NEW j \in 1 .. n + 1,
             i < j, wire'[i].r # None, wire'[i].r = wire'[j].r
      PROVE  wire'[i].k < wire'[j].k
  <2>1. i \in 1 .. n
    BY <1>0, <1>5
  <2>2. CASE j = n + 1
    BY <1>0, <1>3, <1>5, <2>1, <2>2
  <2>3. CASE j \in 1 .. n
    BY <1>0, <1>5, <2>1, <2>3 DEF Wired
  <2>4. QED BY <1>2, <2>2, <2>3
<1>6. ASSUME NEW i \in 1 .. n + 1, NEW k \in 0 .. MaxParts,
             wire'[i].r # None, wire'[i].k < k, k < next'[wire'[i].r]
      PROVE  \E j \in i .. n + 1 : wire'[j] = Part(wire'[i].r, k)
  <2>1. i \in 1 .. n
    BY <1>0, <1>2, <1>6
  <2>2. CASE wire[i].r = r /\ k = next[r]
    BY <1>0, <2>1, <2>2 DEF Part
  <2>3. CASE ~(wire[i].r = r /\ k = next[r])
    <3>0. wire \in Seq(Messages) /\ \A q \in Reqs : next[q] \in Nat
      BY DEF TypeOK
    <3>a. wire[i] \in Messages /\ wire[i].r # None
      BY <1>0, <1>6, <2>1, <3>0
    <3>1. wire[i].r \in Reqs /\ next[wire[i].r] \in Nat
      BY <3>0, <3>a DEF Messages
    <3>2. k < next[wire[i].r]
      BY <1>0, <1>6, <2>1, <2>3, <3>1
    <3>3. PICK j \in i .. n : wire[j] = Part(wire[i].r, k)
      BY <1>0, <1>6, <2>1, <3>2 DEF Wired
    <3>4. QED BY <1>0, <2>1, <3>3
  <2>4. QED BY <2>2, <2>3
<1> HIDE DEF n
<1>7. \A i \in 1 .. Len(wire') :
        IF wire'[i].r = None THEN wire'[i].k = 0 ELSE wire'[i].k < next'[wire'[i].r]
  BY <1>0, <1>4
<1>8. \A i, j \in 1 .. Len(wire') :
        i < j /\ wire'[i].r # None /\ wire'[i].r = wire'[j].r => wire'[i].k < wire'[j].k
  BY <1>0, <1>5
<1>9. \A i \in 1 .. Len(wire') : \A k \in 0 .. MaxParts :
        wire'[i].r # None /\ wire'[i].k < k /\ k < next'[wire'[i].r] =>
          \E j \in i .. Len(wire') : wire'[j] = Part(wire'[i].r, k)
  <2>1. Len(wire') = n + 1
    BY <1>0
  <2>2. QED BY <1>6, <2>1
<1>10. QED BY <1>1, <1>7, <1>8, <1>9 DEF Wired

\* A notification is of no request.
LEMMA NoteKeepsWired ==
  ASSUME TypeOK, Wired, wire' = Append(wire, NoMsg), next' = next
  PROVE  Wired'
<1> DEFINE n == Len(wire)
<1>0. /\ n \in Nat /\ Len(wire') = n + 1 /\ wire'[n + 1].r = None /\ wire'[n + 1].k = 0
      /\ \A i \in 1 .. n : wire'[i] = wire[i] /\ wire[i] \in Messages
  BY DEF TypeOK, NoMsg
<1>1. \A i \in 1 .. n + 1 : i = n + 1 \/ i \in 1 .. n
  BY <1>0
<1>2. \A i \in 1 .. n + 1 :
        IF wire'[i].r = None THEN wire'[i].k = 0 ELSE wire'[i].k < next'[wire'[i].r]
  BY <1>0, <1>1 DEF Wired
<1>3. ASSUME NEW i \in 1 .. n + 1, NEW j \in 1 .. n + 1,
             i < j, wire'[i].r # None, wire'[i].r = wire'[j].r
      PROVE  wire'[i].k < wire'[j].k
  BY <1>0, <1>1, <1>3 DEF Wired
<1>4. ASSUME NEW i \in 1 .. n + 1, NEW k \in 0 .. MaxParts,
             wire'[i].r # None, wire'[i].k < k, k < next'[wire'[i].r]
      PROVE  \E j \in i .. n + 1 : wire'[j] = Part(wire'[i].r, k)
  <2>1. i \in 1 .. n
    BY <1>0, <1>1, <1>4
  <2>2. PICK j \in i .. n : wire[j] = Part(wire[i].r, k)
    BY <1>0, <1>4, <2>1 DEF Wired
  <2>3. QED BY <1>0, <2>1, <2>2
<1>5. QED BY <1>0, <1>2, <1>3, <1>4 DEF Wired

LEMMA NextWired == ASSUME TypeOK, Wired, [Next]_vars PROVE Wired'
<1>1. CASE UNCHANGED <<wire, next>>
  BY <1>1 DEF Wired
<1>2. CASE Send
  <2>1. CASE \E r \in Reqs :
               /\ next[r] < Total(r)
               /\ wire' = Append(wire, [r |-> r, k |-> next[r]])
               /\ next' = [next EXCEPT ![r] = @ + 1]
    BY <2>1, SendKeepsWired DEF Part
  <2>2. CASE wire' = Append(wire, NoMsg) /\ next' = next
    BY <2>2, NoteKeepsWired
  <2>3. QED BY <1>2, <2>1, <2>2 DEF Send
<1>3. CASE next' = next /\ \E m : Taking(m)
  BY <1>3, TakingKeepsWired
<1>4. CASE Leave \/ \E r \in Reqs : HandlerStep(r)
  BY <1>1, <1>4 DEF Leave, HandlerStep, BufferHandler, TakePart, WritePart, StreamHandler,
     Answer, CloseWriter, Finish, reqVars
<1>5. CASE ReaderStep
  BY <1>1, <1>3, <1>5 DEF ReaderStep, ReadRequest, Respond, readStreamReqPart, PassPart,
     ReadCutPayload, readNotification, ReadFails, reqVars
<1>6. CASE Terminating \/ UNCHANGED vars
  BY <1>1, <1>6 DEF Terminating, vars, reqVars
<1>7. QED BY <1>2, <1>4, <1>5, <1>6 DEF Next

-----------------------------------------------------------------------------
(* A request opens once.                                                    *)

\* Whose message the reader takes, it has started; and an opening message it takes
\* is of a request that had not.
LEMMA Opening ==
  ASSUME TypeOK, Wired, NEW m, Taking(m), m.r \in Reqs, next' = next
  PROVE  ~NotStarted(m.r)' /\ (NotStarted(m.r) <=> m.k = 0)
<1>a. /\ Len(wire) \in Nat /\ Len(wire) >= 1 /\ m = wire[1] /\ m \in Messages
      /\ Len(wire') = Len(wire) - 1
      /\ \A i \in 1 .. Len(wire') : wire'[i] = wire[i + 1] /\ wire[i + 1] \in Messages
  BY Taken
<1> USE <1>a
<1>1. m.r # None /\ m.k \in Nat /\ next[m.r] \in Nat
  BY MessageIs DEF TypeOK
<1>2. next[m.r] > m.k
  BY <1>1 DEF Wired
<1>3. ASSUME NEW i \in 1 .. Len(wire), i # 1 PROVE wire[i] # Part(m.r, 0)
  <2>1. 1 \in 1 .. Len(wire) /\ 1 < i /\ wire[1] = m
    BY <1>3
  <2>2. wire[i].r = m.r => m.k < wire[i].k
    BY <1>1, <2>1 DEF Wired
  <2>3. QED BY <1>1, <2>2 DEF Part
<1>4. \A i \in 1 .. Len(wire') : wire'[i] # Part(m.r, 0)
  BY <1>3
<1>5. m = Part(m.r, m.k)
  BY MessageIs
<1>6. m = Part(m.r, 0) <=> m.k = 0
  BY <1>5 DEF Part
<1>7. QED BY <1>1, <1>2, <1>3, <1>4, <1>6 DEF NotStarted

\* What has started stays started.
LEMMA StaysStarted ==
  ASSUME TypeOK, Wired, [Next]_vars, NEW r \in Reqs, NotStarted(r)'
  PROVE  NotStarted(r)
<1>1. CASE UNCHANGED <<wire, next>>
  BY <1>1 DEF NotStarted
<1>2. CASE Send
  <2>0. wire \in Seq(Messages) /\ next \in [Reqs -> 0 .. MaxParts + 1]
    BY DEF TypeOK
  <2>1. /\ \A i \in 1 .. Len(wire) : wire'[i] = wire[i]
        /\ Len(wire) \in Nat /\ Len(wire') = Len(wire) + 1
        /\ \/ /\ next'[r] = next[r] /\ wire'[Len(wire) + 1].r # r
           \/ /\ wire'[Len(wire) + 1].k = next[r] /\ next[r] \in Nat /\ next'[r] = next[r] + 1
    <3>1. CASE wire' = Append(wire, NoMsg) /\ next' = next
      BY <2>0, <3>1 DEF NoMsg
    <3>2. CASE \E q \in Reqs : wire' = Append(wire, [r |-> q, k |-> next[q]])
                            /\ next' = [next EXCEPT ![q] = @ + 1]
      <4>1. PICK q \in Reqs : wire' = Append(wire, [r |-> q, k |-> next[q]])
                            /\ next' = [next EXCEPT ![q] = @ + 1]
        BY <3>2
      <4>2. /\ \A i \in 1 .. Len(wire) : wire'[i] = wire[i]
            /\ Len(wire) \in Nat /\ Len(wire') = Len(wire) + 1
            /\ wire'[Len(wire) + 1].r = q /\ wire'[Len(wire) + 1].k = next[q]
        BY <2>0, <4>1
      <4>3. next[r] \in Nat /\ IF q = r THEN next'[r] = next[r] + 1 ELSE next'[r] = next[r]
        BY <2>0, <4>1
      <4>4. QED BY <4>2, <4>3
    <3>3. QED BY <1>2, <3>1, <3>2 DEF Send
  <2>2. QED BY <2>1 DEF NotStarted, Part
<1>3. CASE next' = next /\ \E m : Taking(m)
  <2>1. \A i \in 1 .. Len(wire') : i + 1 \in 1 .. Len(wire) /\ wire'[i] = wire[i + 1]
    BY <1>3, Taken
  <2>2. QED BY <1>3, <2>1 DEF NotStarted
<1>4. CASE Leave \/ \E q \in Reqs : HandlerStep(q)
  BY <1>1, <1>4 DEF Leave, HandlerStep, BufferHandler, TakePart, WritePart, StreamHandler,
     Answer, CloseWriter, Finish, reqVars
<1>5. CASE ReaderStep
  BY <1>1, <1>3, <1>5 DEF ReaderStep, ReadRequest, Respond, readStreamReqPart, PassPart,
     ReadCutPayload, readNotification, ReadFails, reqVars
<1>6. CASE Terminating \/ UNCHANGED vars
  BY <1>1, <1>6 DEF Terminating, vars, reqVars
<1>7. QED BY <1>2, <1>4, <1>5, <1>6 DEF Next

\* Nothing of a request: no handler, part, channel or answer.
Pristine(r) ==
  /\ hpc[r] = "none" /\ got[r] = <<>> /\ rch[r] = <<>> /\ out[r] = <<>>
  /\ r \notin pendingReq \cup eos /\ ~Holds(r)

\* A handler's step is one of a request that has started.
LEMMA HandlerRuns ==
  ASSUME NEW r \in Reqs, HandlerStep(r) PROVE hpc[r] # "none"
  BY DEF HandlerStep, BufferHandler, TakePart, WritePart, StreamHandler, Answer, CloseWriter, Finish

\* Neither a handler nor the reader touches a request it is not about.
LEMMA HandlerLeaves ==
  ASSUME TypeOK, NEW q \in Reqs, HandlerStep(q), NEW r \in Reqs \ {q}
  PROVE  /\ hpc'[r] = hpc[r] /\ got'[r] = got[r] /\ rch'[r] = rch[r] /\ out'[r] = out[r]
         /\ r \in pendingReq' <=> r \in pendingReq
         /\ r \in eos' <=> r \in eos
         /\ UNCHANGED <<rpc, rmsg>>
<1> USE DEF TypeOK, Step, readVars, ansVars, chanVars
<1>1. CASE BufferHandler(q)
  BY <1>1 DEF BufferHandler
<1>2. CASE TakePart(q)
  BY <1>2 DEF TakePart
<1>3. CASE WritePart(q)
  BY <1>3 DEF WritePart, Says
<1>4. CASE StreamHandler(q)
  BY <1>4 DEF StreamHandler
<1>5. CASE Answer(q)
  BY <1>5 DEF Answer
<1>6. CASE CloseWriter(q)
  BY <1>6 DEF CloseWriter
<1>7. CASE Finish(q)
  BY <1>7 DEF Finish
<1>8. QED BY <1>1, <1>2, <1>3, <1>4, <1>5, <1>6, <1>7 DEF HandlerStep

LEMMA NextStarted == ASSUME TypeOK, Wired, Started, [Next]_vars PROVE Started'
<1> SUFFICES ASSUME NEW r \in Reqs, NotStarted(r)' PROVE Pristine(r)'
  BY DEF Started, Pristine
<1>0. NotStarted(r) /\ Pristine(r)
  BY StaysStarted DEF Started, Pristine
<1> USE DEF Pristine, Holds, readVars, ansVars, limVars, chanVars, handVars
<1>1. CASE Send \/ Leave
  BY <1>0, <1>1 DEF Send, Leave
<1>2. ASSUME NEW q \in Reqs, HandlerStep(q) PROVE Pristine(r)'
  BY <1>0, <1>2, HandlerRuns, HandlerLeaves
<1>3. CASE ReadRequest
  <2>1. PICK m \in Messages : Taking(m) /\ (readBufferReq(m) \/ readStreamReq(m))
    BY <1>3 DEF ReadRequest
  <2>2. m.r \in Reqs /\ m.r # r
    <3>1. m.r \in Reqs /\ next' = next
      BY <1>3, <2>1 DEF ReadRequest, readBufferReq, readStreamReq, Buffers, reqVars
    <3>2. QED BY <2>1, <3>1, Opening
  <2>3. /\ \/ rpc' = "crashed" /\ hpc' = [q \in Reqs |-> "none"] /\ UNCHANGED chanVars
           \/ rpc' = "respond" /\ rmsg' = m /\ UNCHANGED <<hpc, chanVars>>
           \/ /\ hpc' = [hpc EXCEPT ![m.r] = "run"] /\ UNCHANGED <<rpc, rmsg>>
              /\ \/ UNCHANGED chanVars
                 \/ /\ pendingReq' = pendingReq \cup {m.r} /\ rch' = [rch EXCEPT ![m.r] = <<0>>]
    BY <2>1 DEF readBufferReq, readStreamReq, RefuseFor, RefuseError, Refuse
  <2>4. hpc'[r] = "none" /\ rch'[r] = <<>> /\ r \notin pendingReq' /\ ~Holds(r)'
    BY <1>0, <2>2, <2>3 DEF TypeOK
  <2>5. QED BY <1>0, <1>3, <2>4 DEF ReadRequest
<1>4. CASE Respond
  <2>1. rmsg.r # r /\ rpc' \in {"read", "ended"}
    BY <1>0, <1>4 DEF Respond
  <2>2. out'[r] = <<>>
    BY <1>0, <1>4, <2>1 DEF Respond, TypeOK
  <2>3. QED BY <1>0, <1>4, <2>1, <2>2 DEF Respond
<1>5. CASE readStreamReqPart
  <2>1. PICK m \in Messages : /\ Taking(m) /\ m.k > 0
                              /\ \/ m.r \in pendingReq /\ rmsg' = m /\ UNCHANGED conn
                                 \/ rpc' = "ended" /\ UNCHANGED rmsg
    BY <1>5 DEF readStreamReqPart, Stop
  <2>2. m.r # r \/ rpc' = "ended"
    BY <1>0, <2>1
  <2>3. QED BY <1>0, <1>5, <2>1, <2>2 DEF readStreamReqPart
<1>6. CASE PassPart
  <2>1. rmsg.r # r
    BY <1>0, <1>6 DEF PassPart
  <2>2. QED BY <1>0, <1>6, <2>1 DEF PassPart, TypeOK
<1>7. CASE ReadCutPayload
  BY <1>0, <1>7 DEF ReadCutPayload, Stop
<1>8. CASE readNotification
  BY <1>0, <1>8 DEF readNotification
<1>9. CASE ReadFails
  BY <1>0, <1>9 DEF ReadFails, Stop
<1>10. CASE Terminating \/ UNCHANGED vars
  BY <1>0, <1>10 DEF Terminating, vars
<1>11. QED
  BY <1>1, <1>2, <1>3, <1>4, <1>5, <1>6, <1>7, <1>8, <1>9, <1>10 DEF Next, ReaderStep

-----------------------------------------------------------------------------
(* The counters.                                                            *)

LEMMA AliveType ==
  ASSUME NEW S \in SUBSET Reqs
  PROVE  IsFiniteSet(Alive(S)) /\ Cardinality(Alive(S)) \in Nat
<1>1. IsFiniteSet(S)
  BY FS_Subset
<1>2. Alive(S) \in SUBSET S
  BY DEF Alive
<1>3. IsFiniteSet(Alive(S))
  BY <1>1, <1>2, FS_Subset
<1>4. QED BY <1>3, FS_CardinalityType

\* One handler more.
LEMMA AliveGrows ==
  ASSUME TypeOK, NEW S \in SUBSET Reqs, NEW q \in Reqs, hpc[q] = "none",
         hpc' = [hpc EXCEPT ![q] = "run"]
  PROVE  Cardinality(Alive(S)') = Cardinality(Alive(S)) + (IF q \in S THEN 1 ELSE 0)
<1>1. Alive(S)' = IF q \in S THEN Alive(S) \cup {q} ELSE Alive(S)
  BY DEF Alive, Counted, TypeOK
<1>2. q \notin Alive(S)
  BY DEF Alive, Counted
<1>3. IsFiniteSet(Alive(S)) /\ Cardinality(Alive(S)) \in Nat
  BY AliveType
<1>4. Cardinality(Alive(S) \cup {q}) = Cardinality(Alive(S)) + 1
  BY <1>2, <1>3, FS_AddElement
<1>5. CASE q \in S
  BY <1>1, <1>4, <1>5
<1>6. CASE q \notin S
  BY <1>1, <1>3, <1>6
<1>7. QED BY <1>5, <1>6

\* One handler fewer.
LEMMA AliveShrinks ==
  ASSUME TypeOK, NEW S \in SUBSET Reqs, NEW q \in Reqs, hpc[q] = "dec",
         hpc' = [hpc EXCEPT ![q] = "done"]
  PROVE  /\ Cardinality(Alive(S)') = Cardinality(Alive(S)) - (IF q \in S THEN 1 ELSE 0)
         /\ q \in S => Cardinality(Alive(S)) > 0
<1>1. Alive(S)' = IF q \in S THEN Alive(S) \ {q} ELSE Alive(S)
  BY DEF Alive, Counted, TypeOK
<1>2. q \in S => q \in Alive(S)
  BY DEF Alive, Counted
<1>3. q \in S => Cardinality(Alive(S)) # 0
  BY <1>2, AliveType, FS_EmptySet
<1>4. IsFiniteSet(Alive(S)) /\ Cardinality(Alive(S)) \in Nat
  BY AliveType
<1>5. CASE q \in S
  <2>1. Cardinality(Alive(S) \ {q}) = Cardinality(Alive(S)) - 1
    BY <1>2, <1>4, <1>5, FS_RemoveElement
  <2>2. QED BY <1>1, <1>3, <1>4, <1>5, <2>1
<1>6. CASE q \notin S
  BY <1>1, <1>4, <1>6
<1>7. QED BY <1>5, <1>6

\* The same handlers, and no refusal before or after, or the same one.
LEMMA HeldStays ==
  ASSUME NEW S \in SUBSET Reqs, \A q \in Reqs : Counted(q)' <=> Counted(q),
         \/ UNCHANGED <<rpc, rmsg, rkind>>
         \/ rpc # "respond" /\ rpc' # "respond"
  PROVE  Held(S)' = Held(S)
<1>1. Alive(S)' = Alive(S)
  BY DEF Alive
<1>2. QED BY <1>1 DEF Held, WasCounted

\* A request of S is read: refused at the limit, refused and counted, or counted
\* and given to its handler.
LEMMA AdmitHeld ==
  ASSUME TypeOK, rpc = "read", NEW S \in SUBSET Reqs, NEW q \in S, hpc[q] = "none",
         NEW limit \in Counts, NEW count \in Counts, limit # Unlimited, Within(limit, count, S),
         \/ ~Inc(limit, count)[1] /\ hpc' = hpc /\ ~WasCounted(rkind)'
         \/ /\ Inc(limit, count)[1] /\ hpc' = hpc
            /\ rpc' = "respond" /\ rmsg'.r = q /\ WasCounted(rkind)'
         \/ Inc(limit, count)[1] /\ hpc' = [hpc EXCEPT ![q] = "run"] /\ rpc' = "read"
  PROVE  Inc(limit, count)[2] = Held(S)' /\ Held(S)' <= limit
<1>1. count = Held(S) /\ count <= limit /\ Held(S) = Cardinality(Alive(S))
  BY AliveType DEF Within, Held
<1>2. /\ count = limit => ~Inc(limit, count)[1] /\ Inc(limit, count)[2] = count
      /\ count # limit => Inc(limit, count)[1] /\ Inc(limit, count)[2] = count + 1
  <2>1. Inc(limit, count) = IF count = limit THEN <<FALSE, count>> ELSE <<TRUE, count + 1>>
    BY <1>1, IncCounts
  <2>2. CASE count = limit
    <3>1. Inc(limit, count) = <<FALSE, count>>
      BY <2>1, <2>2
    <3>2. QED BY <2>2, <3>1
  <2>3. CASE count # limit
    <3>1. Inc(limit, count) = <<TRUE, count + 1>>
      BY <2>1, <2>3
    <3>2. QED BY <2>3, <3>1
  <2>4. QED BY <2>2, <2>3
<1>3. limit \in Nat /\ count \in Nat
  BY DEF Counts
<1>4. CASE ~Inc(limit, count)[1] /\ hpc' = hpc /\ ~WasCounted(rkind)'
  <2>1. Alive(S)' = Alive(S)
    BY <1>4 DEF Alive, Counted
  <2>2. Held(S)' = Cardinality(Alive(S))
    BY <1>4, <2>1, AliveType DEF Held
  <2>3. QED BY <1>1, <1>2, <1>3, <1>4, <2>2
<1>5. CASE /\ Inc(limit, count)[1] /\ hpc' = hpc
           /\ rpc' = "respond" /\ rmsg'.r = q /\ WasCounted(rkind)'
  <2>1. Alive(S)' = Alive(S)
    BY <1>5 DEF Alive, Counted
  <2>2. Held(S)' = Cardinality(Alive(S)) + 1
    BY <1>5, <2>1 DEF Held
  <2>3. QED BY <1>1, <1>2, <1>3, <1>5, <2>2
<1>6. CASE Inc(limit, count)[1] /\ hpc' = [hpc EXCEPT ![q] = "run"] /\ rpc' = "read"
  <2>1. Held(S)' = Cardinality(Alive(S)')
    <3>1. IsFiniteSet(S)
      BY FS_Subset
    <3>2. Alive(S)' \in SUBSET S
      BY DEF Alive
    <3>3. Cardinality(Alive(S)') \in Nat
      BY <3>1, <3>2, FS_Subset, FS_CardinalityType
    <3>4. QED BY <1>6, <3>3 DEF Held
  <2>2. Held(S)' = Cardinality(Alive(S)) + 1
    BY <1>6, <2>1, AliveGrows
  <2>3. QED BY <1>1, <1>2, <1>3, <1>6, <2>2
<1>7. QED BY <1>4, <1>5, <1>6

\* A request that is not of S is read.
LEMMA OtherHeld ==
  ASSUME TypeOK, rpc = "read", NEW S \in SUBSET Reqs, NEW q \in Reqs \ S, hpc[q] = "none",
         \/ hpc' = hpc /\ rmsg'.r = q
         \/ hpc' = [hpc EXCEPT ![q] = "run"] /\ rpc' = "read"
  PROVE  Held(S)' = Held(S)
<1>1. Alive(S)' = Alive(S)
  BY DEF Alive, Counted, TypeOK
<1>2. QED BY <1>1 DEF Held

\* The message that opens a request finds no handler of it.
LEMMA RequestIsNew ==
  ASSUME TypeOK, Wired, Started, NEW m, Taking(m), next' = next, m.r \in Reqs,
         m.r \in Buffers \/ m.k = 0
  PROVE  m.k = 0 /\ NotStarted(m.r) /\ Pristine(m.r)
<1>1. CASE m.r \in Buffers
  <2>0. m \in Messages /\ 1 \in 1 .. Len(wire) /\ m = wire[1]
    BY Taken
  <2>1. 1 \in 1 .. Len(wire) /\ m = wire[1] /\ m.r # None /\ m.k \in Nat
    BY <2>0, MessageIs
  <2>2. m.k < next[m.r] /\ next[m.r] <= 1 /\ next[m.r] \in Nat
    BY <1>1, <2>1 DEF Wired, Total, Buffers, TypeOK
  <2>3. m.k = 0
    BY <2>1, <2>2
  <2>4. QED BY <2>3, Opening DEF Started, Pristine
<1>2. CASE m.k = 0
  BY <1>2, Opening DEF Started, Pristine
<1>3. QED BY <1>1, <1>2

LEMMA ReadRequestCounts ==
  ASSUME TypeOK, Wired, Started, CountsAreRight, ReadRequest
  PROVE  CountsAreRight'
<1>1. PICK m \in Messages : Taking(m) /\ (readBufferReq(m) \/ readStreamReq(m))
  BY DEF ReadRequest
<1>2. rpc = "read" /\ next' = next /\ m.r \in Reqs
  BY <1>1 DEF ReadRequest, Taking, readBufferReq, readStreamReq, Buffers, reqVars
<1>3. hpc[m.r] = "none"
  BY <1>1, <1>2, RequestIsNew DEF readBufferReq, readStreamReq, Pristine
<1>4. /\ Within(BufferLimit, bufferCount, Buffers) /\ Within(StreamLimit, streamCount, Streams)
      /\ BufferLimit \in Counts /\ StreamLimit \in Counts
      /\ bufferCount \in Counts /\ streamCount \in Counts
      /\ Buffers \in SUBSET Reqs /\ Streams \in SUBSET Reqs
  BY <1>2 DEF CountsAreRight, TypeOK, Counts, Buffers
<1> SUFFICES ASSUME rpc' # "crashed"
             PROVE  Within(BufferLimit, bufferCount, Buffers)' /\ Within(StreamLimit, streamCount, Streams)'
  BY DEF CountsAreRight
<1>5. {0} # {}
  OBVIOUS
<1>6. CASE readBufferReq(m)
  <2> DEFINE try == Inc(BufferLimit, bufferCount)
  <2>1. \/ ~try[1] /\ hpc' = hpc /\ rmsg' = m /\ rkind' = "e"
        \/ try[1] /\ hpc' = hpc /\ rmsg' = m /\ rkind' = "E" /\ rpc' = "respond"
        \/ try[1] /\ hpc' = [hpc EXCEPT ![m.r] = "run"] /\ UNCHANGED readVars
    BY <1>5, <1>6 DEF readBufferReq, RefuseFor, RefuseError, Refuse
  <2>2. m.r \in Buffers /\ m.r \notin Streams /\ bufferCount' = try[2] /\ streamCount' = streamCount
    BY <1>6 DEF readBufferReq, Buffers
  <2>3. Within(StreamLimit, streamCount, Streams)'
    <3>1. Held(Streams)' = Held(Streams)
      BY <1>2, <1>3, <1>4, <2>1, <2>2, OtherHeld DEF readVars, ansVars
    <3>2. QED BY <1>4, <2>2, <3>1 DEF Within
  <2>4. ASSUME BufferLimit # Unlimited
        PROVE  try[2] = Held(Buffers)' /\ Held(Buffers)' <= BufferLimit
    <3>1. /\ rkind' = "e" => ~WasCounted(rkind)'
          /\ rkind' = "E" /\ rmsg' = m => WasCounted(rkind)'
      BY <2>2 DEF WasCounted
    <3>2. UNCHANGED readVars => rpc' = "read"
      BY <1>2 DEF readVars
    <3> HIDE DEF try
    <3>3. \/ ~try[1] /\ hpc' = hpc /\ ~WasCounted(rkind)'
          \/ try[1] /\ hpc' = hpc /\ rpc' = "respond" /\ rmsg'.r = m.r /\ WasCounted(rkind)'
          \/ try[1] /\ hpc' = [hpc EXCEPT ![m.r] = "run"] /\ rpc' = "read"
      BY <2>1, <3>1, <3>2
    <3>4. QED BY <1>2, <1>3, <1>4, <2>2, <2>4, <3>3, AdmitHeld DEF try
  <2>5. QED BY <2>2, <2>3, <2>4 DEF Within
<1>7. CASE readStreamReq(m)
  <2> DEFINE try == Inc(StreamLimit, streamCount)
  <2>1. \/ ~try[1] /\ hpc' = hpc /\ rmsg' = m
           /\ (rkind' = "e" \/ (rkind' = "E" /\ ~(StreamLimit > 0)))
        \/ try[1] /\ hpc' = hpc /\ rmsg' = m /\ rkind' = "E" /\ rpc' = "respond"
        \/ try[1] /\ hpc' = [hpc EXCEPT ![m.r] = "run"] /\ UNCHANGED readVars
    BY <1>5, <1>7 DEF readStreamReq, RefuseFor, RefuseError, Refuse
  <2>2. m.r \in Streams /\ m.r \notin Buffers /\ streamCount' = try[2] /\ bufferCount' = bufferCount
    BY <1>7 DEF readStreamReq, Buffers
  <2>3. Within(BufferLimit, bufferCount, Buffers)'
    <3>1. Held(Buffers)' = Held(Buffers)
      BY <1>2, <1>3, <1>4, <2>1, <2>2, OtherHeld DEF readVars, ansVars
    <3>2. QED BY <1>4, <2>2, <3>1 DEF Within
  <2>4. ASSUME StreamLimit # Unlimited
        PROVE  try[2] = Held(Streams)' /\ Held(Streams)' <= StreamLimit
    <3>1. try[1] => StreamLimit > 0
      <4>1. streamCount <= StreamLimit
        BY <1>4, <2>4 DEF Within
      <4>2. try = IF streamCount = StreamLimit THEN <<FALSE, streamCount>>
                                               ELSE <<TRUE, streamCount + 1>>
        BY <1>4, <2>4, <4>1, IncCounts
      <4>3. QED BY <1>4, <4>1, <4>2 DEF Counts
    <3> HIDE DEF try
    <3>2. /\ (rkind' = "e" \/ ~(StreamLimit > 0)) /\ rmsg' = m => ~WasCounted(rkind)'
          /\ rkind' = "E" /\ StreamLimit > 0 => WasCounted(rkind)'
      BY <2>2 DEF WasCounted
    <3>3. UNCHANGED readVars => rpc' = "read"
      BY <1>2 DEF readVars
    <3>4. \/ ~try[1] /\ hpc' = hpc /\ ~WasCounted(rkind)'
          \/ try[1] /\ hpc' = hpc /\ rpc' = "respond" /\ rmsg'.r = m.r /\ WasCounted(rkind)'
          \/ try[1] /\ hpc' = [hpc EXCEPT ![m.r] = "run"] /\ rpc' = "read"
      BY <2>1, <3>1, <3>2, <3>3
    <3>5. QED BY <1>2, <1>3, <1>4, <2>2, <2>4, <3>4, AdmitHeld DEF try
  <2>5. QED BY <2>2, <2>3, <2>4 DEF Within
<1>8. QED BY <1>1, <1>6, <1>7

\* Something of S comes to its end.
LEMMA DecHeld ==
  ASSUME NEW S \in SUBSET Reqs, NEW limit \in Counts, NEW count \in Counts, limit # Unlimited,
         Within(limit, count, S), Held(S) > 0, Held(S)' = Held(S) - 1
  PROVE  Dec(limit, count) = Held(S)' /\ Held(S)' <= limit
<1>1. count = Held(S) /\ Held(S) <= limit
  BY DEF Within
<1>2. Dec(limit, count) = count - 1
  BY <1>1, DecCounts
<1>3. QED BY <1>1, <1>2 DEF Counts

LEMMA DecOfCounts ==
  ASSUME TypeOK, NEW q \in Reqs, DecOf(q),
         Within(BufferLimit, bufferCount, Buffers), Within(StreamLimit, streamCount, Streams),
         \A S \in SUBSET Reqs : /\ q \in S => Held(S) > 0 /\ Held(S)' = Held(S) - 1
                                /\ q \notin S => Held(S)' = Held(S)
  PROVE  Within(BufferLimit, bufferCount, Buffers)' /\ Within(StreamLimit, streamCount, Streams)'
<1>1. /\ BufferLimit \in Counts /\ StreamLimit \in Counts
      /\ bufferCount \in Counts /\ streamCount \in Counts
      /\ Buffers \in SUBSET Reqs /\ Streams \in SUBSET Reqs
  BY DEF TypeOK, Counts, Buffers
<1>2. CASE q \in Streams
  <2>1. q \notin Buffers /\ bufferCount' = bufferCount /\ streamCount' = Dec(StreamLimit, streamCount)
    BY <1>2 DEF DecOf, Buffers
  <2>2. StreamLimit # Unlimited =>
          Dec(StreamLimit, streamCount) = Held(Streams)' /\ Held(Streams)' <= StreamLimit
    BY <1>1, <1>2, DecHeld
  <2>3. Held(Buffers)' = Held(Buffers)
    BY <1>1, <2>1
  <2>4. QED BY <2>1, <2>2, <2>3 DEF Within
<1>3. CASE q \notin Streams
  <2>1. q \in Buffers /\ streamCount' = streamCount /\ bufferCount' = Dec(BufferLimit, bufferCount)
    BY <1>3 DEF DecOf, Buffers
  <2>2. BufferLimit # Unlimited =>
          Dec(BufferLimit, bufferCount) = Held(Buffers)' /\ Held(Buffers)' <= BufferLimit
    BY <1>1, <2>1, DecHeld
  <2>3. Held(Streams)' = Held(Streams)
    BY <1>1, <1>3
  <2>4. QED BY <2>1, <2>2, <2>3 DEF Within
<1>4. QED BY <1>2, <1>3

LEMMA RespondCounts ==
  ASSUME TypeOK, Refusing, CountsAreRight, Respond
  PROVE  CountsAreRight'
<1> DEFINE q == rmsg.r
<1>1. rpc = "respond" /\ q \in Reqs /\ rpc' \in {"read", "ended"} /\ hpc' = hpc
  BY DEF Respond, Refusing, handVars
<1>2. Within(BufferLimit, bufferCount, Buffers) /\ Within(StreamLimit, streamCount, Streams)
  BY <1>1 DEF CountsAreRight
<1>3. ASSUME NEW S \in SUBSET Reqs
      PROVE  /\ Held(S) = Cardinality(Alive(S)) + (IF q \in S /\ WasCounted(rkind) THEN 1 ELSE 0)
             /\ Held(S)' = Cardinality(Alive(S))
             /\ Cardinality(Alive(S)) \in Nat
  <2>1. Alive(S)' = Alive(S)
    BY <1>1 DEF Alive, Counted
  <2>2. Cardinality(Alive(S)) \in Nat
    BY AliveType
  <2>3. QED BY <1>1, <2>1, <2>2 DEF Held
<1>4. CASE WasCounted(rkind)
  <2>1. \A S \in SUBSET Reqs : /\ q \in S => Held(S) > 0 /\ Held(S)' = Held(S) - 1
                               /\ q \notin S => Held(S)' = Held(S)
    BY <1>3, <1>4
  <2>2. DecOf(q)
    BY <1>4 DEF Respond, GiveBack
  <2> HIDE DEF q
  <2>3. QED BY <1>1, <1>2, <2>1, <2>2, DecOfCounts DEF CountsAreRight
<1>5. CASE ~WasCounted(rkind)
  <2>1. \A S \in SUBSET Reqs : Held(S)' = Held(S)
    BY <1>3, <1>5
  <2>2. UNCHANGED limVars
    BY <1>5 DEF Respond, GiveBack
  <2>3. Buffers \in SUBSET Reqs /\ Streams \in SUBSET Reqs
    BY DEF Buffers
  <2>4. QED BY <1>2, <2>1, <2>2, <2>3 DEF CountsAreRight, Within, limVars
<1>6. QED BY <1>4, <1>5

LEMMA FinishCounts ==
  ASSUME TypeOK, CountsAreRight, NEW q \in Reqs, Finish(q)
  PROVE  CountsAreRight'
<1>1. /\ hpc[q] = "dec" /\ hpc' = [hpc EXCEPT ![q] = "done"] /\ UNCHANGED <<rpc, rmsg, rkind>>
      /\ DecOf(q)
  BY DEF Finish, Step, readVars, ansVars
<1>2. ASSUME NEW S \in SUBSET Reqs
      PROVE  /\ q \in S => Held(S) > 0 /\ Held(S)' = Held(S) - 1
             /\ q \notin S => Held(S)' = Held(S)
  <2>1. /\ Cardinality(Alive(S)') = Cardinality(Alive(S)) - (IF q \in S THEN 1 ELSE 0)
        /\ q \in S => Cardinality(Alive(S)) > 0
        /\ Cardinality(Alive(S)) \in Nat
    BY <1>1, AliveShrinks, AliveType
  <2>2. (rpc = "respond" /\ rmsg.r \in S /\ WasCounted(rkind))' <=>
        (rpc = "respond" /\ rmsg.r \in S /\ WasCounted(rkind))
    BY <1>1 DEF WasCounted
  <2>3. QED BY <2>1, <2>2 DEF Held
<1>3. QED BY <1>1, <1>2, DecOfCounts DEF CountsAreRight

LEMMA NextCounts ==
  ASSUME TypeOK, Wired, Started, Refusing, CountsAreRight, [Next]_vars
  PROVE  CountsAreRight'
<1>0. Buffers \in SUBSET Reqs /\ Streams \in SUBSET Reqs
  BY DEF Buffers
<1>1. ASSUME \A q \in Reqs : Counted(q)' <=> Counted(q), UNCHANGED limVars,
             \/ UNCHANGED <<rpc, rmsg, rkind>>
             \/ rpc \notin {"respond", "ended", "crashed"} /\ rpc' # "respond"
      PROVE  CountsAreRight'
  <2>1. Held(Buffers)' = Held(Buffers) /\ Held(Streams)' = Held(Streams)
    BY <1>0, <1>1, HeldStays
  <2>2. QED BY <1>1, <2>1 DEF CountsAreRight, Within, limVars
<1>2. CASE Send \/ Leave \/ Terminating \/ UNCHANGED vars
  BY <1>1, <1>2 DEF Send, Leave, Terminating, vars, readVars, ansVars, handVars, Counted
<1>3. ASSUME NEW q \in Reqs, HandlerStep(q) PROVE CountsAreRight'
  <2>1. CASE Finish(q)
    BY <2>1, FinishCounts
  <2>2. CASE ~Finish(q)
    <3>1. UNCHANGED <<rpc, rmsg, rkind>> /\ UNCHANGED limVars
      BY <1>3, <2>2 DEF HandlerStep, BufferHandler, TakePart, WritePart, StreamHandler, Answer,
         CloseWriter, readVars, ansVars
    <3>2. \/ hpc' = hpc
          \/ \E a \in {"run", "R", "E", "close", "dec"} :
               Counted(q) /\ hpc' = [hpc EXCEPT ![q] = a]
      BY <1>3, <2>2 DEF HandlerStep, BufferHandler, TakePart, WritePart, StreamHandler, Answer,
         CloseWriter, Step, Counted
    <3>3. \A p \in Reqs : Counted(p)' <=> Counted(p)
      BY <3>2 DEF Counted, TypeOK
    <3>4. QED BY <1>1, <3>1, <3>3
  <2>3. QED BY <2>1, <2>2
<1>4. CASE ReadRequest
  BY <1>4, ReadRequestCounts
<1>5. CASE Respond
  BY <1>5, RespondCounts
<1>6. CASE readStreamReqPart \/ PassPart \/ readNotification
  BY <1>1, <1>6 DEF readStreamReqPart, PassPart, readNotification, Taking, Stop, handVars, Counted
<1>7. CASE ReadCutPayload \/ ReadFails
  BY <1>7 DEF ReadCutPayload, ReadFails, Stop, CountsAreRight
<1>8. QED BY <1>2, <1>3, <1>4, <1>5, <1>6, <1>7 DEF Next, ReaderStep

-----------------------------------------------------------------------------
(* Answers.                                                                 *)

\* What is said of the answers to r depends on r's part of the state.
LEMMA OutFrame ==
  ASSUME NEW r \in Reqs, hpc'[r] = hpc[r], out'[r] = out[r], r \in eos' <=> r \in eos
  PROVE  (BufferOut(r) => BufferOut(r)') /\ (StreamOut(r) => StreamOut(r)')
  BY DEF BufferOut, StreamOut

\* One answer more.
LEMMA Longer ==
  ASSUME TypeOK, NEW r \in Reqs, NEW kind \in ResKinds, out' = [out EXCEPT ![r] = Append(@, kind)]
  PROVE  /\ Len(out[r]) \in Nat /\ Len(out'[r]) = Len(out[r]) + 1
         /\ \A i \in 1 .. Len(out[r]) : out'[r][i] = out[r][i]
         /\ \A i \in 1 .. Len(out[r]) + 1 : i \in 1 .. Len(out[r]) \/ i = Len(out[r]) + 1
         /\ out'[r][Len(out[r]) + 1] = kind
<1>1. out[r] \in Seq(ResKinds) /\ out'[r] = Append(out[r], kind)
  BY DEF TypeOK
<1>2. QED BY <1>1

LEMMA ReaderKeepsOut ==
  ASSUME TypeOK, Wired, Started, OutInv, ReaderStep
  PROVE  OutInv'
<1> USE DEF OutInv
<1>1. ASSUME UNCHANGED <<hpc, out, eos>>, rpc' # "respond" PROVE OutInv'
  BY <1>1, OutFrame DEF Refusing, Buffers
<1>2. CASE ReadRequest
  <2>1. PICK m \in Messages : Taking(m) /\ (readBufferReq(m) \/ readStreamReq(m))
    BY <1>2 DEF ReadRequest
  <2>2. /\ rpc = "read" /\ next' = next /\ m.r \in Reqs /\ out' = out /\ eos' = eos
        /\ m.r \in Buffers \/ m.k = 0
    BY <1>2, <2>1 DEF ReadRequest, Taking, readBufferReq, readStreamReq, Buffers, reqVars
  <2>3. hpc[m.r] = "none" /\ out[m.r] = <<>> /\ m.r \notin eos
    BY <2>1, <2>2, RequestIsNew DEF Pristine
  <2>4. \/ rpc' = "crashed" /\ hpc' = [q \in Reqs |-> "none"]
        \/ rpc' = "respond" /\ rmsg' = m /\ hpc' = hpc
        \/ hpc' = [hpc EXCEPT ![m.r] = "run"] /\ rpc' = "read"
    BY <2>1, <2>2 DEF readBufferReq, readStreamReq, RefuseFor, RefuseError, Refuse, readVars
  <2>5. ASSUME rpc' = "crashed", hpc' = [q \in Reqs |-> "none"] PROVE OutInv'
    <3>1. \A r \in Buffers : BufferOut(r)'
      BY <2>2, <2>5 DEF BufferOut, Buffers
    <3>2. \A r \in Streams : StreamOut(r)'
      BY <2>2, <2>5 DEF StreamOut
    <3>3. QED BY <2>5, <3>1, <3>2 DEF Refusing
  <2>6. ASSUME rpc' = "respond", rmsg' = m, hpc' = hpc PROVE OutInv'
    <3>1. \A r \in Reqs : (BufferOut(r) => BufferOut(r)') /\ (StreamOut(r) => StreamOut(r)')
      BY <2>2, <2>6, OutFrame
    <3>2. QED BY <2>2, <2>3, <2>6, <3>1 DEF Refusing, Buffers
  <2>7. ASSUME hpc' = [hpc EXCEPT ![m.r] = "run"], rpc' = "read" PROVE OutInv'
    <3>1. \A r \in Reqs \ {m.r} : hpc'[r] = hpc[r]
      BY <2>7 DEF TypeOK
    <3>2. \A r \in Reqs \ {m.r} : (BufferOut(r) => BufferOut(r)') /\ (StreamOut(r) => StreamOut(r)')
      BY <2>2, <3>1, OutFrame
    <3>3. out'[m.r] = <<>> /\ hpc'[m.r] = "run"
      BY <2>2, <2>3, <2>7 DEF TypeOK
    <3>4. BufferOut(m.r)' /\ StreamOut(m.r)'
      BY <3>3 DEF BufferOut, StreamOut
    <3>5. QED BY <2>7, <3>2, <3>4 DEF Refusing, Buffers
  <2>8. QED BY <2>4, <2>5, <2>6, <2>7
<1>3. CASE Respond
  <2>0. PICK q \in Reqs : q = rmsg.r
    BY <1>3 DEF Respond, Refusing
  <2>1. /\ out[q] = <<>> /\ hpc[q] = "none" /\ hpc' = hpc /\ eos' = eos
        /\ rpc' # "respond"
    BY <1>3, <2>0 DEF Respond, Refusing, handVars
  <2>2. CASE UNCHANGED out
    BY <1>1, <2>1, <2>2
  <2>3. CASE out' = [out EXCEPT ![q] = Append(@, rkind)]
    <3>1. rkind \in {"E", "e"} /\ rkind \in ResKinds
      BY DEF TypeOK, ResKinds
    <3>2. out'[q] = <<rkind>> /\ \A r \in Reqs \ {q} : out'[r] = out[r]
      <4>1. out'[q] = Append(<<>>, rkind)
        BY <2>1, <2>3 DEF TypeOK
      <4>2. \A r \in Reqs \ {q} : out'[r] = out[r]
        BY <2>3 DEF TypeOK
      <4>3. QED BY <4>1, <4>2
    <3>3. \A r \in Reqs \ {q} : (BufferOut(r) => BufferOut(r)') /\ (StreamOut(r) => StreamOut(r)')
      BY <2>1, <3>2, OutFrame
    <3>4. BufferOut(q)' /\ StreamOut(q)'
      <4>1. Len(out'[q]) = 1 /\ out'[q][1] = rkind /\ hpc'[q] = "none"
        BY <2>1, <3>2
      <4>2. QED BY <3>1, <4>1 DEF BufferOut, StreamOut
    <3>5. QED BY <2>1, <3>3, <3>4 DEF Refusing, Buffers
  <2>4. QED BY <1>3, <2>0, <2>2, <2>3 DEF Respond
<1>4. CASE readStreamReqPart \/ PassPart \/ ReadCutPayload \/ readNotification \/ ReadFails
  BY <1>1, <1>4 DEF readStreamReqPart, PassPart, ReadCutPayload, readNotification, ReadFails,
     Taking, Stop, handVars
<1>5. QED BY <1>2, <1>3, <1>4 DEF ReaderStep

\* A handler's answer after what it has written.
LEMMA HandlerKeepsBufferOut ==
  ASSUME TypeOK, NEW r \in Buffers, BufferOut(r), HandlerStep(r)
  PROVE  BufferOut(r)'
<1>0. r \in Reqs /\ r \notin Streams
  BY DEF Buffers
<1>1. CASE BufferHandler(r)
  BY <1>0, <1>1 DEF BufferHandler, Step, BufferOut, TypeOK
<1>2. CASE Answer(r)
  <2>1. out[r] = <<>> /\ hpc'[r] = "dec"
    BY <1>0, <1>2 DEF Answer, Step, BufferOut, TypeOK
  <2>2. CASE out' = out
    BY <2>1, <2>2 DEF BufferOut
  <2>3. CASE out' = [out EXCEPT ![r] = Append(@, hpc[r])]
    <3>1. hpc[r] \in {"R", "E"} /\ out'[r] = Append(<<>>, hpc[r])
      BY <1>0, <1>2, <2>1, <2>3 DEF Answer, TypeOK
    <3>2. Len(out'[r]) = 1 /\ out'[r][1] = hpc[r]
      BY <3>1
    <3>3. QED BY <2>1, <3>1, <3>2 DEF BufferOut
  <2>4. QED BY <1>2, <2>2, <2>3 DEF Answer
<1>3. CASE CloseWriter(r)
  BY <1>3 DEF CloseWriter, BufferOut
<1>4. CASE Finish(r)
  BY <1>0, <1>4 DEF Finish, Step, BufferOut, TypeOK
<1>5. QED
  BY <1>0, <1>1, <1>2, <1>3, <1>4 DEF HandlerStep, TakePart, WritePart, StreamHandler

Before(r, kinds) == \E i \in 1 .. Len(out[r]) : out[r][i] \in kinds

\* A part may follow parts, an error what has no error, an end what has no end.
LEMMA StreamOutGrows ==
  ASSUME TypeOK, NEW r \in Streams, StreamOut(r), NEW kind \in {"S", "E", "EOS"},
         out' = [out EXCEPT ![r] = Append(@, kind)],
         kind = "S" => ~Before(r, ResKinds \ {"S"}),
         kind = "E" => ~Before(r, {"E", "e"}) /\ hpc'[r] \notin {"run", "E"},
         kind = "EOS" => ~Before(r, {"EOS"}) /\ r \in eos',
         r \notin eos' => r \notin eos,
         hpc'[r] \in {"run", "E"} => hpc[r] \in {"run", "E"},
         hpc'[r] = "run" => hpc[r] = "run",
         hpc'[r] # "R"
  PROVE  StreamOut(r)'
<1> DEFINE n == Len(out[r])
<1>0. /\ n \in Nat /\ Len(out'[r]) = n + 1
      /\ \A i \in 1 .. n : out'[r][i] = out[r][i] /\ out[r][i] \in ResKinds
      /\ \A i \in 1 .. n + 1 : i \in 1 .. n \/ i = n + 1
      /\ out'[r][n + 1] = kind
  <2>1. r \in Reqs /\ kind \in ResKinds
    BY DEF ResKinds
  <2>2. \A i \in 1 .. n : out[r][i] \in ResKinds
    BY <2>1 DEF TypeOK
  <2>3. QED BY <2>1, <2>2, Longer
<1> HIDE DEF n
<1>1. \A i \in 1 .. n + 1 : out'[r][i] = "S" => \A j \in 1 .. i : out'[r][j] = "S"
  <2>1. SUFFICES ASSUME NEW i \in 1 .. n + 1, out'[r][i] = "S", NEW j \in 1 .. i
                 PROVE  out'[r][j] = "S"
    OBVIOUS
  <2>2. CASE i \in 1 .. n
    BY <1>0, <2>1, <2>2 DEF StreamOut, n
  <2>3. CASE i = n + 1
    BY <1>0, <2>1, <2>3 DEF Before, n
  <2>4. QED BY <1>0, <2>2, <2>3
<1>2. \A i, j \in 1 .. n + 1 : out'[r][i] = "EOS" /\ out'[r][j] = "EOS" => i = j
  BY <1>0 DEF StreamOut, Before, n
<1>3. \A i, j \in 1 .. n + 1 :
        out'[r][i] \in {"E", "e"} /\ out'[r][j] \in {"E", "e"} => i = j
  BY <1>0 DEF StreamOut, Before, n
<1>4. r \notin eos' => \A i \in 1 .. n + 1 : out'[r][i] # "EOS"
  BY <1>0 DEF StreamOut, n
<1>5. hpc'[r] \in {"run", "E"} => \A i \in 1 .. n + 1 : out'[r][i] \notin {"E", "e"}
  BY <1>0 DEF StreamOut, n
<1>6. hpc'[r] = "run" /\ r \notin eos' => \A i \in 1 .. n + 1 : out'[r][i] = "S"
  BY <1>0 DEF StreamOut, n
<1>7. QED BY <1>0, <1>1, <1>2, <1>3, <1>4, <1>5, <1>6 DEF StreamOut

LEMMA HandlerKeepsStreamOut ==
  ASSUME TypeOK, NEW r \in Streams, StreamOut(r), HandlerStep(r)
  PROVE  StreamOut(r)'
<1>0. r \in Reqs /\ r \notin Buffers
  BY DEF Buffers
<1>1. CASE TakePart(r)
  BY <1>0, <1>1, OutFrame DEF TakePart
<1>2. CASE WritePart(r)
  <2>0. hpc[r] = "run" /\ hpc' = hpc /\ r \notin eos
        /\ \A i \in 1 .. Len(out[r]) : out[r][i] = "S"
    BY <1>2 DEF WritePart, StreamOut
  <2>1. CASE out' = out
    <3>1. out'[r] = out[r]
      BY <2>1
    <3>2. QED BY <2>0, <2>1 DEF StreamOut
  <2>2. ASSUME NEW kind \in {"S", "EOS"}, out' = [out EXCEPT ![r] = Append(@, kind)],
               kind = "EOS" => r \in eos'
        PROVE  StreamOut(r)'
    <3>1. ~Before(r, ResKinds \ {"S"}) /\ ~Before(r, {"EOS"})
      BY <2>0 DEF Before
    <3>2. QED BY <2>0, <2>2, <3>1, StreamOutGrows
  <2>3. QED BY <1>2, <2>1, <2>2 DEF WritePart, Says
<1>3. CASE StreamHandler(r)
  BY <1>0, <1>3 DEF StreamHandler, Step, StreamOut, TypeOK
<1>4. CASE Answer(r)
  <2>0. hpc[r] = "E" /\ hpc'[r] = "close" /\ eos' = eos
    BY <1>0, <1>4 DEF Answer, Step, StreamOut, TypeOK
  <2>1. CASE out' = out
    BY <2>0, <2>1 DEF StreamOut
  <2>2. CASE out' = [out EXCEPT ![r] = Append(@, hpc[r])]
    <3>1. ~Before(r, {"E", "e"}) /\ out' = [out EXCEPT ![r] = Append(@, "E")]
      BY <2>0, <2>2 DEF Before, StreamOut
    <3>2. QED BY <2>0, <3>1, StreamOutGrows
  <2>3. QED BY <1>4, <2>1, <2>2 DEF Answer
<1>5. CASE CloseWriter(r)
  <2>0. hpc'[r] = "dec" /\ r \in eos'
    BY <1>0, <1>5 DEF CloseWriter, Step, TypeOK
  <2>1. CASE out' = out
    BY <2>0, <2>1 DEF StreamOut
  <2>2. CASE r \notin eos /\ out' = [out EXCEPT ![r] = Append(@, "EOS")]
    <3>1. ~Before(r, {"EOS"})
      BY <2>2 DEF Before, StreamOut
    <3>2. QED BY <2>0, <2>2, <3>1, StreamOutGrows
  <2>3. QED BY <1>5, <2>1, <2>2 DEF CloseWriter, MustEnd
<1>6. CASE Finish(r)
  BY <1>0, <1>6 DEF Finish, Step, StreamOut, TypeOK
<1>7. CASE BufferHandler(r)
  BY <1>0, <1>7 DEF BufferHandler
<1>8. QED BY <1>1, <1>2, <1>3, <1>4, <1>5, <1>6, <1>7 DEF HandlerStep

LEMMA NextOut ==
  ASSUME TypeOK, Wired, Started, OutInv, [Next]_vars
  PROVE  OutInv'
<1>1. CASE ReaderStep
  BY <1>1, ReaderKeepsOut
<1>2. ASSUME NEW q \in Reqs, HandlerStep(q) PROVE OutInv'
  <2>1. \A r \in Reqs \ {q} : (BufferOut(r) => BufferOut(r)') /\ (StreamOut(r) => StreamOut(r)')
    BY <1>2, HandlerLeaves, OutFrame
  <2>2. q \in Buffers => BufferOut(q)'
    BY <1>2, HandlerKeepsBufferOut DEF OutInv
  <2>3. q \in Streams => StreamOut(q)'
    BY <1>2, HandlerKeepsStreamOut DEF OutInv
  <2>4. Refusing'
    <3> SUFFICES ASSUME rpc' = "respond" PROVE Refusing'
      BY DEF Refusing
    <3>1. UNCHANGED <<rpc, rmsg>>
      BY <1>2 DEF HandlerStep, BufferHandler, TakePart, WritePart, StreamHandler, Answer,
         CloseWriter, Finish, readVars, ansVars
    <3>2. rmsg.r \in Reqs /\ out[rmsg.r] = <<>> /\ hpc[rmsg.r] = "none"
      BY <3>1 DEF OutInv, Refusing
    <3>3. rmsg.r # q
      BY <1>2, <3>2, HandlerRuns
    <3>4. hpc'[rmsg.r] = "none" /\ out'[rmsg.r] = <<>>
      BY <1>2, <3>2, <3>3, HandlerLeaves
    <3>5. QED BY <3>1, <3>2, <3>4 DEF Refusing
  <2>5. QED BY <2>1, <2>2, <2>3, <2>4 DEF OutInv, Buffers
<1>3. CASE Send \/ Leave \/ Terminating \/ UNCHANGED vars
  <2>1. UNCHANGED <<rpc, rmsg, out, hpc, eos>>
    BY <1>3 DEF Send, Leave, Terminating, vars, readVars, ansVars, handVars
  <2>2. \A r \in Buffers : BufferOut(r)'
    BY <2>1 DEF OutInv, BufferOut
  <2>3. \A r \in Streams : StreamOut(r)'
    BY <2>1 DEF OutInv, StreamOut
  <2>4. Refusing'
    BY <2>1 DEF OutInv, Refusing
  <2>5. QED BY <2>2, <2>3, <2>4 DEF OutInv
<1>4. QED BY <1>1, <1>2, <1>3 DEF Next

-----------------------------------------------------------------------------
(* The parts of a stream.                                                   *)

\* What is said of the parts of r depends on r's part of the state.
LEMMA PassesFrame ==
  ASSUME NEW r \in Streams, Passes(r), got'[r] = got[r], rch'[r] = rch[r],
         ~InReader(r)' \/ (InReader(r) /\ rmsg' = rmsg)
  PROVE  Passes(r)'
  BY DEF Passes

\* The message taken off the wire was of another request.
LEMMA FollowsTail ==
  ASSUME TypeOK, NEW r \in Streams, Follows(r), NEW m, Taking(m), m.r # r, next' = next,
         r \in pendingReq' => r \in pendingReq, got'[r] = got[r], rch'[r] = rch[r],
         ~InReader(r)'
  PROVE  Follows(r)'
<1> SUFFICES ASSUME r \in pendingReq', rpc' # "ended" PROVE Follows(r)'
  BY DEF Follows
<1>0. /\ wire[1] = m /\ Len(wire) \in Nat
      /\ \A i \in 1 .. Len(wire') : i + 1 \in 1 .. Len(wire) /\ wire'[i] = wire[i + 1]
      /\ \A i \in 1 .. Len(wire) : i # 1 => i - 1 \in 1 .. Len(wire') /\ wire'[i - 1] = wire[i]
  BY Taken
<1>1. r \in pendingReq /\ rpc = "read"
  BY DEF Taking
<1>2. Arrived(r)' = Arrived(r)
  BY <1>1 DEF Arrived, InReader
<1>3. \A i \in 1 .. Len(wire') : wire'[i].r = r => wire'[i].k >= Arrived(r)
  BY <1>0, <1>1 DEF Follows
<1>4. ASSUME Arrived(r) < next[r] PROVE \E i \in 1 .. Len(wire') : wire'[i] = Part(r, Arrived(r))
  <2>1. PICK i \in 1 .. Len(wire) : wire[i] = Part(r, Arrived(r))
    BY <1>1, <1>4 DEF Follows
  <2>2. i # 1
    BY <1>0, <2>1 DEF Part
  <2>3. QED BY <1>0, <2>1, <2>2
<1>5. QED BY <1>1, <1>2, <1>3, <1>4 DEF Follows

\* The message taken off the wire was the next part of r.
LEMMA FollowsTaken ==
  ASSUME TypeOK, Wired, NEW r \in Streams, NEW m, Taking(m), m.r = r, next' = next,
         m.k + 1 = Arrived(r)'
  PROVE  Follows(r)'
<1>0. /\ wire[1] = m /\ Len(wire) \in Nat /\ 1 \in 1 .. Len(wire)
      /\ \A i \in 1 .. Len(wire') : i + 1 \in 1 .. Len(wire) /\ wire'[i] = wire[i + 1]
      /\ \A i \in 1 .. Len(wire) : i # 1 => i - 1 \in 1 .. Len(wire') /\ wire'[i - 1] = wire[i]
  BY Taken
<1>a. m \in Messages
  BY Taken
<1>b. r \in Reqs /\ r # None /\ m.k \in 0 .. MaxParts /\ next[r] \in 0 .. MaxParts + 1
  BY <1>a, MessageIs DEF TypeOK
<1>1. r \in Reqs /\ r # None /\ m.k \in 0 .. MaxParts /\ next[r] \in 0 .. MaxParts + 1
      /\ m.k < next[r]
  BY <1>0, <1>b DEF Wired
<1>2. ASSUME NEW i \in 1 .. Len(wire'), wire'[i].r = r PROVE wire'[i].k >= m.k + 1
  <2>1. 1 < i + 1 /\ i + 1 \in 1 .. Len(wire) /\ wire[i + 1].r = r
    BY <1>0, <1>2
  <2>2. m.k < wire[i + 1].k
    BY <1>0, <1>1, <2>1 DEF Wired
  <2>3. wire[i + 1] \in Messages
    BY Taken
  <2>4. wire[i + 1].k \in 0 .. MaxParts
    BY <2>3 DEF Messages
  <2>5. wire'[i].k = wire[i + 1].k
    BY <1>0
  <2>6. QED BY <1>1, <2>2, <2>4, <2>5
<1>3. ASSUME m.k + 1 < next[r] PROVE \E i \in 1 .. Len(wire') : wire'[i] = Part(r, m.k + 1)
  <2>1. m.k + 1 \in 0 .. MaxParts /\ m.k < m.k + 1
    BY <1>1, <1>3
  <2>2. PICK i \in 1 .. Len(wire) : wire[i] = Part(r, m.k + 1)
    BY <1>0, <1>1, <1>3, <2>1 DEF Wired
  <2>3. i # 1
    BY <1>0, <1>1, <2>2 DEF Part
  <2>4. QED BY <1>0, <2>2, <2>3
<1>4. QED BY <1>1, <1>2, <1>3 DEF Follows

LEMMA SendFollows ==
  ASSUME TypeOK, NEW r \in Streams, Follows(r), Send
  PROVE  Follows(r)'
<1> SUFFICES ASSUME r \in pendingReq, rpc # "ended" PROVE Follows(r)'
  BY DEF Send, chanVars, readVars, Follows
<1>0. Arrived(r)' = Arrived(r) /\ Arrived(r) \in Int
  <2>1. got[r] \in Seq(0 .. MaxParts) /\ rch[r] \in Seq(0 .. MaxParts)
    BY DEF TypeOK
  <2>2. Len(got[r]) \in Nat /\ Len(rch[r]) \in Nat
    BY <2>1
  <2>3. QED BY <2>2 DEF Send, chanVars, readVars, ansVars, handVars, Arrived, InReader
<1>1. wire \in Seq(Messages) /\ next \in [Reqs -> 0 .. MaxParts + 1]
  BY DEF TypeOK
<1>2. CASE wire' = Append(wire, NoMsg) /\ next' = next
  <2>1. /\ Len(wire) \in Nat /\ Len(wire') = Len(wire) + 1 /\ wire'[Len(wire) + 1] = NoMsg
        /\ \A i \in 1 .. Len(wire) : wire'[i] = wire[i]
    BY <1>1, <1>2
  <2>2. NoMsg.r # r
    BY DEF NoMsg
  <2>3. QED BY <1>0, <1>2, <2>1, <2>2 DEF Follows
<1>3. ASSUME NEW q \in Reqs, wire' = Append(wire, [r |-> q, k |-> next[q]]),
             next' = [next EXCEPT ![q] = @ + 1]
      PROVE  Follows(r)'
  <2>1. /\ Len(wire) \in Nat /\ Len(wire') = Len(wire) + 1
        /\ wire'[Len(wire) + 1] = Part(q, next[q])
        /\ \A i \in 1 .. Len(wire) : wire'[i] = wire[i]
    BY <1>1, <1>3 DEF Part
  <2>2. next[r] \in Nat /\ IF q = r THEN next'[r] = next[r] + 1 ELSE next'[r] = next[r]
    BY <1>1, <1>3
  <2>3. Part(q, next[q]).r = q /\ Part(q, next[q]).k = next[q]
    BY DEF Part
  <2>4. Arrived(r) <= next'[r]
    BY <1>0, <2>2 DEF Follows
  <2>5. ASSUME NEW i \in 1 .. Len(wire'), wire'[i].r = r PROVE wire'[i].k >= Arrived(r)
    <3>1. CASE i = Len(wire) + 1
      BY <1>0, <2>1, <2>2, <2>3, <2>5, <3>1 DEF Follows
    <3>2. CASE i \in 1 .. Len(wire)
      BY <2>1, <2>5, <3>2 DEF Follows
    <3>3. QED BY <2>1, <3>1, <3>2
  <2>6. ASSUME Arrived(r) < next'[r]
        PROVE  \E i \in 1 .. Len(wire') : wire'[i] = Part(r, Arrived(r))
    <3>1. CASE Arrived(r) < next[r]
      BY <2>1, <3>1 DEF Follows
    <3>2. CASE Arrived(r) = next[r]
      <4>1. q = r
        BY <2>2, <2>6, <3>2
      <4>2. Len(wire) + 1 \in 1 .. Len(wire') /\ wire'[Len(wire) + 1] = Part(r, Arrived(r))
        BY <2>1, <3>2, <4>1
      <4>3. QED BY <4>2
    <3>3. QED BY <1>0, <2>2, <3>1, <3>2 DEF Follows
  <2>7. QED BY <1>0, <2>4, <2>5, <2>6 DEF Follows
<1>4. QED BY <1>2, <1>3 DEF Send

\* Nothing left the wire, and as much has arrived.
LEMMA FollowsFrame ==
  ASSUME NEW r \in Streams, Follows(r), UNCHANGED <<wire, next>>,
         r \in pendingReq' => r \in pendingReq, rpc' # "ended" => rpc # "ended",
         Arrived(r)' = Arrived(r)
  PROVE  Follows(r)'
  BY DEF Follows

\* The part the reader takes for a channel in the table is the one that follows.
LEMMA NextPart ==
  ASSUME TypeOK, Wired, NEW r \in Streams, Follows(r), NEW m, Taking(m), m.r = r, r \in pendingReq
  PROVE  m.k = Arrived(r) /\ m.k \in Nat
<1>0. wire[1] = m /\ Len(wire) \in Nat /\ 1 \in 1 .. Len(wire)
  BY Taken
<1>a. m \in Messages
  BY Taken
<1>b. r \in Reqs /\ r # None /\ m.k \in 0 .. MaxParts /\ next[r] \in 0 .. MaxParts + 1
  BY <1>a, MessageIs DEF TypeOK
<1>1. r \in Reqs /\ r # None /\ m.k \in 0 .. MaxParts /\ next[r] \in 0 .. MaxParts + 1
      /\ m.k < next[r]
  BY <1>0, <1>b DEF Wired
<1>2. Arrived(r) \in Int
  <2>1. got[r] \in Seq(0 .. MaxParts) /\ rch[r] \in Seq(0 .. MaxParts)
    BY <1>1 DEF TypeOK
  <2>2. QED BY <2>1 DEF Arrived
<1>3. rpc # "ended"
  BY DEF Taking
<1>4. m.k >= Arrived(r)
  BY <1>0, <1>3 DEF Follows
<1>5. PICK i \in 1 .. Len(wire) : wire[i] = Part(r, Arrived(r))
  BY <1>1, <1>2, <1>3, <1>4 DEF Follows
<1>6. CASE i = 1
  BY <1>0, <1>1, <1>5, <1>6 DEF Part
<1>7. CASE i # 1
  <2>1. 1 < i /\ wire[i].r = r /\ wire[i].k = Arrived(r)
    BY <1>5, <1>7 DEF Part
  <2>2. m.k < wire[i].k
    BY <1>0, <1>1, <2>1 DEF Wired
  <2>3. QED BY <1>1, <1>2, <1>4, <2>1, <2>2
<1>8. QED BY <1>6, <1>7

LEMMA ReaderKeepsOrder ==
  ASSUME TypeOK, Wired, Started, NEW r \in Streams, Passes(r), Follows(r), ReaderStep
  PROVE  Passes(r)' /\ Follows(r)'
<1>r. r \in Reqs /\ r # None
  OBVIOUS
<1>t. got[r] \in Seq(0 .. MaxParts) /\ rch[r] \in Seq(0 .. MaxParts) /\ rch \in [Reqs -> Seq(0 .. MaxParts)]
  BY <1>r DEF TypeOK
<1>1. CASE ReadRequest
  <2>1. PICK m \in Messages : Taking(m) /\ (readBufferReq(m) \/ readStreamReq(m))
    BY <1>1 DEF ReadRequest
  <2>2. next' = next /\ got' = got /\ rpc' \in {"read", "respond", "crashed"} /\ rpc = "read"
    BY <1>1, <2>1 DEF ReadRequest, Taking, readBufferReq, readStreamReq, RefuseFor, RefuseError,
       Refuse, readVars, reqVars
  <2>3. \/ UNCHANGED chanVars
        \/ /\ pendingReq' = pendingReq \cup {m.r} /\ rch' = [rch EXCEPT ![m.r] = <<0>>]
    BY <2>1 DEF readBufferReq, readStreamReq, RefuseFor, RefuseError, Refuse
  <2>4. ~InReader(r)'
    BY <2>2 DEF InReader
  <2>5. CASE m.r # r
    <3>1. rch'[r] = rch[r] /\ (r \in pendingReq' => r \in pendingReq)
      BY <1>r, <1>t, <2>3, <2>5 DEF chanVars
    <3>2. QED BY <2>1, <2>2, <2>4, <2>5, <3>1, PassesFrame, FollowsTail
  <2>6. CASE m.r = r
    <3>1. m.k = 0 /\ Pristine(r)
      <4>1. m.k = 0
        BY <2>1, <2>6 DEF readBufferReq, readStreamReq, Buffers
      <4>2. QED BY <1>r, <2>1, <2>2, <2>6, <4>1, RequestIsNew
    <3>2. CASE UNCHANGED chanVars
      <4>1. Passes(r)'
        BY <2>2, <2>4, <3>2, PassesFrame DEF chanVars
      <4>2. r \notin pendingReq'
        BY <3>1, <3>2 DEF chanVars, Pristine
      <4>3. QED BY <4>1, <4>2 DEF Follows
    <3>3. CASE rch' = [rch EXCEPT ![m.r] = <<0>>]
      <4>1. rch'[r] = <<0>> /\ got'[r] = <<>>
        BY <1>r, <1>t, <2>2, <2>6, <3>1, <3>3 DEF Pristine
      <4>2. Passes(r)'
        BY <2>4, <4>1 DEF Passes
      <4>3. Arrived(r)' = m.k + 1
        BY <2>4, <3>1, <4>1 DEF Arrived
      <4>4. QED BY <2>1, <2>2, <2>6, <4>2, <4>3, FollowsTaken
    <3>4. QED BY <2>3, <3>2, <3>3
  <2>7. QED BY <2>5, <2>6
<1>2. CASE Respond \/ ReadFails
  <2>1. /\ UNCHANGED <<wire, next, chanVars, got>> /\ ~InReader(r) /\ ~InReader(r)'
        /\ rpc # "ended"
    BY <1>2 DEF Respond, ReadFails, Stop, reqVars, handVars, InReader
  <2>2. Arrived(r)' = Arrived(r)
    BY <2>1 DEF Arrived, chanVars
  <2>3. QED BY <2>1, <2>2, PassesFrame, FollowsFrame DEF chanVars
<1>3. CASE readStreamReqPart
  <2>1. PICK m \in Messages : /\ Taking(m) /\ m.k > 0
                              /\ IF m.r \in pendingReq
                                 THEN rpc' = "part" /\ rmsg' = m /\ UNCHANGED <<rkind, rwait, conn>>
                                 ELSE Stop
    BY <1>3 DEF readStreamReqPart
  <2>2. UNCHANGED <<next, chanVars, got>> /\ rpc = "read"
    BY <1>3, <2>1 DEF readStreamReqPart, Taking, reqVars, handVars
  <2>3. CASE m.r # r
    <3>1. ~InReader(r)'
      BY <2>1, <2>3 DEF InReader, Stop
    <3>2. QED BY <2>1, <2>2, <2>3, <3>1, PassesFrame, FollowsTail DEF chanVars
  <2>4. CASE m.r = r /\ r \notin pendingReq
    <3>1. rpc' = "ended"
      BY <2>1, <2>4 DEF Stop
    <3>2. QED BY <2>2, <3>1, PassesFrame DEF chanVars, InReader, Follows
  <2>5. CASE m.r = r /\ r \in pendingReq
    <3>1. m.k = Arrived(r) /\ m.k \in Nat
      BY <2>1, <2>5, NextPart
    <3>2. rpc' = "part" /\ rmsg' = m
      BY <2>1, <2>5
    <3>3. Arrived(r) = Len(got[r]) + Len(rch[r]) /\ Arrived(r)' = Len(got[r]) + Len(rch[r]) + 1
      BY <1>t, <2>2, <2>5, <3>2 DEF Arrived, InReader, chanVars
    <3>4. Passes(r)'
      BY <2>2, <3>1, <3>2, <3>3 DEF Passes, chanVars
    <3>5. QED BY <2>1, <2>2, <2>5, <3>1, <3>3, <3>4, FollowsTaken
  <2>6. QED BY <2>3, <2>4, <2>5
<1>4. CASE PassPart
  <2>1. /\ rpc = "part" /\ rch[rmsg.r] = <<>> /\ rch' = [rch EXCEPT ![rmsg.r] = <<rmsg.k>>]
        /\ rpc' = "read" /\ UNCHANGED <<wire, next, pendingReq, got>> /\ ~InReader(r)'
    BY <1>4 DEF PassPart, HasRoom, reqVars, handVars, InReader
  <2>2. CASE rmsg.r # r
    <3>1. rch'[r] = rch[r] /\ ~InReader(r)
      BY <1>r, <1>t, <2>1, <2>2 DEF InReader
    <3>2. Arrived(r)' = Arrived(r)
      BY <2>1, <3>1 DEF Arrived
    <3>3. QED BY <2>1, <3>1, <3>2, PassesFrame, FollowsFrame
  <2>3. CASE rmsg.r = r
    <3>1. rch[r] = <<>> /\ rch'[r] = <<rmsg.k>> /\ InReader(r)
      BY <1>r, <1>t, <2>1, <2>3 DEF InReader
    <3>2. rmsg.k = Len(got[r]) /\ Len(got[r]) \in Nat
      BY <1>t, <3>1 DEF Passes
    <3>3. Passes(r)'
      BY <2>1, <3>1, <3>2 DEF Passes
    <3>4. Arrived(r)' = Arrived(r)
      <4>1. Len(rch[r]) = 0 /\ Len(rch'[r]) = 1
        BY <3>1
      <4>2. Arrived(r) = Len(got[r]) + 1
        BY <3>1, <3>2, <4>1 DEF Arrived
      <4>3. Arrived(r)' = Len(got[r]) + 1
        <5>1. got'[r] = got[r] /\ rpc' # "part"
          BY <2>1
        <5>2. QED BY <3>2, <4>1, <5>1 DEF Arrived, InReader
      <4>4. QED BY <4>2, <4>3
    <3>5. QED BY <2>1, <3>3, <3>4, FollowsFrame
  <2>4. QED BY <2>2, <2>3
<1>5. CASE ReadCutPayload
  <2>1. rpc' = "ended" /\ UNCHANGED <<got, rch>>
    BY <1>5 DEF ReadCutPayload, Stop, chanVars, handVars
  <2>2. QED BY <2>1, PassesFrame DEF InReader, Follows
<1>6. CASE readNotification
  <2>1. UNCHANGED <<next, chanVars, got>> /\ ~InReader(r) /\ ~InReader(r)' /\ rpc # "ended"
    BY <1>6 DEF readNotification, Taking, reqVars, handVars, InReader
  <2>2. CASE Taking(NoMsg)
    <3>1. NoMsg.r # r
      BY <1>r DEF NoMsg
    <3>2. QED BY <2>1, <2>2, <3>1, PassesFrame, FollowsTail DEF chanVars
  <2>3. CASE UNCHANGED wire
    <3>1. Arrived(r)' = Arrived(r)
      BY <2>1 DEF Arrived, chanVars
    <3>2. QED BY <2>1, <2>3, <3>1, PassesFrame, FollowsFrame DEF chanVars
  <2>4. QED BY <1>6, <2>2, <2>3 DEF readNotification
<1>7. QED BY <1>1, <1>2, <1>3, <1>4, <1>5, <1>6 DEF ReaderStep

LEMMA HandlerKeepsOrder ==
  ASSUME TypeOK, NEW r \in Streams, Passes(r), Follows(r), NEW q \in Reqs, HandlerStep(q)
  PROVE  Passes(r)' /\ Follows(r)'
<1>0. r \in Reqs /\ UNCHANGED <<wire, next, rpc, rmsg>> /\ (r \in pendingReq' => r \in pendingReq)
  BY DEF HandlerStep, BufferHandler, TakePart, WritePart, StreamHandler, Answer, CloseWriter,
     Finish, reqVars, readVars, ansVars, chanVars
<1>1. CASE got'[r] = got[r] /\ rch'[r] = rch[r]
  <2>1. Arrived(r)' = Arrived(r)
    BY <1>0, <1>1 DEF Arrived, InReader
  <2>2. Passes(r)'
    BY <1>0, <1>1 DEF Passes, InReader
  <2>3. QED BY <1>0, <2>1, <2>2, FollowsFrame
<1>2. CASE q = r /\ TakePart(r)
  <2>1. got[r] \in Seq(0 .. MaxParts) /\ rch[r] = <<Len(got[r])>>
    BY <1>0, <1>2 DEF TypeOK, Passes, TakePart
  <2>2. rch'[r] = <<>> /\ got'[r] = Append(got[r], Len(got[r]))
    BY <1>0, <1>2, <2>1 DEF TypeOK, TakePart
  <2>3. /\ Len(got[r]) \in Nat /\ Len(got'[r]) = Len(got[r]) + 1
        /\ \A i \in 1 .. Len(got[r]) : got'[r][i] = got[r][i]
        /\ got'[r][Len(got[r]) + 1] = Len(got[r])
    BY <2>1, <2>2
  <2>4. ASSUME NEW i \in 1 .. Len(got'[r]) PROVE got'[r][i] = i - 1
    <3>1. CASE i \in 1 .. Len(got[r])
      BY <2>3, <3>1 DEF Passes
    <3>2. CASE i = Len(got[r]) + 1
      BY <2>3, <3>2
    <3>3. QED BY <2>3, <3>1, <3>2
  <2>5. Len(rch[r]) = 1 /\ Len(rch'[r]) = 0
    BY <2>1, <2>2
  <2>6. Passes(r)'
    BY <1>0, <2>2, <2>3, <2>4, <2>5 DEF Passes, InReader
  <2>7. Arrived(r)' = Arrived(r)
    BY <1>0, <2>3, <2>5 DEF Arrived, InReader
  <2>8. QED BY <1>0, <2>6, <2>7, FollowsFrame
<1>3. CASE q # r
  BY <1>0, <1>1, <1>3, HandlerLeaves
<1>4. CASE ~TakePart(q)
  BY <1>1, <1>4 DEF HandlerStep, BufferHandler, WritePart, StreamHandler, Answer, CloseWriter,
     Finish, chanVars
<1>5. QED BY <1>2, <1>3, <1>4

LEMMA NextOrder ==
  ASSUME TypeOK, Wired, Started, InOrder, [Next]_vars
  PROVE  InOrder'
<1> SUFFICES ASSUME NEW r \in Streams PROVE Passes(r)' /\ Follows(r)'
  BY DEF InOrder
<1>0. Passes(r) /\ Follows(r)
  BY DEF InOrder
<1>1. ASSUME UNCHANGED <<rpc, rmsg, chanVars, got>> PROVE Passes(r)'
  BY <1>0, <1>1 DEF Passes, InReader, chanVars
<1>2. CASE Send
  BY <1>0, <1>1, <1>2, SendFollows DEF Send, readVars, ansVars, handVars
<1>3. CASE Leave \/ Terminating \/ UNCHANGED vars
  <2>1. UNCHANGED <<wire, next, rpc, rmsg, chanVars, got>>
    BY <1>3 DEF Leave, Terminating, vars, reqVars, readVars, ansVars, handVars
  <2>2. Arrived(r)' = Arrived(r)
    BY <2>1 DEF Arrived, InReader, chanVars
  <2>3. QED BY <1>0, <1>1, <2>1, <2>2, FollowsFrame DEF chanVars
<1>4. QED
  BY <1>0, <1>2, <1>3, ReaderKeepsOrder, HandlerKeepsOrder DEF Next

-----------------------------------------------------------------------------
(* The theorems.                                                            *)

LEMMA InitRespInv == Init => RespInv
<1> SUFFICES ASSUME Init PROVE RespInv OBVIOUS
<1>1. TypeOK
  BY InitTypeOK
<1>2. wire = <<>> /\ Len(wire) = 0 /\ \A r \in Reqs : next[r] = 0 /\ Total(r) >= 0
  BY DEF Init, Total
<1>3. Wired
  BY <1>2 DEF Wired
<1>4. Started
  BY DEF Init, Started, Holds
<1>5. InOrder
  BY DEF Init, InOrder, Passes, Follows, InReader
<1>6. OutInv
  BY DEF Init, OutInv, BufferOut, StreamOut, Refusing, Buffers
<1>7. CountsAreRight
  <2>1. ASSUME NEW S \in SUBSET Reqs PROVE Held(S) = 0
    <3>1. Alive(S) = {}
      BY DEF Init, Alive, Counted
    <3>2. QED BY <3>1, FS_EmptySet DEF Held, Init
  <2>2. Held(Buffers) = 0 /\ Held(Streams) = 0
    BY <2>1 DEF Buffers
  <2>3. QED BY <2>2 DEF CountsAreRight, Within, Init
<1>8. QED BY <1>1, <1>3, <1>4, <1>5, <1>6, <1>7 DEF RespInv

LEMMA NextRespInv == RespInv /\ [Next]_vars => RespInv'
<1> SUFFICES ASSUME RespInv, [Next]_vars PROVE RespInv' OBVIOUS
<1> USE DEF RespInv
<1>1. TypeOK'
  <2>1. CASE Send \/ Leave
    BY <2>1, ClientTypeOK
  <2>2. CASE ReaderStep
    BY <2>2, ReaderTypeOK
  <2>3. CASE \E r \in Reqs : HandlerStep(r)
    BY <2>3, HandlerTypeOK
  <2>4. CASE Terminating \/ UNCHANGED vars
    BY <2>4 DEF Terminating, TypeOK, vars, reqVars, readVars, ansVars, limVars, chanVars, handVars
  <2>5. QED BY <2>1, <2>2, <2>3, <2>4 DEF Next
<1>2. Wired'
  BY NextWired
<1>3. Started'
  BY NextStarted
<1>4. InOrder'
  BY NextOrder
<1>5. OutInv'
  BY NextOut
<1>6. CountsAreRight'
  BY NextCounts DEF OutInv
<1>7. QED BY <1>1, <1>2, <1>3, <1>4, <1>5, <1>6

\* The invariant holds of the responding side throughout.
THEOREM RespInvariance == Spec => []RespInv
<1>1. QED BY InitRespInv, NextRespInv, PTL DEF Spec

\* limits.go: while the socket is read, each counter is the number of handlers that
\* run and refusals still to be counted down, and never more than its limit.
THEOREM CountsAreRightAlways == Spec => []CountsAreRight
<1>1. RespInv => CountsAreRight
  BY DEF RespInv
<1>2. QED BY <1>1, RespInvariance, PTL

\* rch: a stream's handler gets its parts, each once and in the order sent.
THEOREM PartsInOrderAlways == Spec => []PartsInOrder
<1>1. RespInv => PartsInOrder
  BY DEF RespInv, InOrder, Passes, PartsInOrder
<1>2. QED BY <1>1, RespInvariance, PTL

\* Of positions that agree pairwise there is one at most.
LEMMA AtMostOne ==
  ASSUME NEW n \in Nat, NEW S \in SUBSET (1 .. n), \A i, j \in S : i = j
  PROVE  Cardinality(S) <= 1
<1>1. CASE S = {}
  BY <1>1, FS_EmptySet
<1>2. CASE S # {}
  <2>1. PICK i \in S : S = {i}
    BY <1>2
  <2>2. Cardinality({i}) = 1
    BY FS_Singleton
  <2>3. QED BY <2>1, <2>2
<1>3. QED BY <1>1, <1>2

\* respondOK, respondError, respondRetry and streamWriter: a requester reads one
\* answer to a buffer request, and of a stream parts, an error, an end, in this order.
THEOREM AnswersWellFormedAlways == Spec => []AnswersWellFormed
<1>1. ASSUME RespInv, NEW r \in Reqs, r \notin Buffers
      PROVE  /\ \A i \in 1 .. Len(out[r]) : out[r][i] = "S" => \A j \in 1 .. i : out[r][j] = "S"
             /\ Cardinality({i \in 1 .. Len(out[r]) : out[r][i] = "EOS"}) <= 1
             /\ Cardinality({i \in 1 .. Len(out[r]) : out[r][i] \in {"E", "e"}}) <= 1
  <2>1. StreamOut(r) /\ out[r] \in Seq(ResKinds)
    BY <1>1 DEF RespInv, OutInv, Buffers, TypeOK
  <2>2. Len(out[r]) \in Nat
    BY <2>1
  <2>3. Cardinality({i \in 1 .. Len(out[r]) : out[r][i] = "EOS"}) <= 1
    BY <2>1, <2>2, AtMostOne DEF StreamOut
  <2>4. Cardinality({i \in 1 .. Len(out[r]) : out[r][i] \in {"E", "e"}}) <= 1
    BY <2>1, <2>2, AtMostOne DEF StreamOut
  <2>5. QED BY <2>1, <2>3, <2>4 DEF StreamOut
<1>2. RespInv => AnswersWellFormed
  BY <1>1 DEF RespInv, OutInv, BufferOut, AnswersWellFormed
<1>3. QED BY <1>2, RespInvariance, PTL

\* incBufferReq, incStreamReq: what is turned away is turned away by as many
\* handlers as the limit allows.
LEMMA RefusedAtLimit ==
  ASSUME NEW S \in SUBSET Reqs, NEW limit \in Counts, NEW count \in Counts,
         rpc = "read", Within(limit, count, S), ~Inc(limit, count)[1]
  PROVE  Cardinality(Alive(S)) = limit
<1>1. limit # Unlimited
  BY DEF Inc
<1>2. count = Held(S) /\ Held(S) <= limit /\ Held(S) = Cardinality(Alive(S))
  BY <1>1, AliveType DEF Within, Held
<1>3. Inc(limit, count) = IF count = limit THEN <<FALSE, count>> ELSE <<TRUE, count + 1>>
  BY <1>1, <1>2, IncCounts
<1>4. ASSUME count # limit PROVE FALSE
  <2>1. Inc(limit, count) = <<TRUE, count + 1>>
    BY <1>3, <1>4
  <2>2. QED BY <2>1
<1>5. QED BY <1>2, <1>4

\* readBufferReq, readStreamReq: a request is only refused while as many others as
\* the limit allows have not come to their end.
THEOREM RefusedOnlyAtLimitAlways == Spec => RefusedOnlyAtLimit
<1>1. ASSUME RespInv, [Next]_vars, rpc = "read", rpc' = "respond", rkind' = "e"
      PROVE  IF rmsg'.r \in Streams THEN Cardinality(Alive(Streams)) = StreamLimit
             ELSE Cardinality(Alive(Buffers)) = BufferLimit
  <2>1. ReadRequest
    BY <1>1 DEF Next, Send, Leave, ReaderStep, Respond, readStreamReqPart, PassPart,
       ReadCutPayload, readNotification, ReadFails, Stop, HandlerStep, BufferHandler, TakePart,
       WritePart, StreamHandler, Answer, CloseWriter, Finish, Terminating, vars, readVars
  <2>2. PICK m \in Messages : Taking(m) /\ (readBufferReq(m) \/ readStreamReq(m))
    BY <2>1 DEF ReadRequest
  <2>3. /\ Within(BufferLimit, bufferCount, Buffers) /\ Within(StreamLimit, streamCount, Streams)
        /\ BufferLimit \in Counts /\ StreamLimit \in Counts
        /\ bufferCount \in Counts /\ streamCount \in Counts
        /\ Buffers \in SUBSET Reqs /\ Streams \in SUBSET Reqs
    BY <1>1 DEF RespInv, CountsAreRight, TypeOK, Counts, Buffers
  <2>4. CASE readBufferReq(m)
    <3>1. rmsg' = m /\ m.r \in Buffers /\ ~Inc(BufferLimit, bufferCount)[1]
      BY <1>1, <2>4 DEF readBufferReq, RefuseFor, RefuseError, Refuse, readVars
    <3>2. QED BY <1>1, <2>3, <3>1, RefusedAtLimit DEF Buffers
  <2>5. CASE readStreamReq(m)
    <3>1. rmsg' = m /\ m.r \in Streams /\ ~Inc(StreamLimit, streamCount)[1]
      BY <1>1, <2>5 DEF readStreamReq, RefuseFor, RefuseError, Refuse, readVars
    <3>2. QED BY <1>1, <2>3, <3>1, RefusedAtLimit
  <2>6. QED BY <2>2, <2>4, <2>5
<1>2. RespInv /\ [Next]_vars =>
        [rpc = "read" /\ rpc' = "respond" /\ rkind' = "e" =>
           IF rmsg'.r \in Streams THEN Cardinality(Alive(Streams)) = StreamLimit
           ELSE Cardinality(Alive(Buffers)) = BufferLimit]_vars
  BY <1>1
<1>3. QED BY <1>2, RespInvariance, PTL DEF Spec, RefusedOnlyAtLimit

-----------------------------------------------------------------------------
(* The wait of whoever is turned away.                                      *)

\* Bounds that are in order and, as milliseconds, fit a uint32.  They are out of
\* order only where a minimum above the default maximum is configured alone.
Ordered(min, max) ==
  MinWait(min) <= MaxWait(min, max) /\ MaxWait(min, max) \div Millisecond < Width

\* The wait in the reader's hands is one of the kind it turns away.
WaitFor(r) == IF r \in Streams THEN Waits(StreamMinWait, StreamMaxWait)
                               ELSE Waits(BufferMinWait, BufferMaxWait)
Waiting == rpc = "respond" /\ rkind = "e" => rwait \in WaitFor(rmsg.r)

LEMMA NextWaiting == Waiting /\ [Next]_vars => Waiting'
<1> SUFFICES ASSUME Waiting, [Next]_vars PROVE Waiting' OBVIOUS
<1>1. CASE UNCHANGED <<rpc, ansVars>>
  BY <1>1 DEF Waiting, ansVars
<1>2. CASE rpc' # "respond"
  BY <1>2 DEF Waiting
<1>3. CASE ReadRequest
  <2>1. PICK m \in Messages : Taking(m) /\ (readBufferReq(m) \/ readStreamReq(m))
    BY <1>3 DEF ReadRequest
  <2>2. CASE RefuseFor(m)
    BY <2>2 DEF RefuseFor, Refuse, Waiting, WaitFor
  <2>3. CASE RefuseError(m)
    BY <2>3 DEF RefuseError, Refuse, Waiting
  <2>4. CASE UNCHANGED readVars
    BY <1>1, <2>4 DEF readVars
  <2>5. QED BY <2>1, <2>2, <2>3, <2>4 DEF readBufferReq, readStreamReq
<1>4. CASE Respond \/ readStreamReqPart \/ PassPart \/ ReadCutPayload \/ readNotification \/ ReadFails
  BY <1>2, <1>4 DEF Respond, readStreamReqPart, PassPart, ReadCutPayload, readNotification,
     ReadFails, Stop
<1>5. CASE Send \/ Leave \/ Terminating \/ UNCHANGED vars \/ \E r \in Reqs : HandlerStep(r)
  BY <1>1, <1>5 DEF Send, Leave, Terminating, vars, HandlerStep, BufferHandler, TakePart,
     WritePart, StreamHandler, Answer, CloseWriter, Finish, readVars
<1>6. QED BY <1>3, <1>4, <1>5 DEF Next, ReaderStep

\* randUint32 and makeLimitsImpl: between ordered bounds nobody is told to wait for
\* less than the configured minimum, or for more than the configured maximum.
THEOREM WaitWithinLimitsAlways ==
  ASSUME Ordered(BufferMinWait, BufferMaxWait), Ordered(StreamMinWait, StreamMaxWait)
  PROVE  Spec => []WaitWithinLimits
<1>1. Init => Waiting
  BY DEF Init, Waiting
<1>2. Waiting => WaitWithinLimits
  <2> SUFFICES ASSUME Waiting, rpc = "respond", rkind = "e" PROVE WaitWithinLimits
    BY DEF WaitWithinLimits
  <2>1. CASE rmsg.r \in Streams
    <3>1. rwait \in Waits(StreamMinWait, StreamMaxWait)
      BY <2>1 DEF Waiting, WaitFor
    <3>2. /\ StreamMinWait > 0 => rwait >= StreamMinWait \div Millisecond
          /\ StreamMaxWait > 0 => rwait <= StreamMaxWait \div Millisecond
      BY <3>1, WaitsBetween DEF Ordered
    <3>3. QED BY <2>1, <3>2 DEF WaitWithinLimits
  <2>2. CASE rmsg.r \notin Streams
    <3>1. rwait \in Waits(BufferMinWait, BufferMaxWait)
      BY <2>2 DEF Waiting, WaitFor
    <3>2. /\ BufferMinWait > 0 => rwait >= BufferMinWait \div Millisecond
          /\ BufferMaxWait > 0 => rwait <= BufferMaxWait \div Millisecond
      BY <3>1, WaitsBetween DEF Ordered
    <3>3. QED BY <2>2, <3>2 DEF WaitWithinLimits
  <2>3. QED BY <2>1, <2>2
<1>3. QED BY <1>1, <1>2, NextWaiting, PTL DEF Spec

-----------------------------------------------------------------------------
(* A requester that stays keeps its connection.                             *)

\* Streams are never refused and never end in an error: their parts always find
\* the channel.
Welcome ==
  /\ Streams \cap (Unknown \cup Failing) = {}
  /\ StreamLimit = Unlimited \/ Cardinality(Streams) <= StreamLimit

\* Until the requester leaves, each stream that has started is in the table.
Tabled == \A r \in Streams : NotStarted(r) \/ r \in pendingReq
Kept == ~gone => conn = "open" /\ rpc # "ended" /\ (rpc # "crashed" => Tabled)

\* Only its opening message, taken off the wire, starts a request.
LEMMA StaysUnstarted ==
  ASSUME TypeOK, NEW r \in Reqs, NotStarted(r),
         \/ UNCHANGED <<wire, next>>
         \/ Send
         \/ next' = next /\ \E m : Taking(m) /\ m.r # r
  PROVE  NotStarted(r)'
<1>0. wire \in Seq(Messages) /\ next \in [Reqs -> 0 .. MaxParts + 1]
  BY DEF TypeOK
<1>1. CASE UNCHANGED <<wire, next>>
  BY <1>1 DEF NotStarted
<1>2. CASE Send
  <2>1. /\ Len(wire) \in Nat /\ Len(wire') = Len(wire) + 1
        /\ \A i \in 1 .. Len(wire) : wire'[i] = wire[i]
    <3>1. \E x : wire' = Append(wire, x)
      BY <1>2 DEF Send
    <3>2. QED BY <1>0, <3>1
  <2>2. CASE \E i \in 1 .. Len(wire) : wire[i] = Part(r, 0)
    BY <2>1, <2>2 DEF NotStarted
  <2>3. CASE next[r] = 0 /\ next'[r] = next[r]
    BY <2>3 DEF NotStarted
  <2>4. CASE next[r] = 0 /\ wire' = Append(wire, [r |-> r, k |-> next[r]])
    <3>1. Len(wire) + 1 \in 1 .. Len(wire') /\ wire'[Len(wire) + 1] = Part(r, 0)
      BY <1>0, <2>1, <2>4 DEF Part
    <3>2. QED BY <3>1 DEF NotStarted
  <2>5. QED BY <1>0, <1>2, <2>2, <2>3, <2>4 DEF Send, NotStarted
<1>3. CASE next' = next /\ \E m : Taking(m) /\ m.r # r
  <2>1. PICK m : Taking(m) /\ m.r # r
    BY <1>3
  <2>2. CASE next[r] = 0
    BY <1>3, <2>2 DEF NotStarted
  <2>3. ASSUME NEW i \in 1 .. Len(wire), wire[i] = Part(r, 0)
        PROVE  NotStarted(r)'
    <3>1. i # 1
      BY <2>1, <2>3, Taken DEF Part
    <3>2. Len(wire) \in Nat /\ Len(wire') = Len(wire) - 1
          /\ \A j \in 1 .. Len(wire') : wire'[j] = wire[j + 1]
      BY <2>1, Taken
    <3>3. i - 1 \in 1 .. Len(wire') /\ wire'[i - 1] = Part(r, 0)
      BY <2>3, <3>1, <3>2
    <3>4. QED BY <3>3 DEF NotStarted
  <2>4. QED BY <2>2, <2>3 DEF NotStarted
<1>4. QED BY <1>1, <1>2, <1>3

\* There is room for every stream.
LEMMA StreamWelcome ==
  ASSUME RespInv, Welcome, rpc = "read", NEW r \in Streams, hpc[r] = "none"
  PROVE  Inc(StreamLimit, streamCount)[1]
<1>1. SUFFICES ASSUME ~Inc(StreamLimit, streamCount)[1] PROVE FALSE
  OBVIOUS
<1>2. /\ StreamLimit \in Counts /\ streamCount \in Counts /\ Streams \in SUBSET Reqs
      /\ Within(StreamLimit, streamCount, Streams)
  BY DEF RespInv, CountsAreRight, TypeOK, Counts
<1>3. Cardinality(Alive(Streams)) = StreamLimit
  BY <1>1, <1>2, RefusedAtLimit
<1>4. StreamLimit # Unlimited
  BY <1>1 DEF Inc
<1>5. IsFiniteSet(Streams)
  BY FS_Subset
<1>6. Alive(Streams) \in SUBSET Streams /\ r \notin Alive(Streams)
  BY DEF Alive, Counted
<1>7. Cardinality(Alive(Streams)) <= Cardinality(Streams) /\ Cardinality(Streams) # Cardinality(Alive(Streams))
  BY <1>5, <1>6, FS_Subset
<1>8. Cardinality(Streams) \in Nat /\ StreamLimit \in Nat
  BY <1>2, <1>5, FS_CardinalityType DEF Counts
<1>9. QED BY <1>3, <1>4, <1>7, <1>8 DEF Welcome

LEMMA NextKept == ASSUME Welcome, RespInv, Kept, [Next]_vars PROVE Kept'
<1> SUFFICES ASSUME ~gone' PROVE conn' = "open" /\ rpc' # "ended" /\ (rpc' # "crashed" => Tabled')
  BY DEF Kept
<1>t. TypeOK /\ Wired /\ Started
  BY DEF RespInv
<1>0. ~gone
  BY DEF Next, Send, Leave, ReaderStep, ReadRequest, Respond, readStreamReqPart, PassPart,
     ReadCutPayload, readNotification, ReadFails, HandlerStep, BufferHandler, TakePart,
     WritePart, StreamHandler, Answer, CloseWriter, Finish, Terminating, vars, reqVars
<1>1. conn = "open" /\ rpc # "ended" /\ (rpc # "crashed" => Tabled)
  BY <1>0 DEF Kept
<1>2. ASSUME rpc # "crashed", pendingReq' = pendingReq,
             \/ UNCHANGED <<wire, next>>
             \/ Send
             \/ next' = next /\ \E m : Taking(m) /\ m.r \notin Streams
      PROVE  Tabled'
  <2>1. ASSUME NEW r \in Streams, NotStarted(r) PROVE NotStarted(r)'
    BY <1>t, <1>2, <2>1, StaysUnstarted
  <2>2. QED BY <1>1, <1>2, <2>1 DEF Tabled
<1>3. CASE Send
  BY <1>1, <1>2, <1>3 DEF Send, readVars, chanVars
<1>4. CASE Terminating \/ UNCHANGED vars
  BY <1>1, <1>2, <1>4 DEF Terminating, vars, reqVars, readVars, chanVars
<1>5. CASE Leave
  BY <1>5 DEF Leave
<1>6. ASSUME NEW q \in Reqs, HandlerStep(q) PROVE conn' = "open" /\ rpc' # "ended" /\ (rpc' # "crashed" => Tabled')
  <2>1. conn' = "open" /\ rpc' = rpc /\ UNCHANGED <<wire, next>>
    BY <1>0, <1>1, <1>6 DEF HandlerStep, BufferHandler, TakePart, WritePart, StreamHandler,
       Answer, CloseWriter, Finish, reqVars, readVars
  <2>2. pendingReq' = pendingReq
    BY <1>6 DEF HandlerStep, BufferHandler, TakePart, WritePart, StreamHandler,
       Answer, CloseWriter, Finish, chanVars, Welcome
  <2>3. QED BY <1>1, <1>2, <2>1, <2>2
<1>7. CASE ReadRequest
  <2>1. PICK m \in Messages : Taking(m) /\ (readBufferReq(m) \/ readStreamReq(m))
    BY <1>7 DEF ReadRequest
  <2>2. next' = next /\ conn' = conn /\ rpc = "read" /\ rpc' \in {"read", "respond", "crashed"}
    BY <1>7, <2>1 DEF ReadRequest, Taking, readBufferReq, readStreamReq, RefuseFor, RefuseError,
       Refuse, readVars, reqVars
  <2>3. CASE readBufferReq(m)
    <3>1. pendingReq' = pendingReq /\ m.r \notin Streams
      BY <2>3 DEF readBufferReq, RefuseFor, RefuseError, Refuse, chanVars, Buffers
    <3>2. QED BY <1>1, <1>2, <2>1, <2>2, <3>1
  <2>4. CASE readStreamReq(m)
    <3>1. m.r \in Streams /\ m.r \in Reqs /\ m.k = 0
      BY <2>4 DEF readStreamReq
    <3>2. hpc[m.r] = "none"
      BY <1>t, <2>1, <2>2, <3>1, RequestIsNew DEF Pristine
    <3>3. Inc(StreamLimit, streamCount)[1] /\ m.r \notin Unknown
      BY <2>2, <3>1, <3>2, StreamWelcome DEF Welcome
    <3>4. pendingReq' = pendingReq \cup {m.r}
      BY <2>4, <3>3 DEF readStreamReq
    <3>5. ASSUME NEW r \in Streams, r # m.r, NotStarted(r) PROVE NotStarted(r)'
      BY <1>t, <2>1, <2>2, <3>5, StaysUnstarted
    <3>6. Tabled'
      BY <1>1, <2>2, <3>4, <3>5 DEF Tabled
    <3>7. QED BY <1>1, <2>2, <3>6
  <2>5. QED BY <2>1, <2>3, <2>4
<1>8. CASE Respond
  BY <1>0, <1>1, <1>2, <1>8 DEF Respond, reqVars, chanVars
<1>9. CASE readStreamReqPart
  <2>1. PICK m \in Messages : /\ Taking(m) /\ m.k > 0
                              /\ IF m.r \in pendingReq
                                 THEN rpc' = "part" /\ rmsg' = m /\ UNCHANGED <<rkind, rwait, conn>>
                                 ELSE Stop
    BY <1>9 DEF readStreamReqPart
  <2>2. next' = next /\ pendingReq' = pendingReq /\ rpc = "read"
    BY <1>9, <2>1 DEF readStreamReqPart, Taking, reqVars, chanVars
  <2>3. 1 \in 1 .. Len(wire) /\ m = wire[1] /\ m.k \in Nat /\ m.r \in Reqs \cup {None}
    BY <1>t, <2>1, Taken DEF Messages
  <2>4. m.r \in Reqs
    BY <1>t, <2>1, <2>3 DEF Wired
  <2>5. m.r \in Streams
    <3>1. m.k < next[m.r] /\ next[m.r] <= Total(m.r) /\ next[m.r] \in Nat
      BY <1>t, <2>3, <2>4 DEF Wired, TypeOK
    <3>2. QED BY <2>1, <2>3, <2>4, <3>1 DEF Total
  <2>6. ~NotStarted(m.r)
    <3>1. m.k # 0
      BY <2>1, <2>3
    <3>2. QED BY <1>t, <2>1, <2>2, <2>4, <3>1, Opening
  <2>7. m.r \in pendingReq
    BY <1>1, <2>2, <2>5, <2>6 DEF Tabled
  <2>8. ASSUME NEW r \in Streams, NotStarted(r) PROVE NotStarted(r)'
    BY <1>t, <2>1, <2>2, <2>6, <2>8, StaysUnstarted
  <2>9. Tabled'
    BY <1>1, <2>2, <2>8 DEF Tabled
  <2>10. QED BY <1>1, <2>1, <2>7, <2>9
<1>10. CASE PassPart
  BY <1>1, <1>2, <1>10 DEF PassPart, reqVars
<1>11. CASE readNotification
  <2>1. /\ next' = next /\ pendingReq' = pendingReq /\ conn' = conn /\ rpc' \in {"read", "note"}
        /\ rpc \in {"read", "note"} /\ (Taking(NoMsg) \/ UNCHANGED wire)
    BY <1>11 DEF readNotification, Taking, reqVars, chanVars
  <2>2. NoMsg.r \notin Streams
    BY DEF NoMsg
  <2>3. QED BY <1>1, <1>2, <2>1, <2>2
<1>12. CASE ReadCutPayload \/ ReadFails
  BY <1>0, <1>1, <1>12 DEF ReadCutPayload, ReadFails
<1>13. QED
  BY <1>3, <1>4, <1>5, <1>6, <1>7, <1>8, <1>9, <1>10, <1>11, <1>12 DEF Next, ReaderStep

\* Read leaves its loop only on an error: where no stream is refused or fails, a
\* requester that sends only what it may keeps its connection until it leaves.
THEOREM ClosedOnlyByPeerAlways == ASSUME Welcome PROVE Spec => []ClosedOnlyByPeer
<1>1. Init => Kept
  BY DEF Init, Kept, Tabled, NotStarted
<1>2. RespInv /\ Kept /\ [Next]_vars => Kept'
  BY NextKept
<1>3. Kept => ClosedOnlyByPeer
  BY DEF Kept, ClosedOnlyByPeer
<1>4. QED BY <1>1, <1>2, <1>3, RespInvariance, PTL DEF Spec

=============================================================================
