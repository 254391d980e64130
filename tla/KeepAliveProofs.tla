-------------------------- MODULE KeepAliveProofs --------------------------
(***************************************************************************)
(* How a JavaScript Sock stays connected: proofs for any delays, and any   *)
(* number of WebSockets and keepalive objects.                             *)
(***************************************************************************)
EXTENDS KeepAlive, WellFoundedInduction, SequenceTheorems, FiniteSetTheorems, TLAPS

-----------------------------------------------------------------------------
(* Rounds of a loop, one after the other.                                   *)

\* A set of numbers has a least one.
LEMMA Least ==
  ASSUME NEW T, T \subseteq Nat, T # {}
  PROVE  \E n \in T : \A m \in T : n <= m
<1> DEFINE R == {s \in Nat \X Nat : s[1] < s[2]}
<1>1. IsWellFoundedOn(R, Nat)
  BY NatLessThanWellFounded, Zenon DEF OpToRel
<1>2. PICK n \in T : \A m \in T : ~(<<m, n>> \in R)
  <2> HIDE DEF R
  <2> QED BY <1>1, WFMin
<1>3. ASSUME NEW m \in T PROVE n <= m
  <2>1. n \in Nat /\ m \in Nat
    OBVIOUS
  <2>2. ~(m < n)
    BY <1>2, <2>1
  <2> QED BY <2>1, <2>2
<1> QED
  BY <1>3

\* What holds at first, and of each number if of the one before, holds of the last.
LEMMA Induct ==
  ASSUME NEW n \in Nat, NEW T, 0 \in T, \A i \in 1 .. n : i - 1 \in T => i \in T
  PROVE  n \in T
<1> DEFINE U == {m \in 0 .. n : m \notin T}
<1>1. U = {}
  <2> SUFFICES ASSUME U # {} PROVE FALSE
    OBVIOUS
  <2>1. PICK m \in U : \A q \in U : m <= q
    <3>1. U \subseteq Nat
      OBVIOUS
    <3> HIDE DEF U
    <3> QED BY <3>1, Least
  <2>2. m # 0 /\ m \in 1 .. n
    BY <2>1
  <2>3. m - 1 \in T
    BY <2>1, <2>2
  <2> QED BY <2>2, <2>3
<1> QED
  BY <1>1

Started(list) == [list |-> list, called |-> <<>>, threw |-> FALSE]

LEMMA RoundsAre ==
  ASSUME NEW list, Len(list) \in Nat
  PROVE  /\ Rounds(list)[0] = Started(list)
         /\ \A i \in 1 .. Len(list) : Rounds(list)[i] = EmitRound(Rounds(list)[i - 1], i)
<1> DEFINE Run(f, n) == f = [i \in 0 .. n |-> IF i = 0 THEN Started(list) ELSE EmitRound(f[i - 1], i)]
           T == {n \in Nat : \E f : Run(f, n)}
<1>1. Len(list) \in T
  <2>1. Run([i \in 0 .. 0 |-> Started(list)], 0)
    OBVIOUS
  <2>2. ASSUME NEW n \in 1 .. Len(list), n - 1 \in T PROVE n \in T
    <3>1. PICK g : Run(g, n - 1)
      BY <2>2
    <3> DEFINE f == [i \in 0 .. n |-> IF i = n THEN EmitRound(g[n - 1], n) ELSE g[i]]
    <3>2. \A i \in 0 .. n : f[i] = IF i = 0 THEN Started(list) ELSE EmitRound(f[i - 1], i)
      BY <3>1
    <3>3. Run(f, n)
      BY <3>2
    <3>4. n \in Nat
      OBVIOUS
    <3> HIDE DEF Run, f
    <3> QED BY <3>3, <3>4
  <2>3. 0 \in T
    BY <2>1
  <2> HIDE DEF T
  <2> QED BY <2>2, <2>3, Induct
<1>2. \E f : Run(f, Len(list))
  BY <1>1
<1>3. Rounds(list) = CHOOSE f : Run(f, Len(list))
  BY DEF Rounds, Started
<1>4. Run(Rounds(list), Len(list))
  BY <1>2, <1>3
<1> QED
  BY <1>4

LEMMA RejoinedIs ==
  ASSUME NEW who, Len(who) \in Nat, NEW waits, NEW list
  PROVE  \E g : /\ g[0] = list /\ g[Len(who)] = Rejoined(who, waits, list)
                /\ \A i \in 1 .. Len(who) :
                     g[i] = IF Rejoins(who[i], waits) THEN Once(g[i - 1], who[i]) ELSE g[i - 1]
<1> DEFINE Step(x, i) == IF Rejoins(who[i], waits) THEN Once(x, who[i]) ELSE x
           Run(f, n) == f = [i \in 0 .. n |-> IF i = 0 THEN list
                                              ELSE IF Rejoins(who[i], waits) THEN Once(f[i - 1], who[i])
                                                   ELSE f[i - 1]]
           T == {n \in Nat : \E f : Run(f, n)}
<1>1. Len(who) \in T
  <2>1. Run([i \in 0 .. 0 |-> list], 0)
    OBVIOUS
  <2>2. ASSUME NEW n \in 1 .. Len(who), n - 1 \in T PROVE n \in T
    <3>1. PICK g : Run(g, n - 1)
      BY <2>2
    <3> DEFINE f == [i \in 0 .. n |-> IF i = n THEN Step(g[n - 1], n) ELSE g[i]]
    <3>2. \A i \in 0 .. n : f[i] = IF i = 0 THEN list ELSE Step(f[i - 1], i)
      BY <3>1
    <3>3. Run(f, n)
      BY <3>2
    <3>4. n \in Nat
      OBVIOUS
    <3> HIDE DEF Run, f
    <3> QED BY <3>3, <3>4
  <2>3. 0 \in T
    BY <2>1
  <2> HIDE DEF T
  <2> QED BY <2>2, <2>3, Induct
<1> DEFINE r == CHOOSE f : Run(f, Len(who))
<1>2. Run(r, Len(who))
  BY <1>1
<1>3. Rejoined(who, waits, list) = r[Len(who)]
  BY DEF Rejoined
<1> HIDE DEF r
<1>4. \A i \in 0 .. Len(who) : r[i] = IF i = 0 THEN list ELSE Step(r[i - 1], i)
  BY <1>2
<1>5. r[0] = list /\ \A i \in 1 .. Len(who) : r[i] = Step(r[i - 1], i)
  BY <1>4
<1> QED
  BY <1>3, <1>5

-----------------------------------------------------------------------------
(* emit, and a list in order.                                               *)

LEMMA WithoutIs ==
  ASSUME NEW S, NEW l \in Seq(S), NEW i \in 1 .. Len(l)
  PROVE  /\ Without(l, i) \in Seq(S) /\ Len(Without(l, i)) = Len(l) - 1
         /\ \A j \in 1 .. Len(l) - 1 : Without(l, i)[j] = IF j < i THEN l[j] ELSE l[j + 1]
<1> DEFINE a == SubSeq(l, 1, i - 1)
           b == SubSeq(l, i + 1, Len(l))
<1>1. a \in Seq(S) /\ Len(a) = i - 1 /\ \A j \in 1 .. i - 1 : a[j] = l[j]
  OBVIOUS
<1>2. b \in Seq(S) /\ Len(b) = Len(l) - i /\ \A j \in 1 .. Len(l) - i : b[j] = l[i + j]
  OBVIOUS
<1>3. Without(l, i) = a \o b
  BY DEF Without
<1> HIDE DEF a, b
<1>4. a \o b \in Seq(S) /\ Len(a \o b) = Len(l) - 1
  <2>1. a \o b \in Seq(S) /\ Len(a \o b) = Len(a) + Len(b)
    <3>1. a \in Seq(S) /\ b \in Seq(S)
      BY <1>1, <1>2
    <3> QED BY <3>1, ConcatProperties
  <2>2. Len(l) \in Nat
    OBVIOUS
  <2> QED BY <1>1, <1>2, <2>1, <2>2
<1>5. ASSUME NEW j \in 1 .. Len(l) - 1 PROVE (a \o b)[j] = IF j < i THEN l[j] ELSE l[j + 1]
  BY <1>1, <1>2
<1> QED
  BY <1>3, <1>4, <1>5

\* What is left of a list, and who was called, part of the way through emit.
OnTheWay(list, a) ==
  /\ a.list \in Seq(Listeners) /\ Tidy(a.list)
  /\ \A k : Listening(a.list, k) => Listening(list, k)
  /\ a.called \in Seq(0 .. MaxObjects)
  /\ \A j \in DOMAIN a.called : Listening(list, a.called[j])
  /\ \A i, j \in DOMAIN a.called : a.called[i] = a.called[j] /\ a.called[i] # App => i = j
  /\ \A j \in DOMAIN a.called : a.called[j] # App => ~Listening(a.list, a.called[j])

\* A list without the listener at i.
LEMMA WithoutTidy ==
  ASSUME NEW l \in Seq(Listeners), Tidy(l), NEW i \in 1 .. Len(l)
  PROVE  /\ Without(l, i) \in Seq(Listeners) /\ Tidy(Without(l, i))
         /\ \A k : Listening(Without(l, i), k) => Listening(l, k)
         /\ l[i].who # App => ~Listening(Without(l, i), l[i].who)
<1> DEFINE w == Without(l, i)
           From(j) == IF j < i THEN j ELSE j + 1
<1>1. w \in Seq(Listeners) /\ Len(w) = Len(l) - 1
  BY WithoutIs
<1>2. \A j \in 1 .. Len(w) : From(j) \in 1 .. Len(l) /\ From(j) # i /\ w[j] = l[From(j)]
  <2>1. Len(l) \in Nat /\ \A j \in 1 .. Len(l) - 1 : w[j] = IF j < i THEN l[j] ELSE l[j + 1]
    BY WithoutIs
  <2> HIDE DEF w
  <2> QED BY <1>1, <2>1
<1>3. \A j, m \in 1 .. Len(w) : From(j) = From(m) => j = m
  BY <1>1
<1> HIDE DEF w, From
<1>4. DOMAIN w = 1 .. Len(w) /\ DOMAIN l = 1 .. Len(l)
  BY <1>1
<1>5. Tidy(w)
  BY <1>2, <1>3, <1>4 DEF Tidy
<1>6. \A k : Listening(w, k) => Listening(l, k)
  BY <1>2, <1>4 DEF Listening
<1>7. l[i].who # App => ~Listening(w, l[i].who)
  BY <1>2, <1>4 DEF Listening, Tidy
<1> QED
  BY <1>1, <1>5, <1>6, <1>7 DEF w

LEMMA RoundOnTheWay ==
  ASSUME NEW list, NEW a, OnTheWay(list, a), NEW i \in Nat \ {0},
         a = [list |-> a.list, called |-> a.called, threw |-> a.threw]
  PROVE  /\ OnTheWay(list, EmitRound(a, i))
         /\ EmitRound(a, i) = [list |-> EmitRound(a, i).list, called |-> EmitRound(a, i).called,
                               threw |-> EmitRound(a, i).threw]
<1> DEFINE b == EmitRound(a, i)
           x == a.list[i]
<1>1. CASE a.threw
  BY <1>1 DEF EmitRound
<1>2. CASE ~a.threw /\ i > Len(a.list)
  <2>1. b = [list |-> a.list, called |-> a.called, threw |-> TRUE]
    BY <1>2 DEF EmitRound
  <2> QED BY <2>1 DEF OnTheWay
<1>3. CASE ~a.threw /\ ~(i > Len(a.list))
  <2>1. b = [list |-> IF x.once THEN Without(a.list, i) ELSE a.list,
             called |-> Append(a.called, x.who), threw |-> a.threw]
    BY <1>3 DEF EmitRound
  <2> HIDE DEF b
  <2>2. i \in 1 .. Len(a.list) /\ x \in Listeners /\ x.who \in 0 .. MaxObjects
    <3>1. i \in 1 .. Len(a.list)
      BY <1>3 DEF OnTheWay
    <3>2. a.list \in Seq(Listeners)
      BY DEF OnTheWay
    <3>3. x \in Listeners
      BY <3>1, <3>2
    <3> QED BY <3>1, <3>3 DEF Listeners
  <2>3. Listening(a.list, x.who) /\ Listening(list, x.who)
    <3>1. DOMAIN a.list = 1 .. Len(a.list)
      BY DEF OnTheWay
    <3>2. Listening(a.list, x.who)
      BY <2>2, <3>1 DEF Listening
    <3> QED BY <3>2 DEF OnTheWay
  <2>4. x.who # App => x.once
    BY <2>2 DEF OnTheWay, Tidy
  <2>5. /\ b.list \in Seq(Listeners) /\ Tidy(b.list)
        /\ \A k : Listening(b.list, k) => Listening(a.list, k)
        /\ x.who # App => ~Listening(b.list, x.who)
    BY <2>1, <2>2, <2>4, WithoutTidy DEF OnTheWay
  <2>6. /\ b.called \in Seq(0 .. MaxObjects) /\ Len(b.called) = Len(a.called) + 1
        /\ \A j \in 1 .. Len(b.called) : b.called[j] = IF j = Len(b.called) THEN x.who ELSE a.called[j]
        /\ DOMAIN b.called = 1 .. Len(b.called) /\ DOMAIN a.called = 1 .. Len(a.called)
    BY <2>1, <2>2 DEF OnTheWay
  <2>7. \A k : Listening(b.list, k) => Listening(list, k)
    BY <2>5 DEF OnTheWay
  <2>8. \A j \in DOMAIN b.called : Listening(list, b.called[j])
    BY <2>3, <2>6 DEF OnTheWay
  <2>9. ASSUME NEW p \in DOMAIN b.called, NEW q \in DOMAIN b.called, b.called[p] = b.called[q], b.called[p] # App
        PROVE  p = q
    BY <2>3, <2>6, <2>9 DEF OnTheWay
  <2>10. ASSUME NEW j \in DOMAIN b.called, b.called[j] # App PROVE ~Listening(b.list, b.called[j])
    BY <2>5, <2>6, <2>10 DEF OnTheWay
  <2> QED BY <2>1, <2>5, <2>6, <2>7, <2>8, <2>9, <2>10 DEF OnTheWay, b
<1> QED
  BY <1>1, <1>2, <1>3

\* emit leaves a list in order, calls each object once, and none of those stays in it.
LEMMA EmitIs ==
  ASSUME NEW list \in Seq(Listeners), Tidy(list)
  PROVE  OnTheWay(list, Emit(list))
<1> DEFINE r == Rounds(list)
           Good(a) == OnTheWay(list, a) /\ a = [list |-> a.list, called |-> a.called, threw |-> a.threw]
           T == {n \in 0 .. Len(list) : Good(r[n])}
<1>1. r[0] = Started(list) /\ \A i \in 1 .. Len(list) : r[i] = EmitRound(r[i - 1], i)
  BY RoundsAre
<1> HIDE DEF r
<1>2. Good(r[0])
  BY <1>1 DEF OnTheWay, Started
<1>3. ASSUME NEW i \in 1 .. Len(list), i - 1 \in T PROVE i \in T
  <2>1. Good(r[i - 1])
    BY <1>3
  <2>2. PICK a : a = r[i - 1]
    OBVIOUS
  <2>3. Good(EmitRound(a, i))
    BY <2>1, <2>2, RoundOnTheWay
  <2> QED BY <1>1, <2>2, <2>3
<1>4. Len(list) \in T
  <2>1. 0 \in T
    BY <1>2
  <2> HIDE DEF T
  <2> QED BY <1>3, <2>1, Induct
<1> QED
  BY <1>4 DEF Emit, r

-----------------------------------------------------------------------------
(* retry, called for some objects in turn.                                  *)

\* Of those listening to "online" after, each did before or was retried; a list in
\* order stays in order.
LEMMA RejoinedTidy ==
  ASSUME NEW list \in Seq(Listeners), Tidy(list), NEW who \in Seq(0 .. MaxObjects), NEW waits,
         \A i, j \in DOMAIN who : who[i] = who[j] /\ who[i] # App => i = j,
         \A j \in DOMAIN who : Rejoins(who[j], waits) => ~Listening(list, who[j])
  PROVE  LET r == Rejoined(who, waits, list) IN
         /\ r \in Seq(Listeners) /\ Tidy(r)
         /\ \A k : Listening(r, k) =>
              Listening(list, k) \/ (k \in Range(who) /\ Rejoins(k, waits))
<1> DEFINE Good(x, n) ==
             /\ x \in Seq(Listeners) /\ Tidy(x)
             /\ \A k : Listening(x, k) =>
                  Listening(list, k) \/ \E j \in 1 .. n : who[j] = k /\ Rejoins(k, waits)
<1>1. PICK g : /\ g[0] = list /\ g[Len(who)] = Rejoined(who, waits, list)
               /\ \A i \in 1 .. Len(who) :
                    g[i] = IF Rejoins(who[i], waits) THEN Once(g[i - 1], who[i]) ELSE g[i - 1]
  BY RejoinedIs
<1> DEFINE T == {n \in 0 .. Len(who) : Good(g[n], n)}
<1>2. ASSUME NEW i \in 1 .. Len(who), NEW x, Good(x, i - 1), NEW y,
             y = IF Rejoins(who[i], waits) THEN Once(x, who[i]) ELSE x
      PROVE  Good(y, i)
  <2>1. CASE ~Rejoins(who[i], waits)
    BY <1>2, <2>1
  <2>2. CASE Rejoins(who[i], waits)
    <3> DEFINE w == who[i]
    <3>1. w \in 0 .. MaxObjects /\ w # App
      <4>1. w \in 0 .. MaxObjects
        BY ElementOfSeq
      <4> QED BY <2>2, <4>1 DEF Rejoins
    <3>2. ~Listening(x, w)
      <4>1. ~Listening(list, w)
        BY <2>2
      <4>2. ~\E j \in 1 .. i - 1 : who[j] = w
        BY <3>1
      <4> QED BY <1>2, <4>1, <4>2
    <3>3. y = Append(x, [who |-> w, once |-> TRUE])
      BY <1>2, <2>2 DEF Once, Listener
    <3>4. [who |-> w, once |-> TRUE] \in Listeners
      BY <3>1 DEF Listeners
    <3> HIDE DEF w
    <3>5. /\ y \in Seq(Listeners) /\ Len(y) = Len(x) + 1
          /\ DOMAIN x = 1 .. Len(x) /\ DOMAIN y = 1 .. Len(y) /\ Len(x) \in Nat
          /\ \A j \in 1 .. Len(x) : y[j] = x[j]
          /\ y[Len(y)] = [who |-> w, once |-> TRUE]
      <4>1. x \in Seq(Listeners)
        BY <1>2
      <4>2. PICK z \in Listeners : z = [who |-> w, once |-> TRUE]
        BY <3>4
      <4>3. y = Append(x, z)
        BY <3>3, <4>2
      <4> QED BY <4>1, <4>2, <4>3
    <3>6. Tidy(y)
      <4>1. y[Len(y)].who = w /\ y[Len(y)].once
        BY <3>5
      <4>2. \A j \in 1 .. Len(x) : x[j].who # w
        BY <3>2, <3>5 DEF Listening
      <4>3. \A j \in DOMAIN y : j = Len(y) \/ j \in 1 .. Len(x)
        BY <3>5
      <4>4. Tidy(x)
        BY <1>2
      <4>5. \A j \in DOMAIN y : y[j].who # App => y[j].once
        BY <3>5, <4>1, <4>3, <4>4 DEF Tidy
      <4>6. ASSUME NEW j \in DOMAIN y, NEW m \in DOMAIN y, y[j].who = y[m].who, y[j].who # App PROVE j = m
        BY <3>5, <4>1, <4>2, <4>3, <4>4, <4>6 DEF Tidy
      <4> QED BY <4>5, <4>6 DEF Tidy
    <3>7. \A k : Listening(y, k) => Listening(x, k) \/ k = w
      BY <3>5 DEF Listening
    <3> QED BY <1>2, <2>2, <3>5, <3>6, <3>7 DEF w
  <2> QED BY <2>1, <2>2
<1>3. Good(g[0], 0)
  BY <1>1
<1>4. ASSUME NEW i \in 1 .. Len(who), i - 1 \in T PROVE i \in T
  <2>1. Good(g[i - 1], i - 1)
    BY <1>4
  <2>2. Good(g[i], i)
    <3> HIDE DEF Good
    <3> QED BY <1>1, <1>2, <2>1
  <2> QED BY <2>2
<1>5. Len(who) \in T
  <2>1. 0 \in T
    BY <1>3
  <2> HIDE DEF T
  <2> QED BY <1>4, <2>1, Induct
<1>6. \A j \in 1 .. Len(who) : who[j] \in Range(who)
  BY DEF Range
<1> QED
  BY <1>1, <1>5, <1>6

LEMMA RetriedIs ==
  ASSUME KeepAliveAssumption, NEW o \in ObjectType, NEW kind \in CloseKinds, NEW waits \in BOOLEAN,
         NEW p \in Retried(o, kind, waits)
  PROVE  /\ p \in ObjectType /\ p.enabled = o.enabled /\ ~p.isConnected
         /\ p.timer => o.enabled /\ ~waits
<1>1. /\ Stopped(o) \in ObjectType /\ Stopped(o).enabled = o.enabled
      /\ ~Stopped(o).isConnected /\ ~Stopped(o).timer
  BY DEF Stopped, ObjectType
<1>2. PICK s : s = Stopped(o)
  OBVIOUS
<1>3. CASE ~o.enabled
  BY <1>1, <1>3 DEF Retried
<1>4. CASE o.enabled /\ waits
  <2>1. p = [s EXCEPT !.delay = 0]
    BY <1>2, <1>4 DEF Retried
  <2>2. 0 \in 0 .. MaxDelay
    BY KeepAliveAssumption DEF KeepAliveAssumption
  <2>3. s \in ObjectType /\ s.enabled = o.enabled /\ ~s.isConnected /\ ~s.timer
    BY <1>1, <1>2
  <2>4. p \in ObjectType /\ p.enabled = s.enabled /\ p.isConnected = s.isConnected /\ p.timer = s.timer
    BY <2>1, <2>2, <2>3 DEF ObjectType
  <2> QED BY <1>4, <2>3, <2>4
<1>5. CASE o.enabled /\ ~waits
  <2>1. PICK d \in Delays(kind, o.delay) : p = [s EXCEPT !.timer = TRUE, !.delay = d]
    BY <1>2, <1>5 DEF Retried
  <2>2. o.delay \in 0 .. MaxDelay
    BY DEF ObjectType
  <2>3. d \in 0 .. MaxDelay
    BY <2>2, KeepAliveAssumption DEF KeepAliveAssumption, Delays, Doubled, CloseKinds
  <2> QED BY <1>1, <1>2, <1>5, <2>1, <2>3 DEF ObjectType
<1> QED
  BY <1>3, <1>4, <1>5

\* What retry leaves of the objects.
LEMMA RetryAllIs ==
  ASSUME KeepAliveAssumption, objects \in Seq(ObjectType), NEW who, NEW kind \in CloseKinds,
         NEW waits \in BOOLEAN, NEW list, RetryAll(who, kind, waits, list)
  PROVE  /\ objects' \in Seq(ObjectType) /\ Len(objects') = Len(objects)
         /\ \A k \in DOMAIN objects :
              /\ objects'[k].enabled = objects[k].enabled
              /\ k \notin Range(who) => objects'[k] = objects[k]
              /\ k \in Range(who) =>
                   ~objects'[k].isConnected /\ (objects'[k].timer => objects[k].enabled /\ ~waits)
         /\ onOnline' = Rejoined(who, waits, list)
<1> DEFINE may(k) == IF k \in Range(who) THEN Retried(objects[k], kind, waits) ELSE {objects[k]}
<1>1. PICK os \in [DOMAIN objects -> UNION {may(k) : k \in DOMAIN objects}] :
        objects' = os /\ \A k \in DOMAIN objects : os[k] \in may(k)
  BY DEF RetryAll
<1>2. DOMAIN objects = 1 .. Len(objects) /\ Len(objects) \in Nat /\ \A k \in DOMAIN objects : objects[k] \in ObjectType
  OBVIOUS
<1>3. ASSUME NEW k \in DOMAIN objects
      PROVE  /\ os[k] \in ObjectType /\ os[k].enabled = objects[k].enabled
             /\ k \notin Range(who) => os[k] = objects[k]
             /\ k \in Range(who) =>
                  ~os[k].isConnected /\ (os[k].timer => objects[k].enabled /\ ~waits)
  <2>1. os[k] \in may(k) /\ objects[k] \in ObjectType
    BY <1>1, <1>2
  <2>2. CASE k \in Range(who)
    <3>1. PICK o : o = objects[k]
      OBVIOUS
    <3>2. os[k] \in Retried(o, kind, waits)
      BY <2>1, <2>2, <3>1
    <3> QED BY <2>1, <2>2, <3>1, <3>2, RetriedIs
  <2> QED BY <2>1, <2>2
<1> HIDE DEF may
<1>4. os \in [1 .. Len(objects) -> ObjectType]
  BY <1>1, <1>2, <1>3
<1>5. os \in Seq(ObjectType) /\ Len(os) = Len(objects)
  <2>1. os \in Seq(ObjectType)
    BY <1>2, <1>4, SeqDef
  <2>2. 1 .. Len(os) = 1 .. Len(objects)
    BY <1>4, <2>1, LenProperties
  <2> QED BY <1>2, <2>1, <2>2, LenProperties
<1>6. onOnline' = Rejoined(who, waits, list)
  BY DEF RetryAll
<1>7. objects' \in Seq(ObjectType) /\ Len(objects') = Len(objects)
  BY <1>1, <1>5
<1>8. ASSUME NEW k \in DOMAIN objects PROVE objects'[k] = os[k]
  BY <1>1
<1> QED
  BY <1>3, <1>6, <1>7, <1>8

-----------------------------------------------------------------------------
(* Each action keeps the invariant.                                         *)

\* What the types say of the WebSockets and the objects, one by one.
LEMMA Parts ==
  ASSUME KeepAliveInv
  PROVE  /\ sockets \in Seq(SocketType) /\ Len(sockets) \in Nat /\ DOMAIN sockets = 1 .. Len(sockets)
         /\ objects \in Seq(ObjectType) /\ Len(objects) \in Nat /\ DOMAIN objects = 1 .. Len(objects)
         /\ 1 \in DOMAIN objects
         /\ \A i \in DOMAIN sockets : sockets[i] \in SocketType /\ sockets[i].by \in DOMAIN objects
         /\ \A k \in DOMAIN objects : objects[k] \in ObjectType /\ k # 0 /\ k <= Len(objects)
<1>1. sockets \in Seq(SocketType) /\ objects \in Seq(ObjectType) /\ Len(objects) >= 1
  BY DEF KeepAliveInv, TypeOK
<1>2. ASSUME NEW i \in DOMAIN sockets PROVE sockets[i] \in SocketType /\ sockets[i].by \in DOMAIN objects
  <2>1. sockets[i] \in SocketType /\ sockets[i].by <= Len(objects)
    BY <1>1 DEF KeepAliveInv
  <2> QED BY <1>1, <2>1 DEF SocketType
<1> QED
  BY <1>1, <1>2

LEMMA InitKeeps ==
  ASSUME KeepAliveAssumption, Init
  PROVE  KeepAliveInv
<1>1. sockets = <<Opening(1)>> /\ Opening(1) \in SocketType /\ objects = <<Fresh>> /\ Fresh \in ObjectType
  BY KeepAliveAssumption DEF KeepAliveAssumption, Init, Opening, Fresh, SocketType, ObjectType
<1>2. /\ Len(sockets) = 1 /\ sockets[1] = Opening(1) /\ DOMAIN sockets = {1}
      /\ Len(objects) = 1 /\ objects[1] = Fresh /\ DOMAIN objects = {1}
  BY <1>1
<1>3. onClose = <<>> /\ onOnline = <<>> /\ DOMAIN onClose = {} /\ DOMAIN onOnline = {}
  BY DEF Init
<1>4. TypeOK
  <2>1. sockets \in Seq(SocketType) /\ objects \in Seq(ObjectType)
    BY <1>1
  <2>2. Len(sockets) <= MaxSockets
    BY <1>2, KeepAliveAssumption DEF KeepAliveAssumption
  <2>3. onClose \in Seq(Listeners) /\ onOnline \in Seq(Listeners) /\ Range(onClose) = {} /\ Range(onOnline) = {}
    BY <1>3 DEF Range
  <2>4. told.heard = 0 /\ told.due = 0
    BY DEF Init
  <2>5. ws \in 0 .. Len(sockets) /\ ka \in 0 .. Len(objects) /\ Len(objects) \in 1 .. MaxObjects
    BY <1>2, KeepAliveAssumption DEF KeepAliveAssumption, Init
  <2>6. isOpen \in BOOLEAN /\ onLine \in BOOLEAN /\ ended \in BOOLEAN
    BY DEF Init
  <2> QED BY <2>1, <2>2, <2>3, <2>4, <2>5, <2>6 DEF TypeOK
<1> QED
  BY <1>2, <1>3, <1>4 DEF KeepAliveInv, Init, Busy, Enabled, First, Own, Tidy, Listening, Trying,
                          Attached, Opening, Fresh, Sole

LEMMA TimerFiresKeeps ==
  ASSUME KeepAliveAssumption, KeepAliveInv, TimerFires
  PROVE  KeepAliveInv'
<1>1. PICK k \in DOMAIN objects :
        /\ objects[k].timer /\ Len(sockets) < MaxSockets
        /\ objects' = [objects EXCEPT ![k].timer = FALSE]
        /\ sockets' = Append(sockets, Opening(k))
        /\ UNCHANGED <<ws, isOpen, ka, onClose, onOnline, onLine, told, ended>>
  BY DEF TimerFires
<1>2. TypeOK /\ Busy(k)
  BY DEF KeepAliveInv
<1>3. ~objects[k].isConnected /\ ~Listening(onOnline, k) /\ ~\E i \in DOMAIN sockets : Trying(k, i)
  BY <1>1, <1>2 DEF Busy
<1>4. Opening(k) \in SocketType
  BY <1>2 DEF Opening, SocketType, TypeOK
<1>5. /\ sockets' \in Seq(SocketType) /\ Len(sockets') = Len(sockets) + 1
      /\ DOMAIN sockets' = 1 .. Len(sockets) + 1
      /\ \A i \in DOMAIN sockets : sockets'[i] = sockets[i]
      /\ sockets'[Len(sockets) + 1] = Opening(k)
  BY <1>1, <1>4, Parts
<1>6. /\ objects' \in Seq(ObjectType) /\ Len(objects') = Len(objects) /\ DOMAIN objects' = DOMAIN objects
      /\ objects'[k] = [objects[k] EXCEPT !.timer = FALSE]
      /\ \A m \in DOMAIN objects : m # k => objects'[m] = objects[m]
  <2>1. [objects[k] EXCEPT !.timer = FALSE] \in ObjectType
    BY Parts DEF ObjectType
  <2> QED BY <1>1, <2>1, Parts
<1>7. /\ objects'[k].enabled = objects[k].enabled /\ ~objects'[k].timer
      /\ objects'[k].isConnected = objects[k].isConnected
  BY <1>6, Parts DEF ObjectType
<1>8. TypeOK'
  BY <1>1, <1>2, <1>5, <1>6, Parts, KeepAliveAssumption DEF KeepAliveAssumption, TypeOK
<1>9. \A i \in DOMAIN sockets' : sockets'[i].by <= Len(objects')
  BY <1>5, <1>6, Parts DEF Opening
<1>10. ASSUME NEW m \in DOMAIN objects' PROVE Busy(m)'
  <2>1. Busy(m) /\ m \in DOMAIN objects
    BY <1>6 DEF KeepAliveInv
  <2>2. \A i \in DOMAIN sockets' : Trying(m, i)' <=> (i \in DOMAIN sockets /\ Trying(m, i)) \/ (m = k /\ i = Len(sockets) + 1)
    BY <1>5, Parts DEF Trying, Opening
  <2>3. CASE m = k
    BY <1>1, <1>2, <1>3, <1>7, <2>1, <2>2, <2>3 DEF Busy, Listening
  <2>4. CASE m # k
    BY <1>1, <1>6, <2>1, <2>2, <2>4 DEF Busy, Listening
  <2> QED BY <2>3, <2>4
<1>11. Enabled'
  BY <1>1, <1>6, <1>7 DEF KeepAliveInv, Enabled
<1>12. First' /\ Own'
  <2>1. \A i \in DOMAIN sockets' : Attached(i)' => i \in DOMAIN sockets /\ Attached(i)
    BY <1>5, Parts DEF Attached, Opening
  <2>2. \A i \in DOMAIN sockets' : sockets'[i].st = "open" => i \in DOMAIN sockets /\ sockets[i].st = "open"
    BY <1>5, Parts DEF Opening
  <2>3. objects'[1].isConnected = objects[1].isConnected
    BY <1>2, <1>6, <1>7, Parts DEF TypeOK
  <2>4. First'
    BY <1>1, <1>6, <2>1, <2>2, <2>3 DEF KeepAliveInv, First, Sole
  <2>5. ws # 0 => ws \in DOMAIN sockets
    BY <1>2, Parts DEF TypeOK
  <2> QED BY <1>1, <1>5, <2>4, <2>5 DEF KeepAliveInv, Own, Attached
<1>13. Tidy(onClose)' /\ Tidy(onOnline)'
  BY <1>1 DEF KeepAliveInv, Tidy
<1> QED
  BY <1>8, <1>9, <1>10, <1>11, <1>12, <1>13 DEF KeepAliveInv

LEMMA OpensKeeps ==
  ASSUME KeepAliveAssumption, KeepAliveInv, Opens
  PROVE  KeepAliveInv'
<1>1. PICK i \in DOMAIN sockets, k \in DOMAIN objects :
        /\ k = sockets[i].by
        /\ sockets[i].st = "connecting"
        /\ sockets' = [sockets EXCEPT ![i].st = "open", ![i].heard = "adopted"]
        /\ ws' = i /\ isOpen' = TRUE
        /\ objects' = [objects EXCEPT ![k].delay = 0, ![k].isConnected = TRUE]
        /\ onClose' = LET l == Once(onClose, k) IN
                        IF Listens /\ Listener(App, FALSE) \notin Range(l) THEN AddListener(l, App) ELSE l
        /\ UNCHANGED <<ka, onOnline, onLine, told, ended>>
  BY Parts DEF Opens
<1>2. TypeOK /\ Busy(k) /\ Tidy(onClose)
  BY DEF KeepAliveInv
<1>3. Trying(k, i) /\ ~objects[k].timer /\ ~objects[k].isConnected /\ ~Listening(onOnline, k) /\ ~Listening(onClose, k)
  BY <1>1, <1>2 DEF Busy, Trying
<1>4. /\ sockets' \in Seq(SocketType) /\ DOMAIN sockets' = DOMAIN sockets /\ Len(sockets') = Len(sockets)
      /\ \A j \in DOMAIN sockets : j # i => sockets'[j] = sockets[j]
      /\ sockets'[i] = [sockets[i] EXCEPT !.st = "open", !.heard = "adopted"]
  <2>1. [sockets[i] EXCEPT !.st = "open", !.heard = "adopted"] \in SocketType
    BY Parts DEF SocketType
  <2>2. PICK s \in SocketType : s = [sockets[i] EXCEPT !.st = "open", !.heard = "adopted"]
    BY <2>1
  <2>3. sockets' = [sockets EXCEPT ![i] = s]
    BY <1>1, <2>2
  <2> QED BY <2>2, <2>3, Parts
<1>5. sockets'[i].st = "open" /\ sockets'[i].by = sockets[i].by /\ sockets'[i].heard = "adopted"
  BY <1>4, Parts DEF SocketType
<1>6. /\ objects' \in Seq(ObjectType) /\ Len(objects') = Len(objects) /\ DOMAIN objects' = DOMAIN objects
      /\ objects'[k] = [objects[k] EXCEPT !.delay = 0, !.isConnected = TRUE]
      /\ \A m \in DOMAIN objects : m # k => objects'[m] = objects[m]
  <2>1. [objects[k] EXCEPT !.delay = 0, !.isConnected = TRUE] \in ObjectType
    <3>1. 0 \in 0 .. MaxDelay
      BY KeepAliveAssumption DEF KeepAliveAssumption
    <3> QED BY <3>1, Parts DEF ObjectType
  <2> QED BY <1>1, <2>1, Parts
<1>7. /\ objects'[k].enabled = objects[k].enabled /\ objects'[k].timer = objects[k].timer
      /\ objects'[k].isConnected
  BY <1>6, Parts DEF ObjectType
<1>8. /\ onClose' \in Seq(Listeners) /\ Tidy(onClose)'
      /\ \A l \in Range(onClose') : l \in Range(onClose) \/ l.who = k \/ l.who = App
      /\ \A m \in DOMAIN objects : Listening(onClose, m)' => Listening(onClose, m) \/ m = k
  <2> DEFINE l1 == Once(onClose, k)
  <2>1. onClose \in Seq(Listeners) /\ k \in 0 .. MaxObjects /\ k # App /\ Len(onClose) \in Nat
    BY <1>2, Parts DEF TypeOK, App
  <2>2. PICK x \in Listeners : x = [who |-> k, once |-> TRUE]
    BY <2>1 DEF Listeners
  <2>3. PICK y \in Listeners : y = [who |-> App, once |-> FALSE]
    <3>1. App \in 0 .. MaxObjects
      BY KeepAliveAssumption DEF KeepAliveAssumption, App
    <3> QED BY <3>1 DEF Listeners
  <2>4. /\ l1 \in Seq(Listeners) /\ Len(l1) = Len(onClose) + 1 /\ DOMAIN l1 = 1 .. Len(l1)
        /\ DOMAIN onClose = 1 .. Len(onClose)
        /\ \A j \in DOMAIN onClose : l1[j] = onClose[j]
        /\ l1[Len(l1)] = x
    BY <2>1, <2>2 DEF Once, Listener
  <2>5. onClose' = l1 \/ onClose' = Append(l1, y)
    BY <1>1, <2>3 DEF AddListener, Listener
  <2> HIDE DEF l1
  <2>6. \A j \in DOMAIN l1 : l1[j].who # App => l1[j].once
    BY <1>2, <2>1, <2>2, <2>4 DEF Tidy
  <2>7. ASSUME NEW p \in DOMAIN l1, NEW q \in DOMAIN l1, l1[p].who = l1[q].who, l1[p].who # App PROVE p = q
    <3>1. \A j \in DOMAIN onClose : onClose[j].who # k
      BY <1>3 DEF Listening
    <3> QED BY <1>2, <2>1, <2>2, <2>4, <2>7, <3>1 DEF Tidy
  <2>8. \A j \in DOMAIN l1 : l1[j] \in Range(onClose) \/ l1[j].who = k
    BY <2>1, <2>2, <2>4 DEF Range
  <2>9. CASE onClose' = l1
    <3>1. Tidy(onClose)'
      BY <2>6, <2>7, <2>9 DEF Tidy
    <3>2. \A m \in DOMAIN objects : Listening(onClose, m)' => Listening(onClose, m) \/ m = k
      BY <2>1, <2>2, <2>4, <2>9 DEF Listening
    <3> QED BY <2>4, <2>8, <2>9, <3>1, <3>2 DEF Range
  <2>10. CASE onClose' = Append(l1, y)
    <3>1. /\ onClose' \in Seq(Listeners) /\ Len(onClose') = Len(l1) + 1 /\ DOMAIN onClose' = 1 .. Len(onClose')
          /\ \A j \in DOMAIN l1 : onClose'[j] = l1[j]
          /\ onClose'[Len(onClose')] = y
          /\ \A j \in DOMAIN onClose' : j = Len(onClose') \/ j \in DOMAIN l1
      BY <2>4, <2>10
    <3>2. y.who = App
      BY <2>3
    <3>3. Tidy(onClose)'
      BY <2>6, <2>7, <3>1, <3>2 DEF Tidy
    <3>4. \A m \in DOMAIN objects : m # App
      BY Parts DEF App
    <3>5. \A m \in DOMAIN objects : Listening(onClose, m)' => Listening(onClose, m) \/ m = k
      BY <2>1, <2>2, <2>4, <3>1, <3>2, <3>4 DEF Listening
    <3> QED BY <2>8, <3>1, <3>2, <3>3, <3>5 DEF Range
  <2> QED BY <2>5, <2>9, <2>10
<1>9. TypeOK'
  <2>1. \A l \in Range(onClose') \cup Range(onOnline') : l.who <= Len(objects')
    <3>1. k <= Len(objects) /\ App <= Len(objects)
      BY Parts DEF App
    <3>2. \A l \in Range(onClose) \cup Range(onOnline) : l.who <= Len(objects)
      BY <1>2 DEF TypeOK
    <3>3. Range(onOnline') = Range(onOnline) /\ Len(objects') = Len(objects)
      BY <1>1, <1>6
    <3> QED BY <1>8, <3>1, <3>2, <3>3
  <2>2. ws' \in 0 .. Len(sockets') /\ isOpen' \in BOOLEAN
    BY <1>1, <1>4, Parts
  <2>3. UNCHANGED <<ka, onOnline, onLine, told, ended>>
    BY <1>1
  <2> QED BY <1>2, <1>4, <1>6, <1>8, <2>1, <2>2, <2>3 DEF TypeOK
<1>10. \A j \in DOMAIN sockets' : sockets'[j].by <= Len(objects')
  <2>1. \A j \in DOMAIN sockets : sockets'[j].by = sockets[j].by
    BY <1>4, <1>5
  <2>2. \A j \in DOMAIN sockets : sockets[j].by <= Len(objects)
    BY DEF KeepAliveInv
  <2> QED BY <1>4, <1>6, <2>1, <2>2
<1>11. ASSUME NEW m \in DOMAIN objects' PROVE Busy(m)'
  <2>1. Busy(m) /\ m \in DOMAIN objects
    BY <1>6 DEF KeepAliveInv
  <2>2. \A j \in DOMAIN sockets' : Trying(m, j)' <=> Trying(m, j) /\ j # i
    BY <1>4, <1>5 DEF Trying
  <2>3. Listening(onOnline, m)' <=> Listening(onOnline, m)
    BY <1>1 DEF Listening
  <2>4. CASE m = k
    <3>1. ~\E j \in DOMAIN sockets' : Trying(k, j)'
      BY <1>3, <1>4, <2>1, <2>2, <2>4 DEF Busy
    <3> QED BY <1>3, <1>7, <2>3, <2>4, <3>1 DEF Busy
  <2>5. CASE m # k
    <3>1. objects'[m] = objects[m] /\ (Listening(onClose, m)' => Listening(onClose, m))
      BY <1>6, <1>8, <2>1, <2>5
    <3> QED BY <1>4, <2>1, <2>2, <2>3, <3>1 DEF Busy
  <2> QED BY <2>4, <2>5
<1>12. Enabled'
  BY <1>1, <1>6, <1>7 DEF KeepAliveInv, Enabled
<1>13. First' /\ Own'
  <2>1. \A j \in DOMAIN sockets' : Attached(j)' <=> Attached(j) \/ j = i
    BY <1>4, <1>5 DEF Attached
  <2>2. Sole => k = 1 /\ \A j \in DOMAIN sockets : ~Attached(j)
    <3>1. Sole => k = 1
      BY Parts DEF Sole
    <3> QED BY <1>3, <3>1 DEF KeepAliveInv, First, Sole
  <2>3. Sole' <=> Sole
    BY <1>6 DEF Sole
  <2>4. Sole => \A j \in DOMAIN sockets' : sockets'[j].st = "open" => j = i
    BY <1>4, <2>2 DEF Attached
  <2> QED BY <1>1, <1>4, <1>5, <1>7, <2>1, <2>2, <2>3, <2>4 DEF First, Own
<1>14. Tidy(onOnline)'
  BY <1>1 DEF KeepAliveInv, Tidy
<1> QED
  BY <1>8, <1>9, <1>10, <1>11, <1>12, <1>13, <1>14 DEF KeepAliveInv

LEMMA OpenFailsKeeps ==
  ASSUME KeepAliveAssumption, KeepAliveInv, OpenFails
  PROVE  KeepAliveInv'
<1>1. PICK i \in DOMAIN sockets, k \in DOMAIN objects :
        /\ k = sockets[i].by
        /\ sockets[i].st = "connecting"
        /\ sockets' = [sockets EXCEPT ![i].st = "closed"]
        /\ RetryAll(<<k>>, "error", Waits, onOnline)
        /\ UNCHANGED <<ws, isOpen, ka, onClose, onLine, told, ended>>
  BY Parts DEF OpenFails
<1>2. TypeOK /\ Busy(k) /\ Tidy(onOnline) /\ Enabled
  BY DEF KeepAliveInv
<1>3. Trying(k, i) /\ ~objects[k].timer /\ ~objects[k].isConnected /\ ~Listening(onOnline, k) /\ ~Listening(onClose, k)
  BY <1>1, <1>2 DEF Busy, Trying
<1>4. /\ sockets' \in Seq(SocketType) /\ DOMAIN sockets' = DOMAIN sockets /\ Len(sockets') = Len(sockets)
      /\ \A j \in DOMAIN sockets : j # i => sockets'[j] = sockets[j]
      /\ sockets'[i] = [sockets[i] EXCEPT !.st = "closed"]
  <2>1. PICK s \in SocketType : s = [sockets[i] EXCEPT !.st = "closed"]
    BY Parts DEF SocketType
  <2>2. sockets' = [sockets EXCEPT ![i] = s]
    BY <1>1, <2>1
  <2> QED BY <2>1, <2>2, Parts
<1>5. sockets'[i].st = "closed" /\ sockets'[i].by = sockets[i].by
  BY <1>4, Parts DEF SocketType
<1>6. PICK w \in BOOLEAN, l \in Seq(Listeners) : w = Waits /\ l = onOnline
  BY <1>2, KeepAliveAssumption DEF KeepAliveAssumption, Waits, TypeOK
<1>7. Range(<<k>>) = {k} /\ DOMAIN <<k>> = {1} /\ <<k>>[1] = k /\ <<k>> \in Seq(0 .. MaxObjects)
  <2>1. k \in 0 .. MaxObjects
    BY <1>2, Parts DEF TypeOK
  <2> QED BY <2>1 DEF Range
<1>8. /\ objects' \in Seq(ObjectType) /\ Len(objects') = Len(objects) /\ DOMAIN objects' = DOMAIN objects
      /\ \A m \in DOMAIN objects : objects'[m].enabled = objects[m].enabled
      /\ \A m \in DOMAIN objects : m # k => objects'[m] = objects[m]
      /\ ~objects'[k].isConnected /\ (objects'[k].timer => objects[k].enabled /\ ~w)
      /\ onOnline' = Rejoined(<<k>>, w, l)
  <2>1. RetryAll(<<k>>, "error", w, l)
    BY <1>1, <1>6
  <2>2. objects \in Seq(ObjectType) /\ "error" \in CloseKinds
    BY Parts DEF CloseKinds
  <2>3. /\ objects' \in Seq(ObjectType) /\ Len(objects') = Len(objects)
        /\ \A m \in DOMAIN objects :
             /\ objects'[m].enabled = objects[m].enabled
             /\ m \notin Range(<<k>>) => objects'[m] = objects[m]
             /\ m \in Range(<<k>>) =>
                  ~objects'[m].isConnected /\ (objects'[m].timer => objects[m].enabled /\ ~w)
        /\ onOnline' = Rejoined(<<k>>, w, l)
    BY <2>1, <2>2, RetryAllIs, KeepAliveAssumption
  <2>4. DOMAIN objects' = DOMAIN objects
    BY <2>3, Parts
  <2> QED BY <1>7, <2>3, <2>4
<1>9. /\ onOnline' \in Seq(Listeners) /\ Tidy(onOnline)'
      /\ \A m : Listening(onOnline, m)' => Listening(onOnline, m) \/ (m = k /\ w)
  <2>1. Tidy(l) /\ ~Listening(l, k)
    BY <1>2, <1>3, <1>6
  <2>2. PICK who \in Seq(0 .. MaxObjects) : who = <<k>>
    BY <1>7
  <2>3. /\ \A p, q \in DOMAIN who : who[p] = who[q] /\ who[p] # App => p = q
        /\ \A p \in DOMAIN who : Rejoins(who[p], w) => ~Listening(l, who[p])
    BY <1>7, <2>1, <2>2
  <2>4. PICK r : r = Rejoined(who, w, l)
    OBVIOUS
  <2>5. r \in Seq(Listeners) /\ Tidy(r) /\ \A m : Listening(r, m) => Listening(l, m) \/ (m \in Range(who) /\ Rejoins(m, w))
    BY <2>1, <2>3, <2>4, RejoinedTidy
  <2>6. r = onOnline'
    BY <1>8, <2>2, <2>4
  <2>7. Tidy(onOnline)'
    BY <2>5, <2>6 DEF Tidy
  <2>8. \A m : Listening(onOnline, m)' => Listening(r, m)
    BY <2>6 DEF Listening
  <2>9. \A m : Listening(l, m) => Listening(onOnline, m)
    BY <1>6
  <2> QED BY <1>7, <2>2, <2>5, <2>6, <2>7, <2>8, <2>9 DEF Rejoins
<1>10. TypeOK'
  <2>1. \A x \in Range(onOnline') : x.who <= Len(objects')
    <3>1. ASSUME NEW j \in DOMAIN onOnline' PROVE onOnline'[j].who <= Len(objects)
      <4>1. PICK m : m = onOnline'[j].who
        OBVIOUS
      <4>2. Listening(onOnline, m)'
        BY <3>1, <4>1 DEF Listening
      <4>3. Listening(onOnline, m) \/ m = k
        BY <1>9, <4>2
      <4>4. Listening(onOnline, m) => m <= Len(objects)
        BY <1>2 DEF TypeOK, Listening, Range
      <4> QED BY <4>1, <4>3, <4>4, Parts
    <3> QED BY <1>8, <3>1 DEF Range
  <2>2. Range(onClose') = Range(onClose)
    BY <1>1
  <2>3. \A x \in Range(onClose') \cup Range(onOnline') : x.who <= Len(objects')
    BY <1>2, <1>8, <2>1, <2>2 DEF TypeOK
  <2>4. UNCHANGED <<ws, isOpen, ka, onClose, onLine, told, ended>>
    BY <1>1
  <2> QED BY <1>2, <1>4, <1>8, <1>9, <2>3, <2>4 DEF TypeOK
<1>11. \A j \in DOMAIN sockets' : sockets'[j].by <= Len(objects')
  <2>1. \A j \in DOMAIN sockets : sockets'[j].by = sockets[j].by
    BY <1>4, <1>5
  <2>2. \A j \in DOMAIN sockets : sockets[j].by <= Len(objects)
    BY DEF KeepAliveInv
  <2> QED BY <1>4, <1>8, <2>1, <2>2
<1>12. ASSUME NEW m \in DOMAIN objects' PROVE Busy(m)'
  <2>1. Busy(m) /\ m \in DOMAIN objects
    BY <1>8 DEF KeepAliveInv
  <2>2. \A j \in DOMAIN sockets' : Trying(m, j)' <=> Trying(m, j) /\ j # i
    BY <1>4, <1>5 DEF Trying
  <2>3. Listening(onClose, m)' <=> Listening(onClose, m)
    BY <1>1 DEF Listening
  <2>4. CASE m = k
    <3>1. ~\E j \in DOMAIN sockets' : Trying(k, j)'
      BY <1>3, <1>4, <2>1, <2>2, <2>4 DEF Busy
    <3>2. ~Listening(onClose, k)'
      BY <1>3, <2>3, <2>4
    <3>3. objects'[k].timer => ~Listening(onOnline, k)'
      BY <1>3, <1>8, <1>9
    <3> QED BY <1>8, <2>4, <3>1, <3>2, <3>3 DEF Busy
  <2>5. CASE m # k
    <3>1. objects'[m] = objects[m] /\ (Listening(onOnline, m)' => Listening(onOnline, m))
      BY <1>8, <1>9, <2>1, <2>5
    <3> QED BY <1>4, <2>1, <2>2, <2>3, <3>1 DEF Busy
  <2> QED BY <2>4, <2>5
<1>13. Enabled'
  <2>1. \A m \in DOMAIN objects' : objects'[m].timer => objects'[m].enabled
    BY <1>2, <1>8 DEF Enabled
  <2> QED BY <1>1, <1>2, <1>8, <2>1 DEF Enabled
<1>14. First' /\ Own'
  <2>1. \A j \in DOMAIN sockets' : Attached(j)' <=> Attached(j)
    BY <1>1, <1>4, <1>5 DEF Attached
  <2>2. Sole => \A j \in DOMAIN sockets : ~Attached(j)
    <3>1. Sole => k = 1
      BY Parts DEF Sole
    <3> QED BY <1>3, <3>1 DEF KeepAliveInv, First, Sole
  <2>3. Sole' <=> Sole
    BY <1>8 DEF Sole
  <2>4. First'
    BY <1>4, <2>1, <2>2, <2>3 DEF First, Attached
  <2>5. ws # 0 => ws \in DOMAIN sockets /\ ws # i
    BY <1>1, <1>2, Parts DEF TypeOK, KeepAliveInv, Own, Attached
  <2> QED BY <1>1, <1>4, <2>4, <2>5 DEF KeepAliveInv, Own, Attached
<1>15. Tidy(onClose)'
  BY <1>1 DEF KeepAliveInv, Tidy
<1> QED
  BY <1>9, <1>10, <1>11, <1>12, <1>13, <1>14, <1>15 DEF KeepAliveInv

LEMMA ClosesKeeps ==
  ASSUME KeepAliveAssumption, KeepAliveInv, Closes
  PROVE  KeepAliveInv'
<1>1. PICK i \in DOMAIN sockets, kind \in CloseKinds :
        /\ sockets[i].st \in {"open", "closing"}
        /\ sockets' = [j \in DOMAIN sockets |->
             [sockets[j] EXCEPT !.st = IF j = i THEN "closed" ELSE @,
                                !.heard = IF j = ws THEN "none" ELSE @]]
        /\ ws' = 0 /\ isOpen' = FALSE
        /\ onClose' = Emit(onClose).list
        /\ RetryAll(Emit(onClose).called, kind, Waits, onOnline)
        /\ told' = [heard |-> told.heard + (IF App \in Range(Emit(onClose).called) THEN 1 ELSE 0),
                    due |-> told.due + (IF Listener(App, FALSE) \in Range(onClose) THEN 1 ELSE 0)]
        /\ UNCHANGED <<ka, onLine, ended>>
  BY DEF Closes, ResetSock
<1>2. TypeOK /\ Tidy(onClose) /\ Tidy(onOnline) /\ Enabled
  BY DEF KeepAliveInv
<1>3. /\ sockets' \in Seq(SocketType) /\ DOMAIN sockets' = DOMAIN sockets /\ Len(sockets') = Len(sockets)
      /\ \A j \in DOMAIN sockets : /\ sockets'[j].by = sockets[j].by
                                   /\ sockets'[j].st = IF j = i THEN "closed" ELSE sockets[j].st
  <2>1. ASSUME NEW j \in DOMAIN sockets
        PROVE  /\ sockets'[j] \in SocketType /\ sockets'[j].by = sockets[j].by
               /\ sockets'[j].st = IF j = i THEN "closed" ELSE sockets[j].st
    <3>1. PICK s \in SocketType : s = sockets[j]
      BY Parts
    <3>2. sockets'[j] = [s EXCEPT !.st = IF j = i THEN "closed" ELSE @,
                                  !.heard = IF j = ws THEN "none" ELSE @]
      BY <1>1, <3>1
    <3> QED BY <3>1, <3>2 DEF SocketType
  <2>2. PICK f : f = sockets' /\ f \in [1 .. Len(sockets) -> SocketType]
    BY <1>1, <2>1, Parts
  <2>3. f \in Seq(SocketType) /\ Len(f) = Len(sockets)
    BY <2>2, Parts
  <2> QED BY <2>1, <2>2, <2>3, Parts
<1>4. PICK w \in BOOLEAN, l \in Seq(Listeners), c \in Seq(Listeners) : w = Waits /\ l = onOnline /\ c = onClose
  BY <1>2, KeepAliveAssumption DEF KeepAliveAssumption, Waits, TypeOK
<1>5. PICK e : e = Emit(c) /\ OnTheWay(c, e)
  BY <1>2, <1>4, EmitIs
<1>6. PICK who \in Seq(0 .. MaxObjects) : who = e.called
  BY <1>5 DEF OnTheWay
<1>7. /\ objects' \in Seq(ObjectType) /\ Len(objects') = Len(objects) /\ DOMAIN objects' = DOMAIN objects
      /\ \A m \in DOMAIN objects :
           /\ objects'[m].enabled = objects[m].enabled
           /\ m \notin Range(who) => objects'[m] = objects[m]
           /\ m \in Range(who) =>
                ~objects'[m].isConnected /\ (objects'[m].timer => objects[m].enabled /\ ~w)
      /\ onOnline' = Rejoined(who, w, l)
  <2>1. RetryAll(who, kind, w, l)
    BY <1>1, <1>4, <1>5, <1>6
  <2>2. objects \in Seq(ObjectType)
    BY Parts
  <2>3. /\ objects' \in Seq(ObjectType) /\ Len(objects') = Len(objects)
        /\ \A m \in DOMAIN objects :
             /\ objects'[m].enabled = objects[m].enabled
             /\ m \notin Range(who) => objects'[m] = objects[m]
             /\ m \in Range(who) =>
                  ~objects'[m].isConnected /\ (objects'[m].timer => objects[m].enabled /\ ~w)
        /\ onOnline' = Rejoined(who, w, l)
    BY <2>1, <2>2, RetryAllIs, KeepAliveAssumption
  <2> QED BY <2>3, Parts
<1>8. ASSUME NEW m \in Range(who), m # App
      PROVE  /\ m \in DOMAIN objects /\ Listening(onClose, m) /\ ~Listening(onOnline, m)
             /\ ~\E j \in DOMAIN sockets : Trying(m, j)
  <2>1. PICK j \in DOMAIN who : who[j] = m
    BY DEF Range
  <2>2. Listening(c, m)
    BY <1>5, <1>6, <2>1 DEF OnTheWay
  <2>3. Listening(onClose, m)
    BY <1>4, <2>2
  <2>4. m \in 0 .. MaxObjects
    BY <1>6, <2>1, ElementOfSeq
  <2>5. m <= Len(objects)
    BY <1>2, <2>3 DEF TypeOK, Listening, Range
  <2>6. m \in DOMAIN objects
    BY <1>8, <2>4, <2>5, Parts DEF App
  <2>7. Busy(m)
    BY <2>6 DEF KeepAliveInv
  <2> QED BY <2>3, <2>6, <2>7 DEF Busy
<1>9. /\ onOnline' \in Seq(Listeners) /\ Tidy(onOnline)'
      /\ \A m : Listening(onOnline, m)' => Listening(onOnline, m) \/ (m \in Range(who) /\ m # App /\ w)
  <2>1. Tidy(l)
    BY <1>2, <1>4
  <2>2. \A p, q \in DOMAIN who : who[p] = who[q] /\ who[p] # App => p = q
    BY <1>5, <1>6 DEF OnTheWay
  <2>3. \A p \in DOMAIN who : Rejoins(who[p], w) => ~Listening(l, who[p])
    BY <1>4, <1>8 DEF Rejoins, Range
  <2>4. PICK r : r = Rejoined(who, w, l)
    OBVIOUS
  <2>5. r \in Seq(Listeners) /\ Tidy(r) /\ \A m : Listening(r, m) => Listening(l, m) \/ (m \in Range(who) /\ Rejoins(m, w))
    BY <2>1, <2>2, <2>3, <2>4, RejoinedTidy
  <2>6. r = onOnline'
    BY <1>7, <2>4
  <2>7. Tidy(onOnline)'
    BY <2>5, <2>6 DEF Tidy
  <2>8. \A m : Listening(onOnline, m)' => Listening(r, m)
    BY <2>6 DEF Listening
  <2>9. \A m : Listening(l, m) => Listening(onOnline, m)
    BY <1>4
  <2> QED BY <2>5, <2>6, <2>7, <2>8, <2>9 DEF Rejoins
<1>10. /\ onClose' \in Seq(Listeners) /\ Tidy(onClose)'
       /\ \A m : Listening(onClose, m)' => Listening(onClose, m)
       /\ \A m \in Range(who) : m # App => ~Listening(onClose, m)'
  <2>1. PICK r : r = e.list /\ r = onClose'
    BY <1>1, <1>4, <1>5
  <2>2. /\ r \in Seq(Listeners) /\ Tidy(r) /\ \A m : Listening(r, m) => Listening(c, m)
        /\ \A m \in Range(who) : m # App => ~Listening(r, m)
    BY <1>5, <1>6, <2>1 DEF OnTheWay, Range
  <2>3. Tidy(onClose)'
    BY <2>1, <2>2 DEF Tidy
  <2>4. \A m : Listening(onClose, m)' <=> Listening(r, m)
    BY <2>1 DEF Listening
  <2>5. \A m : Listening(c, m) => Listening(onClose, m)
    BY <1>4
  <2> QED BY <2>1, <2>2, <2>3, <2>4, <2>5
<1>11. TypeOK'
  <2>1. \A m : Listening(onOnline, m) \/ Listening(onClose, m) => m <= Len(objects)
    BY <1>2 DEF TypeOK, Listening, Range
  <2>2. \A m : Listening(onOnline, m)' \/ Listening(onClose, m)' => m <= Len(objects)
    BY <1>8, <1>9, <1>10, <2>1
  <2>3. \A x \in Range(onClose') \cup Range(onOnline') : x.who <= Len(objects)
    BY <2>2 DEF Listening, Range
  <2>4. told'.heard \in Nat /\ told'.due \in Nat
    <3>1. told.heard \in Nat /\ told.due \in Nat
      BY <1>2 DEF TypeOK
    <3>2. PICK x \in 0 .. 1, y \in 0 .. 1 : told' = [heard |-> told.heard + x, due |-> told.due + y]
      <4>1. (IF App \in Range(Emit(onClose).called) THEN 1 ELSE 0) \in 0 .. 1
        OBVIOUS
      <4>2. (IF Listener(App, FALSE) \in Range(onClose) THEN 1 ELSE 0) \in 0 .. 1
        OBVIOUS
      <4> QED BY <1>1, <4>1, <4>2
    <3>3. told'.heard = told.heard + x /\ told'.due = told.due + y
      BY <3>2
    <3> QED BY <3>1, <3>3
  <2>5. ws' = 0 /\ isOpen' = FALSE /\ UNCHANGED <<ka, onLine, ended>>
    BY <1>1
  <2>6. ws' \in 0 .. Len(sockets')
    BY <1>3, <2>5, Parts
  <2> QED BY <1>2, <1>3, <1>7, <1>9, <1>10, <2>3, <2>4, <2>5, <2>6 DEF TypeOK
<1>12. \A j \in DOMAIN sockets' : sockets'[j].by <= Len(objects')
  BY <1>3, <1>7 DEF KeepAliveInv
<1>13. ASSUME NEW m \in DOMAIN objects' PROVE Busy(m)'
  <2>1. Busy(m) /\ m \in DOMAIN objects /\ m # App
    BY <1>7, Parts DEF KeepAliveInv, App
  <2>2. \A j \in DOMAIN sockets' : Trying(m, j)' <=> Trying(m, j)
    <3>1. sockets[i].st # "connecting"
      BY <1>1
    <3> QED BY <1>3, <3>1 DEF Trying
  <2>3. CASE m \in Range(who)
    <3>1. ~\E j \in DOMAIN sockets' : Trying(m, j)'
      BY <1>3, <1>8, <2>1, <2>2, <2>3
    <3>2. ~Listening(onClose, m)' /\ (Listening(onOnline, m)' => w)
      BY <1>8, <1>9, <1>10, <2>1, <2>3
    <3> QED BY <1>7, <2>1, <2>3, <3>1, <3>2 DEF Busy
  <2>4. CASE m \notin Range(who)
    <3>1. /\ objects'[m] = objects[m]
          /\ (Listening(onOnline, m)' => Listening(onOnline, m))
          /\ (Listening(onClose, m)' => Listening(onClose, m))
      BY <1>7, <1>9, <1>10, <2>1, <2>4
    <3> QED BY <1>3, <2>1, <2>2, <3>1 DEF Busy
  <2> QED BY <2>3, <2>4
<1>14. Enabled'
  <2>1. \A m \in DOMAIN objects' : objects'[m].timer => objects'[m].enabled
    BY <1>2, <1>7 DEF Enabled
  <2> QED BY <1>1, <1>2, <1>7, <2>1 DEF Enabled
<1>15. First' /\ Own'
  <2>1. Sole => \A j \in DOMAIN sockets' : ~Attached(j)'
    <3>1. Attached(i)
      BY <1>1 DEF Attached
    <3>2. \A j \in DOMAIN sockets' : Attached(j)' => j # i /\ Attached(j) /\ j \in DOMAIN sockets
      BY <1>3 DEF Attached
    <3> QED BY <3>1, <3>2 DEF KeepAliveInv, First
  <2>2. Sole' <=> Sole
    BY <1>7 DEF Sole
  <2> QED BY <1>1, <2>1, <2>2 DEF First, Own, Attached
<1> QED
  BY <1>9, <1>10, <1>11, <1>12, <1>13, <1>14, <1>15 DEF KeepAliveInv

LEMMA OnlineKeeps ==
  ASSUME KeepAliveAssumption, KeepAliveInv, Online
  PROVE  KeepAliveInv'
<1>1. /\ onLine' = TRUE
      /\ RetryAll(Emit(onOnline).called, "clean", FALSE, Emit(onOnline).list)
      /\ UNCHANGED <<sockets, ws, isOpen, ka, onClose, told, ended>>
  BY DEF Online
<1>2. TypeOK /\ Tidy(onClose) /\ Tidy(onOnline) /\ Enabled
  BY DEF KeepAliveInv
<1>3. PICK c \in Seq(Listeners) : c = onOnline
  BY <1>2 DEF TypeOK
<1>4. PICK e : e = Emit(c) /\ OnTheWay(c, e)
  BY <1>2, <1>3, EmitIs
<1>5. PICK who \in Seq(0 .. MaxObjects), l \in Seq(Listeners) : who = e.called /\ l = e.list
  BY <1>4 DEF OnTheWay
<1>6. /\ objects' \in Seq(ObjectType) /\ Len(objects') = Len(objects) /\ DOMAIN objects' = DOMAIN objects
      /\ \A m \in DOMAIN objects :
           /\ objects'[m].enabled = objects[m].enabled
           /\ m \notin Range(who) => objects'[m] = objects[m]
           /\ m \in Range(who) => ~objects'[m].isConnected /\ (objects'[m].timer => objects[m].enabled)
      /\ onOnline' = Rejoined(who, FALSE, l)
  <2>1. RetryAll(who, "clean", FALSE, l)
    BY <1>1, <1>3, <1>4, <1>5
  <2>2. objects \in Seq(ObjectType) /\ "clean" \in CloseKinds
    BY Parts DEF CloseKinds
  <2>3. /\ objects' \in Seq(ObjectType) /\ Len(objects') = Len(objects)
        /\ \A m \in DOMAIN objects :
             /\ objects'[m].enabled = objects[m].enabled
             /\ m \notin Range(who) => objects'[m] = objects[m]
             /\ m \in Range(who) => ~objects'[m].isConnected /\ (objects'[m].timer => objects[m].enabled)
        /\ onOnline' = Rejoined(who, FALSE, l)
    BY <2>1, <2>2, RetryAllIs, KeepAliveAssumption
  <2> QED BY <2>3, Parts
<1>7. /\ onOnline' \in Seq(Listeners) /\ Tidy(onOnline)'
      /\ \A m : Listening(onOnline, m)' => Listening(onOnline, m)
      /\ \A m \in Range(who) : m # App => Listening(onOnline, m) /\ ~Listening(onOnline, m)'
  <2>1. /\ Tidy(l) /\ \A m : Listening(l, m) => Listening(c, m)
        /\ \A m \in Range(who) : m # App => Listening(c, m) /\ ~Listening(l, m)
        /\ \A p, q \in DOMAIN who : who[p] = who[q] /\ who[p] # App => p = q
    BY <1>4, <1>5 DEF OnTheWay, Range
  <2>2. PICK r : r = Rejoined(who, FALSE, l)
    OBVIOUS
  <2>3. \A m : ~Rejoins(m, FALSE)
    BY DEF Rejoins
  <2>4. r \in Seq(Listeners) /\ Tidy(r) /\ \A m : Listening(r, m) => Listening(l, m)
    BY <2>1, <2>2, <2>3, RejoinedTidy
  <2>5. r = onOnline'
    BY <1>6, <2>2
  <2>6. Tidy(onOnline)'
    BY <2>4, <2>5 DEF Tidy
  <2>7. \A m : Listening(onOnline, m)' => Listening(r, m)
    BY <2>5 DEF Listening
  <2>8. \A m : Listening(c, m) => Listening(onOnline, m)
    BY <1>3
  <2> QED BY <2>1, <2>4, <2>5, <2>6, <2>7, <2>8
<1>8. ASSUME NEW m \in DOMAIN objects, m \in Range(who)
      PROVE  Listening(onOnline, m) /\ ~objects[m].isConnected /\ ~\E j \in DOMAIN sockets : Trying(m, j)
  <2>1. Listening(onOnline, m)
    BY <1>7, <1>8, Parts DEF App
  <2>2. Busy(m)
    BY DEF KeepAliveInv
  <2> QED BY <2>1, <2>2 DEF Busy
<1>9. TypeOK'
  <2>1. \A m : Listening(onOnline, m) => m <= Len(objects)
    BY <1>2 DEF TypeOK, Listening, Range
  <2>2. \A x \in Range(onOnline') : x.who <= Len(objects)
    BY <1>7, <2>1 DEF Listening, Range
  <2>3. Range(onClose') = Range(onClose)
    BY <1>1
  <2>4. UNCHANGED <<sockets, ws, isOpen, ka, onClose, told, ended>> /\ onLine' = TRUE
    BY <1>1
  <2> QED BY <1>2, <1>6, <1>7, <2>2, <2>3, <2>4 DEF TypeOK
<1>10. \A j \in DOMAIN sockets' : sockets'[j].by <= Len(objects')
  BY <1>1, <1>6 DEF KeepAliveInv
<1>11. ASSUME NEW m \in DOMAIN objects' PROVE Busy(m)'
  <2>1. Busy(m) /\ m \in DOMAIN objects /\ m # App
    BY <1>6, Parts DEF KeepAliveInv, App
  <2>2. DOMAIN sockets' = DOMAIN sockets /\ \A j \in DOMAIN sockets' : Trying(m, j)' <=> Trying(m, j)
    BY <1>1 DEF Trying
  <2>3. Listening(onClose, m)' <=> Listening(onClose, m)
    BY <1>1 DEF Listening
  <2>4. CASE m \in Range(who)
    <3>1. ~Listening(onClose, m)' /\ ~Listening(onOnline, m)'
      BY <1>7, <1>8, <2>1, <2>3, <2>4 DEF Busy
    <3> QED BY <1>6, <1>8, <2>1, <2>2, <2>4, <3>1 DEF Busy
  <2>5. CASE m \notin Range(who)
    <3>1. objects'[m] = objects[m] /\ (Listening(onOnline, m)' => Listening(onOnline, m))
      BY <1>6, <1>7, <2>1, <2>5
    <3> QED BY <2>1, <2>2, <2>3, <3>1 DEF Busy
  <2> QED BY <2>4, <2>5
<1>12. Enabled'
  <2>1. \A m \in DOMAIN objects' : objects'[m].timer => objects'[m].enabled
    BY <1>2, <1>6 DEF Enabled
  <2> QED BY <1>1, <1>2, <1>6, <2>1 DEF Enabled
<1>13. First' /\ Own'
  <2>1. \A j \in DOMAIN sockets' : Attached(j)' <=> Attached(j)
    BY <1>1 DEF Attached
  <2>2. Sole' => Sole
    BY <1>6 DEF Sole
  <2>3. First'
    BY <1>1, <1>6, <1>8, <2>1, <2>2, Parts DEF KeepAliveInv, First
  <2> QED BY <1>1, <2>3 DEF KeepAliveInv, Own, Attached
<1>14. Tidy(onClose)'
  BY <1>1 DEF KeepAliveInv, Tidy
<1> QED
  BY <1>7, <1>9, <1>10, <1>11, <1>12, <1>13, <1>14 DEF KeepAliveInv

\* A socket's state alone changes, and no WebSocket is being connected that was not.
LEMMA ClosesUnheardKeeps ==
  ASSUME KeepAliveInv, ClosesUnheard
  PROVE  KeepAliveInv'
<1>1. PICK i \in DOMAIN sockets :
        /\ sockets[i].st \in {"open", "closing"} /\ sockets[i].heard = "none"
        /\ sockets' = [sockets EXCEPT ![i].st = "closed"]
        /\ UNCHANGED <<ws, isOpen, ka, objects, onClose, onOnline, onLine, told, ended>>
  BY DEF ClosesUnheard
<1>2. TypeOK
  BY DEF KeepAliveInv
<1>3. /\ sockets' \in Seq(SocketType) /\ DOMAIN sockets' = DOMAIN sockets /\ Len(sockets') = Len(sockets)
      /\ \A j \in DOMAIN sockets : j # i => sockets'[j] = sockets[j]
      /\ sockets'[i].st = "closed" /\ sockets'[i].by = sockets[i].by
  <2>1. PICK r \in SocketType : r = sockets[i]
    BY Parts
  <2>2. PICK s : s = [r EXCEPT !.st = "closed"]
    OBVIOUS
  <2>3. s \in SocketType /\ s.st = "closed" /\ s.by = sockets[i].by
    BY <2>1, <2>2 DEF SocketType
  <2>4. sockets' = [sockets EXCEPT ![i] = s]
    BY <1>1, <2>1, <2>2
  <2> QED BY <2>3, <2>4, Parts
<1>4. TypeOK'
  <2>1. Range(onClose') = Range(onClose) /\ Range(onOnline') = Range(onOnline)
    BY <1>1
  <2> QED BY <1>1, <1>2, <1>3, <2>1 DEF TypeOK
<1>5. \A j \in DOMAIN sockets' : sockets'[j].by <= Len(objects')
  BY <1>1, <1>3 DEF KeepAliveInv
<1>6. ASSUME NEW m \in DOMAIN objects' PROVE Busy(m)'
  <2>1. Busy(m)
    BY <1>1 DEF KeepAliveInv
  <2>2. \A j \in DOMAIN sockets' : Trying(m, j)' => Trying(m, j) /\ j \in DOMAIN sockets
    BY <1>3 DEF Trying
  <2>3. (Listening(onClose, m)' <=> Listening(onClose, m)) /\ (Listening(onOnline, m)' <=> Listening(onOnline, m))
    BY <1>1 DEF Listening
  <2> QED BY <1>1, <2>1, <2>2, <2>3 DEF Busy
<1>7. Enabled' /\ Tidy(onClose)' /\ Tidy(onOnline)'
  BY <1>1 DEF KeepAliveInv, Enabled, Tidy
<1>8. First' /\ Own'
  <2>1. \A j \in DOMAIN sockets' : Attached(j)' => Attached(j) /\ j # i /\ j \in DOMAIN sockets
    BY <1>3 DEF Attached
  <2>2. First'
    BY <1>1, <1>3, <2>1 DEF KeepAliveInv, First, Sole
  <2>3. ws # 0 => ws \in DOMAIN sockets /\ ws # i
    BY <1>1, <1>2, Parts DEF TypeOK, KeepAliveInv, Own
  <2> QED BY <1>1, <1>3, <2>2, <2>3 DEF KeepAliveInv, Own, Attached
<1> QED
  BY <1>4, <1>5, <1>6, <1>7, <1>8 DEF KeepAliveInv

\* disable() leaves the others alone.
LEMMA DisabledIs ==
  ASSUME KeepAliveInv, KeepAliveAssumption
  PROVE  LET d == Disabled(objects) IN
         /\ d \in Seq(ObjectType) /\ Len(d) = Len(objects) /\ DOMAIN d = DOMAIN objects
         /\ \A k \in DOMAIN objects :
              /\ ~d[k].enabled /\ ~d[k].timer
              /\ d[k].isConnected = objects[k].isConnected
<1>1. TypeOK /\ Enabled
  BY DEF KeepAliveInv
<1>2. CASE ka = 0 \/ ~objects[ka].enabled
  <2>1. Disabled(objects) = objects
    BY <1>2 DEF Disabled
  <2>2. \A k \in DOMAIN objects : ~objects[k].enabled
    BY <1>1, <1>2, Parts DEF Enabled
  <2> QED BY <1>1, <2>1, <2>2, Parts DEF Enabled, ObjectType
<1>3. CASE ~(ka = 0 \/ ~objects[ka].enabled)
  <2>1. ka \in DOMAIN objects
    BY <1>1, <1>3, Parts DEF TypeOK
  <2>2. 0 \in 0 .. MaxDelay
    BY KeepAliveAssumption DEF KeepAliveAssumption
  <2>3. PICK o \in ObjectType : /\ o = [objects[ka] EXCEPT !.enabled = FALSE, !.timer = FALSE, !.delay = 0]
                                /\ ~o.enabled /\ ~o.timer /\ o.isConnected = objects[ka].isConnected
    <3>1. PICK r \in ObjectType : r = objects[ka]
      BY <2>1, Parts
    <3>2. PICK s : s = [r EXCEPT !.enabled = FALSE, !.timer = FALSE, !.delay = 0]
      OBVIOUS
    <3>3. s \in ObjectType /\ ~s.enabled /\ ~s.timer /\ s.isConnected = r.isConnected
      BY <2>2, <3>1, <3>2 DEF ObjectType
    <3> QED BY <3>1, <3>2, <3>3
  <2>4. Disabled(objects) = [objects EXCEPT ![ka] = o]
    BY <1>3, <2>3 DEF Disabled
  <2>5. PICK d : d = Disabled(objects)
    OBVIOUS
  <2>6. /\ d \in Seq(ObjectType) /\ Len(d) = Len(objects) /\ DOMAIN d = DOMAIN objects
        /\ d[ka] = o /\ \A k \in DOMAIN objects : k # ka => d[k] = objects[k]
    BY <2>1, <2>3, <2>4, <2>5, Parts
  <2>7. \A k \in DOMAIN objects : k # ka => ~objects[k].enabled /\ ~objects[k].timer
    BY <1>1, Parts DEF Enabled, ObjectType
  <2> QED BY <2>3, <2>5, <2>6, <2>7
<1> QED
  BY <1>2, <1>3

LEMMA EndKeeps ==
  ASSUME KeepAliveAssumption, KeepAliveInv, End
  PROVE  KeepAliveInv'
<1>1. /\ ended' = TRUE
      /\ objects' = Disabled(objects) /\ ka' = 0
      /\ sockets' = IF ws = 0 THEN sockets ELSE [sockets EXCEPT ![ws].st = "closing"]
      /\ UNCHANGED <<ws, isOpen, onClose, onOnline, onLine, told>>
  BY DEF End
<1>2. TypeOK /\ Own
  BY DEF KeepAliveInv
<1>3. /\ objects' \in Seq(ObjectType) /\ Len(objects') = Len(objects) /\ DOMAIN objects' = DOMAIN objects
      /\ \A k \in DOMAIN objects : /\ ~objects'[k].enabled /\ ~objects'[k].timer
                                   /\ objects'[k].isConnected = objects[k].isConnected
  BY <1>1, DisabledIs, KeepAliveAssumption
<1>4. /\ sockets' \in Seq(SocketType) /\ DOMAIN sockets' = DOMAIN sockets /\ Len(sockets') = Len(sockets)
      /\ \A j \in DOMAIN sockets : j # ws => sockets'[j] = sockets[j]
      /\ \A j \in DOMAIN sockets : sockets'[j].by = sockets[j].by /\ sockets'[j].heard = sockets[j].heard
      /\ ws # 0 => ws \in DOMAIN sockets /\ sockets'[ws].st = "closing"
  <2>1. CASE ws = 0
    BY <1>1, <2>1, Parts
  <2>2. CASE ws # 0
    <3>1. ws \in DOMAIN sockets
      BY <1>2, <2>2, Parts DEF TypeOK
    <3>2. PICK r \in SocketType : r = sockets[ws]
      BY <3>1, Parts
    <3>3. PICK s : s = [r EXCEPT !.st = "closing"]
      OBVIOUS
    <3>4. s \in SocketType /\ s.st = "closing" /\ s.by = r.by /\ s.heard = r.heard
      BY <3>2, <3>3 DEF SocketType
    <3>5. sockets' = [sockets EXCEPT ![ws] = s]
      BY <1>1, <2>2, <3>2, <3>3
    <3> QED BY <3>1, <3>2, <3>4, <3>5, Parts
  <2> QED BY <2>1, <2>2
<1>5. TypeOK'
  <2>1. Range(onClose') = Range(onClose) /\ Range(onOnline') = Range(onOnline)
    BY <1>1
  <2>2. ka' \in 0 .. Len(objects')
    BY <1>1, <1>3, Parts
  <2> QED BY <1>1, <1>2, <1>3, <1>4, <2>1, <2>2 DEF TypeOK
<1>6. \A j \in DOMAIN sockets' : sockets'[j].by <= Len(objects')
  BY <1>3, <1>4 DEF KeepAliveInv
<1>7. ASSUME NEW m \in DOMAIN objects' PROVE Busy(m)'
  <2>1. Busy(m) /\ m \in DOMAIN objects
    BY <1>3 DEF KeepAliveInv
  <2>2. \A j \in DOMAIN sockets' : Trying(m, j)' => Trying(m, j) /\ j \in DOMAIN sockets
    BY <1>4 DEF Trying
  <2>3. (Listening(onClose, m)' <=> Listening(onClose, m)) /\ (Listening(onOnline, m)' <=> Listening(onOnline, m))
    BY <1>1 DEF Listening
  <2> QED BY <1>3, <2>1, <2>2, <2>3 DEF Busy
<1>8. Enabled' /\ Tidy(onClose)' /\ Tidy(onOnline)'
  BY <1>1, <1>3 DEF KeepAliveInv, Enabled, Tidy
<1>9. First' /\ Own'
  <2>1. \A j \in DOMAIN sockets' : Attached(j)' <=> Attached(j)
    BY <1>2, <1>4 DEF Attached, Own
  <2>2. First'
    <3>1. Sole' <=> Sole
      BY <1>3 DEF Sole
    <3>2. \A j \in DOMAIN sockets' : sockets'[j].st = "open" => sockets[j].st = "open" /\ j \in DOMAIN sockets
      BY <1>4
    <3> QED BY <1>1, <1>3, <1>4, <2>1, <3>1, <3>2, Parts DEF KeepAliveInv, First
  <2> QED BY <1>1, <1>2, <1>4, <2>2 DEF Own, Attached
<1> QED
  BY <1>5, <1>6, <1>7, <1>8, <1>9 DEF KeepAliveInv

LEMMA OpenKeepAliveKeeps ==
  ASSUME KeepAliveAssumption, KeepAliveInv, OpenKeepAlive
  PROVE  KeepAliveInv'
<1> DEFINE n == Len(objects) + 1
<1>1. /\ Len(objects) < MaxObjects /\ Len(sockets) < MaxSockets
      /\ objects' = Append(Disabled(objects), Fresh)
      /\ ka' = n
      /\ sockets' = Append(sockets, Opening(n))
      /\ ended' = FALSE
      /\ UNCHANGED <<ws, isOpen, onClose, onOnline, onLine, told>>
  BY DEF OpenKeepAlive
<1>2. TypeOK
  BY DEF KeepAliveInv
<1>3. n \in 2 .. MaxObjects /\ n \notin DOMAIN objects
  BY <1>1, Parts, KeepAliveAssumption DEF KeepAliveAssumption
<1>4. PICK d \in Seq(ObjectType) :
        /\ d = Disabled(objects) /\ Len(d) = Len(objects) /\ DOMAIN d = DOMAIN objects
        /\ \A k \in DOMAIN objects : /\ ~d[k].enabled /\ ~d[k].timer
                                     /\ d[k].isConnected = objects[k].isConnected
  BY DisabledIs, KeepAliveAssumption
<1>5. Fresh \in ObjectType /\ Fresh.enabled /\ ~Fresh.timer /\ ~Fresh.isConnected
  BY KeepAliveAssumption DEF KeepAliveAssumption, Fresh, ObjectType
<1>6. /\ objects' \in Seq(ObjectType) /\ Len(objects') = n /\ DOMAIN objects' = 1 .. n
      /\ \A k \in DOMAIN objects' : k = n \/ k \in DOMAIN objects
      /\ \A k \in DOMAIN objects : k \in DOMAIN objects' /\ objects'[k] = d[k]
      /\ objects'[n] = Fresh
  BY <1>1, <1>4, <1>5, Parts
<1>7. Opening(n) \in SocketType /\ Opening(n).st = "connecting" /\ Opening(n).by = n
  BY <1>3 DEF Opening, SocketType
<1>8. /\ sockets' \in Seq(SocketType) /\ Len(sockets') = Len(sockets) + 1
      /\ \A i \in DOMAIN sockets' : i = Len(sockets) + 1 \/ i \in DOMAIN sockets
      /\ \A i \in DOMAIN sockets : i \in DOMAIN sockets' /\ sockets'[i] = sockets[i]
      /\ sockets'[Len(sockets) + 1] = Opening(n)
  BY <1>1, <1>7, Parts
<1> HIDE DEF n
<1>9. \A m : Listening(onOnline, m) \/ Listening(onClose, m) => m <= Len(objects)
  BY <1>2 DEF TypeOK, Listening, Range
<1>10. n = Len(objects) + 1
  BY DEF n
<1>11. TypeOK'
  <2>1. Range(onClose') = Range(onClose) /\ Range(onOnline') = Range(onOnline)
    BY <1>1
  <2>2. \A l \in Range(onClose) \cup Range(onOnline) : l.who <= Len(objects')
    <3>1. ASSUME NEW l \in Range(onClose) \cup Range(onOnline) PROVE l.who \in 0 .. MaxObjects
      <4>1. l \in Listeners
        BY <1>2 DEF TypeOK, Range
      <4> QED BY <4>1 DEF Listeners
    <3>2. \A l \in Range(onClose) \cup Range(onOnline) : l.who <= Len(objects)
      BY <1>2 DEF TypeOK
    <3> QED BY <1>6, <1>10, <3>1, <3>2, Parts
  <2>3. Len(sockets') <= MaxSockets /\ Len(objects') \in 1 .. MaxObjects /\ ka' \in 0 .. Len(objects')
    BY <1>1, <1>3, <1>6, <1>8, <1>10, Parts, KeepAliveAssumption DEF KeepAliveAssumption
  <2>4. ws' \in 0 .. Len(sockets') /\ isOpen' \in BOOLEAN
    BY <1>1, <1>2, <1>8, Parts DEF TypeOK
  <2> QED BY <1>1, <1>2, <1>6, <1>8, <2>1, <2>2, <2>3, <2>4 DEF TypeOK
<1>12. \A i \in DOMAIN sockets' : sockets'[i].by <= Len(objects')
  <2>1. \A i \in DOMAIN sockets : sockets[i].by <= Len(objects) /\ sockets[i].by \in Nat
    BY Parts
  <2>2. \A i \in DOMAIN sockets : sockets[i].by <= n
    BY <1>10, <2>1, Parts
  <2>3. n <= n
    BY <1>3
  <2> QED BY <1>6, <1>7, <1>8, <2>2, <2>3
<1>13. ASSUME NEW m \in DOMAIN objects' PROVE Busy(m)'
  <2>1. (Listening(onClose, m)' <=> Listening(onClose, m)) /\ (Listening(onOnline, m)' <=> Listening(onOnline, m))
    BY <1>1 DEF Listening
  <2>2. CASE m = n
    <3>1. ~Listening(onClose, m) /\ ~Listening(onOnline, m)
      BY <1>9, <1>10, <2>2, Parts
    <3>2. \A j \in DOMAIN sockets' : Trying(m, j)' => j = Len(sockets) + 1
      BY <1>3, <1>8, <2>2, Parts DEF Trying
    <3> QED BY <1>5, <1>6, <2>1, <2>2, <3>1, <3>2 DEF Busy
  <2>3. CASE m # n
    <3>1. m \in DOMAIN objects /\ Busy(m)
      BY <1>6, <2>3 DEF KeepAliveInv
    <3>2. \A j \in DOMAIN sockets' : Trying(m, j)' => j \in DOMAIN sockets /\ Trying(m, j)
      BY <1>7, <1>8, <2>3 DEF Trying
    <3> QED BY <1>4, <1>6, <2>1, <3>1, <3>2 DEF Busy
  <2> QED BY <2>2, <2>3
<1>14. Enabled'
  <2>1. \A k \in DOMAIN objects' : (objects'[k].enabled => k = n) /\ ~objects'[k].timer
    BY <1>4, <1>5, <1>6
  <2> QED BY <1>1, <2>1 DEF Enabled
<1>15. First' /\ Own' /\ Tidy(onClose)' /\ Tidy(onOnline)'
  <2>1. ~Sole'
    BY <1>3, <1>6 DEF Sole
  <2>2. ws # 0 => ws \in DOMAIN sockets
    BY <1>2, Parts DEF TypeOK
  <2>3. Own'
    BY <1>1, <1>8, <2>2 DEF KeepAliveInv, Own, Attached
  <2> QED BY <1>1, <2>1, <2>3 DEF KeepAliveInv, First, Tidy
<1> QED
  BY <1>11, <1>12, <1>13, <1>14, <1>15 DEF KeepAliveInv

LEMMA NextKeeps ==
  ASSUME KeepAliveAssumption, KeepAliveInv, [Next]_vars
  PROVE  KeepAliveInv'
<1>1. CASE Offline \/ Resting \/ UNCHANGED vars
  <2>1. UNCHANGED <<sockets, ws, isOpen, ka, objects, onClose, onOnline, told, ended>> /\ onLine' \in BOOLEAN
    BY <1>1 DEF Offline, Resting, vars, KeepAliveInv, TypeOK
  <2>2. TypeOK'
    BY <2>1 DEF KeepAliveInv, TypeOK
  <2>3. ASSUME NEW m \in DOMAIN objects' PROVE Busy(m)'
    <3>1. Busy(m)
      BY <2>1 DEF KeepAliveInv
    <3> QED BY <2>1, <3>1 DEF Busy, Trying, Listening
  <2> QED BY <2>1, <2>2, <2>3 DEF KeepAliveInv, Tidy, Enabled, First, Own, Attached, Sole
<1> QED
  BY <1>1, TimerFiresKeeps, OnlineKeeps, OpensKeeps, OpenFailsKeeps, ClosesKeeps, ClosesUnheardKeeps,
     EndKeeps, OpenKeepAliveKeeps, KeepAliveAssumption DEF Next

-----------------------------------------------------------------------------
(* What holds of every behaviour.                                           *)

\* The invariant: each object waits for one thing at a time, and the first alone has one
\* WebSocket.
THEOREM KeepAliveInvariance == Spec => []KeepAliveInv
<1>1. Init => KeepAliveInv
  BY InitKeeps, KeepAliveAssumption
<1>2. KeepAliveInv /\ [Next]_vars => KeepAliveInv'
  BY NextKeeps, KeepAliveAssumption
<1> QED
  BY <1>1, <1>2, PTL DEF Spec

\* A set with no two elements has at most one.
LEMMA AtMostOne ==
  ASSUME NEW S, \A a, b \in S : a = b
  PROVE  Cardinality(S) <= 1 /\ (S = {} => Cardinality(S) = 0)
<1>1. CASE S = {}
  BY <1>1, FS_EmptySet
<1>2. CASE S # {}
  <2>1. PICK a : S = {a}
    BY <1>2
  <2> QED BY <1>2, <2>1, FS_Singleton
<1> QED
  BY <1>1, <1>2

\* However connections fail, close and come back, the Sock has one WebSocket at a time,
\* and it is the one the Sock knows.
THEOREM OneSocketAlways == Spec => []OneSocket
<1>1. KeepAliveInv => OneSocket
  <2> SUFFICES ASSUME KeepAliveInv, Sole PROVE OneSocket
    BY DEF OneSocket
  <2> DEFINE live == {i \in DOMAIN sockets : Live(i)}
  <2>1. ASSUME NEW i \in live, NEW j \in live PROVE i = j
    <3>1. \A m \in DOMAIN sockets : sockets[m].by = 1
      BY Parts DEF Sole
    <3>2. \A m \in live : m \in DOMAIN sockets /\ (Trying(1, m) \/ Attached(m))
      BY <3>1 DEF Live, Trying, Attached
    <3>3. Busy(1) /\ First
      BY Parts DEF KeepAliveInv
    <3> QED BY <3>2, <3>3 DEF Busy, First
  <2>2. Cardinality(live) <= 1
    <3> HIDE DEF live
    <3> QED BY <2>1, AtMostOne
  <2> QED BY <2>2 DEF OneSocket, KeepAliveInv, First
<1> QED
  BY <1>1, KeepAliveInvariance, PTL

\* The Sock's own object alone is enabled, and each tries once at a time, and never while
\* its timer runs or it is connected.
THEOREM OneAttemptAlways == Spec => []OneAttempt
<1>1. KeepAliveInv => OneAttempt
  <2> SUFFICES ASSUME KeepAliveInv, NEW k \in DOMAIN objects
               PROVE  /\ objects[k].enabled => ka = k
                      /\ Cardinality({i \in DOMAIN sockets : sockets[i].by = k /\ sockets[i].st = "connecting"})
                           <= (IF objects[k].timer \/ objects[k].isConnected THEN 0 ELSE 1)
    BY DEF OneAttempt
  <2> DEFINE tries == {i \in DOMAIN sockets : sockets[i].by = k /\ sockets[i].st = "connecting"}
  <2>1. Busy(k) /\ Enabled
    BY DEF KeepAliveInv
  <2>2. \A i, j \in tries : i = j
    BY <2>1 DEF Busy, Trying
  <2>3. objects[k].timer \/ objects[k].isConnected => tries = {}
    BY <2>1 DEF Busy, Trying
  <2> HIDE DEF tries
  <2>4. Cardinality(tries) <= 1 /\ (tries = {} => Cardinality(tries) = 0)
    BY <2>2, AtMostOne
  <2> QED BY <2>1, <2>3, <2>4 DEF Enabled, tries
<1> QED
  BY <1>1, KeepAliveInvariance, PTL

\* Once ended, with no WebSocket being connected, the Sock makes no other and each it had
\* closes, until the application opens it again.
THEOREM EndHoldsAlways == Spec => EndHolds
<1> DEFINE Ends == /\ ended'
                   /\ IF ended THEN Over ELSE Sole /\ \A i \in DOMAIN sockets : sockets[i].st # "connecting"
           Holds == Ends => Over'
<1>1. ASSUME KeepAliveInv, [Next]_vars PROVE [Holds]_vars
  <2> SUFFICES ASSUME Next, Ends PROVE Over'
    BY <1>1 DEF Next
  <2>1. TypeOK /\ Enabled /\ First /\ Own
    BY <1>1 DEF KeepAliveInv
  <2>2. \A i \in DOMAIN sockets : sockets[i].st # "connecting"
    BY DEF Over
  <2>3. CASE End
    <3>1. sockets' = IF ws = 0 THEN sockets ELSE [sockets EXCEPT ![ws].st = "closing"]
      BY <2>3 DEF End
    <3>2. \A i \in DOMAIN sockets : i # ws => sockets[i].st \in {"closing", "closed"}
      <4>1. ended => \A i \in DOMAIN sockets : i # ws => sockets[i].st \in {"closing", "closed"}
        BY DEF Over
      <4>2. \A i \in DOMAIN sockets : sockets[i].st \in {"connecting", "open", "closing", "closed"}
        BY <1>1, Parts DEF SocketType
      <4> QED BY <2>1, <2>2, <4>1, <4>2 DEF First
    <3>3. ws # 0 => ws \in DOMAIN sockets /\ [sockets[ws] EXCEPT !.st = "closing"].st = "closing"
      BY <1>1, <2>1, Parts DEF TypeOK, SocketType
    <3>4. ws = 0 => ws \notin DOMAIN sockets
      BY <1>1, Parts
    <3> QED BY <3>1, <3>2, <3>3, <3>4 DEF Over
  <2>4. CASE ~End
    <3>1. ended /\ Over /\ ka = 0
      BY <2>1, <2>4 DEF Next, TimerFires, Offline, Online, Opens, OpenFails, Closes, ClosesUnheard,
                        OpenKeepAlive, Resting, vars, Enabled
    <3>2. \A k \in DOMAIN objects : ~objects[k].timer
      BY <1>1, <2>1, <3>1, Parts DEF Enabled
    <3>3. ~TimerFires /\ ~Opens /\ ~OpenFails /\ ~OpenKeepAlive
      BY <2>2, <3>2 DEF TimerFires, Opens, OpenFails, OpenKeepAlive
    <3>4. CASE Offline \/ Online \/ Resting
      BY <3>1, <3>4 DEF Offline, Online, Resting, vars, Over
    <3>5. CASE Closes
      <4>1. PICK i \in DOMAIN sockets :
              sockets' = [j \in DOMAIN sockets |->
                [sockets[j] EXCEPT !.st = IF j = i THEN "closed" ELSE @,
                                   !.heard = IF j = ws THEN "none" ELSE @]]
        BY <3>5 DEF Closes
      <4>2. DOMAIN sockets' = DOMAIN sockets
        BY <4>1
      <4>3. ASSUME NEW j \in DOMAIN sockets PROVE sockets'[j].st \in {"closing", "closed"}
        <5>1. PICK s \in SocketType : s = sockets[j]
          BY <1>1, Parts
        <5>2. sockets'[j] = [s EXCEPT !.st = IF j = i THEN "closed" ELSE @,
                                      !.heard = IF j = ws THEN "none" ELSE @]
          BY <4>1, <5>1
        <5>3. s.st \in {"closing", "closed"}
          BY <3>1, <5>1 DEF Over
        <5> QED BY <5>1, <5>2, <5>3 DEF SocketType
      <4> QED BY <4>2, <4>3 DEF Over
    <3>6. CASE ClosesUnheard
      <4>1. PICK i \in DOMAIN sockets : sockets' = [sockets EXCEPT ![i].st = "closed"]
        BY <3>6 DEF ClosesUnheard
      <4>2. [sockets[i] EXCEPT !.st = "closed"].st = "closed"
        BY <1>1, Parts DEF SocketType
      <4> QED BY <3>1, <4>1, <4>2 DEF Over
    <3> QED BY <2>4, <3>3, <3>4, <3>5, <3>6 DEF Next
  <2> QED BY <2>3, <2>4
<1>2. EndHolds <=> [][Holds]_vars
  BY DEF EndHolds
<1> HIDE DEF Holds
<1> QED
  BY <1>1, <1>2, KeepAliveInvariance, PTL DEF Spec

=============================================================================
