---------------------------- MODULE MessageProofs ----------------------------
(***************************************************************************)
(* Messages and who handles them.                                          *)
(*                                                                         *)
(* Handlers: lookups and registrations, for any operations, functions,     *)
(* depth and number of goroutines; and FuncsAsListed, for functions with   *)
(* any number of inputs and outputs.                                       *)
(*                                                                         *)
(* Wire: InStep and NothingHeldBack, for any base, names, payloads and     *)
(* numbers that fit, and any number of messages.                           *)
(***************************************************************************)
EXTENDS Handlers, HandlerFuncs, WireInv, WellFoundedInduction, SequenceTheorems, TLAPS

-----------------------------------------------------------------------------
(* Handlers: registration, lookup and the functions that are registered.    *)

\* The initial states satisfy the inductive invariant: nobody holds anything.
LEMMA InitInv == Init => IInv
<1> SUFFICES ASSUME Init PROVE IInv
  OBVIOUS
<1> USE HandlersAssumption DEF Init, Sets, MaybeFn
<1>1. TypeOK
  BY DEF TypeOK, AnyOp
<1>2. ReadersHold /\ WritersHold /\ Exclusive
  BY DEF ReadersHold, WritersHold, Exclusive, Holds
<1>3. PathEmpty /\ FoundThere /\ InOrder
  BY DEF PathEmpty, FoundThere, InOrder
<1> QED
  BY <1>1, <1>2, <1>3 DEF IInv

\* Every step keeps it.
LEMMA StepInv == IInv /\ [Next]_vars => IInv'
<1> SUFFICES ASSUME IInv, [Next]_vars PROVE IInv'
  OBVIOUS
<1> USE HandlersAssumption DEF IInv, TypeOK, Sets, MaybeFn
<1>1. ASSUME NEW f \in Finders, Call(f) PROVE IInv'
  <2> USE <1>1 DEF Call
  <2>1. TypeOK'
    OBVIOUS
  <2>4. WritersHold' /\ Exclusive'
    BY DEF WritersHold, Exclusive
  <2>5. InOrder'
    BY DEF InOrder
  <2>2. ReadersHold'
    BY DEF ReadersHold, Holds
  <2>3. PathEmpty' /\ FoundThere'
    BY DEF PathEmpty, FoundThere
  <2> QED
    BY <2>1, <2>2, <2>3, <2>4, <2>5
<1>2. ASSUME NEW f \in Finders, RLock(f) PROVE IInv'
  <2> USE <1>2 DEF RLock
  <2> DEFINE k == find[f].at
  <2>0. k \in Sets /\ k <= find[f].from
    BY DEF InOrder
  <2>1. TypeOK' /\ InOrder'
    BY ZenonT(30) DEF InOrder
  <2>2. WritersHold' /\ Exclusive'
    BY DEF WritersHold, Exclusive
  <2>3. ASSUME NEW j \in Sets, NEW g \in Finders, Holds(g, j)' PROVE g \in readers'[j]
    <3>1. CASE g = f /\ j = k
      BY <3>1
    <3>2. CASE g # f \/ j # k
      <4>1. Holds(g, j)
        BY <2>0, <2>3, <3>2 DEF Holds
      <4> QED
        BY <4>1 DEF ReadersHold
    <3> QED
      BY <3>1, <3>2
  <2>4. PathEmpty' /\ FoundThere'
    BY DEF PathEmpty, FoundThere
  <2> QED
    BY <2>1, <2>2, <2>3, <2>4 DEF ReadersHold
<1>3. ASSUME NEW f \in Finders, Look(f) PROVE IInv'
  <2> DEFINE k == find[f].at  own == specific[k][find[f].op]
  <2> find[f] \in [pc : {"idle", "wants", "has", "found", "returns"}, from : Sets, at : Sets,
                   op : Ops, fn : MaybeFn]
    OBVIOUS
  <2>0. k \in Sets /\ k <= find[f].from /\ find[f].pc = "has" /\ find[f].op \in Ops
        /\ own \in MaybeFn /\ fallback[k] \in MaybeFn
        /\ UNCHANGED <<specific, fallback, readers, writer, waiting, reg>>
    BY <1>3 DEF Look, InOrder
  <2>1. \/ own # NoFn /\ find' = [find EXCEPT ![f].pc = "found", ![f].fn = own]
        \/ own = NoFn /\ k > 1 /\ find' = [find EXCEPT ![f].pc = "wants", ![f].at = k - 1]
        \/ own = NoFn /\ k = 1 /\ find' = [find EXCEPT ![f].pc = "found", ![f].fn = fallback[k]]
    BY <1>3 DEF Look, Outer
  <2>a. /\ find'[f].from = find[f].from /\ find'[f].op = find[f].op
        /\ find'[f].at <= k /\ find'[f].at \in Sets /\ find'[f].fn \in MaybeFn
        /\ \/ find'[f].pc = "found" /\ find'[f].at = k
           \/ find'[f].pc = "wants" /\ find'[f].at = k - 1
        /\ find'[f].pc = "wants" => own = NoFn /\ k > 1
        /\ find'[f].pc = "found" => \/ own # NoFn /\ find'[f].fn = own
                                    \/ own = NoFn /\ k = 1 /\ find'[f].fn = fallback[1]
    <3>1. CASE own # NoFn /\ find' = [find EXCEPT ![f].pc = "found", ![f].fn = own]
      BY <2>0, <3>1
    <3>2. CASE own = NoFn /\ k > 1 /\ find' = [find EXCEPT ![f].pc = "wants", ![f].at = k - 1]
      BY <2>0, <3>2
    <3>3. CASE own = NoFn /\ k = 1 /\ find' = [find EXCEPT ![f].pc = "found", ![f].fn = fallback[k]]
      BY <2>0, <3>3
    <3> QED
      BY <2>1, <3>1, <3>2, <3>3
  <2>b. \A g \in Finders : g # f => find'[g] = find[g]
    BY <2>1
  <2>c. TypeOK'
    <3>1. CASE own # NoFn /\ find' = [find EXCEPT ![f].pc = "found", ![f].fn = own]
      BY <2>0, <3>1
    <3>2. CASE own = NoFn /\ k > 1 /\ find' = [find EXCEPT ![f].pc = "wants", ![f].at = k - 1]
      <4>1. k - 1 \in Sets
        BY <2>0, <3>2
      <4> QED
        BY <2>0, <3>2, <4>1
    <3>3. CASE own = NoFn /\ k = 1 /\ find' = [find EXCEPT ![f].pc = "found", ![f].fn = fallback[k]]
      BY <2>0, <3>3
    <3> QED
      BY <2>1, <3>1, <3>2, <3>3
  <2>2. InOrder'
    <3>1. ASSUME NEW g \in Finders PROVE find'[g].at <= find'[g].from
      <4>1. CASE g = f
        BY <2>0, <2>a, <4>1
      <4>2. CASE g # f
        BY <2>b, <4>2 DEF InOrder
      <4> QED
        BY <4>1, <4>2
    <3> QED
      BY <3>1 DEF InOrder
  <2>3. WritersHold' /\ Exclusive'
    BY <2>0 DEF WritersHold, Exclusive
  <2>4. ReadersHold'
    <3>1. ASSUME NEW j \in Sets, NEW g \in Finders, Holds(g, j)' PROVE Holds(g, j)
      <4>1. CASE g = f
        BY <2>0, <2>a, <3>1, <4>1 DEF Holds
      <4>2. CASE g # f
        BY <2>b, <3>1, <4>2 DEF Holds
      <4> QED
        BY <4>1, <4>2
    <3> QED
      BY <2>0, <3>1 DEF ReadersHold
  <2>5. PathEmpty'
    <3>1. \A j \in k .. find[f].from : j = k \/ j \in k + 1 .. find[f].from
      BY <2>0
    <3>2. own = NoFn => \A j \in k .. find[f].from : specific[j][find[f].op] = NoFn
      BY <2>0, <3>1 DEF PathEmpty
    <3>3. ASSUME NEW g \in Finders, find'[g].pc \in {"wants", "has", "found"},
                 NEW j \in find'[g].at + 1 .. find'[g].from
          PROVE  specific'[j][find'[g].op] = NoFn
      <4>1. CASE g = f /\ find'[f].pc = "found"
        <5>1. find'[f].at = k
          BY <2>a, <4>1
        <5>2. j \in k + 1 .. find[f].from
          BY <2>a, <3>3, <4>1, <5>1
        <5>3. specific[j][find[f].op] = NoFn
          BY <2>0, <5>2 DEF PathEmpty
        <5> QED
          BY <2>0, <2>a, <4>1, <5>3
      <4>2. CASE g = f /\ find'[f].pc = "wants"
        <5>1. find'[f].at = k - 1 /\ own = NoFn
          BY <2>a, <4>2
        <5>2. j \in k .. find[f].from
          BY <2>0, <2>a, <3>3, <4>2, <5>1
        <5> QED
          BY <2>0, <2>a, <3>2, <4>2, <5>1, <5>2
      <4>3. CASE g # f
        BY <2>0, <2>b, <3>3, <4>3 DEF PathEmpty
      <4> QED
        BY <2>a, <4>1, <4>2, <4>3
    <3> QED
      BY <3>3 DEF PathEmpty
  <2>6. FoundThere'
    <3>1. ASSUME NEW g \in Finders, g # f, find'[g].pc = "found"
          PROVE  LET w == specific'[find'[g].at][find'[g].op] IN
                 \/ w # NoFn /\ find'[g].fn = w
                 \/ w = NoFn /\ find'[g].at = 1 /\ find'[g].fn = fallback'[1]
      BY <2>0, <2>b, <3>1 DEF FoundThere
    <3>2. find'[f].pc = "found" =>
                 LET w == specific'[find'[f].at][find'[f].op] IN
                 \/ w # NoFn /\ find'[f].fn = w
                 \/ w = NoFn /\ find'[f].at = 1 /\ find'[f].fn = fallback'[1]
      BY <2>0, <2>a
    <3> QED
      BY <3>1, <3>2 DEF FoundThere
  <2> QED
    BY <2>2, <2>3, <2>4, <2>5, <2>6, <2>c
<1>4. ASSUME NEW f \in Finders, RUnlock(f) PROVE IInv'
  <2> DEFINE k == find[f].at
  <2> find[f] \in [pc : {"idle", "wants", "has", "found", "returns"}, from : Sets, at : Sets,
                   op : Ops, fn : MaybeFn]
    OBVIOUS
  <2>0. k \in Sets /\ find[f].from \in Sets /\ k <= find[f].from
        /\ find[f].pc \in {"found", "returns"}
        /\ UNCHANGED <<specific, fallback, writer, waiting, reg>>
        /\ readers' = [readers EXCEPT ![k] = @ \ {f}]
    BY <1>4 DEF RUnlock, InOrder
  <2>1. \/ k = find[f].from /\ find' = [find EXCEPT ![f].pc = "idle"]
        \/ k # find[f].from /\ find' = [find EXCEPT ![f].pc = "returns", ![f].at = k + 1]
    BY <1>4 DEF RUnlock
  <2>a. k # find[f].from => k + 1 \in Sets /\ k + 1 <= find[f].from
    BY <2>0
  <2>b. /\ find'[f].from = find[f].from /\ find'[f].pc \in {"idle", "returns"}
        /\ find'[f].at <= find'[f].from
        /\ \A g \in Finders : g # f => find'[g] = find[g]
    <3>1. CASE k = find[f].from /\ find' = [find EXCEPT ![f].pc = "idle"]
      BY <2>0, <3>1
    <3>2. CASE k # find[f].from /\ find' = [find EXCEPT ![f].pc = "returns", ![f].at = k + 1]
      BY <2>0, <2>a, <3>2
    <3> QED
      BY <2>1, <3>1, <3>2
  <2>c. TypeOK'
    <3>1. CASE k = find[f].from /\ find' = [find EXCEPT ![f].pc = "idle"]
      BY <2>0, <3>1
    <3>2. CASE k # find[f].from /\ find' = [find EXCEPT ![f].pc = "returns", ![f].at = k + 1]
      BY <2>0, <2>a, <3>2
    <3> QED
      BY <2>1, <3>1, <3>2
  <2>2. InOrder'
    BY <2>b DEF InOrder
  <2>3. WritersHold' /\ Exclusive'
    BY <2>0 DEF WritersHold, Exclusive
  <2>4. ASSUME NEW j \in Sets, NEW g \in Finders, Holds(g, j)' PROVE g \in readers'[j]
    <3>1. Holds(g, j) /\ (g # f \/ j # k)
      BY <2>0, <2>1, <2>4 DEF Holds
    <3>2. g \in readers[j]
      BY <3>1 DEF ReadersHold
    <3> QED
      BY <2>0, <3>1, <3>2
  <2>d. \A g \in Finders : find'[g].pc \in {"wants", "has", "found"} => find'[g] = find[g]
    BY <2>b
  <2>5. PathEmpty'
    BY <2>0, <2>d DEF PathEmpty
  <2>6. FoundThere'
    BY <2>0, <2>d DEF FoundThere
  <2> QED
    BY <2>2, <2>3, <2>4, <2>5, <2>6, <2>c DEF ReadersHold
<1>5. ASSUME NEW r \in Registrars, Handle(r) PROVE IInv'
  <2> USE <1>5 DEF Handle
  <2>1. TypeOK'
    OBVIOUS
  <2>2. ReadersHold' /\ Exclusive'
    BY DEF ReadersHold, Holds, Exclusive
  <2>3. PathEmpty' /\ FoundThere' /\ InOrder'
    BY DEF PathEmpty, FoundThere, InOrder
  <2>4. ASSUME NEW q \in Registrars, reg'[q].pc = "has" PROVE writer'[reg'[q].at] = {q}
    <3>1. q # r
      BY <2>4
    <3> QED
      BY <2>4, <3>1 DEF WritersHold
  <2> QED
    BY <2>1, <2>2, <2>3, <2>4 DEF WritersHold
<1>6. ASSUME NEW r \in Registrars, Lock(r) PROVE IInv'
  <2> USE <1>6 DEF Lock
  <2>1. TypeOK'
    BY ZenonT(30)
  <2>2. WritersHold'
    <3>1. ASSUME NEW q \in Registrars, reg'[q].pc = "has" PROVE writer'[reg'[q].at] = {q}
      <4>1. CASE q = r
        BY <4>1
      <4>2. CASE q # r
        BY <3>1, <4>2 DEF WritersHold
      <4> QED
        BY <4>1, <4>2
    <3> QED
      BY <3>1 DEF WritersHold
  <2>3. ReadersHold' /\ Exclusive'
    BY ZenonT(30) DEF ReadersHold, Holds, Exclusive
  <2>4. PathEmpty' /\ FoundThere' /\ InOrder'
    BY DEF PathEmpty, FoundThere, InOrder
  <2> QED
    BY <2>1, <2>2, <2>3, <2>4
<1>7. ASSUME NEW r \in Registrars, SetAndUnlock(r) PROVE IInv'
  <2> DEFINE k == reg[r].at  o == reg[r].op
  <2>0. k \in Sets /\ reg[r].pc = "has" /\ reg[r].fn \in Fns /\ o \in Ops \cup {AnyOp}
        /\ writer[k] = {r} /\ readers[k] = {} /\ UNCHANGED <<readers, waiting, find>>
        /\ writer' = [writer EXCEPT ![k] = {}] /\ reg' = [reg EXCEPT ![r].pc = "done"]
    BY <1>7, ZenonT(30) DEF SetAndUnlock, WritersHold, Exclusive
  <2>1. \/ fallback' = [fallback EXCEPT ![k] = reg[r].fn] /\ specific' = specific
        \/ o \in Ops /\ specific' = [specific EXCEPT ![k][o] = reg[r].fn] /\ fallback' = fallback
    BY <1>7, <2>0 DEF SetAndUnlock
  <2>2. \A j \in Sets : j # k => specific'[j] = specific[j] /\ fallback'[j] = fallback[j]
    BY <2>0, <2>1
  <2>3. TypeOK'
    <3>1. specific' \in [Sets -> [Ops -> MaybeFn]] /\ fallback' \in [Sets -> MaybeFn]
      <4>1. CASE fallback' = [fallback EXCEPT ![k] = reg[r].fn] /\ specific' = specific
        BY <2>0, <4>1
      <4>2. CASE o \in Ops /\ specific' = [specific EXCEPT ![k][o] = reg[r].fn]
                 /\ fallback' = fallback
        BY <2>0, <4>2
      <4> QED
        BY <2>1, <4>1, <4>2
    <3>2. writer' \in [Sets -> SUBSET Registrars]
      BY <2>0
    <3>3. reg' \in [Registrars -> [pc : {"idle", "wants", "has", "done"}, at : Sets,
                                   op : Ops \cup {AnyOp}, fn : Fns]]
      <4>1. [reg[r] EXCEPT !.pc = "done"] \in [pc : {"idle", "wants", "has", "done"}, at : Sets,
                                               op : Ops \cup {AnyOp}, fn : Fns]
        OBVIOUS
      <4> QED
        BY <2>0, <4>1
    <3> QED
      BY <2>0, <3>1, <3>2, <3>3
  <2>4. WritersHold' /\ Exclusive' /\ ReadersHold'
    <3>1. ASSUME NEW q \in Registrars, reg'[q].pc = "has" PROVE writer'[reg'[q].at] = {q}
      <4>1. q # r /\ reg[q].pc = "has" /\ reg'[q].at = reg[q].at /\ reg[q].at \in Sets
        BY <2>0, <3>1
      <4>2. writer[reg[q].at] = {q}
        BY <4>1 DEF WritersHold
      <4>3. reg[q].at # k
        BY <2>0, <4>1, <4>2
      <4> QED
        BY <2>0, <4>1, <4>2, <4>3
    <3> QED
      BY <2>0, <3>1 DEF WritersHold, Exclusive, ReadersHold, Holds
  <2>5. \A f \in Finders : ~Holds(f, k)
    BY <2>0 DEF ReadersHold
  <2>6. ASSUME NEW f \in Finders, find[f].pc \in {"wants", "has", "found"},
               NEW j \in find[f].at + 1 .. find[f].from
        PROVE  specific'[j][find[f].op] = NoFn
    <3>1. j \in Sets /\ Holds(f, j)
      BY <2>6 DEF Holds
    <3>2. j # k
      BY <2>5, <3>1
    <3> QED
      BY <2>2, <2>6, <3>1, <3>2 DEF PathEmpty
  <2>7. ASSUME NEW f \in Finders, find[f].pc = "found"
        PROVE  find[f].at \in Sets /\ find[f].at # k
    BY <2>5, <2>7 DEF Holds, InOrder
  <2>8. PathEmpty' /\ InOrder'
    BY <2>0, <2>6 DEF PathEmpty, InOrder
  <2>9. FoundThere'
    BY <2>0, <2>2, <2>7 DEF FoundThere
  <2> QED
    BY <2>3, <2>4, <2>8, <2>9
<1>8. CASE UNCHANGED vars
  BY <1>8 DEF vars, ReadersHold, WritersHold, Exclusive, PathEmpty, FoundThere, InOrder, Holds
<1> QED
  BY <1>1, <1>2, <1>3, <1>4, <1>5, <1>6, <1>7, <1>8 DEF Next, FindStep, RegStep

\* What a lookup has found, before it gives up the first mutex, is what all the
\* tables say at that moment.
LEMMA InvFinds == IInv => FindIsAtomic
<1> SUFFICES ASSUME IInv, NEW f \in Finders, find[f].pc = "found"
             PROVE Finds(find[f].from, find[f].op, find[f].fn)
  BY DEF FindIsAtomic
<1> DEFINE at == find[f].at  own == specific[at][find[f].op]
<1>1. /\ at \in Sets /\ find[f].from \in Sets /\ at <= find[f].from
      /\ \A j \in at + 1 .. find[f].from : specific[j][find[f].op] = NoFn
      /\ (own # NoFn /\ find[f].fn = own) \/ (own = NoFn /\ at = 1 /\ find[f].fn = fallback[1])
  BY DEF IInv, TypeOK, InOrder, PathEmpty, FoundThere
<1>2. CASE own # NoFn /\ find[f].fn = own
  <2>1. at \in 1 .. find[f].from
    BY <1>1, HandlersAssumption DEF Sets
  <2> QED
    BY <1>1, <1>2, <2>1 DEF Finds
<1>3. CASE own = NoFn /\ at = 1 /\ find[f].fn = fallback[1]
  <2>1. \A i \in 1 .. find[f].from : i = 1 \/ i \in at + 1 .. find[f].from
    BY <1>1, <1>3, HandlersAssumption DEF Sets
  <2>2. \A i \in 1 .. find[f].from : specific[i][find[f].op] = NoFn
    BY <1>1, <1>3, <2>1
  <2> QED
    BY <1>3, <2>2 DEF Finds
<1> QED
  BY <1>1, <1>2, <1>3

\* The inductive invariant holds in every behaviour: who holds which mutex, and
\* what the tables of a held mutex say.
THEOREM HandlersInvariance == Spec => []IInv
  BY InitInv, StepInv, PTL DEF Spec

\* The variables keep their types, in every behaviour: a lookup never leaves the
\* sets between the one it was asked of and the outermost.
THEOREM HandlersTypeCorrect == Spec => []TypeOK
<1>1. IInv => TypeOK
  BY DEF IInv
<1> QED
  BY <1>1, HandlersInvariance, PTL

\* Lookups are atomic in every behaviour, whatever is registered meanwhile.
THEOREM FindIsAtomicAlways == Spec => []FindIsAtomic
  BY HandlersInvariance, InvFinds, PTL

-----------------------------------------------------------------------------
(* FuncsAsListed.                                                           *)

\* The wrapper of a listed function calls it with as many arguments as it has inputs,
\* each of which fits.
LEMMA ListedFit ==
  ASSUME NEW f \in Signatures, ReqListed(f)
  PROVE  ~ReqRefused(f) /\ AllFit(ReqArgs(f), f.in)
<1> DEFINE n == Len(f.in)
<1>0. n \in Nat /\ f.in \in Seq(InTypes) /\ f.out \in Seq(OutTypes)
  BY DEF Signatures
<1>1. ~ReqRefused(f)
  <2>1. /\ f.form = "func" /\ Len(f.out) \in {1, 2} /\ f.out[Len(f.out)] = "error"
        /\ n \in 0 .. 3 /\ (n \in 2 .. 3 => f.in[1] = "SockPtr") /\ (n = 3 => f.in[2] = "string")
    BY DEF ReqListed, ReqInputs
  <2>2. ~(n > 1 /\ ~IsSockPtr(f.in[1]))
    <3>1. n > 1 => n \in 2 .. 3
      BY <2>1
    <3> QED BY <2>1, <3>1 DEF IsSockPtr
  <2>3. ~(n = 3 /\ ~IsString(f.in[2]))
    BY <2>1 DEF IsString
  <2>4. ~(n = 0 /\ Len(f.out) = 1 /\ (f.form = "NamedFunc" \/ f.out[1] # "error"))
    BY <2>1
  <2> QED BY <2>1, <2>2, <2>3, <2>4 DEF ReqRefused
<1>2. AllFit(ReqArgs(f), f.in)
  <2>1. CASE n = 3
    BY <2>1 DEF ReqListed, ReqInputs, ReqArgs, AllFit, Fits
  <2>2. CASE n = 2
    BY <2>2 DEF ReqListed, ReqInputs, ReqArgs, AllFit, Fits
  <2>3. CASE n = 1
    BY <2>3 DEF ReqArgs, AllFit, Fits, IsSockPtr
  <2>4. CASE n = 0
    BY <2>4 DEF ReqArgs, AllFit, Fits
  <2> QED BY <1>0, <2>1, <2>2, <2>3, <2>4 DEF ReqListed, ReqInputs
<1> QED BY <1>1, <1>2

\* What a request to a listed function gets.
LEMMA ListedAnswer ==
  ASSUME NEW f \in Signatures, ReqListed(f), NEW d \in BOOLEAN, NEW r \in Returns, NEW m,
         m = [decodes |-> d, ret |-> r, res |-> Answer(f, d, r)]
  PROVE  m.res \in Due(f, m)
<1>1. AllFit(ReqArgs(f), f.in)
  BY ListedFit
<1>2. DecodeResult(f, r) = IF r = "error" \/ (Len(f.out) = 2 /\ r = "NotJSON") THEN "error"
                           ELSE IF Len(f.out) = 2 THEN "value" ELSE "nothing"
  BY DEF DecodeResult, ReqListed
<1>3. Answer(f, d, r) = DecodeResult(f, r) \/ (~d /\ Answer(f, d, r) = "error")
  BY <1>1 DEF Answer
<1> QED BY <1>2, <1>3 DEF Due, Returns

\* What a notification to a listed function gets.
LEMMA ListedNote ==
  ASSUME NEW f \in Signatures, NoteListed(f)
  PROVE  ~NoteRefused(f) /\ ~NotePanics(f)
<1>0. /\ f.form = "func" /\ Len(f.out) = 0 /\ Len(f.in) \in 0 .. 3
      /\ Len(f.in) = 3 => f.in[1] = "SockPtr" /\ f.in[2] = "string"
      /\ Len(f.in) = 2 => f.in[1] = "string"
  <2> DEFINE n == Len(f.in)
  <2>1. \/ n = 3 /\ f.in[1] = "SockPtr" /\ f.in[2] = "string"
        \/ n = 2 /\ f.in[1] = "string"
        \/ n \in {0, 1}
    BY DEF NoteListed
  <2> HIDE DEF n
  <2>2. /\ n \in 0 .. 3
        /\ n = 3 => f.in[1] = "SockPtr" /\ f.in[2] = "string"
        /\ n = 2 => f.in[1] = "string"
    BY <2>1
  <2>3. f.form = "func" /\ Len(f.out) = 0
    BY DEF NoteListed
  <2> QED BY <2>2, <2>3 DEF n
<1>1. ~NoteRefused(f)
  BY <1>0 DEF NoteRefused, IsSockPtr, IsString
<1>2. AllFit(NoteArgs(f), f.in)
  <2>1. CASE Len(f.in) = 3
    BY <1>0, <2>1 DEF NoteArgs, AllFit, Fits
  <2>2. CASE Len(f.in) = 2
    BY <1>0, <2>2 DEF NoteArgs, AllFit, Fits
  <2>3. CASE Len(f.in) = 1
    BY <2>3 DEF NoteArgs, AllFit, Fits
  <2>4. CASE Len(f.in) = 0
    BY <2>4 DEF NoteArgs, AllFit, Fits
  <2> QED BY <1>0, <2>1, <2>2, <2>3, <2>4
<1> QED BY <1>0, <1>1, <1>2 DEF NotePanics

\* What is accepted is listed, or differs from what is listed by the name of a type.
LEMMA AcceptedIsListed ==
  ASSUME NEW f \in Signatures, ~Lenient(f)
  PROVE  (~ReqRefused(f) => ReqListed(f)) /\ (~NoteRefused(f) => NoteListed(f))
<1>0. /\ f.form \in {"func", "NamedFunc", "NotFunc"}
      /\ f.in \in Seq(InTypes) /\ f.out \in Seq(OutTypes)
  BY DEF Signatures
<1>1. Len(f.in) \in Nat /\ Len(f.out) \in Nat
  BY <1>0
<1>2. /\ \A i \in 1 .. Len(f.in) : f.in[i] \in InTypes /\ f.in[i] # "NamedString"
      /\ \A i \in 1 .. Len(f.out) : f.out[i] \in {"error", "other"}
  BY <1>0 DEF Lenient, OutTypes
<1>3. f.form # "NamedFunc"
  BY DEF Lenient
<1>4. ~ReqRefused(f) => ReqListed(f)
  <2> SUFFICES ASSUME ~ReqRefused(f) PROVE ReqListed(f)
    OBVIOUS
  <2>1. /\ f.form # "NotFunc" /\ Len(f.in) \in 0 .. 3 /\ Len(f.out) \in {1, 2}
        /\ f.out[Len(f.out)] # "other"
        /\ Len(f.in) > 1 => f.in[1] = "SockPtr"
        /\ Len(f.in) = 3 => f.in[2] \in {"string", "NamedString"}
    BY DEF ReqRefused, IsSockPtr, IsString
  <2>2. f.form = "func"
    BY <1>0, <1>3, <2>1
  <2>3. f.out[Len(f.out)] = "error"
    BY <1>2, <2>1
  <2>4. Len(f.in) = 3 => f.in[2] = "string"
    BY <1>2, <2>1
  <2> QED BY <2>1, <2>2, <2>3, <2>4 DEF ReqListed, ReqInputs
<1>5. ~NoteRefused(f) => NoteListed(f)
  BY <1>0, <1>1, <1>2, <1>3 DEF NoteRefused, NoteListed, IsSockPtr, IsString
<1> QED BY <1>4, <1>5

\* FuncsAsListed, and that what was registered is one of the functions.
FuncsInv ==
  /\ wrapped \in {"no", "request", "request refused", "notification", "notification refused"}
  /\ wrapped # "no" => func \in Funcs
  /\ wrapped = "no" => got = NoMsg
  /\ wrapped = "request" => ~ReqRefused(func)
  /\ wrapped = "notification" => ~NoteRefused(func)
  /\ FuncsAsListed

\* Each registration and call keeps it.
LEMMA FuncsInvStep == FuncsInv /\ [FuncsNext]_funcVars => FuncsInv'
<1> SUFFICES ASSUME FuncsInv, [FuncsNext]_funcVars PROVE FuncsInv'
  OBVIOUS
<1>0. \A f \in Funcs : f \in Signatures
  BY FuncsAssumption
<1>1. CASE HandleFunc
  <2>1. func' \in Funcs /\ wrapped' = IF ReqRefused(func') THEN "request refused" ELSE "request"
    BY <1>1 DEF HandleFunc
  <2>2. func' \in Signatures
    BY <1>0, <2>1
  <2>3. ReqListed(func') => ~ReqRefused(func')
    BY <2>2, ListedFit
  <2>4. ~ReqRefused(func') => ReqListed(func') \/ Lenient(func')
    BY <2>2, AcceptedIsListed
  <2>5. wrapped' = "request" => (ReqListed(func') /\ got' # NoMsg => got'.res \in Due(func', got'))
    <3>1. got' = NoMsg
      BY <1>1 DEF HandleFunc, FuncsInv
    <3> QED BY <3>1
  <2> QED BY <2>1, <2>3, <2>4, <2>5 DEF FuncsInv, FuncsAsListed
<1>2. CASE ReadRequest
  <2>1. PICK d \in BOOLEAN, r \in Returns :
          got' = [decodes |-> d, ret |-> r, res |-> Answer(func, d, r)]
    BY <1>2 DEF ReadRequest
  <2>2. wrapped = "request" /\ wrapped' = wrapped /\ func' = func
    BY <1>2 DEF ReadRequest
  <2>3. func \in Signatures
    BY <1>0, <2>2 DEF FuncsInv
  <2>4. ReqListed(func) => got'.res \in Due(func, got')
    BY <2>1, <2>3, ListedAnswer
  <2> QED BY <2>2, <2>4 DEF FuncsInv, FuncsAsListed
<1>3. CASE HandleNoteFunc
  <2>1. /\ func' \in Funcs /\ got' = NoMsg
        /\ wrapped' = IF NoteRefused(func') THEN "notification refused" ELSE "notification"
    BY <1>3 DEF HandleNoteFunc, FuncsInv
  <2>2. func' \in Signatures
    BY <1>0, <2>1
  <2>3. NoteListed(func') => ~NoteRefused(func')
    BY <2>2, ListedNote
  <2>4. ~NoteRefused(func') => NoteListed(func') \/ Lenient(func')
    BY <2>2, AcceptedIsListed
  <2>5. got'.res # "panic"
    BY <2>1 DEF NoMsg
  <2> QED BY <2>1, <2>3, <2>4, <2>5 DEF FuncsInv, FuncsAsListed
<1>4. CASE ReadNote
  <2>1. /\ wrapped = "notification" /\ wrapped' = wrapped /\ func' = func
        /\ got'.res = IF NotePanics(func) THEN "panic" ELSE "nothing"
    BY <1>4 DEF ReadNote
  <2>2. NoteListed(func) => ~NotePanics(func)
    BY <1>0, <2>1, ListedNote DEF FuncsInv
  <2> QED BY <2>1, <2>2 DEF FuncsInv, FuncsAsListed
<1>5. CASE UNCHANGED funcVars
  BY <1>5 DEF funcVars, FuncsInv, FuncsAsListed
<1> QED BY <1>1, <1>2, <1>3, <1>4, <1>5 DEF FuncsNext

\* Of functions of any type, those that are listed are called with what they take and
\* never panic by the wrapper's doing, and requests get what the function returned; what
\* is accepted is listed, but for types with a name.
THEOREM FuncsAsListedAlways == FuncsSpec => []FuncsAsListed
<1>1. FuncsInit => FuncsInv
  BY DEF FuncsInit, FuncsInv, FuncsAsListed
<1>2. FuncsInv => FuncsAsListed
  BY DEF FuncsInv
<1> QED BY <1>1, <1>2, FuncsInvStep, PTL DEF FuncsSpec

-----------------------------------------------------------------------------
(* Recursive functions: what Power, Value, Total, Encode and Fixnum work out. *)

\* What holds at first, and of each number if of the one before, holds of the last.
LEMMA Induct ==
  ASSUME NEW n \in Nat, NEW T, 0 \in T, \A i \in 1 .. n : i - 1 \in T => i \in T
  PROVE  n \in T
<1> DEFINE R == {s \in Nat \X Nat : s[1] < s[2]}
           U == {m \in 0 .. n : m \notin T}
<1>1. U = {}
  <2> SUFFICES ASSUME U # {} PROVE FALSE
    OBVIOUS
  <2>1. IsWellFoundedOn(R, Nat)
    BY NatLessThanWellFounded, Zenon DEF OpToRel
  <2>2. U \subseteq Nat
    OBVIOUS
  <2>3. PICK m \in U : \A q \in U : ~(<<q, m>> \in R)
    <3> HIDE DEF R, U
    <3> QED BY <2>1, <2>2, WFMin
  <2>4. m \in 1 .. n /\ m - 1 \in Nat /\ m - 1 \in 0 .. n
    BY <2>3
  <2>5. <<m - 1, m>> \in R
    BY <2>4
  <2>6. m - 1 \in T
    BY <2>3, <2>4, <2>5
  <2> QED BY <2>3, <2>4, <2>6
<1> QED BY <1>1

\* f has the first value base, and each other value by step from the one before; the
\* values are in S.
Follows(f, n, S, base, step) ==
  /\ f \in [0 .. n -> S]
  /\ f[0] = base
  /\ \A i \in 1 .. n : f[i] = step[<<i, f[i - 1]>>]

Agrees(g, n, S, base, step) ==
  g[0] = base /\ \A i \in 1 .. n : g[i - 1] \in S => g[i] = step[<<i, g[i - 1]>>]

\* There is such a function.
LEMMA RecursionExists ==
  ASSUME NEW n \in Nat, NEW S, NEW base \in S, NEW step \in [(1 .. n) \X S -> S]
  PROVE  \E f : Follows(f, n, S, base, step)
<1> DEFINE Run(f, m) == Follows(f, m, S, base, step)
           T == {m \in Nat : m <= n => \E f : Run(f, m)}
<1>1. n \in T
  <2>1. Run([i \in 0 .. 0 |-> base], 0)
    BY DEF Follows
  <2>2. ASSUME NEW m \in 1 .. n, m - 1 \in T PROVE m \in T
    <3>1. PICK g : Run(g, m - 1)
      BY <2>2
    <3> DEFINE f == [i \in 0 .. m |-> IF i = m THEN step[<<m, g[m - 1]>>] ELSE g[i]]
    <3>2. f \in [0 .. m -> S] /\ f[0] = base
      BY <3>1 DEF Follows
    <3>3. \A i \in 1 .. m : f[i] = step[<<i, f[i - 1]>>]
      <4> TAKE i \in 1 .. m
      <4>1. CASE i = m
        <5>1. f[i] = step[<<m, g[m - 1]>>] /\ f[i - 1] = g[m - 1]
          BY <4>1
        <5> QED BY <4>1, <5>1
      <4>2. CASE i \in 1 .. m - 1
        BY <3>1, <4>2 DEF Follows
      <4> QED BY <4>1, <4>2
    <3>4. Run(f, m)
      BY <3>2, <3>3 DEF Follows
    <3>5. m \in Nat
      OBVIOUS
    <3> HIDE DEF Run, f
    <3> QED BY <3>4, <3>5
  <2>3. 0 \in T
    BY <2>1
  <2> HIDE DEF T
  <2> QED BY <2>2, <2>3, Induct
<1> QED BY <1>1

\* There is no other.
LEMMA RecursionUnique ==
  ASSUME NEW n \in Nat, NEW S, NEW base, NEW step, NEW f, Follows(f, n, S, base, step),
         NEW g, Agrees(g, n, S, base, step)
  PROVE  \A k \in 0 .. n : g[k] = f[k]
<1> TAKE k \in 0 .. n
<1> DEFINE V == {i \in Nat : i <= k => g[i] = f[i]}
<1>1. 0 \in V
  BY DEF Follows, Agrees
<1>2. ASSUME NEW i \in 1 .. k, i - 1 \in V PROVE i \in V
  <2>1. i \in 1 .. n /\ i - 1 \in 0 .. n /\ g[i - 1] = f[i - 1]
    BY <1>2
  <2>2. f[i - 1] \in S /\ f[i] = step[<<i, f[i - 1]>>]
    BY <2>1 DEF Follows
  <2>3. g[i] = f[i]
    BY <2>1, <2>2 DEF Agrees
  <2> QED BY <2>3
<1>3. k \in Nat /\ (k \in V => g[k] = f[k])
  OBVIOUS
<1> HIDE DEF V
<1> QED BY <1>1, <1>2, <1>3, Induct

\* How Power is worked out.
LEMMA PowerIs ==
  ASSUME NEW w \in Nat
  PROVE  \E f \in [0 .. w -> Nat] :
           /\ f[0] = 1
           /\ \A i \in 1 .. w : f[i] = Base * f[i - 1]
           /\ Power(w) = f[w]
<1> DEFINE step == [q \in (1 .. w) \X Nat |-> Base * q[2]]
           Is(g) == g = [i \in 0 .. w |-> IF i = 0 THEN 1 ELSE Base * g[i - 1]]
           F == CHOOSE g : Is(g)
<1>1. w \in Nat /\ 1 \in Nat
  BY WireAssumption
<1>2. step \in [(1 .. w) \X Nat -> Nat]
  BY WireAssumption
<1>3. PICK f : Follows(f, w, Nat, 1, step)
  <2> HIDE DEF step
  <2> QED BY <1>1, <1>2, RecursionExists
<1>4. /\ f \in [0 .. w -> Nat] /\ f[0] = 1
      /\ \A i \in 1 .. w : f[i] = Base * f[i - 1]
  <2>1. /\ f \in [0 .. w -> Nat] /\ f[0] = 1
        /\ \A i \in 1 .. w : f[i] = step[<<i, f[i - 1]>>]
    <3> HIDE DEF step
    <3> QED BY <1>3 DEF Follows
  <2>2. \A i \in 1 .. w : i - 1 \in 0 .. w /\ f[i - 1] \in Nat
    BY <1>1, <2>1
  <2>3. \A i \in 1 .. w, s \in Nat : step[<<i, s>>] = Base * s
    OBVIOUS
  <2> HIDE DEF step
  <2> QED BY <2>1, <2>2, <2>3
<1>5. Is(f)
  <2>1. f = [i \in 0 .. w |-> f[i]]
    BY <1>4
  <2>2. \A i \in 0 .. w : f[i] = IF i = 0 THEN 1 ELSE Base * f[i - 1]
    <3> TAKE i \in 0 .. w
    <3>1. i = 0 \/ i \in 1 .. w
      BY <1>1
    <3> QED BY <1>4, <3>1
  <2> QED BY <2>1, <2>2
<1>6. Is(F)
  BY <1>5
<1>7. F[w] = f[w]
  <2> HIDE DEF F
  <2>1. \A i \in 0 .. w : F[i] = IF i = 0 THEN 1 ELSE Base * F[i - 1]
    BY <1>6
  <2>2. F[0] = 1
    BY <1>1, <2>1
  <2>3. \A i \in 1 .. w : F[i - 1] \in Nat => F[i] = step[<<i, F[i - 1]>>]
    BY <1>1, <2>1
  <2>4. w \in 0 .. w
    BY <1>1
  <2>5. Agrees(F, w, Nat, 1, step)
    <3> HIDE DEF step
    <3> QED BY <2>2, <2>3 DEF Agrees
  <2> HIDE DEF step, Is
  <2>6. \A k \in 0 .. w : F[k] = f[k]
    BY <1>1, <1>3, <2>5, RecursionUnique
  <2> QED BY <2>4, <2>6
<1>8. Power(w)  = F[w]
  BY DEF Power
<1> HIDE DEF F
<1> QED
  BY <1>4, <1>7, <1>8

\* A number with another digit is a number.
LEMMA Shifted ==
  ASSUME NEW s \in Nat, NEW d \in Nat
  PROVE  s * Base + d \in Nat
<1>1. s * Base \in Nat
  BY WireAssumption
<1> QED BY <1>1

\* How the value of digits is worked out.
LEMMA ValueIs ==
  ASSUME NEW b \in Seq(Nat), NEW n \in Nat, n = Len(b)
  PROVE  \E f \in [0 .. n -> Nat] :
           /\ f[0] = 0
           /\ \A i \in 1 .. n : f[i] = f[i - 1] * Base + b[i]
           /\ Value(b) = f[n]
<1> DEFINE step == [q \in (1 .. n) \X Nat |-> q[2] * Base + b[q[1]]]
           Is(g) == g = [i \in 0 .. n |-> IF i = 0 THEN 0 ELSE g[i - 1] * Base + b[i]]
           F == CHOOSE g : Is(g)
<1>1. n \in Nat /\ 0 \in Nat
  BY LenProperties
<1>2. step \in [(1 .. n) \X Nat -> Nat]
  <2>1. \A i \in 1 .. n : b[i] \in Nat
    BY ElementOfSeq
  <2>2. \A s \in Nat, i \in 1 .. n : s * Base + b[i] \in Nat
    BY <2>1, Shifted
  <2> QED BY <2>2
<1>3. PICK f : Follows(f, n, Nat, 0, step)
  <2> HIDE DEF step
  <2> QED BY <1>1, <1>2, RecursionExists
<1>4. /\ f \in [0 .. n -> Nat] /\ f[0] = 0
      /\ \A i \in 1 .. n : f[i] = f[i - 1] * Base + b[i]
  <2>1. /\ f \in [0 .. n -> Nat] /\ f[0] = 0
        /\ \A i \in 1 .. n : f[i] = step[<<i, f[i - 1]>>]
    <3> HIDE DEF step
    <3> QED BY <1>3 DEF Follows
  <2>2. \A i \in 1 .. n : i - 1 \in 0 .. n /\ f[i - 1] \in Nat
    BY <1>1, <2>1
  <2>3. \A i \in 1 .. n, s \in Nat : step[<<i, s>>] = s * Base + b[i]
    OBVIOUS
  <2> HIDE DEF step
  <2> QED BY <2>1, <2>2, <2>3
<1>5. Is(f)
  <2>1. f = [i \in 0 .. n |-> f[i]]
    BY <1>4
  <2>2. \A i \in 0 .. n : f[i] = IF i = 0 THEN 0 ELSE f[i - 1] * Base + b[i]
    <3> TAKE i \in 0 .. n
    <3>1. i = 0 \/ i \in 1 .. n
      BY <1>1
    <3> QED BY <1>4, <3>1
  <2> QED BY <2>1, <2>2
<1>6. Is(F)
  BY <1>5
<1>7. F[n] = f[n]
  <2> HIDE DEF F
  <2>1. \A i \in 0 .. n : F[i] = IF i = 0 THEN 0 ELSE F[i - 1] * Base + b[i]
    BY <1>6
  <2>2. F[0] = 0
    BY <1>1, <2>1
  <2>3. \A i \in 1 .. n : F[i - 1] \in Nat => F[i] = step[<<i, F[i - 1]>>]
    BY <1>1, <2>1
  <2>4. n \in 0 .. n
    BY <1>1
  <2>5. Agrees(F, n, Nat, 0, step)
    <3> HIDE DEF step
    <3> QED BY <2>2, <2>3 DEF Agrees
  <2> HIDE DEF step, Is
  <2>6. \A k \in 0 .. n : F[k] = f[k]
    BY <1>1, <1>3, <2>5, RecursionUnique
  <2> QED BY <2>4, <2>6
<1>8. Value(b)  = F[n]
  BY DEF Value
<1> HIDE DEF F
<1> QED
  BY <1>4, <1>7, <1>8

\* How a sum is worked out.
LEMMA TotalIs ==
  ASSUME NEW ns \in Seq(Nat), NEW n \in Nat, n = Len(ns)
  PROVE  \E f \in [0 .. n -> Nat] :
           /\ f[0] = 0
           /\ \A i \in 1 .. n : f[i] = f[i - 1] + ns[i]
           /\ Total(ns) = f[n]
<1> DEFINE step == [q \in (1 .. n) \X Nat |-> q[2] + ns[q[1]]]
           Is(g) == g = [i \in 0 .. n |-> IF i = 0 THEN 0 ELSE g[i - 1] + ns[i]]
           F == CHOOSE g : Is(g)
<1>1. n \in Nat /\ 0 \in Nat
  BY LenProperties
<1>2. step \in [(1 .. n) \X Nat -> Nat]
  BY ElementOfSeq
<1>3. PICK f : Follows(f, n, Nat, 0, step)
  <2> HIDE DEF step
  <2> QED BY <1>1, <1>2, RecursionExists
<1>4. /\ f \in [0 .. n -> Nat] /\ f[0] = 0
      /\ \A i \in 1 .. n : f[i] = f[i - 1] + ns[i]
  <2>1. /\ f \in [0 .. n -> Nat] /\ f[0] = 0
        /\ \A i \in 1 .. n : f[i] = step[<<i, f[i - 1]>>]
    <3> HIDE DEF step
    <3> QED BY <1>3 DEF Follows
  <2>2. \A i \in 1 .. n : i - 1 \in 0 .. n /\ f[i - 1] \in Nat
    BY <1>1, <2>1
  <2>3. \A i \in 1 .. n, s \in Nat : step[<<i, s>>] = s + ns[i]
    OBVIOUS
  <2> HIDE DEF step
  <2> QED BY <2>1, <2>2, <2>3
<1>5. Is(f)
  <2>1. f = [i \in 0 .. n |-> f[i]]
    BY <1>4
  <2>2. \A i \in 0 .. n : f[i] = IF i = 0 THEN 0 ELSE f[i - 1] + ns[i]
    <3> TAKE i \in 0 .. n
    <3>1. i = 0 \/ i \in 1 .. n
      BY <1>1
    <3> QED BY <1>4, <3>1
  <2> QED BY <2>1, <2>2
<1>6. Is(F)
  BY <1>5
<1>7. F[n] = f[n]
  <2> HIDE DEF F
  <2>1. \A i \in 0 .. n : F[i] = IF i = 0 THEN 0 ELSE F[i - 1] + ns[i]
    BY <1>6
  <2>2. F[0] = 0
    BY <1>1, <2>1
  <2>3. \A i \in 1 .. n : F[i - 1] \in Nat => F[i] = step[<<i, F[i - 1]>>]
    BY <1>1, <2>1
  <2>4. n \in 0 .. n
    BY <1>1
  <2>5. Agrees(F, n, Nat, 0, step)
    <3> HIDE DEF step
    <3> QED BY <2>2, <2>3 DEF Agrees
  <2> HIDE DEF step, Is
  <2>6. \A k \in 0 .. n : F[k] = f[k]
    BY <1>1, <1>3, <2>5, RecursionUnique
  <2> QED BY <2>4, <2>6
<1>8. Total(ns)  = F[n]
  BY DEF Total
<1> HIDE DEF F
<1> QED
  BY <1>4, <1>7, <1>8

\* The bytes of a character.
LEMMA CharBytes ==
  ASSUME NEW c \in Nat
  PROVE  /\ Bytes(c) \in 1 .. 4
         /\ Utf8(c) \in Seq(Nat)
         /\ Len(Utf8(c)) = Bytes(c)
<1>1. Bytes(c) \in 1 .. 4
  BY DEF Bytes
<1>2. Utf8(c) \in [1 .. Bytes(c) -> Nat]
  BY DEF Utf8
<1>3. Utf8(c) \in Seq(Nat)
  BY <1>1, <1>2, SeqDef
<1> QED
  BY <1>1, <1>2, <1>3, LenProperties

\* How a string is encoded.
LEMMA EncodeIs ==
  ASSUME NEW str \in Seq(Nat), NEW n \in Nat, n = Len(str)
  PROVE  \E f \in [0 .. n -> Seq(Nat)] :
           /\ f[0] = <<>>
           /\ \A i \in 1 .. n : f[i] = f[i - 1] \o Utf8(str[i])
           /\ Encode(str) = f[n]
<1> DEFINE step == [q \in (1 .. n) \X Seq(Nat) |-> q[2] \o Utf8(str[q[1]])]
           Is(g) == g = [i \in 0 .. n |-> IF i = 0 THEN <<>> ELSE g[i - 1] \o Utf8(str[i])]
           F == CHOOSE g : Is(g)
<1>1. n \in Nat /\ <<>> \in Seq(Nat)
  BY LenProperties
<1>2. step \in [(1 .. n) \X Seq(Nat) -> Seq(Nat)]
  BY ElementOfSeq, CharBytes, ConcatProperties
<1>3. PICK f : Follows(f, n, Seq(Nat), <<>>, step)
  <2> HIDE DEF step
  <2> QED BY <1>1, <1>2, RecursionExists
<1>4. /\ f \in [0 .. n -> Seq(Nat)] /\ f[0] = <<>>
      /\ \A i \in 1 .. n : f[i] = f[i - 1] \o Utf8(str[i])
  <2>1. /\ f \in [0 .. n -> Seq(Nat)] /\ f[0] = <<>>
        /\ \A i \in 1 .. n : f[i] = step[<<i, f[i - 1]>>]
    <3> HIDE DEF step
    <3> QED BY <1>3 DEF Follows
  <2>2. \A i \in 1 .. n : i - 1 \in 0 .. n /\ f[i - 1] \in Seq(Nat)
    <3>1. \A i \in 1 .. n : i - 1 \in 0 .. n
      BY <1>1
    <3> HIDE DEF step
    <3> QED BY <2>1, <3>1
  <2>3. \A i \in 1 .. n, s \in Seq(Nat) : step[<<i, s>>] = s \o Utf8(str[i])
    OBVIOUS
  <2> HIDE DEF step
  <2> QED BY <2>1, <2>2, <2>3
<1>5. Is(f)
  <2>1. f = [i \in 0 .. n |-> f[i]]
    BY <1>4
  <2>2. \A i \in 0 .. n : f[i] = IF i = 0 THEN <<>> ELSE f[i - 1] \o Utf8(str[i])
    <3> TAKE i \in 0 .. n
    <3>1. i = 0 \/ i \in 1 .. n
      BY <1>1
    <3> QED BY <1>4, <3>1
  <2> QED BY <2>1, <2>2
<1>6. Is(F)
  BY <1>5
<1>7. F[n] = f[n]
  <2> HIDE DEF F
  <2>1. \A i \in 0 .. n : F[i] = IF i = 0 THEN <<>> ELSE F[i - 1] \o Utf8(str[i])
    BY <1>6
  <2>2. F[0] = <<>>
    BY <1>1, <2>1
  <2>3. \A i \in 1 .. n : F[i - 1] \in Seq(Nat) => F[i] = step[<<i, F[i - 1]>>]
    BY <1>1, <2>1
  <2>4. n \in 0 .. n
    BY <1>1
  <2>5. Agrees(F, n, Seq(Nat), <<>>, step)
    <3> HIDE DEF step
    <3> QED BY <2>2, <2>3 DEF Agrees
  <2> HIDE DEF step, Is
  <2>6. \A k \in 0 .. n : F[k] = f[k]
    BY <1>1, <1>3, <2>5, RecursionUnique
  <2> QED BY <2>4, <2>6
<1>8. Encode(str)  = F[n]
  BY DEF Encode
<1> HIDE DEF F
<1> QED
  BY <1>4, <1>7, <1>8

\* Taking a digit off.
LEMMA Divided ==
  ASSUME NEW n \in Nat
  PROVE  /\ n \div Base \in Nat /\ n % Base \in 0 .. Base - 1
         /\ (n \div Base) * Base + (n % Base) = n
         /\ \A p \in Nat : n < Base * p => n \div Base < p
<1>1. n = Base * (n \div Base) + (n % Base) /\ n % Base \in 0 .. Base - 1 /\ n \div Base \in Nat
  BY WireAssumption
<1>2. ASSUME NEW p \in Nat, n < Base * p PROVE n \div Base < p
  <2> DEFINE q == n \div Base
  <2>1. Base * q < Base * p
    BY <1>1, <1>2, WireAssumption
  <2>2. q \in Nat
    BY <1>1
  <2> HIDE DEF q
  <2>3. ASSUME q >= p PROVE FALSE
    <3>1. PICK d \in Nat : q = p + d
      BY <2>2, <2>3
    <3>2. Base * q = Base * p + Base * d
      BY <3>1, WireAssumption
    <3>3. Base * d \in Nat /\ Base * p \in Nat
      BY WireAssumption
    <3> QED BY <2>1, <3>2, <3>3
  <2> QED BY <2>2, <2>3 DEF q
<1>3. (n \div Base) * Base = Base * (n \div Base)
  BY <1>1, WireAssumption
<1> QED BY <1>1, <1>2, <1>3, WireAssumption

\* How a number is cut into digits.
LEMMA FixnumIs ==
  ASSUME NEW n \in Nat, NEW w \in Nat
  PROVE  \E f \in [0 .. w -> Nat] :
           /\ f[0] = n
           /\ \A i \in 1 .. w : f[i] = f[i - 1] \div Base
           /\ Fixnum(n, w) = [i \in 1 .. w |-> f[w - i] % Base]
<1> DEFINE step == [q \in (1 .. w) \X Nat |-> q[2] \div Base]
           Is(g) == g = [i \in 0 .. w |-> IF i = 0 THEN n ELSE g[i - 1] \div Base]
           F == CHOOSE g : Is(g)
<1>1. w \in Nat /\ n \in Nat
  OBVIOUS
<1>2. step \in [(1 .. w) \X Nat -> Nat]
  BY Divided
<1>3. PICK f : Follows(f, w, Nat, n, step)
  <2> HIDE DEF step
  <2> QED BY <1>1, <1>2, RecursionExists
<1>4. /\ f \in [0 .. w -> Nat] /\ f[0] = n
      /\ \A i \in 1 .. w : f[i] = f[i - 1] \div Base
  <2>1. /\ f \in [0 .. w -> Nat] /\ f[0] = n
        /\ \A i \in 1 .. w : f[i] = step[<<i, f[i - 1]>>]
    <3> HIDE DEF step
    <3> QED BY <1>3 DEF Follows
  <2>2. \A i \in 1 .. w : i - 1 \in 0 .. w /\ f[i - 1] \in Nat
    BY <1>1, <2>1
  <2>3. \A i \in 1 .. w, s \in Nat : step[<<i, s>>] = s \div Base
    OBVIOUS
  <2> HIDE DEF step
  <2> QED BY <2>1, <2>2, <2>3
<1>5. Is(f)
  <2>1. f = [i \in 0 .. w |-> f[i]]
    BY <1>4
  <2>2. \A i \in 0 .. w : f[i] = IF i = 0 THEN n ELSE f[i - 1] \div Base
    <3> TAKE i \in 0 .. w
    <3>1. i = 0 \/ i \in 1 .. w
      BY <1>1
    <3> QED BY <1>4, <3>1
  <2> QED BY <2>1, <2>2
<1>6. Is(F)
  BY <1>5
<1>7. \A k \in 0 .. w : F[k] = f[k]
  <2> HIDE DEF F
  <2>1. \A i \in 0 .. w : F[i] = IF i = 0 THEN n ELSE F[i - 1] \div Base
    BY <1>6
  <2>2. F[0] = n
    BY <1>1, <2>1
  <2>3. \A i \in 1 .. w : F[i - 1] \in Nat => F[i] = step[<<i, F[i - 1]>>]
    BY <1>1, <2>1
  <2>5. Agrees(F, w, Nat, n, step)
    <3> HIDE DEF step
    <3> QED BY <2>2, <2>3 DEF Agrees
  <2> HIDE DEF step, Is
  <2>6. \A k \in 0 .. w : F[k] = f[k]
    BY <1>1, <1>3, <2>5, RecursionUnique
  <2> QED BY <2>6
<1>8. Fixnum(n, w) = [i \in 1 .. w |-> F[w - i] % Base]
  BY DEF Fixnum
<1>9. \A i \in 1 .. w : F[w - i] % Base = f[w - i] % Base
  <2> HIDE DEF F
  <2> QED BY <1>7
<1> HIDE DEF F
<1> QED
  BY <1>4, <1>8, <1>9

\* What copyFixnum writes of a number that fits in w digits, ParseUint reads as that number.
THEOREM DigitsRoundTrip ==
  ASSUME NEW n \in Nat, NEW w \in Nat
  PROVE  /\ Fixnum(n, w) \in Seq(Nat) /\ Len(Fixnum(n, w)) = w
         /\ n < Power(w) => Value(Fixnum(n, w)) = n /\ ParseUint(Fixnum(n, w)) = n
<1> DEFINE b == Fixnum(n, w)
<1>1. PICK rest \in [0 .. w -> Nat] :
        /\ rest[0] = n
        /\ \A i \in 1 .. w : rest[i] = rest[i - 1] \div Base
        /\ b = [i \in 1 .. w |-> rest[w - i] % Base]
  BY FixnumIs
<1>2. \A i \in 1 .. w : w - i \in 0 .. w /\ rest[w - i] \in Nat
  OBVIOUS
<1>3. \A i \in 1 .. w : b[i] = rest[w - i] % Base
  <2> HIDE DEF b
  <2> QED BY <1>1
<1>4. \A i \in 1 .. w : b[i] \in 0 .. Base - 1
  BY <1>2, <1>3, Divided
<1>5. b \in Seq(Nat) /\ Len(b) = w
  <2> HIDE DEF b
  <2>1. b \in [1 .. w -> Nat]
    BY <1>1, <1>2, <1>4, WireAssumption
  <2> QED BY <2>1, SeqDef, LenProperties
<1>6. ASSUME n < Power(w) PROVE Value(b) = n
  <2>1. PICK p \in [0 .. w -> Nat] :
          /\ p[0] = 1
          /\ \A i \in 1 .. w : p[i] = Base * p[i - 1]
          /\ Power(w) = p[w]
    BY PowerIs
  <2>2. PICK v \in [0 .. w -> Nat] :
          /\ v[0] = 0
          /\ \A i \in 1 .. w : v[i] = v[i - 1] * Base + b[i]
          /\ Value(b) = v[w]
    <3> HIDE DEF b
    <3> QED BY <1>5, ValueIs
  <2>3. rest[w] < p[0]
    <3> DEFINE T == {k \in Nat : k <= w => rest[k] < p[w - k]}
    <3>1. 0 \in T
      BY <1>1, <1>6, <2>1
    <3>2. ASSUME NEW k \in 1 .. w, k - 1 \in T PROVE k \in T
      <4>1. rest[k - 1] < p[w - k + 1]
        BY <3>2
      <4>2. p[w - k + 1] = Base * p[w - k]
        BY <2>1
      <4>3. rest[k - 1] \in Nat /\ p[w - k] \in Nat /\ rest[k] = rest[k - 1] \div Base
        <5>1. k - 1 \in 0 .. w /\ w - k \in 0 .. w
          BY <3>2
        <5> HIDE DEF T, b
        <5> QED BY <5>1, <1>1, <2>1
      <4>4. rest[k] < p[w - k]
        <5>1. PICK x, y : x = rest[k - 1] /\ y = p[w - k]
          OBVIOUS
        <5>2. x \in Nat /\ y \in Nat /\ x < Base * y /\ rest[k] = x \div Base
          BY <5>1, <4>1, <4>2, <4>3
        <5> HIDE DEF T, b
        <5>3. x \div Base < y
          BY <5>2, Divided
        <5> QED BY <5>1, <5>2, <5>3
      <4> QED BY <4>4
    <3>3. w \in T => rest[w] < p[0]
      OBVIOUS
    <3> HIDE DEF T
    <3> QED BY <3>1, <3>2, <3>3, Induct
  <2>4. rest[w] = 0
    BY <1>1, <2>1, <2>3
  <2>5. v[w] = rest[0]
    <3> DEFINE T == {k \in Nat : k <= w => v[k] = rest[w - k]}
    <3>1. 0 \in T
      BY <2>2, <2>4
    <3>2. ASSUME NEW k \in 1 .. w, k - 1 \in T PROVE k \in T
      <4>1. v[k - 1] = rest[w - k + 1]
        BY <3>2
      <4>2. rest[w - k + 1] = rest[w - k] \div Base /\ rest[w - k] \in Nat
        BY <1>1
      <4>3. v[k] = (rest[w - k] \div Base) * Base + (rest[w - k] % Base)
        BY <1>3, <2>2, <4>1, <4>2
      <4>4. v[k] = rest[w - k]
        BY <4>2, <4>3, Divided
      <4> QED BY <4>4
    <3>3. w \in T => v[w] = rest[0]
      OBVIOUS
    <3> HIDE DEF T
    <3> QED BY <3>1, <3>2, <3>3, Induct
  <2> QED BY <1>1, <2>2, <2>5
<1>7. n < Power(w) => ParseUint(b) = n
  <2> HIDE DEF b
  <2>1. DOMAIN b = 1 .. w
    BY <1>5, LenProperties
  <2> QED BY <1>4, <1>6, <2>1 DEF ParseUint
<1> QED
  BY <1>5, <1>6, <1>7

-----------------------------------------------------------------------------
(* Numbers of JavaScript and the sizes of its strings.                      *)

\* Another digit makes a number at least twice as large.
LEMMA Doubled ==
  ASSUME NEW x \in Nat
  PROVE  Base * x \in Nat /\ Base * x >= 2 * x
<1>1. PICK d \in Nat : Base = 2 + d
  BY WireAssumption
<1>2. d * x \in Nat
  OBVIOUS
<1>3. Base * x = 2 * x + d * x
  BY <1>1
<1> QED BY <1>2, <1>3

\* Each digit at least doubles how many numbers there are.
LEMMA PowerGrows ==
  ASSUME NEW w \in Nat
  PROVE  Power(w) \in Nat /\ Power(w) >= 1 /\ Power(w + 1) >= 2 * Power(w)
<1>0. w + 1 \in Nat
  OBVIOUS
<1>1. PICK f \in [0 .. w -> Nat] :
        /\ f[0] = 1
        /\ \A i \in 1 .. w : f[i] = Base * f[i - 1]
        /\ Power(w) = f[w]
  BY PowerIs
<1>2. PICK g \in [0 .. w + 1 -> Nat] :
        /\ g[0] = 1
        /\ \A i \in 1 .. w + 1 : g[i] = Base * g[i - 1]
        /\ Power(w + 1) = g[w + 1]
  BY <1>0, PowerIs
<1>3. f[w] >= 1 /\ g[w] = f[w]
  <2> DEFINE T == {k \in Nat : k <= w => f[k] >= 1 /\ g[k] = f[k]}
  <2>1. 0 \in T
    BY <1>1, <1>2
  <2>2. ASSUME NEW k \in 1 .. w, k - 1 \in T PROVE k \in T
    <3>1. f[k - 1] \in Nat /\ f[k - 1] >= 1 /\ g[k - 1] = f[k - 1]
      BY <1>1, <2>2
    <3>2. f[k] = Base * f[k - 1] /\ g[k] = Base * f[k - 1]
      BY <1>1, <1>2, <3>1
    <3>3. Base * f[k - 1] >= 2 * f[k - 1] /\ Base * f[k - 1] \in Nat
      BY <3>1, Doubled
    <3>4. f[k] >= 1 /\ g[k] = f[k]
      BY <3>1, <3>2, <3>3
    <3> QED BY <3>4
  <2>3. w \in T => f[w] >= 1 /\ g[w] = f[w]
    OBVIOUS
  <2> HIDE DEF T
  <2> QED BY <2>1, <2>2, <2>3, Induct
<1>4. g[w + 1] = Base * f[w]
  <2>1. w + 1 \in 1 .. w + 1 /\ w + 1 - 1 = w
    OBVIOUS
  <2> QED BY <1>2, <1>3, <2>1
<1>5. f[w] \in Nat
  BY <1>1
<1>6. Base * f[w] >= 2 * f[w]
  BY <1>5, Doubled
<1> QED
  BY <1>1, <1>2, <1>3, <1>4, <1>5, <1>6

\* Numbers of three and four digits have no sign.
LEMMA HalfIs ==
  /\ Half \in Nat /\ Power(3) <= Half /\ Power(4) <= Half
  /\ Power(0) \in Nat /\ Power(3) \in Nat /\ Power(4) \in Nat /\ Power(8) \in Nat /\ 0 < Half
<1>1. /\ Power(3) \in Nat /\ Power(4) \in Nat /\ Power(5) \in Nat /\ Power(6) \in Nat
      /\ Power(7) \in Nat /\ Power(8) \in Nat /\ Power(0) \in Nat
  BY PowerGrows
<1>2. Power(3) >= 1 /\ Power(3 + 1) >= 2 * Power(3)
  BY PowerGrows
<1>3. Power(4 + 1) >= 2 * Power(4)
  BY PowerGrows
<1>4. Power(5 + 1) >= 2 * Power(5)
  BY PowerGrows
<1>5. Power(6 + 1) >= 2 * Power(6)
  BY PowerGrows
<1>6. Power(7 + 1) >= 2 * Power(7)
  BY PowerGrows
<1>7. 3 + 1 = 4 /\ 4 + 1 = 5 /\ 5 + 1 = 6 /\ 6 + 1 = 7 /\ 7 + 1 = 8
  OBVIOUS
<1>8. Power(8) >= 2 * Power(4)
  BY <1>1, <1>2, <1>3, <1>4, <1>5, <1>6, <1>7
<1>9. Half \in Nat /\ Half >= Power(4)
  BY <1>1, <1>8 DEF Half
<1> QED
  BY <1>1, <1>2, <1>7, <1>9

\* parseHexInt of protocol.js reads what copyFixnum writes of a number that its signed 32 bits
\* hold.
THEOREM HexRoundTrip ==
  ASSUME NEW n \in Nat, NEW w \in Nat, n < Power(w), n < Half
  PROVE  ParseHexInt(Fixnum(n, w)) = n
<1>1. Value(Fixnum(n, w)) = n
  BY DigitsRoundTrip
<1> QED
  BY <1>1, HalfIs DEF ParseHexInt

\* The encoding of a string is as long as its characters are together.
LEMMA EncodeLen ==
  ASSUME NEW str \in Seq(Nat), NEW ns \in Seq(Nat), Len(ns) = Len(str),
         \A i \in 1 .. Len(str) : ns[i] = Bytes(str[i])
  PROVE  Encode(str) \in Seq(Nat) /\ Total(ns) = Len(Encode(str))
<1>1. PICK n \in Nat : n = Len(str)
  BY LenProperties
<1>2. PICK f \in [0 .. n -> Seq(Nat)] :
        /\ f[0] = <<>>
        /\ \A i \in 1 .. n : f[i] = f[i - 1] \o Utf8(str[i])
        /\ Encode(str) = f[n]
  BY <1>1, EncodeIs
<1>3. PICK g \in [0 .. n -> Nat] :
        /\ g[0] = 0
        /\ \A i \in 1 .. n : g[i] = g[i - 1] + ns[i]
        /\ Total(ns) = g[n]
  BY <1>1, TotalIs
<1>4. g[n] = Len(f[n])
  <2> DEFINE T == {k \in Nat : k <= n => g[k] = Len(f[k])}
  <2>1. 0 \in T
    BY <1>2, <1>3, EmptySeq
  <2>2. ASSUME NEW k \in 1 .. n, k - 1 \in T PROVE k \in T
    <3>1. f[k - 1] \in Seq(Nat) /\ g[k - 1] = Len(f[k - 1])
      BY <1>2, <2>2
    <3>2. str[k] \in Nat
      BY <1>1, ElementOfSeq
    <3>3. Utf8(str[k]) \in Seq(Nat) /\ Len(Utf8(str[k])) = ns[k]
      BY <1>1, <3>2, CharBytes
    <3>4. Len(f[k - 1] \o Utf8(str[k])) = Len(f[k - 1]) + Len(Utf8(str[k]))
      BY <3>1, <3>3, ConcatProperties
    <3>5. Len(f[k]) = Len(f[k - 1]) + ns[k]
      BY <1>2, <3>3, <3>4
    <3> QED BY <1>3, <3>1, <3>5
  <2>3. n \in T => g[n] = Len(f[n])
    OBVIOUS
  <2> HIDE DEF T
  <2> QED BY <2>1, <2>2, <2>3, Induct
<1> QED
  BY <1>2, <1>3, <1>4

\* An encoded string is bytes, none if there is no character and some if there is one.
LEMMA EncodeType ==
  ASSUME NEW str \in Seq(Nat)
  PROVE  Encode(str) \in Seq(Nat) /\ (Encode(str) = <<>> <=> str = <<>>)
<1>1. PICK n \in Nat : n = Len(str)
  BY LenProperties
<1>2. PICK f \in [0 .. n -> Seq(Nat)] :
        /\ f[0] = <<>>
        /\ \A i \in 1 .. n : f[i] = f[i - 1] \o Utf8(str[i])
        /\ Encode(str) = f[n]
  BY <1>1, EncodeIs
<1>3. CASE n = 0
  BY <1>1, <1>2, <1>3, EmptySeq
<1>4. CASE n # 0
  <2>0. Len(<<>>) = 0
    BY EmptySeq
  <2>1. n \in 1 .. n /\ n - 1 \in 0 .. n /\ 0 \notin 1 .. 4
    BY <1>4
  <2>2. str # <<>>
    BY <1>1, <1>4, <2>0
  <2>3. f[n - 1] \in Seq(Nat) /\ f[n] \in Seq(Nat)
    BY <1>2, <2>1
  <2>4. str[n] \in Nat
    BY <1>1, <2>1, ElementOfSeq
  <2>5. Utf8(str[n]) \in Seq(Nat) /\ Len(Utf8(str[n])) \in 1 .. 4
    BY <2>4, CharBytes
  <2>6. Utf8(str[n]) # <<>>
    BY <2>0, <2>1, <2>5, Zenon
  <2>7. f[n - 1] \o Utf8(str[n]) # <<>>
    BY <2>3, <2>5, <2>6, ConcatEqualIffEmpty
  <2>8. f[n] # <<>>
    BY <1>2, <2>1, <2>7, Zenon
  <2> QED BY <1>2, <2>2, <2>3, <2>8
<1> QED
  BY <1>3, <1>4

\* sizeOf of utf8.js counts the bytes encode writes, in strings without zeros and characters
\* beyond the BMP: there the name's length in a header of makeMsg is that of the bytes sent.
THEOREM SizeOfPlain ==
  ASSUME NEW str \in Seq(Nat), Plain(str)
  PROVE  SizeOf(str) = Len(Encode(str))
<1>1. PICK n \in Nat : n = Len(str)
  BY LenProperties
<1>2. \A i \in 1 .. n : str[i] \in Nat /\ str[i] # Nul /\ str[i] < Astral
  BY <1>1, ElementOfSeq, LenProperties DEF Plain
<1> DEFINE ns == [i \in 1 .. n |-> IF str[i] >= Astral THEN 6 ELSE Bytes(str[i])]
<1>3. SelectInSeq(str, LAMBDA c : c = Nul) = 0
  BY <1>1, <1>2 DEF SelectInSeq
<1>4. SizeOf(str) = Total(ns)
  BY <1>1, <1>3 DEF SizeOf
<1>5. \A i \in 1 .. n : ns[i] = Bytes(str[i]) /\ ns[i] \in Nat
  <2> TAKE i \in 1 .. n
  <2>1. ~(str[i] >= Astral)
    BY <1>2 DEF Astral
  <2>2. str[i] \in Nat
    BY <1>2
  <2>3. Bytes(str[i]) \in Nat
    BY <2>2 DEF Bytes
  <2> QED BY <2>1, <2>3
<1>6. ns \in Seq(Nat) /\ Len(ns) = n
  <2>1. ns \in [1 .. n -> Nat]
    BY <1>5
  <2> HIDE DEF ns
  <2> QED BY <2>1, SeqDef, LenProperties
<1> HIDE DEF ns
<1> QED
  BY <1>1, <1>4, <1>5, <1>6, EncodeLen

\* The length of a string, which Sock.sendMsg and the text protocol send for its size, is its
\* number of bytes where each character is one byte.
THEOREM LengthPlain ==
  ASSUME NEW str \in Seq(Nat), \A i \in DOMAIN str : str[i] < TwoBytes
  PROVE  Length(str) = Len(Encode(str))
<1>1. PICK n \in Nat : n = Len(str)
  BY LenProperties
<1>2. \A i \in 1 .. n : str[i] \in Nat /\ str[i] < TwoBytes
  BY <1>1, ElementOfSeq, LenProperties
<1> DEFINE ns == [i \in 1 .. n |-> IF str[i] >= Astral THEN 2 ELSE 1]
<1>4. Length(str) = Total(ns)
  BY <1>1 DEF Length
<1>5. \A i \in 1 .. n : ns[i] = Bytes(str[i]) /\ ns[i] \in Nat
  BY <1>2 DEF Bytes, Astral, TwoBytes
<1>6. ns \in Seq(Nat) /\ Len(ns) = n
  <2>1. ns \in [1 .. n -> Nat]
    BY <1>5
  <2> HIDE DEF ns
  <2> QED BY <2>1, SeqDef, LenProperties
<1> HIDE DEF ns
<1> QED
  BY <1>1, <1>4, <1>5, <1>6, EncodeLen

-----------------------------------------------------------------------------
(* Bytes put together and taken apart.                                      *)

\* Bytes are put together in any order.
LEMMA Assoc ==
  ASSUME NEW a \in Seq(Nat), NEW b \in Seq(Nat), NEW c \in Seq(Nat)
  PROVE  (a \o b) \o c = a \o (b \o c)
BY ConcatAssociative, SMT

\* A part of bytes that are put together is what was put there.
LEMMA PartIs ==
  ASSUME NEW a \in Seq(Nat), NEW b \in Seq(Nat), NEW c \in Seq(Nat)
  PROVE  /\ Part(a \o (b \o c), Len(a), Len(b)) = b
         /\ (a \o (b \o c)) = (a \o b) \o c
         /\ Len(a \o b) = Len(a) + Len(b)
<1> DEFINE s == a \o (b \o c)
<1>1. Len(a) \in Nat /\ Len(b) \in Nat /\ Len(c) \in Nat
  BY LenProperties
<1>2. b \o c \in Seq(Nat) /\ Len(b \o c) = Len(b) + Len(c)
  BY ConcatProperties
<1>3. s \in Seq(Nat) /\ Len(s) = Len(a) + Len(b) + Len(c)
  BY <1>1, <1>2, ConcatProperties
<1>4. \A i \in 1 .. Len(b) : s[Len(a) + i] = b[i]
  <2> TAKE i \in 1 .. Len(b)
  <2>1. Len(a) + i \in 1 .. Len(a) + Len(b \o c)
        /\ ~(Len(a) + i <= Len(a)) /\ Len(a) + i - Len(a) = i
    BY <1>1, <1>2
  <2>2. s[Len(a) + i] = (b \o c)[i]
    BY <1>2, <2>1, ConcatProperties
  <2>3. i \in 1 .. Len(b) + Len(c) /\ i <= Len(b)
    BY <1>1
  <2>4. (b \o c)[i] = b[i]
    BY <2>3, ConcatProperties
  <2> QED BY <2>2, <2>4
<1> DEFINE p == SubSeq(s, Len(a) + 1, Len(a) + Len(b))
<1>5. p \in Seq(Nat) /\ Len(p) = Len(b) /\ \A i \in 1 .. Len(b) : p[i] = s[Len(a) + i]
  <2> HIDE DEF s
  <2>1. \A i \in Len(a) + 1 .. Len(a) + Len(b) : s[i] \in Nat
    BY <1>1, <1>3, ElementOfSeq
  <2>2. Len(a) + 1 \in Int /\ Len(a) + Len(b) \in Int
    BY <1>1
  <2>3. /\ p \in Seq(Nat)
        /\ Len(p) = IF Len(a) + 1 <= Len(a) + Len(b) THEN Len(a) + Len(b) - (Len(a) + 1) + 1 ELSE 0
        /\ \A i \in 1 .. Len(a) + Len(b) - (Len(a) + 1) + 1 : p[i] = s[Len(a) + 1 + i - 1]
    BY <2>1, <2>2, SubSeqProperties
  <2> HIDE DEF p
  <2>4. Len(p) = Len(b)
    BY <1>1, <2>3
  <2>5. \A i \in 1 .. Len(b) : p[i] = s[Len(a) + i]
    <3> TAKE i \in 1 .. Len(b)
    <3>1. i \in 1 .. Len(a) + Len(b) - (Len(a) + 1) + 1 /\ Len(a) + 1 + i - 1 = Len(a) + i
      BY <1>1
    <3> QED BY <2>3, <3>1
  <2> QED BY <2>3, <2>4, <2>5
<1>6. p = b
  <2> HIDE DEF p, s
  <2> QED BY <1>4, <1>5, SeqEqual
<1>7. Part(s, Len(a), Len(b)) = b
  <2> HIDE DEF s
  <2> QED BY <1>6 DEF Part
<1>8. s = (a \o b) \o c
  BY Assoc
<1>9. Len(a \o b) = Len(a) + Len(b)
  BY ConcatProperties
<1> HIDE DEF s, p
<1> QED
  BY <1>7, <1>8, <1>9 DEF s

\* What is left when the first bytes are taken.
LEMMA DropIs ==
  ASSUME NEW a \in Seq(Nat), NEW c \in Seq(Nat)
  PROVE  SubSeq(a \o c, Len(a) + 1, Len(a \o c)) = c
<1> DEFINE e == <<>>
<1>1. e \in Seq(Nat)
  BY EmptySeq
<1>2. c \o e = c
  BY ConcatEmptySeq
<1>3. Len(a \o c) = Len(a) + Len(c)
  BY ConcatProperties
<1> HIDE DEF e
<1>4. Part(a \o (c \o e), Len(a), Len(c)) = c
  BY <1>1, PartIs
<1> QED
  BY <1>2, <1>3, <1>4 DEF Part

SixFields(m, x1, x2, x3, x4, x5, x6, r) ==
  /\ {x1, x2, x3, x4, x5, x6, r} \subseteq Seq(Nat)
  /\ m = x1 \o x2 \o x3 \o x4 \o x5 \o x6

\* Six fields and what follows them: each is where the lengths of those before it
\* add up to.
LEMMA FieldsAre ==
  ASSUME NEW x1, NEW x2, NEW x3, NEW x4, NEW x5, NEW x6, NEW r,
         NEW m, SixFields(m, x1, x2, x3, x4, x5, x6, r)
  PROVE  /\ m \in Seq(Nat) /\ m \o r \in Seq(Nat)
         /\ Len(m) = Len(x1) + Len(x2) + Len(x3) + Len(x4) + Len(x5) + Len(x6)
         /\ Len(m \o r) = Len(m) + Len(r)
         /\ Part(m \o r, 0, Len(x1)) = x1
         /\ Part(m \o r, Len(x1), Len(x2)) = x2
         /\ Part(m \o r, Len(x1) + Len(x2), Len(x3)) = x3
         /\ Part(m \o r, Len(x1) + Len(x2) + Len(x3), Len(x4)) = x4
         /\ Part(m \o r, Len(x1) + Len(x2) + Len(x3) + Len(x4), Len(x5)) = x5
         /\ Part(m \o r, Len(x1) + Len(x2) + Len(x3) + Len(x4) + Len(x5), Len(x6)) = x6
<1> DEFINE y2 == x1 \o x2
           y3 == y2 \o x3
           y4 == y3 \o x4
           y5 == y4 \o x5
           z5 == x6 \o r
           z4 == x5 \o z5
           z3 == x4 \o z4
           z2 == x3 \o z3
           z1 == x2 \o z2
           s == m \o r
<1>1. s = m \o r
  OBVIOUS
<1>2. y2 = x1 \o x2
  OBVIOUS
<1>3. y3 = y2 \o x3
  OBVIOUS
<1>4. y4 = y3 \o x4
  OBVIOUS
<1>5. y5 = y4 \o x5
  OBVIOUS
<1>6. m = y5 \o x6
  BY DEF SixFields
<1>7. z1 = x2 \o z2
  OBVIOUS
<1>8. z2 = x3 \o z3
  OBVIOUS
<1>9. z3 = x4 \o z4
  OBVIOUS
<1>10. z4 = x5 \o z5
  OBVIOUS
<1>11. z5 = x6 \o r
  OBVIOUS
<1> HIDE DEF y2, y3, y4, y5, z1, z2, z3, z4, z5, s
<1>12. x1 \in Seq(Nat)
  BY DEF SixFields
<1>13. x2 \in Seq(Nat)
  BY DEF SixFields
<1>14. x3 \in Seq(Nat)
  BY DEF SixFields
<1>15. x4 \in Seq(Nat)
  BY DEF SixFields
<1>16. x5 \in Seq(Nat)
  BY DEF SixFields
<1>17. x6 \in Seq(Nat)
  BY DEF SixFields
<1>18. r \in Seq(Nat)
  BY DEF SixFields
<1>19. y2 \in Seq(Nat) /\ Len(y2) = Len(x1) + Len(x2)
  BY <1>2, <1>12, <1>13, ConcatProperties
<1>20. y3 \in Seq(Nat) /\ Len(y3) = Len(y2) + Len(x3)
  BY <1>3, <1>19, <1>14, ConcatProperties
<1>21. y4 \in Seq(Nat) /\ Len(y4) = Len(y3) + Len(x4)
  BY <1>4, <1>20, <1>15, ConcatProperties
<1>22. y5 \in Seq(Nat) /\ Len(y5) = Len(y4) + Len(x5)
  BY <1>5, <1>21, <1>16, ConcatProperties
<1>23. m \in Seq(Nat) /\ Len(m) = Len(y5) + Len(x6)
  BY <1>6, <1>22, <1>17, ConcatProperties
<1>24. z5 \in Seq(Nat)
  BY <1>11, <1>18, <1>17, ConcatProperties
<1>25. z4 \in Seq(Nat)
  BY <1>10, <1>24, <1>16, ConcatProperties
<1>26. z3 \in Seq(Nat)
  BY <1>9, <1>25, <1>15, ConcatProperties
<1>27. z2 \in Seq(Nat)
  BY <1>8, <1>26, <1>14, ConcatProperties
<1>28. z1 \in Seq(Nat)
  BY <1>7, <1>27, <1>13, ConcatProperties
<1>29. s = y5 \o z5
  <2>1. (y5 \o x6) \o r = y5 \o (x6 \o r)
    BY <1>22, <1>18, <1>17, Assoc
  <2> QED BY <1>1, <1>6, <1>11, <2>1
<1>30. s = y4 \o z4
  <2>1. (y4 \o x5) \o z5 = y4 \o (x5 \o z5)
    BY <1>21, <1>24, <1>16, Assoc
  <2> QED BY <1>29, <1>5, <1>10, <2>1
<1>31. s = y3 \o z3
  <2>1. (y3 \o x4) \o z4 = y3 \o (x4 \o z4)
    BY <1>20, <1>25, <1>15, Assoc
  <2> QED BY <1>30, <1>4, <1>9, <2>1
<1>32. s = y2 \o z2
  <2>1. (y2 \o x3) \o z3 = y2 \o (x3 \o z3)
    BY <1>19, <1>26, <1>14, Assoc
  <2> QED BY <1>31, <1>3, <1>8, <2>1
<1>33. s = x1 \o z1
  <2>1. (x1 \o x2) \o z2 = x1 \o (x2 \o z2)
    BY <1>12, <1>27, <1>13, Assoc
  <2> QED BY <1>32, <1>2, <1>7, <2>1
<1>34. Part(s, Len(x1), Len(x2)) = x2
  <2>1. s = x1 \o (x2 \o z2)
    BY <1>33, <1>7
  <2> QED BY <2>1, <1>12, <1>27, <1>13, PartIs
<1>35. Part(s, Len(y2), Len(x3)) = x3
  <2>1. s = y2 \o (x3 \o z3)
    BY <1>32, <1>8
  <2> QED BY <2>1, <1>19, <1>26, <1>14, PartIs
<1>36. Part(s, Len(y3), Len(x4)) = x4
  <2>1. s = y3 \o (x4 \o z4)
    BY <1>31, <1>9
  <2> QED BY <2>1, <1>20, <1>25, <1>15, PartIs
<1>37. Part(s, Len(y4), Len(x5)) = x5
  <2>1. s = y4 \o (x5 \o z5)
    BY <1>30, <1>10
  <2> QED BY <2>1, <1>21, <1>24, <1>16, PartIs
<1>38. Part(s, Len(y5), Len(x6)) = x6
  <2>1. s = y5 \o (x6 \o r)
    BY <1>29, <1>11
  <2> QED BY <2>1, <1>22, <1>18, <1>17, PartIs
<1>39. Part(s, 0, Len(x1)) = x1
  <2> DEFINE e == <<>>
  <2>1. e \in Seq(Nat) /\ Len(e) = 0
    BY EmptySeq
  <2>2. e \o (x1 \o z1) = x1 \o z1
    <3>1. x1 \o z1 \in Seq(Nat)
      BY <1>28, <1>12, ConcatProperties
    <3> QED BY <3>1, ConcatEmptySeq
  <2> HIDE DEF e
  <2>3. Part(e \o (x1 \o z1), Len(e), Len(x1)) = x1
    BY <1>28, <1>12, <2>1, PartIs
  <2> QED BY <1>33, <2>1, <2>2, <2>3
<1>40. s \in Seq(Nat) /\ Len(s) = Len(m) + Len(r)
  BY <1>1, <1>23, <1>18, ConcatProperties
<1> QED
  BY <1>1, <1>19, <1>20, <1>21, <1>22, <1>23, <1>34, <1>35, <1>36, <1>37, <1>38, <1>39, <1>40

-----------------------------------------------------------------------------
(* Headers: MakeMsg, ReadMsg.                                               *)

\* A letter tells its type.
LEMMA KindOfLetter ==
  ASSUME NEW t \in AllKinds
  PROVE  Letter[t] \in Nat /\ KindOf(Letter[t]) = t
<1>1. \A u \in AllKinds : Letter[u] = Letter[t] => u = t
  BY DEF AllKinds, Letter
<1>2. Letter[t] \in Nat
  BY DEF AllKinds, Letter
<1>3. t \in {u \in AllKinds : Letter[u] = Letter[t]}
  OBVIOUS
<1>4. \A u : u = (CHOOSE v \in AllKinds : Letter[v] = Letter[t]) => u = t
  BY <1>1, <1>3
<1> QED BY <1>2, <1>3, <1>4 DEF KindOf

\* The fields that some headers have and some have not.
NameSizeOf(h) == IF h.t \in Named THEN Fixnum(Len(h.name), 3) ELSE <<>>
WaitOf(h) ==
  IF h.t = "e" THEN Fixnum(h.wait, 8) ELSE IF h.t = "h" THEN Fixnum(h.wait, 4) ELSE <<>>

\* What MakeMsg is given, and how long each field of a header is.
LEMMA SoundIs ==
  ASSUME NEW h, Sound(h)
  PROVE  /\ h = [t |-> h.t, id |-> h.id, name |-> h.name, wait |-> h.wait, size |-> h.size]
         /\ h.t \in AllKinds
         /\ h.id \in Seq(Nat) /\ Len(h.id) = IF h.t \in NoId THEN 0 ELSE 4
         /\ h.name \in Seq(Nat) /\ Len(h.name) \in Nat /\ Len(h.name) < Power(3)
         /\ h.t \notin Named => h.name = <<>> /\ Len(h.name) = 0
         /\ h.t \in Named => Len(h.name) >= 1
         /\ h.wait \in Nat /\ h.size \in Nat /\ h.size < Power(8)
         /\ h.t = "e" => h.wait < Power(8)
         /\ h.t = "h" => h.wait < Power(4)
         /\ h.t \notin {"e", "h"} => h.wait = 0
<1>1. h \in Headers
  BY DEF Sound
<1>2. h = [t |-> h.t, id |-> h.id, name |-> h.name, wait |-> h.wait, size |-> h.size]
  BY <1>1 DEF Headers
<1>3. h.t \in AllKinds /\ h.name \in Seq(Nat) /\ h.wait \in Int /\ h.size \in Int
  BY <1>1 DEF Headers, Sound
<1>4. h.id \in Seq(Nat) /\ Len(h.id) = IF h.t \in NoId THEN 0 ELSE 4
  BY <1>1, EmptySeq, WireAssumption DEF Headers, Sound
<1>5. Len(h.name) \in Nat /\ Len(h.name) < Power(3)
  BY <1>3, LenProperties DEF Sound
<1>6. h.t \notin Named => h.name = <<>> /\ Len(h.name) = 0
  BY EmptySeq DEF Sound
<1>7. h.t \in Named => Len(h.name) >= 1
  BY <1>3, EmptySeq DEF Sound
<1>8. Power(4) \in Nat /\ Power(8) \in Nat
  BY HalfIs
<1>9. h.size \in Nat /\ h.size < Power(8)
  BY <1>3, <1>8 DEF Sound
<1>10. h.wait \in Nat /\ (h.t = "e" => h.wait < Power(8)) /\ (h.t = "h" => h.wait < Power(4))
       /\ (h.t \notin {"e", "h"} => h.wait = 0)
  <2>1. h.wait \in 0 .. (CASE h.t = "e" -> Power(8) [] h.t = "h" -> Power(4) [] OTHER -> 1) - 1
    BY DEF Sound
  <2>2. CASE h.t = "e"
    BY <2>1, <2>2, <1>8, <1>3
  <2>3. CASE h.t = "h"
    BY <2>1, <2>3, <1>8, <1>3
  <2>4. CASE h.t \notin {"e", "h"}
    BY <2>1, <2>4, <1>3
  <2> QED BY <2>2, <2>3, <2>4
<1> QED BY <1>2, <1>3, <1>4, <1>5, <1>6, <1>7, <1>9, <1>10

\* Where the fields of a header are.
LEMMA LayoutIs ==
  ASSUME NEW h, Sound(h), NEW r \in Seq(Nat)
  PROVE  /\ SixFields(MakeMsg(h), <<Letter[h.t]>>, h.id, NameSizeOf(h), h.name, WaitOf(h),
                      Fixnum(h.size, 8), r)
         /\ Len(<<Letter[h.t]>>) = 1 /\ Len(h.id) = IF h.t \in NoId THEN 0 ELSE 4
         /\ Len(NameSizeOf(h)) = IF h.t \in Named THEN 3 ELSE 0
         /\ Len(WaitOf(h)) = IF h.t = "e" THEN 8 ELSE IF h.t = "h" THEN 4 ELSE 0
         /\ Len(Fixnum(h.size, 8)) = 8
<1> DEFINE x1 == <<Letter[h.t]>>
           x2 == h.id
           x3 == NameSizeOf(h)
           x4 == h.name
           x5 == WaitOf(h)
           x6 == Fixnum(h.size, 8)
           e  == <<>>
<1>1. x1 \in Seq(Nat) /\ Len(x1) = 1
  BY SoundIs, KindOfLetter
<1>2. x2 \in Seq(Nat) /\ Len(x2) = IF h.t \in NoId THEN 0 ELSE 4
  BY SoundIs
<1>3. x3 \in Seq(Nat) /\ Len(x3) = IF h.t \in Named THEN 3 ELSE 0
  <2>1. PICK k : k = Len(h.name)
    OBVIOUS
  <2>2. k \in Nat /\ 3 \in Nat
    BY <2>1, SoundIs
  <2>3. Fixnum(k, 3) \in Seq(Nat) /\ Len(Fixnum(k, 3)) = 3
    BY <2>2, DigitsRoundTrip
  <2>4. <<>> \in Seq(Nat) /\ Len(<<>>) = 0
    BY EmptySeq
  <2>5. CASE h.t \in Named
    <3>1. x3 = Fixnum(k, 3)
      BY <2>1, <2>5 DEF NameSizeOf
    <3> HIDE DEF x3
    <3> QED BY <2>3, <2>5, <3>1
  <2>6. CASE h.t \notin Named
    <3>1. x3 = <<>>
      BY <2>6 DEF NameSizeOf
    <3> HIDE DEF x3
    <3> QED BY <2>4, <2>6, <3>1
  <2> QED BY <2>5, <2>6
<1>4. x4 \in Seq(Nat)
  BY SoundIs
<1>5. x5 \in Seq(Nat) /\ Len(x5) = IF h.t = "e" THEN 8 ELSE IF h.t = "h" THEN 4 ELSE 0
  <2>1. h.wait \in Nat
    BY SoundIs
  <2>2. /\ Fixnum(h.wait, 8) \in Seq(Nat) /\ Len(Fixnum(h.wait, 8)) = 8
        /\ Fixnum(h.wait, 4) \in Seq(Nat) /\ Len(Fixnum(h.wait, 4)) = 4
    BY <2>1, DigitsRoundTrip
  <2>3. e \in Seq(Nat) /\ Len(e) = 0
    BY EmptySeq
  <2>4. CASE h.t = "e"
    BY <2>2, <2>4 DEF WaitOf
  <2>5. CASE h.t = "h"
    BY <2>2, <2>5 DEF WaitOf
  <2>6. CASE h.t \notin {"e", "h"}
    BY <2>3, <2>6 DEF WaitOf
  <2> QED BY <2>4, <2>5, <2>6
<1>6. x6 \in Seq(Nat) /\ Len(x6) = 8
  <2>1. h.size \in Nat /\ 8 \in Nat
    BY SoundIs
  <2> QED BY <2>1, DigitsRoundTrip
<1>7. MakeMsg(h) = x1 \o x2 \o x3 \o x4 \o x5 \o x6
  <2>0. e \in Seq(Nat)
    BY EmptySeq
  <2>1. CASE h.t = "h"
    <3>1. x2 = e /\ x3 = e /\ x4 = e /\ x5 = Fixnum(h.wait, 4)
      BY <2>1, SoundIs DEF Named, NoId, NameSizeOf, WaitOf, Sound
    <3>2. x1 \o x2 \o x3 \o x4 = x1
      <4>1. x1 \o e = x1
        BY <1>1, ConcatEmptySeq
      <4> QED BY <4>1, <3>1
    <3>3. MakeMsg(h) = x1 \o x5 \o x6
      BY <2>1, <3>1 DEF MakeMsg
    <3> QED BY <3>2, <3>3
  <2>2. CASE h.t \in Named
    <3>1. x4 # e /\ h.t # "e" /\ h.t # "h" /\ x5 = e /\ x3 = Fixnum(Len(x4), 3)
      BY <2>2 DEF Named, NameSizeOf, WaitOf, Sound
    <3>2. MakeMsg(h) = x1 \o x2 \o (x3 \o x4) \o e \o x6
      BY <3>1 DEF MakeMsg
    <3>3. x1 \o x2 \in Seq(Nat)
      BY <1>1, <1>2, ConcatProperties
    <3> HIDE DEF x1, x2, x3, x4, x5, x6, e
    <3>4. ((x1 \o x2) \o x3) \o x4 = (x1 \o x2) \o (x3 \o x4)
      BY <3>3, <1>3, <1>4, Assoc
    <3> QED BY <3>1, <3>2, <3>4
  <2>3. CASE h.t = "e"
    <3>1. x3 = e /\ x4 = e /\ x5 = WaitField(h)
      BY <2>3, SoundIs DEF Named, NameSizeOf, WaitOf, WaitField
    <3>2. MakeMsg(h) = x1 \o x2 \o e \o x5 \o x6
      BY <2>3, <3>1 DEF MakeMsg
    <3>3. x1 \o x2 \o e = x1 \o x2
      BY <1>1, <1>2, ConcatProperties, ConcatEmptySeq
    <3> HIDE DEF x1, x2, x3, x4, x5, x6, e
    <3> QED BY <3>1, <3>2, <3>3
  <2>4. CASE h.t \notin Named \cup {"e", "h"}
    <3>1. x3 = e /\ x4 = e /\ x5 = e
      BY <2>4, SoundIs DEF NameSizeOf, WaitOf
    <3>2. MakeMsg(h) = x1 \o x2 \o e \o e \o x6
      BY <2>4, <3>1 DEF MakeMsg
    <3>3. x1 \o x2 \o e = x1 \o x2
      BY <1>1, <1>2, ConcatProperties, ConcatEmptySeq
    <3> HIDE DEF x1, x2, x3, x4, x5, x6, e
    <3> QED BY <3>1, <3>2, <3>3
  <2> QED BY <2>1, <2>2, <2>3, <2>4
<1>8. {x1, x2, x3, x4, x5, x6, r} \subseteq Seq(Nat)
  <2> HIDE DEF x1, x2, x3, x4, x5, x6
  <2> QED BY <1>1, <1>2, <1>3, <1>4, <1>5, <1>6
<1> QED BY <1>1, <1>2, <1>3, <1>5, <1>6, <1>7, <1>8 DEF SixFields

\* How many bytes come before the name, and before the size of the payload.
NameAt(h) == IF h.t \in NoId THEN 1 ELSE 5
SizeAt(h) ==
  IF h.t = "e" THEN 13 ELSE IF h.t = "h" THEN 5
  ELSE IF h.t \in Named THEN NameAt(h) + 3 + Len(h.name) ELSE NameAt(h)

\* The bytes b of a header that MakeMsg wrote, and of what follows it.
Framed(h, m, r, b) == Sound(h) /\ r \in Seq(Nat) /\ m = MakeMsg(h) /\ b = m \o r

\* How long they are.
LEMMA FramedLen ==
  ASSUME NEW h, NEW m, NEW r, NEW b, Framed(h, m, r, b)
  PROVE  /\ m \in Seq(Nat) /\ b \in Seq(Nat)
         /\ Len(r) \in Nat /\ Len(m) = SizeAt(h) + 8 /\ Len(b) = SizeAt(h) + 8 + Len(r)
         /\ SizeAt(h) \in Nat /\ SizeAt(h) >= 1
         /\ h.t # "f" => SizeAt(h) >= 5
         /\ KindOf(b[1]) = h.t
<1> DEFINE x1 == <<Letter[h.t]>>
           x2 == h.id
           x3 == NameSizeOf(h)
           x4 == h.name
           x5 == WaitOf(h)
           x6 == Fixnum(h.size, 8)
<1>1. SixFields(m, x1, x2, x3, x4, x5, x6, r)
  BY LayoutIs DEF Framed
<1>2. /\ Len(x1) = 1 /\ Len(x2) = IF h.t \in NoId THEN 0 ELSE 4
      /\ Len(x3) = IF h.t \in Named THEN 3 ELSE 0
      /\ Len(x5) = IF h.t = "e" THEN 8 ELSE IF h.t = "h" THEN 4 ELSE 0
      /\ Len(x6) = 8
  BY LayoutIs DEF Framed
<1>3. /\ h.t \in AllKinds /\ Len(x4) \in Nat
      /\ h.t \notin Named => Len(x4) = 0
      /\ h.t \in Named => Len(x4) >= 1
  BY SoundIs DEF Framed
<1>y. Len(x1) = 1 /\ Len(x6) = 8
  BY <1>2
<1>x. x1 = <<Letter[h.t]>> /\ Len(x4) = Len(h.name)
  OBVIOUS
<1> HIDE DEF x1, x2, x3, x4, x5, x6
<1>4. /\ m \in Seq(Nat) /\ m \o r \in Seq(Nat) /\ Len(m \o r) = Len(m) + Len(r)
      /\ Len(m) = Len(x1) + Len(x2) + Len(x3) + Len(x4) + Len(x5) + Len(x6)
      /\ Part(m \o r, 0, Len(x1)) = x1
  BY <1>1, FieldsAre
<1>5. m \in Seq(Nat) /\ b \in Seq(Nat)
  BY <1>4 DEF Framed
<1>6. Len(r) \in Nat /\ Len(b) = Len(m) + Len(r)
  BY <1>4, LenProperties DEF Framed
<1>7. Len(m) = Len(x1) + Len(x2) + Len(x3) + Len(x4) + Len(x5) + Len(x6)
  BY <1>4
<1>8. /\ Len(m) = SizeAt(h) + 8 /\ SizeAt(h) \in Nat /\ SizeAt(h) >= 1
      /\ h.t # "f" => SizeAt(h) >= 5
  <2>1. CASE h.t = "e"
    <3>1. h.t \notin Named /\ h.t \notin NoId /\ SizeAt(h) = 13
      BY <2>1 DEF Named, NoId, SizeAt
    <3>2. Len(x2) = 4 /\ Len(x3) = 0 /\ Len(x4) = 0 /\ Len(x5) = 8
      BY <3>1, <2>1, <1>2, <1>3
    <3> QED BY <3>1, <3>2, <1>y, <1>7
  <2>2. CASE h.t = "h"
    <3>1. h.t \notin Named /\ h.t \in NoId /\ SizeAt(h) = 5
      BY <2>2 DEF Named, NoId, SizeAt
    <3>2. Len(x2) = 0 /\ Len(x3) = 0 /\ Len(x4) = 0 /\ Len(x5) = 4
      BY <3>1, <2>2, <1>2, <1>3
    <3> QED BY <3>1, <3>2, <1>y, <1>7
  <2>3. CASE h.t \in Named
    <3>1. h.t # "e" /\ h.t # "h" /\ h.t # "f"
      BY <2>3 DEF Named
    <3>2. SizeAt(h) = (IF h.t \in NoId THEN 1 ELSE 5) + 3 + Len(x4)
      BY <3>1, <2>3, <1>x DEF SizeAt, NameAt
    <3>3. Len(x3) = 3 /\ Len(x5) = 0
      BY <3>1, <2>3, <1>2
    <3> QED BY <3>1, <3>2, <3>3, <1>2, <1>3, <1>7
  <2>4. CASE h.t \notin Named \cup {"e", "h"}
    <3>1. h.t \notin Named /\ h.t # "e" /\ h.t # "h" /\ (h.t \in NoId => h.t = "f")
      BY <2>4 DEF NoId, Named
    <3>2. SizeAt(h) = IF h.t \in NoId THEN 1 ELSE 5
      BY <3>1 DEF SizeAt, NameAt
    <3>3. Len(x3) = 0 /\ Len(x4) = 0 /\ Len(x5) = 0
      BY <3>1, <1>2, <1>3
    <3> QED BY <3>1, <3>2, <3>3, <1>2, <1>7
  <2> QED BY <2>1, <2>2, <2>3, <2>4
<1>9. KindOf(b[1]) = h.t
  <2>0. PICK s : s = SubSeq(b, 1, 1)
    OBVIOUS
  <2>1. s = <<Letter[h.t]>>
    BY <2>0, <1>4, <1>2, <1>x DEF Part, Framed
  <2>2. 1 \in 1 .. Len(b)
    BY <1>6, <1>8
  <2>3. b[1] \in Nat
    BY <2>2, <1>5, ElementOfSeq
  <2>4. SubSeq(b, 1, 1)[1] = b[1]
    <3>1. \A i \in 1 .. 1 : b[i] \in Nat
      BY <2>3
    <3>2. 1 \in Int /\ 1 \in 1 .. 1 - 1 + 1
      OBVIOUS
    <3>3. SubSeq(b, 1, 1)[1] = b[1 + 1 - 1]
      BY <3>1, <3>2, SubSeqProperties
    <3> QED BY <3>3
  <2>6. s[1] = b[1]
    BY <2>0, <2>4
  <2>5. Letter[h.t] = b[1]
    BY <2>1, <2>6
  <2> QED BY <2>5, <1>3, KindOfLetter
<1> QED BY <1>5, <1>6, <1>8, <1>9

\* What a reader finds in them.
LEMMA HeaderIs ==
  ASSUME NEW h, NEW m, NEW r, NEW b, Framed(h, m, r, b)
  PROVE  /\ h.t \notin NoId => Part(b, 1, 4) = h.id
         /\ h.t \in Named => Part(b, NameAt(h), 3) = Fixnum(Len(h.name), 3)
         /\ h.t \in Named => Part(b, NameAt(h) + 3, Len(h.name)) = h.name
         /\ h.t = "e" => Part(b, 5, 8) = Fixnum(h.wait, 8)
         /\ h.t = "h" => Part(b, 1, 4) = Fixnum(h.wait, 4)
         /\ Part(b, SizeAt(h), 8) = Fixnum(h.size, 8)
<1> DEFINE x1 == <<Letter[h.t]>>
           x2 == h.id
           x3 == NameSizeOf(h)
           x4 == h.name
           x5 == WaitOf(h)
           x6 == Fixnum(h.size, 8)
<1>1. SixFields(m, x1, x2, x3, x4, x5, x6, r)
  BY LayoutIs DEF Framed
<1>2. /\ Len(x1) = 1 /\ Len(x2) = IF h.t \in NoId THEN 0 ELSE 4
      /\ Len(x3) = IF h.t \in Named THEN 3 ELSE 0
      /\ Len(x5) = IF h.t = "e" THEN 8 ELSE IF h.t = "h" THEN 4 ELSE 0
      /\ Len(x6) = 8
  BY LayoutIs DEF Framed
<1>3. Len(x4) \in Nat /\ (h.t \notin Named => Len(x4) = 0)
  BY SoundIs DEF Framed
<1>4. /\ h.t \in Named => x3 = Fixnum(Len(x4), 3)
      /\ h.t = "e" => x5 = Fixnum(h.wait, 8)
      /\ h.t = "h" => x5 = Fixnum(h.wait, 4)
  BY DEF NameSizeOf, WaitOf
<1>5. x2 = h.id /\ x4 = h.name /\ x6 = Fixnum(h.size, 8)
  OBVIOUS
<1>6. b = m \o r
  BY DEF Framed
<1>7. /\ h.t \in Named => SizeAt(h) = NameAt(h) + 3 + Len(x4) /\ h.t # "e" /\ h.t # "h"
      /\ h.t = "e" => SizeAt(h) = 13 /\ h.t \notin NoId /\ h.t \notin Named
      /\ h.t = "h" => SizeAt(h) = 5 /\ h.t \in NoId /\ h.t \notin Named
      /\ h.t \notin Named \cup {"e", "h"} => SizeAt(h) = NameAt(h)
      /\ NameAt(h) = IF h.t \in NoId THEN 1 ELSE 5
  BY DEF SizeAt, NameAt, Named, NoId
<1> HIDE DEF x1, x2, x3, x4, x5, x6
<1>8. /\ Part(m \o r, Len(x1), Len(x2)) = x2
      /\ Part(m \o r, Len(x1) + Len(x2), Len(x3)) = x3
      /\ Part(m \o r, Len(x1) + Len(x2) + Len(x3), Len(x4)) = x4
      /\ Part(m \o r, Len(x1) + Len(x2) + Len(x3) + Len(x4), Len(x5)) = x5
      /\ Part(m \o r, Len(x1) + Len(x2) + Len(x3) + Len(x4) + Len(x5), Len(x6)) = x6
  BY <1>1, FieldsAre
<1>9. /\ Part(b, Len(x1), Len(x2)) = x2
      /\ Part(b, Len(x1) + Len(x2), Len(x3)) = x3
      /\ Part(b, Len(x1) + Len(x2) + Len(x3), Len(x4)) = x4
      /\ Part(b, Len(x1) + Len(x2) + Len(x3) + Len(x4), Len(x5)) = x5
      /\ Part(b, Len(x1) + Len(x2) + Len(x3) + Len(x4) + Len(x5), Len(x6)) = x6
  BY <1>6, <1>8
<1>10. h.t \notin NoId => Part(b, 1, 4) = h.id
  BY <1>9, <1>2, <1>5
<1>11. h.t \in Named => Part(b, NameAt(h), 3) = Fixnum(Len(h.name), 3)
  <2>1. Len(x1) + Len(x2) = NameAt(h)
    BY <1>2, <1>7
  <2> QED BY <2>1, <1>9, <1>2, <1>4, <1>5
<1>12. h.t \in Named => Part(b, NameAt(h) + 3, Len(h.name)) = h.name
  <2>1. Len(x1) + Len(x2) = NameAt(h)
    BY <1>2, <1>7
  <2> QED BY <2>1, <1>9, <1>2, <1>5
<1>13. h.t = "e" => Part(b, 5, 8) = Fixnum(h.wait, 8)
  <2> HAVE h.t = "e"
  <2>1. Len(x1) + Len(x2) + Len(x3) + Len(x4) = 5 /\ Len(x5) = 8
    BY <1>2, <1>3, <1>7
  <2> QED BY <2>1, <1>9, <1>4
<1>14. h.t = "h" => Part(b, 1, 4) = Fixnum(h.wait, 4)
  <2> HAVE h.t = "h"
  <2>1. Len(x1) + Len(x2) + Len(x3) + Len(x4) = 1 /\ Len(x5) = 4
    BY <1>2, <1>3, <1>7
  <2> QED BY <2>1, <1>9, <1>4
<1>15. Part(b, SizeAt(h), 8) = Fixnum(h.size, 8)
  <2>1. Len(x1) + Len(x2) + Len(x3) + Len(x4) + Len(x5) = SizeAt(h)
    BY <1>2, <1>3, <1>7
  <2> QED BY <2>1, <1>9, <1>2, <1>5
<1> QED BY <1>5, <1>10, <1>11, <1>12, <1>13, <1>14, <1>15

\* The numbers in it.
LEMMA NumbersAre ==
  ASSUME NEW h, Sound(h)
  PROVE  /\ h.size \in Nat /\ ParseUint(Fixnum(h.size, 8)) = h.size
         /\ Len(h.name) \in Nat /\ ParseUint(Fixnum(Len(h.name), 3)) = Len(h.name)
         /\ h.t = "e" => h.wait \in Nat /\ ParseUint(Fixnum(h.wait, 8)) = h.wait
         /\ h.t = "h" => h.wait \in Nat /\ ParseUint(Fixnum(h.wait, 4)) = h.wait
<1>1. /\ h.size \in Nat /\ h.size < Power(8)
      /\ Len(h.name) \in Nat /\ Len(h.name) < Power(3)
      /\ h.wait \in Nat
      /\ h.t = "e" => h.wait < Power(8)
      /\ h.t = "h" => h.wait < Power(4)
  BY SoundIs
<1>2. 3 \in Nat /\ 4 \in Nat /\ 8 \in Nat
  OBVIOUS
<1>3. ParseUint(Fixnum(h.size, 8)) = h.size
  BY <1>1, <1>2, DigitsRoundTrip
<1>4. ParseUint(Fixnum(Len(h.name), 3)) = Len(h.name)
  BY <1>1, <1>2, DigitsRoundTrip
<1>5. h.t = "e" => ParseUint(Fixnum(h.wait, 8)) = h.wait
  BY <1>1, <1>2, DigitsRoundTrip
<1>6. h.t = "h" => ParseUint(Fixnum(h.wait, 4)) = h.wait
  BY <1>1, <1>2, DigitsRoundTrip
<1> QED BY <1>1, <1>3, <1>4, <1>5, <1>6

\* ReadRest reads a header that MakeMsg wrote, to its end and no further.
LEMMA ReadRestIs ==
  ASSUME NEW h, NEW m, NEW r, NEW b, Framed(h, m, r, b), NEW n \in Nat, n >= 9,
         h.t # "f" => n = 13
  PROVE  \E k \in Nat : ReadRest(b, n) = Got(h, k) /\ (h.t # "f" => k = Len(m))
<1>1. /\ Len(r) \in Nat /\ Len(m) = SizeAt(h) + 8 /\ Len(b) = SizeAt(h) + 8 + Len(r)
      /\ SizeAt(h) \in Nat /\ SizeAt(h) >= 1
      /\ h.t # "f" => SizeAt(h) >= 5
  BY FramedLen
<1>2. KindOf(b[1]) = h.t
  BY FramedLen
<1>3. /\ h.t \notin NoId => Part(b, 1, 4) = h.id
      /\ h.t \in Named => Part(b, NameAt(h), 3) = Fixnum(Len(h.name), 3)
      /\ h.t \in Named => Part(b, NameAt(h) + 3, Len(h.name)) = h.name
      /\ h.t = "e" => Part(b, 5, 8) = Fixnum(h.wait, 8)
      /\ h.t = "h" => Part(b, 1, 4) = Fixnum(h.wait, 4)
      /\ Part(b, SizeAt(h), 8) = Fixnum(h.size, 8)
  BY HeaderIs
<1>5. /\ h = [t |-> h.t, id |-> h.id, name |-> h.name, wait |-> h.wait, size |-> h.size]
      /\ h.t \in AllKinds
      /\ Len(h.id) = IF h.t \in NoId THEN 0 ELSE 4
      /\ h.t \in NoId => h.id = <<>>
      /\ h.t \notin Named => h.name = <<>>
      /\ h.t \notin {"e", "h"} => h.wait = 0
  BY SoundIs DEF Sound, Framed
<1>6. /\ h.size \in Nat /\ ParseUint(Fixnum(h.size, 8)) = h.size
      /\ Len(h.name) \in Nat /\ ParseUint(Fixnum(Len(h.name), 3)) = Len(h.name)
      /\ h.t = "e" => h.wait \in Nat /\ ParseUint(Fixnum(h.wait, 8)) = h.wait
      /\ h.t = "h" => h.wait \in Nat /\ ParseUint(Fixnum(h.wait, 4)) = h.wait
  BY NumbersAre DEF Framed
<1> DEFINE k == IF SizeAt(h) + 8 > n THEN SizeAt(h) + 8 ELSE n
<1>7. k \in Nat /\ (h.t # "f" => k = Len(m))
  BY <1>1
<1>8. ASSUME NEW g, g = [t |-> h.t, id |-> h.id, name |-> h.name, wait |-> h.wait, size |-> 0]
      PROVE  Finish(b, n, g, SizeAt(h)) = Got(h, k)
  <2>1. [g EXCEPT !.size = h.size] = h
    BY <1>8, <1>5
  <2>2. ParseUint(Part(b, SizeAt(h), 8)) = h.size
    BY <1>3, <1>6
  <2> QED BY <2>1, <2>2, <1>6 DEF Finish
<1> DEFINE g0 == [t |-> h.t, id |-> h.id, name |-> <<>>, wait |-> 0, size |-> 0]
<1>9. /\ (IF h.t \in NoId THEN <<>> ELSE Part(b, 1, 4)) = h.id
      /\ h.t # "h" => 1 + Len(h.id) = NameAt(h)
  BY <1>3, <1>5 DEF NameAt, NoId
<1>10. ReadRest(b, n) = Got(h, k)
  <2>1. CASE h.t = "h"
    <3>0. ParseUint(Part(b, 1, 4)) = h.wait /\ ~(h.wait < 0)
      BY <2>1, <1>3, <1>6
    <3>a. h.t \in NoId /\ h.id = <<>> /\ h.t \notin Named /\ h.t # "e"
      BY <2>1, <1>5 DEF NoId, Named
    <3>1. ReadRest(b, n) = Finish(b, n, [g0 EXCEPT !.wait = h.wait], 5)
      <4> DEFINE g == [t |-> h.t, id |-> h.id, name |-> <<>>, wait |-> 0, size |-> 0]
      <4>1. ReadRest(b, n) = LET load == ParseUint(Part(b, 1, 4))
            IN IF load < 0 THEN Failed ELSE Finish(b, n, [g EXCEPT !.wait = load], 5)
        BY <2>1, <3>a, <1>2 DEF ReadRest
      <4> HIDE DEF g
      <4>2. ReadRest(b, n) = Finish(b, n, [g EXCEPT !.wait = h.wait], 5)
        BY <4>1, <3>0
      <4> QED BY <4>2 DEF g
    <3>2. SizeAt(h) = 5
      BY <2>1 DEF SizeAt
    <3>3. [g0 EXCEPT !.wait = h.wait]
             = [t |-> h.t, id |-> h.id, name |-> h.name, wait |-> h.wait, size |-> 0]
      BY <2>1, <1>5 DEF Named
    <3> QED BY <3>1, <3>2, <3>3, <1>8
  <2>2. CASE h.t \in Named
    <3>0. h.t # "h" /\ h.t # "e" /\ SizeAt(h) = NameAt(h) + 3 + Len(h.name) /\ NameAt(h) \in Nat
      BY <2>2 DEF Named, SizeAt, NameAt
    <3>1. ParseUint(Part(b, NameAt(h), 3)) = Len(h.name)
      BY <2>2, <1>3, <1>6
    <3>2. ~(Len(b) < NameAt(h) + 3 + Len(h.name) + 8) /\ ~(Len(h.name) < 0)
      BY <3>0, <1>1, <1>6
    <3>3. ReadRest(b, n) = Finish(b, n, [g0 EXCEPT !.name = Part(b, NameAt(h) + 3, Len(h.name))],
                                  NameAt(h) + 3 + Len(h.name))
      BY <2>2, <3>0, <3>1, <3>2, <1>2, <1>9 DEF ReadRest
    <3>4. [g0 EXCEPT !.name = Part(b, NameAt(h) + 3, Len(h.name))]
             = [t |-> h.t, id |-> h.id, name |-> h.name, wait |-> h.wait, size |-> 0]
      BY <2>2, <3>0, <1>3, <1>5
    <3> QED BY <3>0, <3>3, <3>4, <1>8
  <2>3. CASE h.t = "e"
    <3>0. h.t \notin Named /\ h.t \notin NoId /\ SizeAt(h) = 13 /\ NameAt(h) = 5
      BY <2>3 DEF Named, NoId, SizeAt, NameAt
    <3>1. ParseUint(Part(b, 5, 8)) = h.wait /\ ~(h.wait < 0)
      BY <2>3, <1>3, <1>6
    <3>2. ~(Len(b) < 5 + 16)
      BY <3>0, <1>1
    <3>3. ReadRest(b, n) = Finish(b, n, [g0 EXCEPT !.wait = h.wait], 13)
      BY <2>3, <3>0, <3>1, <3>2, <1>2, <1>9 DEF ReadRest
    <3>4. [g0 EXCEPT !.wait = h.wait]
             = [t |-> h.t, id |-> h.id, name |-> h.name, wait |-> h.wait, size |-> 0]
      BY <3>0, <1>5
    <3> QED BY <3>0, <3>3, <3>4, <1>8
  <2>4. CASE h.t \notin Named \cup {"e", "h"}
    <3>0. h.t \notin Named /\ h.t # "e" /\ h.t # "h" /\ SizeAt(h) = NameAt(h)
      BY <2>4 DEF SizeAt, NameAt
    <3>3. ReadRest(b, n) = Finish(b, n, g0, NameAt(h))
      BY <3>0, <1>2, <1>9 DEF ReadRest
    <3>4. g0 = [t |-> h.t, id |-> h.id, name |-> h.name, wait |-> h.wait, size |-> 0]
      BY <3>0, <1>5
    <3> QED BY <3>0, <3>3, <3>4, <1>8
  <2> QED BY <2>1, <2>2, <2>3, <2>4
<1> QED BY <1>7, <1>10

\* ReadMsg on the bytes of a message and of what follows it.  A protocol error may be too
\* short to be read before the writer closes.
THEOREM HeaderRoundTrip ==
  ASSUME NEW h, Sound(h), NEW r \in Seq(Nat)
  PROVE  \/ \E k \in Nat : /\ ReadMsg(MakeMsg(h) \o r) = Got(h, k)
                           /\ h.t # "f" => k = Len(MakeMsg(h))
         \/ h.t = "f" /\ ~eof /\ ReadMsg(MakeMsg(h) \o r) = NotYet
<1>1. PICK m, b : m = MakeMsg(h) /\ b = m \o r
  OBVIOUS
<1>0. Framed(h, m, r, b)
  BY <1>1 DEF Framed
<1>2. /\ Len(b) = SizeAt(h) + 8 + Len(r) /\ SizeAt(h) \in Nat /\ SizeAt(h) >= 1 /\ Len(r) \in Nat
      /\ h.t # "f" => SizeAt(h) >= 5
  BY <1>0, FramedLen
<1>3. KindOf(b[1]) = h.t
  BY <1>0, FramedLen
<1>4. CASE Len(b) >= 13
  <2>1. ReadMsg(b) = ReadRest(b, 13)
    BY <1>4 DEF ReadMsg, FirstRead, MinSize
  <2>2. \E k \in Nat : ReadRest(b, 13) = Got(h, k) /\ (h.t # "f" => k = Len(m))
    BY <1>0, ReadRestIs
  <2> QED BY <2>1, <2>2, <1>1
<1>5. CASE Len(b) < 13
  <2>1. h.t = "f" /\ Len(b) >= 9 /\ Len(b) \in Nat
    BY <1>5, <1>2
  <2>2. CASE eof
    <3>1. ReadMsg(b) = ReadRest(b, Len(b))
      BY <2>1, <2>2, <1>3, <1>5 DEF ReadMsg, FirstRead, MinSize
    <3>2. \E k \in Nat : ReadRest(b, Len(b)) = Got(h, k) /\ (h.t # "f" => k = Len(m))
      BY <2>1, <1>0, ReadRestIs
    <3> QED BY <3>1, <3>2, <1>1
  <2>3. CASE ~eof
    <3>1. ReadMsg(b) = NotYet
      BY <2>1, <2>3, <1>5 DEF ReadMsg, FirstRead, MinSize, Short
    <3> QED BY <3>1, <2>1, <2>3, <1>1
  <2> QED BY <2>2, <2>3
<1> QED BY <1>2, <1>4, <1>5

-----------------------------------------------------------------------------
(* The messages that callers make.                                          *)

\* What the callers of MakeMsg pass.
IsCall(c) ==
  /\ c = [h |-> c.h, payload |-> c.payload]
  /\ c.h = [t |-> c.h.t, id |-> c.h.id, name |-> c.h.name, wait |-> c.h.wait, size |-> c.h.size]
  /\ c.h.t \in AllKinds
  /\ c.h.id = IF c.h.t \in NoId THEN <<>> ELSE Id
  /\ c.h.t \in Named => c.h.name \in Names
  /\ c.h.t \notin Named => c.h.name = <<>>
  /\ c.h.t \in NoPayload => c.payload = <<>>
  /\ c.h.t \notin NoPayload => c.payload \in Payloads /\ c.h.size = Len(c.payload)
  /\ c.h.t = "e" => c.h.wait \in Waits
  /\ c.h.t = "h" => c.h.wait \in Loads /\ c.h.size \in Times
  /\ c.h.t = "f" => c.h.size \in Codes
  /\ c.h.t \notin {"e", "h"} => c.h.wait = 0

\* What the fields of a call are.
LEMMA CallsAre ==
  ASSUME NEW c \in Calls
  PROVE  IsCall(c)
<1>1. ASSUME NEW t \in Kinds \cap Named, NEW op \in Names, NEW p \in Payloads,
             c = [h |-> Header(t, op, 0, Len(p)), payload |-> p]
      PROVE  IsCall(c)
  BY <1>1 DEF IsCall, Header, Named, NoPayload, AllKinds
<1>2. ASSUME NEW t \in Kinds \cap {"p", "R", "S", "E"}, NEW p \in Payloads,
             c = [h |-> Header(t, <<>>, 0, Len(p)), payload |-> p]
      PROVE  IsCall(c)
  BY <1>2 DEF IsCall, Header, Named, NoPayload, AllKinds
<1>3. ASSUME NEW w \in Waits, NEW p \in Payloads,
             c = [h |-> Header("e", <<>>, w, Len(p)), payload |-> p]
      PROVE  IsCall(c)
  BY <1>3 DEF IsCall, Header, Named, NoPayload, AllKinds
<1>4. ASSUME NEW w \in Loads, NEW time \in Times,
             c = [h |-> Header("h", <<>>, w, time), payload |-> <<>>]
      PROVE  IsCall(c)
  BY <1>4 DEF IsCall, Header, Named, NoPayload, AllKinds
<1>5. ASSUME NEW code \in Codes,
             c = [h |-> Header("f", <<>>, 0, code), payload |-> <<>>]
      PROVE  IsCall(c)
  BY <1>5 DEF IsCall, Header, Named, NoPayload, AllKinds
<1>6. \/ \E t \in Kinds \cap Named, op \in Names, p \in Payloads :
            c = [h |-> Header(t, op, 0, Len(p)), payload |-> p]
      \/ \E t \in Kinds \cap {"p", "R", "S", "E"}, p \in Payloads :
            c = [h |-> Header(t, <<>>, 0, Len(p)), payload |-> p]
      \/ \E w \in Waits, p \in Payloads :
            c = [h |-> Header("e", <<>>, w, Len(p)), payload |-> p]
      \/ \E w \in Loads, time \in Times :
            c = [h |-> Header("h", <<>>, w, time), payload |-> <<>>]
      \/ \E code \in Codes : c = [h |-> Header("f", <<>>, 0, code), payload |-> <<>>]
  BY DEF Calls
<1> QED BY <1>1, <1>2, <1>3, <1>4, <1>5, <1>6

\* The message that a reader should make of it, with strings of JavaScript or not.
Made(c, name, payload) ==
  [h |-> [c.h EXCEPT !.name = name, !.size = IF c.h.t \in NoPayload THEN @ ELSE Len(payload)],
   payload |-> payload]

\* Such a message, field by field.
LEMMA MadeIs ==
  ASSUME NEW c, IsCall(c), NEW name, NEW payload
  PROVE  /\ Made(c, name, payload).payload = payload
         /\ Made(c, name, payload).h
              = [t |-> c.h.t, id |-> c.h.id, name |-> name, wait |-> c.h.wait,
                 size |-> IF c.h.t \in NoPayload THEN c.h.size ELSE Len(payload)]
BY DEF Made, IsCall

\* It is a message that MakeMsg may be given, if its name and payload are not too long.
LEMMA MadeSound ==
  ASSUME NEW c, IsCall(c),
         NEW name \in Seq(Nat), Len(name) < Power(3), name = <<>> <=> c.h.t \notin Named,
         NEW payload \in Seq(Nat), Len(payload) < Power(8),
         c.h.t \in NoPayload => payload = <<>>
  PROVE  SoundMsg(Made(c, name, payload))
<1> DEFINE m == Made(c, name, payload)
           g == m.h
<1>1. m.payload = payload
  BY DEF Made
<1>2. g = [t |-> c.h.t, id |-> c.h.id, name |-> name, wait |-> c.h.wait,
           size |-> IF c.h.t \in NoPayload THEN c.h.size ELSE Len(payload)]
  BY MadeIs
<1>3. m = [h |-> g, payload |-> payload]
  BY DEF Made
<1>4. /\ g.t = c.h.t /\ g.id = c.h.id /\ g.name = name /\ g.wait = c.h.wait
      /\ g.size = IF c.h.t \in NoPayload THEN c.h.size ELSE Len(payload)
  BY <1>2
<1>5. c.h.t \in AllKinds /\ c.h.id = IF c.h.t \in NoId THEN <<>> ELSE Id
  BY DEF IsCall
<1>6. Power(4) \in Nat /\ Power(8) \in Nat
  BY HalfIs
<1>7. c.h.wait \in 0 .. (CASE c.h.t = "e" -> Power(8) [] c.h.t = "h" -> Power(4) [] OTHER -> 1) - 1
  <2>1. CASE c.h.t = "e"
    <3>1. c.h.wait \in 0 .. Power(8) - 1
      BY <2>1, WireAssumption DEF IsCall
    <3> QED BY <3>1, <2>1
  <2>2. CASE c.h.t = "h"
    <3>1. c.h.wait \in 0 .. Power(4) - 1
      BY <2>2, WireAssumption DEF IsCall
    <3> QED BY <3>1, <2>2
  <2>3. CASE c.h.t \notin {"e", "h"}
    <3>1. c.h.wait = 0
      BY <2>3 DEF IsCall
    <3> QED BY <3>1, <2>3
  <2> QED BY <2>1, <2>2, <2>3
<1>8. c.h.wait \in Int
  BY <1>6, WireAssumption DEF IsCall
<1>9. g.size \in 0 .. Power(8) - 1
  <2>1. CASE c.h.t \in NoPayload
    <3>1. c.h.size \in 0 .. Power(8) - 1
      BY <2>1, WireAssumption DEF IsCall, NoPayload
    <3> QED BY <3>1, <2>1, <1>4
  <2>2. CASE c.h.t \notin NoPayload
    <3>1. Len(payload) \in Nat
      BY LenProperties
    <3> QED BY <3>1, <2>2, <1>4, <1>6
  <2> QED BY <2>1, <2>2
<1>10. c.h.id \in Seq(Nat)
  BY <1>5, EmptySeq, WireAssumption
<1>11. g \in Headers
  <2>1. g.size \in Int
    BY <1>6, <1>9
  <2> HIDE DEF m
  <2>2. (IF c.h.t \in NoPayload THEN c.h.size ELSE Len(payload)) \in Int
    BY <2>1, <1>4
  <2> QED BY <2>2, <1>2, <1>5, <1>8, <1>10 DEF Headers
<1> HIDE DEF m
<1>12. m \in Messages
  BY <1>3, <1>11 DEF Messages
<1>13. g.t # "?"
  BY <1>4, <1>5 DEF AllKinds
<1>14. Sound(g)
  BY <1>4, <1>5, <1>7, <1>9, <1>11, <1>13 DEF Sound
<1>15. Len(m.payload) = IF g.t \in NoPayload THEN 0 ELSE g.size
  BY <1>1, <1>4, EmptySeq
<1>16. SoundMsg(m)
  BY <1>12, <1>14, <1>15 DEF SoundMsg
<1> QED BY <1>16 DEF m

\* Each call of Go's is a message as it is.
LEMMA GoCallSound ==
  ASSUME NamesNotEmpty, NEW c \in Calls
  PROVE  SoundMsg(c)
<1>1. IsCall(c)
  BY CallsAre
<1>2. c.h.name \in Seq(Nat) /\ Len(c.h.name) < Power(3)
  <2>1. CASE c.h.t \in Named
    BY <2>1, <1>1, WireAssumption DEF IsCall
  <2>2. CASE c.h.t \notin Named
    <3>1. c.h.name = <<>> /\ Power(3) \in Nat /\ Power(3) >= 1
      BY <2>2, <1>1, HalfIs, PowerGrows DEF IsCall
    <3> QED BY <3>1, EmptySeq
  <2> QED BY <2>1, <2>2
<1>3. c.h.name = <<>> <=> c.h.t \notin Named
  BY <1>1 DEF IsCall, NamesNotEmpty
<1>4. c.payload \in Seq(Nat) /\ Len(c.payload) < Power(8)
  <2>1. CASE c.h.t \notin NoPayload
    BY <2>1, <1>1, WireAssumption DEF IsCall
  <2>2. CASE c.h.t \in NoPayload
    <3>1. c.payload = <<>> /\ Power(8) \in Nat /\ Power(8) >= 1
      BY <2>2, <1>1, HalfIs, PowerGrows DEF IsCall
    <3> QED BY <3>1, EmptySeq
  <2> QED BY <2>1, <2>2
<1>5. c.h.t \in NoPayload => c.payload = <<>>
  BY <1>1 DEF IsCall
<1>6. SoundMsg(Made(c, c.h.name, c.payload))
  BY <1>1, <1>2, <1>3, <1>4, <1>5, MadeSound
<1>7. Made(c, c.h.name, c.payload) = c
  <2>1. (IF c.h.t \in NoPayload THEN c.h.size ELSE Len(c.payload)) = c.h.size
    BY <1>1 DEF IsCall
  <2>2. [c.h EXCEPT !.name = c.h.name, !.size = IF c.h.t \in NoPayload THEN @ ELSE Len(c.payload)]
          = c.h
    BY <2>1, <1>1 DEF IsCall
  <2> QED BY <2>2, <1>1 DEF Made, IsCall
<1> QED BY <1>6, <1>7

\* JavaScript's, with what it encodes.
LEMMA JsCallSound ==
  ASSUME NamesNotEmpty, NEW c \in Calls
  PROVE  SoundMsg(Meant(c)) /\ Meant(c) = Made(c, Encode(c.h.name), Encode(c.payload))
<1>1. IsCall(c)
  BY CallsAre
<1>0. /\ <<>> \in Seq(Nat) /\ Encode(<<>>) = <<>> /\ Len(<<>>) = 0
      /\ Power(3) \in Nat /\ Power(8) \in Nat /\ Power(3) >= 1 /\ Power(8) >= 1
  BY EmptySeq, EncodeType, HalfIs, PowerGrows
<1>2. c.h.name \in Seq(Nat)
  BY <1>0, <1>1, WireAssumption DEF IsCall
<1>3. c.payload \in Seq(Nat)
  BY <1>0, <1>1, WireAssumption DEF IsCall
<1>4. Encode(c.h.name) \in Seq(Nat) /\ Encode(c.payload) \in Seq(Nat)
  BY <1>2, <1>3, EncodeType
<1>5. Encode(c.h.name) = <<>> <=> c.h.t \notin Named
  BY <1>1, <1>2, EncodeType DEF IsCall, NamesNotEmpty
<1>6. Len(Encode(c.h.name)) < Power(3)
  BY <1>0, <1>1, WireJsAssumption DEF IsCall
<1>7. Len(Encode(c.payload)) < Power(8)
  BY <1>0, <1>1, WireJsAssumption DEF IsCall
<1>8. c.h.t \in NoPayload => Encode(c.payload) = <<>>
  BY <1>0, <1>1 DEF IsCall
<1>9. SoundMsg(Made(c, Encode(c.h.name), Encode(c.payload)))
  BY <1>1, <1>4, <1>5, <1>6, <1>7, <1>8, MadeSound
<1>10. Meant(c) = Made(c, Encode(c.h.name), Encode(c.payload))
  BY DEF Meant, Made
<1> QED BY <1>9, <1>10

-----------------------------------------------------------------------------
(* Pieces put together, and what is left of them.                           *)

Pieces(p, n, S) == p \in Seq(Seq(S)) /\ n = Len(p)

\* Each piece is a sequence.
LEMMA PiecesAre ==
  ASSUME NEW S, NEW n \in Nat, NEW p, Pieces(p, n, S)
  PROVE  \A i \in 1 .. n : p[i] \in Seq(S)
BY ElementOfSeq DEF Pieces

Grouped(a, b, c) == (a \o b) \o c = a \o (b \o c)
Three(a, b, c, S) == a \in Seq(S) /\ b \in Seq(S) /\ c \in Seq(S)

\* Three sequences are put together in any order.
LEMMA AssocIn ==
  ASSUME NEW S, NEW a, NEW b, NEW c, Three(a, b, c, S)
  PROVE  Grouped(a, b, c)
<1>1. a \in Seq(S) /\ b \in Seq(S) /\ c \in Seq(S)
  BY DEF Three
<1> QED BY <1>1, ConcatAssociative DEF Grouped

IsJoined(J, p, n, S) ==
  J \in [0 .. n -> Seq(S)] /\ J[0] = <<>> /\ \A i \in 1 .. n : J[i] = J[i - 1] \o p[i]

\* How pieces are put together.
LEMMA JoinedIs ==
  ASSUME NEW S, NEW n \in Nat, NEW pieces, Pieces(pieces, n, S)
  PROVE  IsJoined(Joined(pieces), pieces, n, S)
<1> DEFINE Q == Seq(S)
           step == [q \in (1 .. n) \X Q |-> q[2] \o pieces[q[1]]]
           Is(g) == g = [k \in 0 .. n |-> IF k = 0 THEN <<>> ELSE g[k - 1] \o pieces[k]]
           F == CHOOSE g : Is(g)
<1>1. <<>> \in Q
  BY EmptySeq
<1>0. \A i \in 1 .. n, s \in Q : s \o pieces[i] \in Q
  <2> TAKE i \in 1 .. n, s \in Q
  <2>1. pieces[i] \in Seq(S)
    BY PiecesAre
  <2> QED BY <2>1, ConcatProperties
<1>11. Joined(pieces) = F
  BY DEF Joined, Pieces
<1> SUFFICES /\ F \in [0 .. n -> Q] /\ F[0] = <<>>
             /\ \A i \in 1 .. n : F[i] = F[i - 1] \o pieces[i]
  BY <1>11 DEF IsJoined
<1> HIDE DEF Q
<1>2. step \in [(1 .. n) \X Q -> Q]
  BY <1>0
<1>3. PICK f : Follows(f, n, Q, <<>>, step)
  <2> HIDE DEF step
  <2> QED BY <1>1, <1>2, RecursionExists
<1>4. /\ f \in [0 .. n -> Q] /\ f[0] = <<>>
      /\ \A i \in 1 .. n : f[i] = f[i - 1] \o pieces[i]
  <2>1. /\ f \in [0 .. n -> Q] /\ f[0] = <<>>
        /\ \A i \in 1 .. n : f[i] = step[<<i, f[i - 1]>>]
    <3> HIDE DEF step
    <3> QED BY <1>3 DEF Follows
  <2>2. \A i \in 1 .. n : i - 1 \in 0 .. n /\ f[i - 1] \in Q
    BY <2>1
  <2>3. \A i \in 1 .. n, s \in Q : step[<<i, s>>] = s \o pieces[i]
    OBVIOUS
  <2> HIDE DEF step
  <2> QED BY <2>1, <2>2, <2>3
<1>5. Is(f)
  <2>1. f = [i \in 0 .. n |-> f[i]]
    BY <1>4
  <2>2. \A i \in 0 .. n : f[i] = IF i = 0 THEN <<>> ELSE f[i - 1] \o pieces[i]
    <3> TAKE i \in 0 .. n
    <3>1. i = 0 \/ i \in 1 .. n
      OBVIOUS
    <3> QED BY <1>4, <3>1
  <2> QED BY <2>1, <2>2
<1>6. Is(F)
  BY <1>5
<1>7. F = [i \in 0 .. n |-> F[i]] /\ \A k \in 0 .. n : F[k] = f[k]
  <2> HIDE DEF F
  <2>1. \A i \in 0 .. n : F[i] = IF i = 0 THEN <<>> ELSE F[i - 1] \o pieces[i]
    BY <1>6
  <2>2. F[0] = <<>>
    BY <2>1
  <2>3. \A i \in 1 .. n : F[i - 1] \in Q => F[i] = step[<<i, F[i - 1]>>]
    BY <2>1
  <2>5. Agrees(F, n, Q, <<>>, step)
    <3> HIDE DEF step
    <3> QED BY <2>2, <2>3 DEF Agrees
  <2>7. F = [i \in 0 .. n |-> F[i]]
    BY <1>6
  <2> HIDE DEF step, Is
  <2>6. \A k \in 0 .. n : F[k] = f[k]
    BY <1>3, <2>5, RecursionUnique
  <2> QED BY <2>6, <2>7
<1> HIDE DEF F
<1>8. F = f
  BY <1>7, <1>4
<1> QED
  BY <1>4, <1>8

SameTo(p, q, k) == \A i \in 1 .. k : p[i] = q[i]

\* It depends on the pieces up to there alone.
LEMMA JoinedSame ==
  ASSUME NEW S, NEW p, NEW q, NEW m \in Nat, NEW n \in Nat, Pieces(p, m, S), Pieces(q, n, S),
         NEW k \in Nat, k <= m, k <= n, SameTo(p, q, k)
  PROVE  Joined(p)[k] = Joined(q)[k]
<1> DEFINE T == {i \in Nat : i <= k => Joined(p)[i] = Joined(q)[i]}
<1>a. IsJoined(Joined(p), p, m, S)
  BY JoinedIs
<1>b. IsJoined(Joined(q), q, n, S)
  BY JoinedIs
<1>2. Joined(p)[0] = <<>> /\ \A i \in 1 .. m : Joined(p)[i] = Joined(p)[i - 1] \o p[i]
  BY <1>a DEF IsJoined
<1>3. Joined(q)[0] = <<>> /\ \A i \in 1 .. n : Joined(q)[i] = Joined(q)[i - 1] \o q[i]
  BY <1>b DEF IsJoined
<1>4. 0 \in T
  BY <1>2, <1>3
<1>5. ASSUME NEW i \in 1 .. k, i - 1 \in T PROVE i \in T
  <2>1. i \in 1 .. m /\ i \in 1 .. n /\ Joined(p)[i - 1] = Joined(q)[i - 1] /\ p[i] = q[i]
    BY <1>5 DEF SameTo
  <2>2. Joined(p)[i] = Joined(p)[i - 1] \o p[i] /\ Joined(q)[i] = Joined(q)[i - 1] \o q[i]
    BY <2>1, <1>2, <1>3
  <2>3. Joined(p)[i] = Joined(q)[i]
    BY <2>1, <2>2
  <2> QED BY <2>3
<1> HIDE DEF T
<1>6. k \in T
  BY <1>4, <1>5, Induct
<1> QED BY <1>6 DEF T

Remains(p, n, k, S) == \E r \in Seq(S) : Joined(p)[n] = Joined(p)[k] \o r

\* Of all the pieces, those up to some place come first.
LEMMA JoinedRest ==
  ASSUME NEW S, NEW n \in Nat, NEW p, Pieces(p, n, S), NEW k \in Nat, k <= n
  PROVE  Remains(p, n, k, S)
<1> DEFINE J == Joined(p)
           T == {d \in Nat : k + d <= n => \E r \in Seq(S) : J[k + d] = J[k] \o r}
<1>1. J \in [0 .. n -> Seq(S)] /\ \A i \in 1 .. n : J[i] = J[i - 1] \o p[i]
  BY JoinedIs DEF IsJoined
<1> HIDE DEF J
<1>2. 0 \in T
  <2>1. <<>> \in Seq(S) /\ J[k] \in Seq(S) /\ k + 0 = k
    BY <1>1, EmptySeq
  <2>2. J[k] = J[k] \o <<>>
    BY <2>1, ConcatEmptySeq
  <2> QED BY <2>1, <2>2
<1>3. ASSUME NEW d \in 1 .. n - k, d - 1 \in T PROVE d \in T
  <2>0. k + (d - 1) <= n /\ d - 1 \in Nat
    BY <1>3
  <2>1. PICK r \in Seq(S) : J[k + (d - 1)] = J[k] \o r
    BY <1>3, <2>0
  <2>2. k + d \in 1 .. n /\ k + (d - 1) = (k + d) - 1
    BY <1>3
  <2>3. p[k + d] \in Seq(S) /\ J[k] \in Seq(S)
    BY <2>2, <1>1, PiecesAre
  <2>4. J[k + d] = (J[k] \o r) \o p[k + d]
    BY <2>1, <2>2, <1>1
  <2>5. (J[k] \o r) \o p[k + d] = J[k] \o (r \o p[k + d])
    <3>0. PICK a, c : a = J[k] /\ c = p[k + d]
      OBVIOUS
    <3>1. Three(a, r, c, S)
      BY <2>3, <3>0 DEF Three
    <3>2. (a \o r) \o c = a \o (r \o c)
      BY <3>1, AssocIn DEF Grouped
    <3> QED BY <3>0, <3>2
  <2>6. r \o p[k + d] \in Seq(S)
    BY <2>3, ConcatProperties
  <2>7. \E s \in Seq(S) : J[k + d] = J[k] \o s
    BY <2>4, <2>5, <2>6
  <2> QED BY <2>7
<1> HIDE DEF T
<1>4. n - k \in Nat /\ k + (n - k) = n
  OBVIOUS
<1>5. n - k \in T
  BY <1>2, <1>3, <1>4, Induct
<1>6. \E r \in Seq(S) : J[k + (n - k)] = J[k] \o r
  BY <1>5, <1>4 DEF T
<1> QED BY <1>4, <1>6 DEF J, Remains

OneMore(p, q, n) ==
  /\ \A k \in 0 .. n : Joined(q)[k] = Joined(p)[k]
  /\ Joined(q)[n + 1] = Joined(p)[n] \o q[n + 1]

\* A piece more, after what there was.
LEMMA JoinedMore ==
  ASSUME NEW S, NEW n \in Nat, NEW p, NEW q, Pieces(p, n, S), Pieces(q, n + 1, S),
         SameTo(p, q, n)
  PROVE  OneMore(p, q, n)
<1>0. n + 1 \in Nat
  OBVIOUS
<1>1. ASSUME NEW k \in 0 .. n PROVE Joined(q)[k] = Joined(p)[k]
  <2>1. k \in Nat /\ k <= n /\ k <= n + 1 /\ SameTo(p, q, k)
    BY DEF SameTo
  <2> QED BY <2>1, <1>0, JoinedSame
<1>2. n + 1 \in 1 .. n + 1 /\ (n + 1) - 1 = n /\ n \in 0 .. n
  OBVIOUS
<1>3. \A i \in 1 .. n + 1 : Joined(q)[i] = Joined(q)[i - 1] \o q[i]
  BY <1>0, JoinedIs DEF IsJoined
<1> QED BY <1>1, <1>2, <1>3 DEF OneMore

LeftAt(p, n, k, left, S) == left \in Seq(S) /\ Joined(p)[n] = Joined(p)[k] \o left

\* What is left after the first k pieces: the next of them, and what follows it.
LEMMA JoinedLeft ==
  ASSUME NEW S, NEW n \in Nat, NEW p, Pieces(p, n, S), NEW k \in Nat, k < n,
         NEW left, LeftAt(p, n, k, left, S)
  PROVE  \E r \in Seq(S) : left = p[k + 1] \o r /\ LeftAt(p, n, k + 1, r, S)
<1>1. Joined(p) \in [0 .. n -> Seq(S)] /\ \A i \in 1 .. n : Joined(p)[i] = Joined(p)[i - 1] \o p[i]
  BY JoinedIs DEF IsJoined
<1>2. k + 1 \in Nat /\ k + 1 <= n /\ k + 1 \in 1 .. n /\ (k + 1) - 1 = k /\ k \in 0 .. n
  OBVIOUS
<1>3. PICK r \in Seq(S) : Joined(p)[n] = Joined(p)[k + 1] \o r
  <2>1. Remains(p, n, k + 1, S)
    BY <1>2, JoinedRest
  <2> QED BY <2>1 DEF Remains
<1>4. PICK a, b : a = Joined(p)[k] /\ b = p[k + 1]
  OBVIOUS
<1>x. a \in Seq(S) /\ b \in Seq(S)
  BY <1>1, <1>2, <1>4, PiecesAre
<1>5. Joined(p)[k + 1] = a \o b
  BY <1>1, <1>2, <1>4
<1>6. (a \o b) \o r = a \o (b \o r)
  <2>1. Three(a, b, r, S)
    BY <1>x DEF Three
  <2> QED BY <2>1, AssocIn DEF Grouped
<1>7. b \o r \in Seq(S)
  BY <1>x, ConcatProperties
<1>8. left \in Seq(S) /\ a \o left = a \o (b \o r)
  BY <1>3, <1>4, <1>5, <1>6 DEF LeftAt
<1>9. left = b \o r
  BY <1>x, <1>7, <1>8, ConcatSimplifications, Zenon
<1> QED BY <1>3, <1>4, <1>9 DEF LeftAt

\* Nothing is left after all of them.
LEMMA JoinedNoneLeft ==
  ASSUME NEW S, NEW n \in Nat, NEW p, Pieces(p, n, S),
         NEW left, LeftAt(p, n, n, left, S)
  PROVE  left = <<>>
<1>1. Joined(p)[n] \in Seq(S)
  <2>1. Joined(p) \in [0 .. n -> Seq(S)]
    BY JoinedIs DEF IsJoined
  <2> QED BY <2>1
<1> QED BY <1>1, ConcatEqualIffEmpty DEF LeftAt

-----------------------------------------------------------------------------
(* protocol.js: makeMsg, sendMsg, parseMsg.                                 *)

\* How long two sequences are together.
LEMMA LenCat ==
  ASSUME NEW a, NEW b, a \in Seq(Nat), b \in Seq(Nat)
  PROVE  Len(a \o b) = Len(a) + Len(b)
BY ConcatProperties

\* What protocol.js writes for the types it sends is what MakeMsg writes.
LEMMA JsMakeMsgIs ==
  ASSUME NamesNotEmpty, NEW c \in Calls, c.h.t # "e", NEW h, NEW size,
         h = JsHeader(c, size),
         size = Len(Encode(c.payload))
  PROVE  /\ JsMakeMsg(h) = MakeMsg(Meant(c).h)
         /\ (c.h.name = <<>> \/ SizeOf(c.h.name) = Len(Encode(c.h.name))) =>
               TextMakeMsg(h) = MakeMsg(Meant(c).h)
<1> DEFINE N == Encode(c.h.name)
<1>1. IsCall(c)
  BY CallsAre
<1>2. SoundMsg(Meant(c)) /\ Meant(c) = Made(c, N, Encode(c.payload))
  BY JsCallSound
<1>3. PICK g : g = Meant(c).h
  OBVIOUS
<1>4. Sound(g)
  BY <1>2, <1>3 DEF SoundMsg
<1>5. /\ g.t = c.h.t /\ g.id = c.h.id /\ g.name = N /\ g.wait = c.h.wait
      /\ g.size = IF c.h.t \in NoPayload THEN c.h.size ELSE size
  <2>1. g = [t |-> c.h.t, id |-> c.h.id, name |-> N, wait |-> c.h.wait,
             size |-> IF c.h.t \in NoPayload THEN c.h.size ELSE size]
    BY <1>1, <1>2, <1>3, MadeIs
  <2> HIDE DEF N
  <2> QED BY <2>1
<1>6. /\ h.t = g.t /\ h.id = g.id /\ h.name = c.h.name /\ h.wait = g.wait /\ h.size = g.size
  <2>1. h = [t |-> c.h.t, id |-> c.h.id, name |-> c.h.name, wait |-> c.h.wait,
             size |-> IF c.h.t \in NoPayload THEN c.h.size ELSE size]
    BY <1>1 DEF IsCall, JsHeader
  <2> HIDE DEF N
  <2> QED BY <2>1, <1>5
<1> DEFINE L  == <<Letter[g.t]>>
           nm == IF N = <<>> THEN <<>> ELSE Fixnum(Len(N), 3) \o N
           W  == IF g.t = "h" THEN Fixnum(g.wait, 4) ELSE <<>>
           Z  == Fixnum(g.size, 8)
           inner == L \o g.id \o nm \o W \o Z
           M  == MakeMsg(g)
<1>7. JsWait(h) = W
  BY <1>5, <1>6 DEF JsWait
<1>8. L \in Seq(Nat) /\ g.id \in Seq(Nat)
  BY <1>4, SoundIs, KindOfLetter
<1>9. inner = M
  <2>1. CASE g.t = "h"
    <3>1. g.id = <<>> /\ nm = <<>>
      BY <2>1, <1>4, <1>5 DEF Sound, NoId, Named
    <3>2. L \o <<>> \o <<>> = L
      BY <1>8, ConcatEmptySeq
    <3>3. M = L \o W \o Z
      BY <2>1 DEF MakeMsg
    <3> HIDE DEF L, nm, W, Z, M
    <3> QED BY <3>1, <3>2, <3>3
  <2>2. CASE g.t # "h"
    <3>1. g.t # "e" /\ W = <<>> /\ g.name = N
      BY <2>2, <1>5
    <3>2. M = L \o g.id \o nm \o <<>> \o Z
      BY <2>2, <3>1 DEF MakeMsg
    <3> HIDE DEF L, nm, W, Z, M
    <3> QED BY <3>1, <3>2
  <2> QED BY <2>1, <2>2
<1> DEFINE room == 9 + Len(g.id) + Len(nm) + (IF g.t = "h" THEN 4 ELSE 0)
<1>10. M \in Seq(Nat) /\ Len(M) = SizeAt(g) + 8
  <2>1. <<>> \in Seq(Nat)
    BY EmptySeq
  <2>2. Framed(g, M, <<>>, M \o <<>>)
    BY <2>1, <1>4 DEF Framed
  <2> HIDE DEF M
  <2> QED BY <2>2, FramedLen
<1>11. Len(M) = room
  <2>1. /\ Len(g.id) = IF g.t \in NoId THEN 0 ELSE 4
        /\ Len(g.name) \in Nat /\ g.name \in Seq(Nat)
        /\ g.name = <<>> <=> g.t \notin Named
    BY <1>4, SoundIs DEF Sound
  <2>2. Fixnum(Len(g.name), 3) \in Seq(Nat) /\ Len(Fixnum(Len(g.name), 3)) = 3
    BY <2>1, DigitsRoundTrip
  <2>3. Len(nm) = IF g.t \in Named THEN 3 + Len(g.name) ELSE 0
    <3>1. CASE g.t \in Named
      <4>0. PICK F : F = Fixnum(Len(g.name), 3)
        OBVIOUS
      <4>1. F \in Seq(Nat) /\ Len(F) = 3 /\ g.name \in Seq(Nat)
        BY <4>0, <2>1, <2>2
      <4>2. Len(F \o g.name) = 3 + Len(g.name)
        BY <4>1, LenCat
      <4>3. nm = F \o g.name
        BY <4>0, <3>1, <2>1, <1>5
      <4> HIDE DEF nm
      <4> QED BY <4>2, <4>3, <3>1
    <3>2. CASE g.t \notin Named
      BY <3>2, <2>1, <1>5, EmptySeq
    <3> QED BY <3>1, <3>2
  <2>4. g.t # "e"
    BY <1>5
  <2>9. Len(M) = SizeAt(g) + 8
    BY <1>10
  <2> HIDE DEF M, nm
  <2>5. CASE g.t = "h"
    <3>1. g.t \notin Named /\ g.t \in NoId /\ SizeAt(g) = 5
      BY <2>5 DEF Named, NoId, SizeAt
    <3> QED BY <3>1, <2>1, <2>3, <2>5, <1>10
  <2>6. CASE g.t # "h"
    <3>0. NameAt(g) = 1 + Len(g.id) /\ Len(g.id) \in Nat
      BY <2>1 DEF NameAt
    <3>1. CASE g.t \in Named
      <4>1. SizeAt(g) = NameAt(g) + 3 + Len(g.name) /\ Len(nm) = 3 + Len(g.name)
        BY <2>3, <2>4, <2>6, <3>1 DEF SizeAt
      <4>2. Len(g.name) \in Nat
        BY <2>1
      <4>3. PICK x \in Nat, y \in Nat : x = Len(g.id) /\ y = Len(g.name)
        BY <3>0, <4>2
      <4>4. Len(M) = (1 + x) + 3 + y + 8 /\ Len(nm) = 3 + y
        BY <4>1, <4>3, <3>0, <2>9
      <4>5. room = 9 + x + Len(nm) + 0
        BY <4>3, <2>6
      <4> HIDE DEF room
      <4> QED BY <4>4, <4>5
    <3>2. CASE g.t \notin Named
      <4>1. SizeAt(g) = NameAt(g) /\ Len(nm) = 0
        BY <2>3, <2>4, <2>6, <3>2 DEF SizeAt
      <4> QED BY <4>1, <3>0, <2>6, <2>9
    <3> QED BY <3>1, <3>2
  <2> QED BY <2>5, <2>6
<1>12. JsMakeMsg(h) = SubSeq(inner, 1, room)
  <2>1. (IF Encode(h.name) = <<>> THEN <<>>
         ELSE Fixnum(Len(Encode(h.name)), 3) \o Encode(h.name)) = nm
    BY <1>6
  <2> HIDE DEF nm, W
  <2>2. JsMakeMsg(h) = SubSeq(<<Letter[h.t]>> \o h.id \o nm \o JsWait(h) \o Fixnum(h.size, 8), 1,
                              9 + Len(h.id) + Len(nm) + (IF h.t = "h" THEN 4 ELSE 0))
    BY <2>1 DEF JsMakeMsg
  <2> QED BY <2>2, <1>6, <1>7
<1>13. SubSeq(M, 1, Len(M)) = M
  BY <1>10, SubSeqFull
<1>14. JsMakeMsg(h) = M
  <2> HIDE DEF inner, room, M
  <2> QED BY <1>9, <1>11, <1>12, <1>13
<1>15. ASSUME c.h.name = <<>> \/ SizeOf(c.h.name) = Len(N) PROVE TextMakeMsg(h) = M
  <2>1. c.h.name = <<>> <=> N = <<>>
    BY <1>1, <1>4, <1>5, WireAssumption, EncodeType, EmptySeq DEF IsCall
  <2>2. (IF h.name = <<>> THEN <<>> ELSE Fixnum(SizeOf(h.name), 3) \o Encode(h.name)) = nm
    BY <2>1, <1>6, <1>15
  <2>3. TextMakeMsg(h) = inner
    BY <1>6, <1>7, <2>2 DEF TextMakeMsg
  <2> HIDE DEF inner, M
  <2> QED BY <2>3, <1>9
<1> QED BY <1>3, <1>14, <1>15

\* sendMsg writes the bytes of the message that it is to write.
LEMMA JsMsgIs ==
  ASSUME NamesNotEmpty, StringsPlain, pair \in Pairs, pair \in {"js-go", "text-go"},
         NEW c \in Calls, c.h.t \in SentBy(pair), pair = "text-go" => c.payload \in TextPayloads
  PROVE  JsMsg(c) = BytesOf(Meant(c))
<1>1. IsCall(c)
  BY CallsAre
<1>2. SoundMsg(Meant(c)) /\ Meant(c) = Made(c, Encode(c.h.name), Encode(c.payload))
  BY JsCallSound
<1>3. Meant(c).payload = Encode(c.payload)
  BY DEF Meant
<1>4. c.h.t # "e"
  BY DEF SentBy, JsSent
<1>5. <<>> \in Seq(Nat)
  BY EmptySeq
<1>6. c.h.name \in Seq(Nat) /\ c.payload \in Seq(Nat)
  BY <1>1, <1>5, WireAssumption DEF IsCall
<1>7. Encode(c.payload) \in Seq(Nat) /\ Len(Encode(c.payload)) \in Nat
  BY <1>6, EncodeType, LenProperties
<1> DEFINE size == IF pair = "js-go" THEN SizeOf(c.payload) ELSE Length(c.payload)
           h == JsHeader(c, size)
<1>8. size = Len(Encode(c.payload))
  <2>1. CASE pair = "js-go"
    <3>1. Plain(c.payload)
      BY <2>1, <1>1 DEF IsCall, StringsPlain, Plain
    <3> QED BY <2>1, <3>1, <1>6, SizeOfPlain
  <2>2. CASE pair = "text-go"
    <3>1. \A i \in DOMAIN c.payload : c.payload[i] < TwoBytes
      BY <2>2, <1>1 DEF IsCall, StringsPlain
    <3> QED BY <2>2, <3>1, <1>6, LengthPlain
  <2> QED BY <2>1, <2>2
<1>9. (IF size = 0 THEN <<>> ELSE Encode(c.payload)) = Encode(c.payload)
  BY <1>7, <1>8, EmptySeq
<1>10. /\ JsMakeMsg(h) = MakeMsg(Meant(c).h)
       /\ (c.h.name = <<>> \/ SizeOf(c.h.name) = Len(Encode(c.h.name))) =>
               TextMakeMsg(h) = MakeMsg(Meant(c).h)
  <2> HIDE DEF size
  <2> QED BY <1>4, <1>8, JsMakeMsgIs
<1>11. (IF pair = "js-go" THEN JsMakeMsg(h) ELSE TextMakeMsg(h)) = MakeMsg(Meant(c).h)
  <2>1. CASE pair = "js-go"
    BY <2>1, <1>10
  <2>2. CASE pair = "text-go"
    <3>1. c.h.name = <<>> \/ SizeOf(c.h.name) = Len(Encode(c.h.name))
      <4>1. CASE c.h.t \in Named
        <5>1. Plain(c.h.name)
          BY <2>2, <4>1, <1>1 DEF IsCall, StringsPlain
        <5> QED BY <5>1, <1>6, SizeOfPlain
      <4>2. CASE c.h.t \notin Named
        BY <4>2, <1>1 DEF IsCall
      <4> QED BY <4>1, <4>2
    <3> HIDE DEF h
    <3> QED BY <2>2, <3>1, <1>10
  <2> QED BY <2>1, <2>2
<1>12. JsMsg(c) = (IF pair = "js-go" THEN JsMakeMsg(h) ELSE TextMakeMsg(h))
                  \o (IF size = 0 THEN <<>> ELSE Encode(c.payload))
  BY DEF JsMsg
<1> HIDE DEF size, h
<1> QED BY <1>3, <1>9, <1>11, <1>12 DEF BytesOf

\* subarray, where there are all the bytes it asks for, and where it asks for none.
LEMMA SubarrayIs ==
  ASSUME NEW b \in Seq(Nat), NEW z \in Nat, NEW n \in Nat
  PROVE  /\ z + n <= Len(b) => Subarray(b, z, n) = Part(b, z, n)
         /\ n = 0 => Subarray(b, z, n) = <<>>
<1>1. PICK k \in Nat : k = Len(b)
  BY LenProperties
<1>2. ASSUME z + n <= Len(b) PROVE Subarray(b, z, n) = Part(b, z, n)
  <2>1. (IF z + n < k THEN z + n ELSE k) = z + n
    BY <1>1, <1>2
  <2> QED BY <2>1, <1>1 DEF Subarray, Part
<1>3. ASSUME n = 0 PROVE Subarray(b, z, n) = <<>>
  <2> DEFINE end == IF z + n < k THEN z + n ELSE k
  <2>1. end \in Int /\ end < z + 1 /\ z + 1 \in Int
    BY <1>3
  <2>2. Subarray(b, z, n) = SubSeq(b, z + 1, end)
    BY <1>1 DEF Subarray
  <2> HIDE DEF end
  <2>3. SubSeq(b, z + 1, end) = <<>>
    BY <2>1, SubSeqEmpty
  <2> QED BY <2>2, <2>3
<1> QED BY <1>2, <1>3

\* parseHexInt of no digits.
LEMMA NoDigits == ParseHexInt(<<>>) = 0
<1>1. <<>> \in Seq(Nat) /\ 0 = Len(<<>>) /\ 0 \in Nat
  BY EmptySeq
<1>2. PICK f \in [0 .. 0 -> Nat] : f[0] = 0 /\ Value(<<>>) = f[0]
  BY <1>1, ValueIs
<1>3. Value(<<>>) = 0
  BY <1>2
<1> QED BY <1>3, HalfIs DEF ParseHexInt

\* parseMsg gets a header of MakeMsg's right, where the numbers need no sign.
THEOREM JsHeaderRoundTrip ==
  ASSUME NEW h, Sound(h), h.wait < Half, h.size < Half
  PROVE  ParseMsg(MakeMsg(h)) = h
<1>1. PICK b : b = MakeMsg(h)
  OBVIOUS
<1>2. Framed(h, b, <<>>, b \o <<>>) /\ b \o <<>> = b /\ b \in Seq(Nat)
  <2>1. <<>> \in Seq(Nat)
    BY EmptySeq
  <2>2. Framed(h, b, <<>>, b \o <<>>)
    BY <1>1, <2>1 DEF Framed
  <2>3. b \in Seq(Nat)
    BY <2>2, FramedLen
  <2> QED BY <2>2, <2>3, ConcatEmptySeq
<1>3. Framed(h, b, <<>>, b)
  BY <1>2
<1>4. Len(b) = SizeAt(h) + 8 /\ SizeAt(h) \in Nat /\ SizeAt(h) >= 1
  BY <1>3, FramedLen
<1>5. KindOf(b[1]) = h.t
  BY <1>3, FramedLen
<1>6. /\ h.t \notin NoId => Part(b, 1, 4) = h.id
      /\ h.t \in Named => Part(b, NameAt(h), 3) = Fixnum(Len(h.name), 3)
      /\ h.t \in Named => Part(b, NameAt(h) + 3, Len(h.name)) = h.name
      /\ h.t = "e" => Part(b, 5, 8) = Fixnum(h.wait, 8)
      /\ h.t = "h" => Part(b, 1, 4) = Fixnum(h.wait, 4)
      /\ Part(b, SizeAt(h), 8) = Fixnum(h.size, 8)
  BY <1>3, HeaderIs
<1>7. /\ h = [t |-> h.t, id |-> h.id, name |-> h.name, wait |-> h.wait, size |-> h.size]
      /\ h.t \in AllKinds
      /\ Len(h.id) = IF h.t \in NoId THEN 0 ELSE 4
      /\ h.t \in NoId => h.id = <<>>
      /\ h.t \notin Named => h.name = <<>>
      /\ h.t \notin {"e", "h"} => h.wait = 0
  BY SoundIs DEF Sound
<1>8. /\ h.size \in Nat /\ h.size < Power(8) /\ h.wait \in Nat
      /\ Len(h.name) \in Nat /\ Len(h.name) < Power(3)
      /\ h.t = "e" => h.wait < Power(8)
      /\ h.t = "h" => h.wait < Power(4)
  BY SoundIs
<1>9. ParseHexInt(Fixnum(h.size, 8)) = h.size
  <2>1. 8 \in Nat
    OBVIOUS
  <2> QED BY <2>1, <1>8, HexRoundTrip
<1>10. ParseHexInt(Fixnum(Len(h.name), 3)) = Len(h.name)
  <2>1. 3 \in Nat /\ Len(h.name) < Half
    BY <1>8, HalfIs
  <2> QED BY <2>1, <1>8, HexRoundTrip
<1>11. h.t = "e" => ParseHexInt(Fixnum(h.wait, 8)) = h.wait
  <2>1. 8 \in Nat
    OBVIOUS
  <2> QED BY <2>1, <1>8, HexRoundTrip
<1>12. h.t = "h" => ParseHexInt(Fixnum(h.wait, 4)) = h.wait
  <2>1. 4 \in Nat
    OBVIOUS
  <2> QED BY <2>1, <1>8, HexRoundTrip
<1>13. ASSUME NEW z \in Nat, NEW n \in Nat, z + n <= Len(b) PROVE Subarray(b, z, n) = Part(b, z, n)
  BY <1>2, <1>13, SubarrayIs
<1>14. ASSUME NEW z \in Nat PROVE Subarray(b, z, 0) = <<>>
  BY <1>2, SubarrayIs
<1> DEFINE id    == IF h.t \in NoId THEN <<>> ELSE Subarray(b, 1, 4)
           z     == 1 + Len(h.id)
           namez == IF h.t \in Named THEN ParseHexInt(Subarray(b, z, 3)) ELSE 0
           waitz == CASE h.t = "h" -> 4 [] h.t = "e" -> 8 [] OTHER -> 0
           end   == z + waitz + (IF h.t \in Named THEN 3 + namez ELSE 0)
<1>15. z = NameAt(h) /\ z \in Nat
  BY <1>7 DEF NameAt
<1>16. id = h.id
  <2>1. CASE h.t \in NoId
    BY <2>1, <1>7
  <2>2. CASE h.t \notin NoId
    <3>1. 1 + 4 <= Len(b)
      <4>1. SizeAt(h) >= 5
        BY <2>2, <1>8 DEF SizeAt, NameAt
      <4> QED BY <4>1, <1>4
    <3> QED BY <3>1, <2>2, <1>6, <1>13
  <2> QED BY <2>1, <2>2
<1>17. CASE h.t \in Named
  <2>1. h.t # "e" /\ h.t # "h"
    BY <1>17 DEF Named
  <2>2. waitz = 0
    BY <2>1
  <2>3. SizeAt(h) = z + 3 + Len(h.name)
    BY <2>1, <1>15, <1>17 DEF SizeAt
  <2>4. namez = Len(h.name)
    <3> HIDE DEF z
    <3>1. z + 3 <= Len(b)
      BY <2>3, <1>4, <1>8, <1>15
    <3>2. Subarray(b, z, 3) = Fixnum(Len(h.name), 3)
      BY <3>1, <1>6, <1>13, <1>15, <1>17
    <3> QED BY <3>2, <1>10, <1>17
  <2> HIDE DEF id, z, namez, waitz
  <2>5. end = SizeAt(h)
    BY <2>2, <2>3, <2>4, <1>8, <1>15, <1>17
  <2>6. Subarray(b, z + 3, namez) = h.name
    <3>1. z + 3 \in Nat /\ z + 3 + Len(h.name) <= Len(b)
      BY <2>3, <1>4, <1>8, <1>15
    <3>2. Subarray(b, z + 3, Len(h.name)) = Part(b, z + 3, Len(h.name))
      BY <3>1, <1>8, <1>13
    <3> QED BY <3>2, <2>4, <1>6, <1>15, <1>17
  <2>7. ParseHexInt(Subarray(b, z, waitz)) = h.wait
    BY <2>1, <2>2, <1>7, <1>14, <1>15, NoDigits
  <2>8. ParseHexInt(Subarray(b, end, 8)) = h.size
    BY <2>5, <1>4, <1>6, <1>9, <1>13
  <2>9. ParseMsg(b) = [t |-> h.t, id |-> id, name |-> Subarray(b, z + 3, namez),
                       wait |-> ParseHexInt(Subarray(b, z, waitz)),
                       size |-> ParseHexInt(Subarray(b, end, 8))]
    BY <1>5, <1>16 DEF ParseMsg, id, z, namez, waitz
  <2> HIDE DEF end
  <2> QED BY <2>6, <2>7, <2>8, <2>9, <1>1, <1>7, <1>16
<1>18. CASE h.t \notin Named
  <2>1. namez = 0 /\ h.name = <<>>
    BY <1>7, <1>18
  <2>2. SizeAt(h) = z + waitz /\ waitz \in Nat
    <3>1. CASE h.t = "e"
      <4>1. h.t \notin NoId
        BY <3>1 DEF NoId
      <4> QED BY <3>1, <4>1, <1>7 DEF SizeAt
    <3>2. CASE h.t = "h"
      <4>1. h.t \in NoId
        BY <3>2 DEF NoId
      <4> QED BY <3>2, <4>1, <1>7 DEF SizeAt
    <3>3. CASE h.t \notin {"e", "h"}
      <4>1. waitz = 0
        BY <3>3
      <4>2. SizeAt(h) = NameAt(h)
        BY <3>3, <1>18 DEF SizeAt
      <4> HIDE DEF z, waitz
      <4> QED BY <4>1, <4>2, <1>15
    <3> QED BY <3>1, <3>2, <3>3
  <2>7. ParseHexInt(Subarray(b, z, waitz)) = h.wait
    <3>1. CASE h.t = "e"
      <4>1. h.t \notin NoId /\ waitz = 8
        BY <3>1 DEF NoId
      <4>2. z = 5
        BY <4>1, <1>7
      <4>3. 5 + 8 <= Len(b)
        <5> HIDE DEF z, waitz
        <5> QED BY <2>2, <4>1, <4>2, <1>4
      <4>4. Subarray(b, 5, 8) = Fixnum(h.wait, 8)
        BY <3>1, <4>3, <1>6, <1>13
      <4> HIDE DEF z, waitz
      <4> QED BY <3>1, <4>1, <4>2, <4>4, <1>11
    <3>2. CASE h.t = "h"
      <4>1. h.t \in NoId /\ waitz = 4
        BY <3>2 DEF NoId
      <4>2. z = 1
        BY <4>1, <1>7
      <4>3. 1 + 4 <= Len(b)
        <5> HIDE DEF z, waitz
        <5> QED BY <2>2, <4>1, <4>2, <1>4
      <4>4. Subarray(b, 1, 4) = Fixnum(h.wait, 4)
        BY <3>2, <4>3, <1>6, <1>13
      <4> HIDE DEF z, waitz
      <4> QED BY <3>2, <4>1, <4>2, <4>4, <1>12
    <3>3. CASE h.t \notin {"e", "h"}
      <4>1. waitz = 0
        BY <3>3
      <4> HIDE DEF z, waitz
      <4> QED BY <3>3, <4>1, <1>7, <1>14, <1>15, NoDigits
    <3> QED BY <3>1, <3>2, <3>3
  <2> HIDE DEF id, z, namez, waitz
  <2>5. end = SizeAt(h)
    BY <2>1, <2>2, <1>15, <1>18
  <2>6. Subarray(b, z + 3, namez) = h.name
    <3>1. z + 3 \in Nat
      BY <1>15
    <3> QED BY <3>1, <2>1, <1>14
  <2>8. ParseHexInt(Subarray(b, end, 8)) = h.size
    BY <2>5, <1>4, <1>6, <1>9, <1>13
  <2>9. ParseMsg(b) = [t |-> h.t, id |-> id, name |-> Subarray(b, z + 3, namez),
                       wait |-> ParseHexInt(Subarray(b, z, waitz)),
                       size |-> ParseHexInt(Subarray(b, end, 8))]
    BY <1>5, <1>16 DEF ParseMsg, id, z, namez, waitz
  <2> HIDE DEF end
  <2> QED BY <2>6, <2>7, <2>8, <2>9, <1>1, <1>7, <1>16
<1> QED BY <1>17, <1>18

-----------------------------------------------------------------------------
(* What is left of the messages, in bytes and frames.                       *)

AllSound(ms) == ms \in Seq(Messages) /\ \A i \in 1 .. Len(ms) : SoundMsg(ms[i])

\* A message is bytes, and frames of bytes.
LEMMA MsgBytes ==
  ASSUME NEW m, SoundMsg(m)
  PROVE  /\ MakeMsg(m.h) \in Seq(Nat) /\ m.payload \in Seq(Nat)
         /\ BytesOf(m) \in Seq(Nat)
         /\ <<MakeMsg(m.h)>> \in Seq(Seq(Nat))
         /\ (IF m.payload = <<>> THEN <<>> ELSE <<m.payload>>) \in Seq(Seq(Nat))
         /\ FramesOf(m) \in Seq(Seq(Nat))
<1>1. PICK b : b = MakeMsg(m.h)
  OBVIOUS
<1>2. Sound(m.h) /\ m.payload \in Seq(Nat)
  BY DEF SoundMsg, Messages
<1>3. <<>> \in Seq(Nat) /\ <<>> \in Seq(Seq(Nat))
  BY EmptySeq
<1>4. Framed(m.h, b, <<>>, b \o <<>>)
  BY <1>1, <1>2, <1>3 DEF Framed
<1>5. b \in Seq(Nat)
  BY <1>4, FramedLen
<1>6. BytesOf(m) \in Seq(Nat)
  <2>1. b \o m.payload \in Seq(Nat)
    BY <1>2, <1>5, ConcatProperties
  <2> QED BY <2>1, <1>1 DEF BytesOf
<1>7. PICK B : B = Seq(Nat)
  OBVIOUS
<1>8. <<b>> \in Seq(B)
  BY <1>5, <1>7
<1>9. PICK f : f = IF m.payload = <<>> THEN <<>> ELSE <<m.payload>>
  OBVIOUS
<1>10. f \in Seq(B)
  <2>1. CASE m.payload = <<>>
    BY <2>1, <1>3, <1>7, <1>9
  <2>2. CASE m.payload # <<>>
    BY <2>2, <1>2, <1>7, <1>9
  <2> QED BY <2>1, <2>2
<1>11. <<b>> \o f \in Seq(B)
  BY <1>8, <1>10, ConcatProperties
<1>12. FramesOf(m) = <<b>> \o f
  BY <1>1, <1>9 DEF FramesOf
<1> QED BY <1>1, <1>2, <1>5, <1>6, <1>7, <1>8, <1>9, <1>10, <1>11, <1>12

\* Those of all the messages, one by one.
LEMMA AllPieces ==
  ASSUME NEW ms, AllSound(ms), NEW n, n = Len(ms)
  PROVE  /\ n \in Nat
         /\ Pieces([i \in 1 .. Len(ms) |-> BytesOf(ms[i])], n, Nat)
         /\ Pieces([i \in 1 .. Len(ms) |-> FramesOf(ms[i])], n, Seq(Nat))
<1>1. n \in Nat
  BY LenProperties DEF AllSound
<1>2. \A i \in 1 .. n : SoundMsg(ms[i])
  BY DEF AllSound
<1>3. \A i \in 1 .. n : BytesOf(ms[i]) \in Seq(Nat) /\ FramesOf(ms[i]) \in Seq(Seq(Nat))
  <2> TAKE i \in 1 .. n
  <2>1. PICK m : m = ms[i]
    OBVIOUS
  <2>2. SoundMsg(m)
    BY <2>1, <1>2
  <2>3. BytesOf(m) \in Seq(Nat) /\ FramesOf(m) \in Seq(Seq(Nat))
    BY <2>2, MsgBytes
  <2> QED BY <2>1, <2>3
<1>4. ASSUME NEW B, NEW s, s \in [1 .. n -> Seq(B)] PROVE Pieces(s, n, B)
  <2>1. s \in Seq(Seq(B)) /\ Len(s) = n
    BY <1>1, <1>4, SeqDef
  <2> QED BY <2>1 DEF Pieces
<1>5. [i \in 1 .. n |-> BytesOf(ms[i])] \in [1 .. n -> Seq(Nat)]
  BY <1>3
<1>6. [i \in 1 .. n |-> FramesOf(ms[i])] \in [1 .. n -> Seq(Seq(Nat))]
  BY <1>3
<1> QED BY <1>1, <1>4, <1>5, <1>6

\* When some message is not taken, its bytes come next.
LEMMA NextBytes ==
  ASSUME NEW ms, AllSound(ms), NEW k \in Nat, k < Len(ms), NEW b \in Seq(Nat), BytesLeft(ms, k, b),
         NEW m, m = ms[k + 1]
  PROVE  \E r \in Seq(Nat) : b = MakeMsg(m.h) \o (m.payload \o r) /\ BytesLeft(ms, k + 1, r)
<1> DEFINE p == [i \in 1 .. Len(ms) |-> BytesOf(ms[i])]
<1>1. PICK n \in Nat : n = Len(ms)
  BY AllPieces
<1>2. Pieces(p, n, Nat)
  BY <1>1, AllPieces
<1>3. SoundMsg(m)
  BY <1>1 DEF AllSound
<1>4. p[k + 1] = BytesOf(m)
  BY <1>1
<1>5. Joined(p) = AllBytes(ms)
  BY DEF AllBytes
<1> HIDE DEF p
<1>6. k < n
  BY <1>1
<1>7. LeftAt(p, n, k, b, Nat)
  BY <1>1, <1>5 DEF LeftAt, BytesLeft
<1>8. PICK r \in Seq(Nat) : b = p[k + 1] \o r /\ LeftAt(p, n, k + 1, r, Nat)
  BY <1>2, <1>6, <1>7, JoinedLeft
<1>9. BytesLeft(ms, k + 1, r)
  BY <1>1, <1>5, <1>8 DEF LeftAt, BytesLeft
<1>10. PICK a, c : a = MakeMsg(m.h) /\ c = m.payload
  OBVIOUS
<1>11. Three(a, c, r, Nat)
  BY <1>3, <1>10, MsgBytes DEF Three
<1>12. (a \o c) \o r = a \o (c \o r)
  BY ONLY <1>11, AssocIn DEF Grouped
<1>13. b = (a \o c) \o r
  BY <1>4, <1>8, <1>10 DEF BytesOf
<1> QED BY <1>9, <1>10, <1>12, <1>13

\* When none is left, there are no bytes.
LEMMA NoBytes ==
  ASSUME NEW ms, AllSound(ms), NEW b \in Seq(Nat), BytesLeft(ms, Len(ms), b)
  PROVE  b = <<>>
<1> DEFINE p == [i \in 1 .. Len(ms) |-> BytesOf(ms[i])]
<1>1. PICK n \in Nat : n = Len(ms)
  BY AllPieces
<1>2. Pieces(p, n, Nat)
  BY <1>1, AllPieces
<1>5. Joined(p) = AllBytes(ms)
  BY DEF AllBytes
<1> HIDE DEF p
<1>7. LeftAt(p, n, n, b, Nat)
  BY <1>1, <1>5 DEF LeftAt, BytesLeft
<1> QED BY <1>2, <1>7, JoinedNoneLeft

\* A message more: its bytes come after those that are left.
LEMMA MoreBytes ==
  ASSUME NEW ms, AllSound(ms), NEW m, SoundMsg(m), NEW k \in Nat, k <= Len(ms),
         NEW b \in Seq(Nat), BytesLeft(ms, k, b)
  PROVE  BytesLeft(Append(ms, m), k, b \o BytesOf(m))
<1> DEFINE ns == Append(ms, m)
           p == [i \in 1 .. Len(ms) |-> BytesOf(ms[i])]
           q == [i \in 1 .. Len(ns) |-> BytesOf(ns[i])]
<1>1. PICK n \in Nat : n = Len(ms)
  BY AllPieces
<1>2. Pieces(p, n, Nat)
  BY <1>1, AllPieces
<1>3. m \in Messages
  BY DEF SoundMsg
<1>4. /\ ns \in Seq(Messages) /\ Len(ns) = n + 1
      /\ \A i \in 1 .. n : ns[i] = ms[i]
      /\ ns[n + 1] = m
  BY <1>1, <1>3, AppendProperties DEF AllSound
<1>5. AllSound(ns)
  <2> HIDE DEF ns
  <2>1. \A i \in 1 .. n + 1 : SoundMsg(ns[i])
    <3> TAKE i \in 1 .. n + 1
    <3>1. i \in 1 .. n \/ i = n + 1
      OBVIOUS
    <3>2. CASE i \in 1 .. n
      BY <3>2, <1>1, <1>4 DEF AllSound
    <3>3. CASE i = n + 1
      BY <3>3, <1>4
    <3> QED BY <3>1, <3>2, <3>3
  <2> QED BY <2>1, <1>4 DEF AllSound
<1> HIDE DEF ns
<1>6. n + 1 = Len(ns)
  BY <1>4
<1>7. Pieces(q, n + 1, Nat)
  BY <1>5, <1>6, AllPieces
<1>8. SameTo(p, q, n) /\ q[n + 1] = BytesOf(m)
  BY <1>1, <1>4, <1>6 DEF SameTo
<1>9. Joined(p) = AllBytes(ms) /\ Joined(q) = AllBytes(ns)
  BY DEF AllBytes
<1> HIDE DEF p, q
<1>10. /\ \A i \in 0 .. n : Joined(q)[i] = Joined(p)[i]
       /\ Joined(q)[n + 1] = Joined(p)[n] \o q[n + 1]
  <2>1. OneMore(p, q, n)
    BY <1>2, <1>7, <1>8, JoinedMore
  <2> QED BY <2>1 DEF OneMore
<1>11. k \in 0 .. n
  BY <1>1
<1>12. IsJoined(Joined(p), p, n, Nat)
  BY <1>2, JoinedIs
<1>13. PICK a, c : a = Joined(p)[k] /\ c = BytesOf(m)
  OBVIOUS
<1>14. Three(a, b, c, Nat)
  <2>1. a \in Seq(Nat)
    BY <1>11, <1>12, <1>13 DEF IsJoined
  <2> QED BY <2>1, <1>13, MsgBytes DEF Three
<1>15. (a \o b) \o c = a \o (b \o c)
  BY <1>14, AssocIn DEF Grouped
<1>16. Joined(p)[n] = a \o b
  BY <1>1, <1>9, <1>13 DEF BytesLeft
<1>17. Joined(q)[n + 1] = a \o (b \o c)
  BY <1>8, <1>10, <1>13, <1>15, <1>16
<1>18. BytesLeft(ns, k, b \o BytesOf(m))
  BY <1>6, <1>9, <1>10, <1>11, <1>13, <1>17 DEF BytesLeft
<1> QED BY <1>18 DEF ns
PayloadFrames(m) == IF m.payload = <<>> THEN <<>> ELSE <<m.payload>>

\* When some message is not taken, its frames come next.
LEMMA NextFrames ==
  ASSUME NEW ms, AllSound(ms), NEW k \in Nat, k < Len(ms), NEW b \in Seq(Seq(Nat)),
         FramesLeft(ms, k, b), NEW m, m = ms[k + 1]
  PROVE  \E r \in Seq(Seq(Nat)) : b = <<MakeMsg(m.h)>> \o (PayloadFrames(m) \o r)
                                  /\ FramesLeft(ms, k + 1, r)
<1> DEFINE p == [i \in 1 .. Len(ms) |-> FramesOf(ms[i])]
<1>1. PICK n \in Nat : n = Len(ms)
  BY AllPieces
<1>2. Pieces(p, n, Seq(Nat))
  BY <1>1, AllPieces
<1>3. SoundMsg(m)
  BY <1>1 DEF AllSound
<1>4. p[k + 1] = FramesOf(m)
  BY <1>1
<1>5. Joined(p) = AllFrames(ms)
  BY DEF AllFrames
<1> HIDE DEF p
<1>6. k < n
  BY <1>1
<1>7. LeftAt(p, n, k, b, Seq(Nat))
  BY <1>1, <1>5 DEF LeftAt, FramesLeft
<1>8. PICK r \in Seq(Seq(Nat)) : b = p[k + 1] \o r /\ LeftAt(p, n, k + 1, r, Seq(Nat))
  BY <1>2, <1>6, <1>7, JoinedLeft
<1>9. FramesLeft(ms, k + 1, r)
  BY <1>1, <1>5, <1>8 DEF LeftAt, FramesLeft
<1>10. PICK a, c : a = <<MakeMsg(m.h)>> /\ c = PayloadFrames(m)
  OBVIOUS
<1>11. Three(a, c, r, Seq(Nat))
  BY <1>3, <1>10, MsgBytes DEF Three, PayloadFrames
<1>12. (a \o c) \o r = a \o (c \o r)
  BY ONLY <1>11, AssocIn DEF Grouped
<1>13. b = (a \o c) \o r
  BY <1>4, <1>8, <1>10 DEF FramesOf, PayloadFrames
<1> QED BY <1>9, <1>10, <1>12, <1>13

\* When none is left, there are no frames.
LEMMA NoFrames ==
  ASSUME NEW ms, AllSound(ms), NEW b \in Seq(Seq(Nat)), FramesLeft(ms, Len(ms), b)
  PROVE  b = <<>>
<1> DEFINE p == [i \in 1 .. Len(ms) |-> FramesOf(ms[i])]
<1>1. PICK n \in Nat : n = Len(ms)
  BY AllPieces
<1>2. Pieces(p, n, Seq(Nat))
  BY <1>1, AllPieces
<1>5. Joined(p) = AllFrames(ms)
  BY DEF AllFrames
<1> HIDE DEF p
<1>7. LeftAt(p, n, n, b, Seq(Nat))
  BY <1>1, <1>5 DEF LeftAt, FramesLeft
<1> QED BY <1>2, <1>7, JoinedNoneLeft

\* A message more: its frames come after those that are left.
LEMMA MoreFrames ==
  ASSUME NEW ms, AllSound(ms), NEW m, SoundMsg(m), NEW k \in Nat, k <= Len(ms),
         NEW b \in Seq(Seq(Nat)), FramesLeft(ms, k, b)
  PROVE  FramesLeft(Append(ms, m), k, b \o FramesOf(m))
<1> DEFINE ns == Append(ms, m)
           p == [i \in 1 .. Len(ms) |-> FramesOf(ms[i])]
           q == [i \in 1 .. Len(ns) |-> FramesOf(ns[i])]
<1>1. PICK n \in Nat : n = Len(ms)
  BY AllPieces
<1>2. Pieces(p, n, Seq(Nat))
  BY <1>1, AllPieces
<1>3. m \in Messages
  BY DEF SoundMsg
<1>4. /\ ns \in Seq(Messages) /\ Len(ns) = n + 1
      /\ \A i \in 1 .. n : ns[i] = ms[i]
      /\ ns[n + 1] = m
  BY <1>1, <1>3, AppendProperties DEF AllSound
<1>5. AllSound(ns)
  <2> HIDE DEF ns
  <2>1. \A i \in 1 .. n + 1 : SoundMsg(ns[i])
    <3> TAKE i \in 1 .. n + 1
    <3>1. i \in 1 .. n \/ i = n + 1
      OBVIOUS
    <3>2. CASE i \in 1 .. n
      BY <3>2, <1>1, <1>4 DEF AllSound
    <3>3. CASE i = n + 1
      BY <3>3, <1>4
    <3> QED BY <3>1, <3>2, <3>3
  <2> QED BY <2>1, <1>4 DEF AllSound
<1> HIDE DEF ns
<1>6. n + 1 = Len(ns)
  BY <1>4
<1>7. Pieces(q, n + 1, Seq(Nat))
  BY <1>5, <1>6, AllPieces
<1>8. SameTo(p, q, n) /\ q[n + 1] = FramesOf(m)
  BY <1>1, <1>4, <1>6 DEF SameTo
<1>9. Joined(p) = AllFrames(ms) /\ Joined(q) = AllFrames(ns)
  BY DEF AllFrames
<1> HIDE DEF p, q
<1>10. /\ \A i \in 0 .. n : Joined(q)[i] = Joined(p)[i]
       /\ Joined(q)[n + 1] = Joined(p)[n] \o q[n + 1]
  <2>1. OneMore(p, q, n)
    BY <1>2, <1>7, <1>8, JoinedMore
  <2> QED BY <2>1 DEF OneMore
<1>11. k \in 0 .. n
  BY <1>1
<1>12. IsJoined(Joined(p), p, n, Seq(Nat))
  BY <1>2, JoinedIs
<1>13. PICK a, c : a = Joined(p)[k] /\ c = FramesOf(m)
  OBVIOUS
<1>14. Three(a, b, c, Seq(Nat))
  <2>1. a \in Seq(Seq(Nat))
    BY <1>11, <1>12, <1>13 DEF IsJoined
  <2> QED BY <2>1, <1>13, MsgBytes DEF Three
<1>15. (a \o b) \o c = a \o (b \o c)
  BY <1>14, AssocIn DEF Grouped
<1>16. Joined(p)[n] = a \o b
  BY <1>1, <1>9, <1>13 DEF FramesLeft
<1>17. Joined(q)[n + 1] = a \o (b \o c)
  BY <1>8, <1>10, <1>13, <1>15, <1>16
<1>18. FramesLeft(ns, k, b \o FramesOf(m))
  BY <1>6, <1>9, <1>10, <1>11, <1>13, <1>17 DEF FramesLeft
<1> QED BY <1>18 DEF ns

-----------------------------------------------------------------------------
(* The invariant: messages, and the initial states.                         *)

\* A prefix, element by element.
LEMMA PrefixIs ==
  ASSUME NEW a \in Seq(Messages), NEW b \in Seq(Messages)
  PROVE  IsPrefix(a, b) <=> Len(a) <= Len(b) /\ \A i \in 1 .. Len(a) : a[i] = b[i]
<1>1. PICK n \in Nat, k \in Nat : n = Len(a) /\ k = Len(b)
  BY LenProperties
<1>2. SubSeq(a, 1, n) = a
  BY <1>1, SubSeqFull
<1>3. ASSUME n <= k
      PROVE  SubSeq(b, 1, n) \in Seq(Messages) /\ Len(SubSeq(b, 1, n)) = n
             /\ \A i \in 1 .. n : SubSeq(b, 1, n)[i] = b[i]
  <2>1. \A i \in 1 .. n : b[i] \in Messages
    <3> TAKE i \in 1 .. n
    <3>1. i \in 1 .. Len(b)
      BY <1>1, <1>3
    <3> QED BY <3>1, ElementOfSeq
  <2>2. 1 \in Int /\ n \in Int
    OBVIOUS
  <2>3. /\ SubSeq(b, 1, n) \in Seq(Messages)
        /\ Len(SubSeq(b, 1, n)) = IF 1 <= n THEN n - 1 + 1 ELSE 0
        /\ \A i \in 1 .. n - 1 + 1 : SubSeq(b, 1, n)[i] = b[1 + i - 1]
    BY <2>1, <2>2, SubSeqProperties
  <2> QED BY <2>3
<1>4. ASSUME IsPrefix(a, b) PROVE n <= k /\ \A i \in 1 .. n : a[i] = b[i]
  <2>1. n <= k /\ a = SubSeq(b, 1, n)
    BY <1>1, <1>2, <1>4 DEF IsPrefix
  <2> QED BY <2>1, <1>3
<1>5. ASSUME n <= k, \A i \in 1 .. n : a[i] = b[i] PROVE IsPrefix(a, b)
  <2>1. PICK s : s = SubSeq(b, 1, n)
    OBVIOUS
  <2>2. s \in Seq(Messages) /\ Len(s) = Len(a) /\ \A i \in 1 .. Len(a) : a[i] = s[i]
    BY <2>1, <1>1, <1>3, <1>5
  <2>3. a = s
    BY <2>2, SeqEqual
  <2> QED BY <2>1, <2>3, <1>1, <1>2, <1>5 DEF IsPrefix
<1> QED BY <1>1, <1>4, <1>5

Begins(a, b) ==
  /\ a \in Seq(Messages) /\ b \in Seq(Messages)
  /\ Len(a) <= Len(b) /\ \A i \in 1 .. Len(a) : a[i] = b[i]

\* Such a sequence is a prefix.
LEMMA BeginsIs ==
  ASSUME NEW a, NEW b, Begins(a, b)
  PROVE  IsPrefix(a, b)
<1>1. a \in Seq(Messages) /\ b \in Seq(Messages)
  BY DEF Begins
<1>2. IsPrefix(a, b) <=> Len(a) <= Len(b) /\ \A i \in 1 .. Len(a) : a[i] = b[i]
  BY <1>1, PrefixIs
<1> QED BY <1>2 DEF Begins

\* What the invariant says of the messages.
LEMMA MessagesInStep ==
  ASSUME WireInvariant
  PROVE  /\ AllSound(sent) /\ received \in Seq(Messages) /\ sent \in Seq(Messages)
         /\ Len(received) \in Nat /\ Len(sent) \in Nat /\ Len(received) <= Len(sent)
         /\ \A i \in 1 .. Len(received) : received[i] = sent[i]
         /\ Len(received) = Len(sent) => received = sent
         /\ stream \in Seq(Nat) /\ frames \in Seq(Seq(Nat)) /\ eof \in BOOLEAN
         /\ rpc \in {"header", "payload", "done", "failed"} /\ rmsg \in Headers
<1>1. GoTypeOK /\ frames \in Seq(Seq(Nat)) /\ InStep /\ SentSound
  BY DEF WireInvariant
<1>2. received \in Seq(Messages) /\ sent \in Seq(Messages)
  BY <1>1 DEF GoTypeOK
<1>3. Len(received) \in Nat /\ Len(sent) \in Nat
  BY <1>2, LenProperties
<1>4. Len(received) <= Len(sent) /\ \A i \in 1 .. Len(received) : received[i] = sent[i]
  BY <1>1, <1>2, PrefixIs DEF InStep
<1>5. Len(received) = Len(sent) => received = sent
  BY <1>2, <1>4, SeqEqual
<1>6. AllSound(sent)
  BY <1>1, <1>2 DEF AllSound, SentSound
<1> QED BY <1>1, <1>2, <1>3, <1>4, <1>5, <1>6 DEF GoTypeOK

\* The next message is taken.
LEMMA NextTaken ==
  ASSUME WireInvariant, Len(received) < Len(sent), NEW m, m = sent[Len(received) + 1],
         NEW r, r = Append(received, m)
  PROVE  /\ r \in Seq(Messages) /\ Len(r) = Len(received) + 1 /\ r # <<>> /\ r[Len(r)] = m
         /\ IsPrefix(r, sent)
<1>1. PICK n \in Nat, k \in Nat : n = Len(received) /\ k = Len(sent)
  BY MessagesInStep
<1>2. received \in Seq(Messages) /\ sent \in Seq(Messages)
      /\ \A i \in 1 .. n : received[i] = sent[i]
  BY <1>1, MessagesInStep
<1>3. n + 1 \in 1 .. k
  BY <1>1
<1>4. m \in Messages
  BY <1>1, <1>2, <1>3, ElementOfSeq
<1>5. /\ r \in Seq(Messages) /\ Len(r) = n + 1 /\ r # <<>>
      /\ \A i \in 1 .. n : r[i] = received[i]
      /\ r[n + 1] = m
  BY <1>1, <1>2, <1>4, AppendProperties
<1>6. \A i \in 1 .. Len(r) : r[i] = sent[i]
  <2> TAKE i \in 1 .. Len(r)
  <2>1. i \in 1 .. n \/ i = n + 1
    BY <1>5
  <2> QED BY <2>1, <1>1, <1>2, <1>5
<1>7. IsPrefix(r, sent)
  <2>1. Begins(r, sent)
    BY <1>1, <1>2, <1>3, <1>5, <1>6 DEF Begins
  <2> QED BY <2>1, BeginsIs
<1> QED BY <1>1, <1>5, <1>7

\* s is what was sent and m.
OneSent(s, m) ==
  /\ s \in Seq(Messages) /\ IsPrefix(received, s) /\ Len(s) = Len(sent) + 1
  /\ \A i \in 1 .. Len(sent) : s[i] = sent[i]
  /\ s[Len(sent) + 1] = m

\* A message more is written.
LEMMA MoreSent ==
  ASSUME WireInvariant, NEW m, SoundMsg(m), NEW s, s = Append(sent, m)
  PROVE  OneSent(s, m)
<1>1. PICK n \in Nat, k \in Nat : n = Len(received) /\ k = Len(sent)
  BY MessagesInStep
<1>2. received \in Seq(Messages) /\ sent \in Seq(Messages) /\ n <= k
      /\ \A i \in 1 .. n : received[i] = sent[i]
  BY <1>1, MessagesInStep
<1>3. m \in Messages
  BY DEF SoundMsg
<1>4. s \in Seq(Messages) /\ Len(s) = k + 1 /\ (\A i \in 1 .. k : s[i] = sent[i]) /\ s[k + 1] = m
  BY <1>1, <1>2, <1>3, AppendProperties
<1>5. IsPrefix(received, s)
  <2>1. Begins(received, s)
    BY <1>1, <1>2, <1>4 DEF Begins
  <2> QED BY <2>1, BeginsIs
<1> QED BY <1>1, <1>4, <1>5 DEF OneSent

\* Nothing is left of no messages.
LEMMA NoneLeft == BytesLeft(<<>>, 0, <<>>) /\ FramesLeft(<<>>, 0, <<>>) /\ Len(<<>>) = 0
<1>1. <<>> \in Seq(Messages) /\ Len(<<>>) = 0 /\ <<>> \in Seq(Nat) /\ <<>> \in Seq(Seq(Nat))
  BY EmptySeq
<1>2. AllSound(<<>>)
  BY <1>1 DEF AllSound
<1> DEFINE p == [i \in 1 .. Len(<<>>) |-> BytesOf(<<>>[i])]
           q == [i \in 1 .. Len(<<>>) |-> FramesOf(<<>>[i])]
<1>3. Pieces(p, 0, Nat) /\ Pieces(q, 0, Seq(Nat))
  BY <1>1, <1>2, AllPieces
<1>4. Joined(p) = AllBytes(<<>>) /\ Joined(q) = AllFrames(<<>>)
  BY DEF AllBytes, AllFrames
<1> HIDE DEF p, q
<1>5. IsJoined(Joined(p), p, 0, Nat)
  BY <1>3, JoinedIs
<1>6. IsJoined(Joined(q), q, 0, Seq(Nat))
  BY <1>3, JoinedIs
<1>7. AllBytes(<<>>)[0] = <<>> /\ AllFrames(<<>>)[0] = <<>>
  BY <1>4, <1>5, <1>6 DEF IsJoined
<1>8. <<>> \o <<>> = <<>>
  BY <1>1, ConcatEmptySeq
<1> QED BY <1>1, <1>7, <1>8 DEF BytesLeft, FramesLeft

\* The invariant holds when the connection is made.
LEMMA WireInit == JsInit => WireInvariant
<1> SUFFICES ASSUME JsInit PROVE WireInvariant
  OBVIOUS
<1>1. /\ stream = <<>> /\ eof = FALSE /\ sent = <<>> /\ rpc = "header" /\ rmsg = NoHeader
      /\ received = <<>> /\ pair \in Pairs /\ frames = <<>>
  BY DEF JsInit, GoInit
<1>2. /\ <<>> \in Seq(Nat) /\ <<>> \in Seq(Messages) /\ <<>> \in Seq(Seq(Nat))
  BY EmptySeq
<1>3. Len(<<>>) = 0
  BY NoneLeft
<1>4. NoHeader \in Headers
  <2>1. "f" \in AllKinds \cup {"?"} /\ "f" \in NoId
    BY DEF AllKinds, NoId
  <2> QED BY <2>1, <1>2 DEF NoHeader, Header, Headers
<1>5. GoTypeOK
  BY <1>1, <1>2, <1>4 DEF GoTypeOK
<1>6. InStep
  <2>1. IsPrefix(<<>>, <<>>)
    <3>1. Begins(<<>>, <<>>)
      BY <1>2, <1>3 DEF Begins
    <3> QED BY <3>1, BeginsIs
  <2> QED BY <2>1, <1>1 DEF InStep
<1>7. SentSound /\ HeaderInStep /\ Stopped
  BY <1>1, <1>3 DEF SentSound, HeaderInStep, Stopped
<1>8. StreamInStep /\ FramesInStep
  BY <1>1, <1>3, NoneLeft DEF StreamInStep, FramesInStep
<1> QED BY <1>1, <1>2, <1>5, <1>6, <1>7, <1>8 DEF WireInvariant

-----------------------------------------------------------------------------
(* Writing.                                                                 *)

\* The message whose header was read.
LEMMA NextMsg ==
  ASSUME WireInvariant, Len(received) < Len(sent), NEW m, m = sent[Len(received) + 1]
  PROVE  /\ SoundMsg(m) /\ Sound(m.h) /\ m.payload \in Seq(Nat)
         /\ m = [h |-> m.h, payload |-> m.payload]
         /\ Len(m.payload) = IF m.h.t \in NoPayload THEN 0 ELSE m.h.size
         /\ m.h \in Headers /\ MakeMsg(m.h) \in Seq(Nat)
         /\ rpc = "payload" => rmsg = m.h
         /\ pair = "go-js" => m.h.wait < Half /\ m.h.size < Half
<1>1. Len(received) + 1 \in 1 .. Len(sent)
  BY MessagesInStep
<1>2. SoundMsg(m) /\ (pair = "go-js" => m.h.wait < Half /\ m.h.size < Half)
  BY <1>1 DEF WireInvariant, SentSound
<1>3. Sound(m.h) /\ m \in Messages /\ Len(m.payload) = IF m.h.t \in NoPayload THEN 0 ELSE m.h.size
  BY <1>2 DEF SoundMsg
<1>4. m.h \in Headers /\ m.payload \in Seq(Nat) /\ m = [h |-> m.h, payload |-> m.payload]
  BY <1>3 DEF Messages
<1>5. rpc = "payload" => rmsg = m.h
  BY DEF WireInvariant, HeaderInStep
<1>6. MakeMsg(m.h) \in Seq(Nat)
  BY <1>2, MsgBytes
<1> QED BY <1>2, <1>3, <1>4, <1>5, <1>6

\* What is the same of the invariant when a message is written.
LEMMA Written ==
  ASSUME WireInvariant, ~eof, NEW m, SoundMsg(m),
         pair = "go-js" => m.h.wait < Half /\ m.h.size < Half,
         sent' = Append(sent, m), eof' \in BOOLEAN,
         UNCHANGED <<rpc, rmsg, received, pair>>,
         stream' \in Seq(Nat), frames' \in Seq(Seq(Nat)), StreamInStep', FramesInStep'
  PROVE  WireInvariant'
<1>1. PICK s : s = Append(sent, m)
  OBVIOUS
<1>2. PICK n \in Nat, k \in Nat : n = Len(received) /\ k = Len(sent)
  BY MessagesInStep
<1>3. /\ s \in Seq(Messages) /\ IsPrefix(received, s) /\ Len(s) = k + 1
      /\ \A i \in 1 .. k : s[i] = sent[i]
      /\ s[k + 1] = m
  <2>1. OneSent(s, m)
    BY <1>1, MoreSent
  <2> QED BY <2>1, <1>2 DEF OneSent
<1>4. sent' = s
  BY <1>1
<1>5. GoTypeOK' /\ pair' \in Pairs
  BY <1>3, <1>4 DEF GoTypeOK, WireInvariant
<1>6. InStep'
  BY <1>3, <1>4 DEF InStep
<1>7. SentSound'
  <2>1. ASSUME NEW i \in 1 .. k + 1
        PROVE  SoundMsg(s[i]) /\ (pair = "go-js" => s[i].h.wait < Half /\ s[i].h.size < Half)
    <3>1. i \in 1 .. k \/ i = k + 1
      BY <1>2
    <3>2. CASE i \in 1 .. k
      BY <3>2, <1>2, <1>3 DEF WireInvariant, SentSound
    <3>3. CASE i = k + 1
      BY <3>3, <1>3
    <3> QED BY <3>1, <3>2, <3>3
  <2> QED BY <2>1, <1>3, <1>4 DEF SentSound
<1>8. HeaderInStep'
  <2>1. rpc = "payload" => n < k /\ rmsg = sent[n + 1].h
    BY <1>2 DEF WireInvariant, HeaderInStep
  <2>2. rpc = "payload" => n < k + 1 /\ rmsg = s[n + 1].h
    <3>1. SUFFICES ASSUME rpc = "payload" PROVE n < k + 1 /\ rmsg = s[n + 1].h
      OBVIOUS
    <3>2. n < k + 1 /\ n + 1 \in 1 .. k
      BY <2>1, <3>1, <1>2
    <3>3. s[n + 1] = sent[n + 1]
      BY <3>2, <1>3
    <3> QED BY <2>1, <3>1, <3>2, <3>3
  <2>3. n = Len(received') /\ k + 1 = Len(sent')
    BY <1>2, <1>3, <1>4
  <2> QED BY <2>2, <2>3, <1>4 DEF HeaderInStep
<1>9. Stopped'
  BY DEF WireInvariant, Stopped
<1> QED BY <1>5, <1>6, <1>7, <1>8, <1>9 DEF WireInvariant

\* A message is written to a stream.
LEMMA BytesWritten ==
  ASSUME WireInvariant, pair # "go-js", ~eof, NEW m, SoundMsg(m),
         stream' = stream \o BytesOf(m), sent' = Append(sent, m), eof' \in BOOLEAN,
         UNCHANGED <<rpc, rmsg, received, pair, frames>>
  PROVE  WireInvariant'
<1>1. PICK s, x, n, k : s = stream /\ x = BytesOf(m) /\ n = Len(received) /\ k = Len(sent)
  OBVIOUS
<1>2. /\ AllSound(sent) /\ n \in Nat /\ k \in Nat /\ n <= k /\ s \in Seq(Nat)
      /\ frames \in Seq(Seq(Nat))
  BY <1>1, MessagesInStep
<1>3. x \in Seq(Nat)
  BY <1>1, MsgBytes
<1>4. s \o x \in Seq(Nat)
  BY <1>2, <1>3, ConcatProperties
<1>5. StreamInStep'
  <2>1. ASSUME rpc = "header" PROVE BytesLeft(sent', Len(received'), stream')
    <3>1. BytesLeft(sent, n, s)
      BY <2>1, <1>1 DEF WireInvariant, StreamInStep
    <3>2. BytesLeft(Append(sent, m), n, s \o x)
      BY <3>1, <1>1, <1>2, MoreBytes
    <3> QED BY <3>2, <1>1
  <2>2. ASSUME rpc = "payload", rmsg.t # "f"
        PROVE  BytesLeft(sent', Len(received'), MakeMsg(rmsg') \o stream')
    <3>1. n < k
      BY <2>2, <1>1 DEF WireInvariant, HeaderInStep
    <3>2. PICK h : h = MakeMsg(rmsg)
      OBVIOUS
    <3>3. h \in Seq(Nat)
      BY <2>2, <3>1, <3>2, <1>1, NextMsg
    <3>4. h \o s \in Seq(Nat)
      BY <3>3, <1>2, ConcatProperties
    <3>5. BytesLeft(sent, n, h \o s)
      BY <2>2, <3>2, <1>1 DEF WireInvariant, StreamInStep
    <3>6. BytesLeft(Append(sent, m), n, (h \o s) \o x)
      BY <3>4, <3>5, <1>1, <1>2, MoreBytes
    <3>7. Three(h, s, x, Nat)
      BY <3>3, <1>2, <1>3 DEF Three
    <3>8. (h \o s) \o x = h \o (s \o x)
      BY <3>7, AssocIn DEF Grouped
    <3> QED BY <3>2, <3>6, <3>8, <1>1
  <2> QED BY <2>1, <2>2 DEF StreamInStep
<1>6. FramesInStep'
  BY DEF FramesInStep
<1>7. stream' \in Seq(Nat) /\ frames' \in Seq(Seq(Nat))
  BY <1>1, <1>2, <1>4
<1> QED BY <1>5, <1>6, <1>7, Written

\* A message is written in frames.
LEMMA FramesWritten ==
  ASSUME WireInvariant, pair = "go-js", ~eof, NEW m, SoundMsg(m), m.h.wait < Half, m.h.size < Half,
         frames' = frames \o FramesOf(m), sent' = Append(sent, m),
         UNCHANGED <<rpc, rmsg, received, pair, stream, eof>>
  PROVE  WireInvariant'
<1>1. PICK s, x, n, k : s = frames /\ x = FramesOf(m) /\ n = Len(received) /\ k = Len(sent)
  OBVIOUS
<1>2. /\ AllSound(sent) /\ n \in Nat /\ k \in Nat /\ n <= k /\ s \in Seq(Seq(Nat))
      /\ stream \in Seq(Nat) /\ eof \in BOOLEAN
  BY <1>1, MessagesInStep
<1>3. x \in Seq(Seq(Nat))
  BY <1>1, MsgBytes
<1>4. s \o x \in Seq(Seq(Nat))
  BY <1>2, <1>3, ConcatProperties
<1>5. FramesInStep'
  <2>1. ASSUME rpc = "header" PROVE FramesLeft(sent', Len(received'), frames')
    <3>1. FramesLeft(sent, n, s)
      BY <2>1, <1>1 DEF WireInvariant, FramesInStep
    <3>2. FramesLeft(Append(sent, m), n, s \o x)
      BY <3>1, <1>1, <1>2, MoreFrames
    <3> QED BY <3>2, <1>1
  <2>2. ASSUME rpc = "payload"
        PROVE  /\ FramesLeft(sent', Len(received'), <<MakeMsg(rmsg')>> \o frames')
               /\ rmsg'.t # "f" /\ HasPayload(rmsg')
    <3>1. n < k
      BY <2>2, <1>1 DEF WireInvariant, HeaderInStep
    <3>2. PICK h : h = <<MakeMsg(rmsg)>>
      OBVIOUS
    <3>3. h \in Seq(Seq(Nat))
      <4>1. PICK y : y = sent[n + 1]
        OBVIOUS
      <4>2. SoundMsg(y) /\ rmsg = y.h
        BY <2>2, <3>1, <4>1, <1>1, NextMsg
      <4> QED BY <3>2, <4>2, MsgBytes
    <3>4. h \o s \in Seq(Seq(Nat))
      BY <3>3, <1>2, ConcatProperties
    <3>5. FramesLeft(sent, n, h \o s) /\ rmsg.t # "f" /\ HasPayload(rmsg)
      BY <2>2, <3>2, <1>1 DEF WireInvariant, FramesInStep
    <3>6. FramesLeft(Append(sent, m), n, (h \o s) \o x)
      BY <3>4, <3>5, <1>1, <1>2, MoreFrames
    <3>7. Three(h, s, x, Seq(Nat))
      BY <3>3, <1>2, <1>3 DEF Three
    <3>8. (h \o s) \o x = h \o (s \o x)
      BY <3>7, AssocIn DEF Grouped
    <3> QED BY <3>2, <3>5, <3>6, <3>8, <1>1
  <2> QED BY <2>1, <2>2 DEF FramesInStep
<1>6. StreamInStep'
  BY DEF StreamInStep
<1>7. stream' \in Seq(Nat) /\ frames' \in Seq(Seq(Nat)) /\ eof' \in BOOLEAN
  BY <1>1, <1>2, <1>4
<1> QED BY <1>5, <1>6, <1>7, Written

\* The connection is closed, or nothing happens.
LEMMA Closed ==
  ASSUME WireInvariant, eof' \in BOOLEAN, eof => eof',
         UNCHANGED <<stream, sent, rpc, rmsg, received, pair, frames>>
  PROVE  WireInvariant'
<1>1. GoTypeOK' /\ Stopped'
  BY DEF WireInvariant, GoTypeOK, Stopped
<1>2. InStep' /\ SentSound' /\ HeaderInStep' /\ pair' \in Pairs /\ frames' \in Seq(Seq(Nat))
  BY DEF WireInvariant, InStep, SentSound, HeaderInStep
<1>3. StreamInStep' /\ FramesInStep'
  BY DEF WireInvariant, StreamInStep, FramesInStep
<1> QED BY <1>1, <1>2, <1>3 DEF WireInvariant

\* Go writes to a stream.
LEMMA WriteKeeps ==
  ASSUME WireInvariant, NamesNotEmpty, pair = "go-go", Write, UNCHANGED <<pair, frames>>
  PROVE  WireInvariant'
<1>1. PICK c \in Calls : /\ stream' = stream \o MakeMsg(c.h) \o c.payload
                         /\ sent' = Append(sent, c)
  BY DEF Write
<1>2. SoundMsg(c)
  BY GoCallSound
<1>3. PICK s, x, p : s = stream /\ x = MakeMsg(c.h) /\ p = c.payload
  OBVIOUS
<1>4. Three(s, x, p, Nat)
  BY <1>2, <1>3, MsgBytes, MessagesInStep DEF Three
<1>5. (s \o x) \o p = s \o (x \o p)
  BY <1>4, AssocIn DEF Grouped
<1>6. stream' = stream \o BytesOf(c)
  BY <1>1, <1>3, <1>5 DEF BytesOf
<1>7. ~eof /\ eof' = eof /\ UNCHANGED <<rpc, rmsg, received, pair, frames>>
  BY DEF Write
<1>8. eof' \in BOOLEAN
  BY <1>7, MessagesInStep
<1> QED BY <1>1, <1>2, <1>6, <1>7, <1>8, BytesWritten

\* JavaScript writes to a stream.
LEMMA JsWriteKeeps ==
  ASSUME WireInvariant, NamesNotEmpty, StringsPlain, pair \in {"js-go", "text-go"}, JsWrite
  PROVE  WireInvariant'
<1>1. PICK c \in Calls : /\ c.h.t \in SentBy(pair)
                         /\ pair = "text-go" => c.payload \in TextPayloads
                         /\ stream' = stream \o JsMsg(c)
                         /\ sent' = Append(sent, Meant(c))
                         /\ eof' = (c.h.t = "f")
  BY DEF JsWrite
<1>2. PICK m : m = Meant(c)
  OBVIOUS
<1>3. SoundMsg(m)
  BY <1>2, JsCallSound
<1>4. JsMsg(c) = BytesOf(m)
  <2>1. pair \in Pairs
    BY DEF WireInvariant
  <2> QED BY <1>1, <1>2, <2>1, JsMsgIs
<1>5. ~eof /\ UNCHANGED <<rpc, rmsg, received, pair, frames>>
  BY DEF JsWrite
<1>6. eof' \in BOOLEAN
  BY <1>1
<1> QED BY <1>1, <1>2, <1>3, <1>4, <1>5, <1>6, BytesWritten

\* Go writes frames.
LEMMA WriteFramesKeeps ==
  ASSUME WireInvariant, NamesNotEmpty, NumbersSigned, pair = "go-js", WriteFrames
  PROVE  WireInvariant'
<1>1. PICK c \in Calls : /\ frames' = frames \o <<MakeMsg(c.h)>>
                                      \o (IF c.payload = <<>> THEN <<>> ELSE <<c.payload>>)
                         /\ sent' = Append(sent, c)
  BY DEF WriteFrames
<1>2. SoundMsg(c)
  BY GoCallSound
<1>3. PICK s, x, p : /\ s = frames /\ x = <<MakeMsg(c.h)>>
                     /\ p = IF c.payload = <<>> THEN <<>> ELSE <<c.payload>>
  OBVIOUS
<1>4. Three(s, x, p, Seq(Nat))
  BY <1>2, <1>3, MsgBytes, MessagesInStep DEF Three
<1>5. (s \o x) \o p = s \o (x \o p)
  BY <1>4, AssocIn DEF Grouped
<1>6. frames' = frames \o FramesOf(c)
  BY <1>1, <1>3, <1>5 DEF FramesOf
<1>7. c.h.wait < Half /\ c.h.size < Half
  <2>1. /\ \A n \in Waits \cup Codes \cup Times : n < Half
        /\ \A p1 \in Payloads : Len(p1) < Half
    BY DEF NumbersSigned, WireInvariant
  <2>2. IsCall(c)
    BY CallsAre
  <2>3. /\ c.h.t \notin NoPayload => c.h.size < Half
        /\ c.h.t \in NoPayload => c.h.size < Half
    BY <2>1, <2>2 DEF IsCall, NoPayload
  <2>4. c.h.t \in {"e"} => c.h.wait < Half
    BY <2>1, <2>2 DEF IsCall
  <2>5. c.h.t \in {"h"} => c.h.wait < Half
    <3>1. ASSUME c.h.t = "h" PROVE c.h.wait < Half
      <4>1. c.h.wait \in Loads
        BY <2>2, <3>1 DEF IsCall
      <4>2. PICK p4, w : p4 = Power(4) /\ w = c.h.wait
        OBVIOUS
      <4>3. w \in 0 .. p4 - 1
        BY <4>1, <4>2, WireAssumption
      <4>4. p4 \in Nat /\ p4 <= Half /\ Half \in Nat
        BY <4>2, HalfIs
      <4>5. w < Half
        BY <4>3, <4>4
      <4> QED BY <4>2, <4>5
    <3> QED BY <3>1
  <2>6. c.h.t \notin {"e", "h"} => c.h.wait < Half
    BY <2>2, HalfIs DEF IsCall
  <2> QED BY <2>3, <2>4, <2>5, <2>6
<1>8. ~eof /\ UNCHANGED <<rpc, rmsg, received, pair, stream, eof>>
  BY DEF WriteFrames
<1> QED BY <1>1, <1>2, <1>6, <1>7, <1>8, FramesWritten

\* The connection is closed.
LEMMA CloseKeeps ==
  ASSUME WireInvariant, CloseConn \/ Quiet, UNCHANGED <<pair, frames>>
  PROVE  WireInvariant'
<1>1. /\ eof' \in BOOLEAN /\ (eof => eof')
      /\ UNCHANGED <<stream, sent, rpc, rmsg, received>>
  <2>1. CASE CloseConn
    BY <2>1 DEF CloseConn
  <2>2. CASE Quiet
    BY <2>2, MessagesInStep DEF Quiet, goVars
  <2> QED BY <2>1, <2>2
<1> QED BY <1>1, Closed

-----------------------------------------------------------------------------
(* Reading from a stream.                                                   *)

\* What is the same of the invariant when something is read.
LEMMA Taken ==
  ASSUME WireInvariant, UNCHANGED <<sent, eof, pair>>,
         received' \in Seq(Messages), IsPrefix(received', sent), rmsg' \in Headers,
         rpc' \in {"header", "payload", "done", "failed"},
         stream' \in Seq(Nat), frames' \in Seq(Seq(Nat)),
         HeaderInStep', StreamInStep', FramesInStep', Stopped'
  PROVE  WireInvariant'
<1>1. GoTypeOK' /\ pair' \in Pairs
  BY DEF WireInvariant, GoTypeOK
<1>2. InStep' /\ SentSound'
  BY DEF WireInvariant, InStep, SentSound
<1> QED BY <1>1, <1>2 DEF WireInvariant

\* A reader of a stream gives up where nothing is left.
LEMMA GivesUp ==
  ASSUME WireInvariant, UNCHANGED <<sent, eof, pair, received, stream, frames, rmsg>>,
         rpc' = "failed", eof, received = sent
  PROVE  WireInvariant'
<1>1. HeaderInStep' /\ StreamInStep' /\ FramesInStep' /\ Stopped'
  BY DEF HeaderInStep, StreamInStep, FramesInStep, Stopped
<1>2. IsPrefix(received', sent)
  BY DEF WireInvariant, InStep
<1> QED BY <1>1, <1>2, MessagesInStep, Taken

\* The bytes of the next message, where its header is to be read.
LEMMA Ahead ==
  ASSUME WireInvariant, pair # "go-js", rpc = "header", Len(received) < Len(sent),
         NEW m, m = sent[Len(received) + 1]
  PROVE  \E r \in Seq(Nat) : stream = MakeMsg(m.h) \o (m.payload \o r)
                             /\ BytesLeft(sent, Len(received) + 1, r)
<1>1. PICK n : n = Len(received)
  OBVIOUS
<1>2. AllSound(sent) /\ n \in Nat /\ n < Len(sent) /\ stream \in Seq(Nat)
  BY <1>1, MessagesInStep
<1>3. BytesLeft(sent, n, stream)
  BY <1>1 DEF WireInvariant, StreamInStep
<1> QED BY <1>1, <1>2, <1>3, NextBytes

\* Where no message is left to read, nothing is in the stream, and it is too short.
LEMMA NoneAhead ==
  ASSUME WireInvariant, pair # "go-js", rpc = "header", Len(received) >= Len(sent)
  PROVE  received = sent /\ stream = <<>> /\ ReadMsg(stream) = Short
<1>1. Len(received) = Len(sent) /\ received = sent /\ AllSound(sent) /\ stream \in Seq(Nat)
  BY MessagesInStep
<1>2. BytesLeft(sent, Len(sent), stream)
  BY <1>1 DEF WireInvariant, StreamInStep
<1>3. stream = <<>>
  BY <1>1, <1>2, NoBytes
<1>4. Len(stream) = 0
  BY <1>3
<1> QED BY <1>1, <1>3, <1>4 DEF ReadMsg, FirstRead, MinSize

\* ReadMsg in the loop of Read takes the header of the next message and no byte more, or
\* ends where none is left.
LEMMA ReadHeaderKeeps ==
  ASSUME WireInvariant, pair # "go-js", ReadHeader, UNCHANGED <<pair, frames>>
  PROVE  WireInvariant'
<1>1. PICK x : x = ReadMsg(stream)
  OBVIOUS
<1>2. /\ rpc = "header"
      /\ \/ /\ x.ok
            /\ stream' = SubSeq(stream, x.n + 1, Len(stream))
            /\ rmsg' = x.h /\ rpc' = "payload" /\ UNCHANGED received
         \/ x.err /\ rpc' = "failed" /\ UNCHANGED <<stream, rmsg, received>>
      /\ UNCHANGED <<eof, sent>>
  BY <1>1 DEF ReadHeader
<1>3. PICK n \in Nat, k \in Nat : n = Len(received) /\ k = Len(sent)
  BY MessagesInStep
<1>4. CASE n >= k
  <2>1. received = sent /\ x = Short
    BY <1>1, <1>2, <1>3, <1>4, NoneAhead
  <2>2. ~x.ok /\ (x.err => eof)
    BY <2>1 DEF Short, Failed, NotYet
  <2> QED BY <1>2, <2>1, <2>2, GivesUp
<1>5. CASE n < k
  <2>1. PICK m : m = sent[n + 1]
    OBVIOUS
  <2>2. PICK r \in Seq(Nat) : stream = MakeMsg(m.h) \o (m.payload \o r)
                              /\ BytesLeft(sent, n + 1, r)
    BY <1>2, <1>3, <1>5, <2>1, Ahead
  <2>3. /\ Sound(m.h) /\ m.payload \in Seq(Nat) /\ MakeMsg(m.h) \in Seq(Nat) /\ m.h \in Headers
    BY <1>3, <1>5, <2>1, NextMsg
  <2>4. PICK h, b, p : h = m.h /\ b = MakeMsg(m.h) /\ p = m.payload \o r
    OBVIOUS
  <2>5. b \in Seq(Nat) /\ p \in Seq(Nat) /\ stream = b \o p /\ Sound(h) /\ b = MakeMsg(h)
    BY <2>2, <2>3, <2>4, ConcatProperties
  <2>6. \/ \E j \in Nat : x = Got(h, j) /\ (h.t # "f" => j = Len(b))
        \/ x = NotYet
    BY <1>1, <2>5, HeaderRoundTrip
  <2>7. CASE x = NotYet
    BY <1>2, <2>7 DEF NotYet
  <2>8. ASSUME NEW j \in Nat, x = Got(h, j), h.t # "f" => j = Len(b) PROVE WireInvariant'
    <3>1. x.ok /\ ~x.err /\ x.n = j /\ x.h = h
      BY <2>8 DEF Got
    <3>2. /\ stream' = SubSeq(stream, j + 1, Len(stream))
          /\ rmsg' = h /\ rpc' = "payload" /\ received' = received
          /\ UNCHANGED <<eof, sent, pair, frames>>
      BY <1>2, <3>1
    <3>3. stream' \in Seq(Nat)
      <4>1. stream \in Seq(Nat)
        BY MessagesInStep
      <4>2. PICK s, l : s = stream /\ l = Len(stream)
        OBVIOUS
      <4>3. l \in Nat /\ j + 1 \in Int /\ l \in Int
        BY <4>1, <4>2, LenProperties
      <4>4. \A i \in j + 1 .. l : s[i] \in Nat
        <5> TAKE i \in j + 1 .. l
        <5>1. i \in 1 .. l
          BY <4>3
        <5> QED BY <5>1, <4>1, <4>2, ElementOfSeq
      <4>5. SubSeq(s, j + 1, l) \in Seq(Nat)
        BY <4>3, <4>4, SubSeqProperties
      <4> QED BY <4>2, <4>5, <3>2
    <3>4. HeaderInStep'
      BY <3>2, <1>3, <1>5, <2>1, <2>4 DEF HeaderInStep
    <3>5. h.t # "f" => stream' = p
      BY <2>5, <2>8, <3>2, DropIs
    <3>6. BytesLeft(sent, n, b \o p)
      BY <1>2, <1>3, <2>5 DEF WireInvariant, StreamInStep
    <3>7. rmsg'.t # "f" => BytesLeft(sent, n, MakeMsg(rmsg') \o stream')
      BY <3>2, <3>5, <3>6, <2>5
    <3>8. StreamInStep'
      BY <3>2, <3>7, <1>3 DEF StreamInStep
    <3>9. FramesInStep' /\ Stopped'
      BY <3>2 DEF FramesInStep, Stopped
    <3>10. received' \in Seq(Messages) /\ IsPrefix(received', sent) /\ frames' \in Seq(Seq(Nat))
      BY <3>2, MessagesInStep DEF WireInvariant, InStep
    <3>11. rmsg' \in Headers /\ rpc' \in {"header", "payload", "done", "failed"}
      BY <3>2, <2>3, <2>4
    <3>12. UNCHANGED <<sent, eof, pair>>
      BY <3>2
    <3> QED BY <3>3, <3>4, <3>8, <3>9, <3>10, <3>11, <3>12, Taken
  <2> QED BY <2>6, <2>7, <2>8
<1> QED BY <1>3, <1>4, <1>5

\* How the type of what was read decides where the reader goes.
LEMMA AfterPayload ==
  ASSUME ReadPayload
  PROVE  /\ rpc = "payload" /\ UNCHANGED <<eof, sent, rmsg>>
         /\ \/ /\ Len(stream) >= PayloadSize
               /\ received' = Append(received, [h |-> rmsg,
                                                payload |-> Part(stream, 0, PayloadSize)])
               /\ stream' = SubSeq(stream, PayloadSize + 1, Len(stream))
               /\ rmsg.t = "f" => rpc' = "done"
               /\ rmsg.t \notin {"f", "?"} => rpc' = "header"
            \/ Len(stream) < PayloadSize
<1>1. ASSUME rmsg.t = "f"
      PROVE  (CASE rmsg.t = "f" -> "done" [] rmsg.t = "?" -> "failed" [] OTHER -> "header") = "done"
  BY <1>1
<1>2. ASSUME rmsg.t \notin {"f", "?"}
      PROVE  (CASE rmsg.t = "f" -> "done" [] rmsg.t = "?" -> "failed" [] OTHER -> "header")
             = "header"
  BY <1>2
<1> QED BY <1>1, <1>2, Zenon DEF ReadPayload

\* What is there of a message whose header was read.
LEMMA PayloadAhead ==
  ASSUME WireInvariant, pair # "go-js", rpc = "payload", rmsg.t # "f",
         NEW m, m = sent[Len(received) + 1]
  PROVE  \E r \in Seq(Nat) : stream = m.payload \o r /\ BytesLeft(sent, Len(received) + 1, r)
<1>1. PICK n : n = Len(received)
  OBVIOUS
<1>2. AllSound(sent) /\ n \in Nat /\ n < Len(sent) /\ stream \in Seq(Nat)
  BY <1>1, MessagesInStep DEF WireInvariant, HeaderInStep
<1>3. m.payload \in Seq(Nat) /\ MakeMsg(m.h) \in Seq(Nat) /\ rmsg = m.h
  BY <1>1, <1>2, NextMsg
<1>4. PICK x, s, p : x = MakeMsg(m.h) /\ s = stream /\ p = m.payload
  OBVIOUS
<1>5. x \in Seq(Nat) /\ s \in Seq(Nat) /\ p \in Seq(Nat) /\ x \o s \in Seq(Nat)
  BY <1>2, <1>3, <1>4, ConcatProperties
<1>6. BytesLeft(sent, n, x \o s)
  BY <1>1, <1>3, <1>4 DEF WireInvariant, StreamInStep
<1>7. PICK y : y = x \o s
  OBVIOUS
<1>8. PICK r \in Seq(Nat) : y = MakeMsg(m.h) \o (m.payload \o r) /\ BytesLeft(sent, n + 1, r)
  BY <1>1, <1>2, <1>5, <1>6, <1>7, NextBytes
<1>9. p \o r \in Seq(Nat)
  BY <1>5, ConcatProperties
<1>10. s = p \o r
  BY <1>4, <1>5, <1>7, <1>8, <1>9, ConcatSimplifications
<1> QED BY <1>1, <1>4, <1>8, <1>10

\* The handler of a message takes its payload.
LEMMA ReadPayloadKeeps ==
  ASSUME WireInvariant, pair # "go-js", ReadPayload, UNCHANGED <<pair, frames>>
  PROVE  WireInvariant'
<1>1. PICK n, m : n = Len(received) /\ m = sent[Len(received) + 1]
  OBVIOUS
<1>2. rpc = "payload" /\ n < Len(sent) /\ n \in Nat /\ UNCHANGED <<eof, sent, rmsg, pair, frames>>
  BY <1>1, AfterPayload, MessagesInStep DEF WireInvariant, HeaderInStep
<1>3. /\ SoundMsg(m) /\ Sound(m.h) /\ m.payload \in Seq(Nat)
      /\ m = [h |-> m.h, payload |-> m.payload]
      /\ Len(m.payload) = IF m.h.t \in NoPayload THEN 0 ELSE m.h.size
      /\ rmsg = m.h /\ rmsg \in Headers
  BY <1>1, <1>2, NextMsg
<1>4. PayloadSize = Len(m.payload) /\ Len(m.payload) \in Nat /\ rmsg.t # "?"
  BY <1>3, LenProperties DEF PayloadSize, Sound
<1>5. PICK p, l : p = m.payload /\ l = Len(m.payload)
  OBVIOUS
<1>6. frames' \in Seq(Seq(Nat)) /\ FramesInStep'
  BY <1>2, MessagesInStep DEF FramesInStep
<1>7. CASE rmsg.t # "f"
  <2>1. PICK r \in Seq(Nat) : stream = m.payload \o r /\ BytesLeft(sent, n + 1, r)
    BY <1>1, <1>2, <1>7, PayloadAhead
  <2>2. stream = p \o r /\ p \in Seq(Nat) /\ l \in Nat /\ l = Len(p)
    BY <1>3, <1>4, <1>5, <2>1
  <2>3. Len(r) \in Nat /\ Len(stream) = l + Len(r)
    BY <2>2, ConcatProperties, LenProperties
  <2>4. ~(Len(stream) < PayloadSize)
    BY <2>2, <2>3, <1>4, <1>5
  <2>5. /\ received' = Append(received, [h |-> rmsg, payload |-> Part(stream, 0, l)])
        /\ stream' = SubSeq(stream, l + 1, Len(stream))
        /\ rpc' = "header"
    BY <2>4, <1>3, <1>4, <1>5, <1>7, AfterPayload
  <2>6. stream' = r
    BY <2>2, <2>5, DropIs
  <2>7. Part(stream, 0, l) = p
    <3>1. <<>> \in Seq(Nat) /\ Len(<<>>) = 0
      BY EmptySeq
    <3>2. p \o r \in Seq(Nat)
      BY <2>2, ConcatProperties
    <3>3. <<>> \o (p \o r) = p \o r
      BY <3>2, ConcatEmptySeq
    <3>4. Part(<<>> \o (p \o r), Len(<<>>), Len(p)) = p
      BY <3>1, <2>2, PartIs
    <3> QED BY <3>1, <3>3, <3>4, <2>2
  <2>8. received' = Append(received, m)
    BY <2>5, <2>7, <1>3, <1>5
  <2>9. received' \in Seq(Messages) /\ Len(received') = n + 1 /\ IsPrefix(received', sent)
    <3>1. PICK y : y = Append(received, m)
      OBVIOUS
    <3> QED BY <3>1, <2>8, <1>1, <1>2, NextTaken
  <2>10. HeaderInStep' /\ Stopped'
    BY <2>5 DEF HeaderInStep, Stopped
  <2>11. StreamInStep'
    BY <2>1, <2>5, <2>6, <2>9, <1>2 DEF StreamInStep
  <2>12. stream' \in Seq(Nat) /\ rmsg' \in Headers /\ UNCHANGED <<sent, eof, pair>>
         /\ rpc' \in {"header", "payload", "done", "failed"}
    BY <2>5, <2>6, <1>2, <1>3
  <2> QED BY <2>9, <2>10, <2>11, <2>12, <1>6, Taken
<1>8. CASE rmsg.t = "f"
  <2>1. l = 0 /\ p = <<>>
    <3>1. l = 0
      BY <1>3, <1>5, <1>8 DEF NoPayload
    <3> QED BY <3>1, <1>3, <1>5, EmptySeq
  <2>2. Len(stream) \in Nat /\ stream \in Seq(Nat)
    BY MessagesInStep, LenProperties
  <2>3. /\ received' = Append(received, [h |-> rmsg, payload |-> Part(stream, 0, 0)])
        /\ stream' = SubSeq(stream, 1, Len(stream))
        /\ rpc' = "done"
    <3>1. PayloadSize = 0 /\ PayloadSize + 1 = 1
      BY <2>1, <1>4, <1>5
    <3>2. ~(Len(stream) < PayloadSize)
      BY <3>1, <2>2
    <3> QED BY <3>1, <3>2, <1>8, AfterPayload
  <2>4. Part(stream, 0, 0) = <<>>
    BY <2>2 DEF Part
  <2>5. stream' = stream
    BY <2>2, <2>3, SubSeqFull
  <2>6. received' = Append(received, m)
    BY <2>1, <2>3, <2>4, <1>3, <1>5
  <2>9. /\ received' \in Seq(Messages) /\ Len(received') = n + 1 /\ IsPrefix(received', sent)
        /\ received' # <<>> /\ received'[Len(received')] = m
    <3>1. PICK y : y = Append(received, m)
      OBVIOUS
    <3> QED BY <3>1, <2>6, <1>1, <1>2, NextTaken
  <2>10. HeaderInStep' /\ StreamInStep'
    BY <2>3 DEF HeaderInStep, StreamInStep
  <2>11. Stopped'
    BY <2>3, <2>9, <1>3, <1>8 DEF Stopped
  <2>12. stream' \in Seq(Nat) /\ rmsg' \in Headers /\ UNCHANGED <<sent, eof, pair>>
         /\ rpc' \in {"header", "payload", "done", "failed"}
    BY <2>2, <2>3, <2>5, <1>2, <1>3
  <2> QED BY <2>9, <2>10, <2>11, <2>12, <1>6, Taken
<1> QED BY <1>7, <1>8

-----------------------------------------------------------------------------
(* Reading frames.                                                          *)

\* The first of several frames, and the others.
LEMMA FirstFrame ==
  ASSUME NEW a \in Seq(Nat), NEW r \in Seq(Seq(Nat))
  PROVE  /\ <<a>> \o r \in Seq(Seq(Nat)) /\ <<a>> \o r # <<>>
         /\ Head(<<a>> \o r) = a /\ Tail(<<a>> \o r) = r
<1>1. PICK S : S = Seq(Nat)
  OBVIOUS
<1>2. a \in S /\ r \in Seq(S)
  BY <1>1
<1>3. <<a>> \in Seq(S) /\ Len(<<a>>) = 1 /\ <<a>>[1] = a
  BY <1>2
<1>4. PICK f : f = <<a>>
  OBVIOUS
<1>5. PICK s : s = f \o r
  OBVIOUS
<1>6. s \in Seq(S) /\ Len(s) = 1 + Len(r) /\ s[1] = a /\ Len(r) \in Nat
  BY <1>2, <1>3, <1>4, <1>5, ConcatProperties, LenProperties
<1>7. s # <<>> /\ Head(s) = a
  BY <1>6
<1>8. \A i \in 1 .. Len(r) : s[1 + i] = r[i]
  BY <1>2, <1>3, <1>4, <1>5, ConcatProperties
<1>9. \A i \in 1 .. Len(r) : s[i + 1] = r[i]
  <2> TAKE i \in 1 .. Len(r)
  <2>1. 1 + i = i + 1
    BY <1>6
  <2> QED BY <2>1, <1>8
<1>10. Tail(s) = r
  <2>1. PICK y : y = Tail(s)
    OBVIOUS
  <2>2. y \in Seq(S) /\ Len(y) = Len(r)
    BY <2>1, <1>6, <1>7, HeadTailProperties
  <2>3. \A i \in 1 .. Len(r) : y[i] = s[i + 1]
    BY <2>1, <2>2, <1>6, <1>7, HeadTailProperties
  <2>4. \A i \in 1 .. Len(r) : y[i] = r[i]
    BY <2>2, <2>3, <1>9
  <2> QED BY <2>1, <2>2, <2>4, <1>2, SeqEqual
<1> QED BY <1>1, <1>4, <1>5, <1>6, <1>7, <1>10

\* The frames of the next message, where its header is to be read.
LEMMA FramesAhead ==
  ASSUME WireInvariant, pair = "go-js", rpc = "header", Len(received) < Len(sent),
         NEW m, m = sent[Len(received) + 1]
  PROVE  \E r \in Seq(Seq(Nat)) : frames = <<MakeMsg(m.h)>> \o (PayloadFrames(m) \o r)
                                  /\ FramesLeft(sent, Len(received) + 1, r)
<1>1. PICK n : n = Len(received)
  OBVIOUS
<1>2. AllSound(sent) /\ n \in Nat /\ n < Len(sent) /\ frames \in Seq(Seq(Nat))
  BY <1>1, MessagesInStep
<1>3. FramesLeft(sent, n, frames)
  BY <1>1 DEF WireInvariant, FramesInStep
<1> QED BY <1>1, <1>2, <1>3, NextFrames

\* Where no message is left to read, there is no frame.
LEMMA NoFrameAhead ==
  ASSUME WireInvariant, pair = "go-js", rpc = "header", Len(received) >= Len(sent)
  PROVE  received = sent /\ frames = <<>>
<1>1. Len(received) = Len(sent) /\ received = sent /\ AllSound(sent) /\ frames \in Seq(Seq(Nat))
  BY MessagesInStep
<1>2. FramesLeft(sent, Len(sent), frames)
  BY <1>1 DEF WireInvariant, FramesInStep
<1> QED BY <1>1, <1>2, NoFrames

\* The frame of a payload whose header was read.
LEMMA PayloadFrameAhead ==
  ASSUME WireInvariant, pair = "go-js", rpc = "payload",
         NEW m, m = sent[Len(received) + 1]
  PROVE  \E r \in Seq(Seq(Nat)) : frames = <<m.payload>> \o r
                                  /\ FramesLeft(sent, Len(received) + 1, r)
<1>1. PICK n : n = Len(received)
  OBVIOUS
<1>2. AllSound(sent) /\ n \in Nat /\ n < Len(sent) /\ frames \in Seq(Seq(Nat))
  BY <1>1, MessagesInStep DEF WireInvariant, HeaderInStep
<1>3. /\ m.payload \in Seq(Nat) /\ MakeMsg(m.h) \in Seq(Nat) /\ rmsg = m.h
      /\ Len(m.payload) = IF m.h.t \in NoPayload THEN 0 ELSE m.h.size
      /\ SoundMsg(m)
  BY <1>1, <1>2, NextMsg
<1>4. FramesLeft(sent, n, <<MakeMsg(m.h)>> \o frames) /\ m.h.t # "f" /\ HasPayload(m.h)
  BY <1>1, <1>3 DEF WireInvariant, FramesInStep
<1>5. PayloadFrames(m) = <<m.payload>>
  <2>1. Len(m.payload) # 0
    BY <1>3, <1>4 DEF HasPayload, NoPayload
  <2>2. m.payload # <<>>
    BY <2>1, EmptySeq
  <2> QED BY <2>2 DEF PayloadFrames
<1>6. PICK S, x, s, p : S = Seq(Nat) /\ x = <<MakeMsg(m.h)>> /\ s = frames /\ p = <<m.payload>>
  OBVIOUS
<1>7. x \in Seq(S) /\ s \in Seq(S) /\ p \in Seq(S)
  BY <1>2, <1>3, <1>6
<1>8. PICK y : y = x \o s
  OBVIOUS
<1>9. y \in Seq(S)
  BY <1>7, <1>8, ConcatProperties
<1>10. PICK r \in Seq(S) : y = <<MakeMsg(m.h)>> \o (PayloadFrames(m) \o r)
                            /\ FramesLeft(sent, n + 1, r)
  BY <1>1, <1>2, <1>4, <1>6, <1>8, <1>9, NextFrames
<1>11. p \o r \in Seq(S)
  BY <1>7, ConcatProperties
<1>12. x \o s = x \o (p \o r)
  BY <1>5, <1>6, <1>8, <1>10
<1>13. s = p \o r
  BY <1>7, <1>11, <1>12, ConcatSimplifications
<1> QED BY <1>1, <1>6, <1>10, <1>13

\* JavaScript has the whole of the next message.
LEMMA Handled ==
  ASSUME WireInvariant, pair = "go-js", Len(received) < Len(sent),
         NEW m, m = sent[Len(received) + 1], HandleMsg(m),
         rmsg' \in Headers, frames' \in Seq(Seq(Nat)), FramesLeft(sent, Len(received) + 1, frames'),
         UNCHANGED <<stream, eof, sent, pair>>
  PROVE  WireInvariant'
<1>1. PICK n, y : n = Len(received) /\ y = Append(received, m)
  OBVIOUS
<1>2. /\ y \in Seq(Messages) /\ Len(y) = n + 1 /\ IsPrefix(y, sent)
      /\ y # <<>> /\ y[Len(y)] = m
  BY <1>1, NextTaken
<1>3. /\ received' = y
      /\ m.h.t \in JsHandled => rpc' = "header"
      /\ m.h.t \notin JsHandled => rpc' = "done"
  BY <1>1 DEF HandleMsg
<1>4. rpc' \in {"header", "done"} /\ rpc' \in {"header", "payload", "done", "failed"}
  BY <1>3
<1>5. HeaderInStep' /\ StreamInStep'
  BY <1>4 DEF HeaderInStep, StreamInStep
<1>6. FramesInStep'
  BY <1>1, <1>2, <1>3, <1>4 DEF FramesInStep
<1>7. Stopped'
  BY <1>2, <1>3, <1>4 DEF Stopped
<1>8. stream' \in Seq(Nat)
  BY MessagesInStep
<1>9. received' \in Seq(Messages) /\ IsPrefix(received', sent)
  BY <1>2, <1>3
<1> QED BY <1>4, <1>5, <1>6, <1>7, <1>8, <1>9, Taken

\* readMsg takes the frame of a header, and handles a message without payload.
LEMMA JsReadMsgKeeps ==
  ASSUME WireInvariant, pair = "go-js", JsReadMsg
  PROVE  WireInvariant'
<1>1. PICK n \in Nat, k \in Nat : n = Len(received) /\ k = Len(sent)
  BY MessagesInStep
<1>2. PICK m : m = sent[n + 1]
  OBVIOUS
<1>3. PICK x : x = ParseMsg(Head(frames))
  OBVIOUS
<1>4. /\ rpc = "header" /\ frames # <<>> /\ frames' = Tail(frames) /\ rmsg' = x
      /\ UNCHANGED <<stream, eof, sent, pair>>
      /\ x.t # "f" /\ HasPayload(x) => rpc' = "payload" /\ UNCHANGED received
      /\ ~(x.t # "f" /\ HasPayload(x)) => HandleMsg([h |-> x, payload |-> <<>>])
  BY <1>3 DEF JsReadMsg
<1>5. n < k
  BY <1>1, <1>4, NoFrameAhead
<1>6. PICK r \in Seq(Seq(Nat)) : frames = <<MakeMsg(m.h)>> \o (PayloadFrames(m) \o r)
                                 /\ FramesLeft(sent, n + 1, r)
  BY <1>1, <1>2, <1>4, <1>5, FramesAhead
<1>7. /\ SoundMsg(m) /\ Sound(m.h) /\ m.payload \in Seq(Nat) /\ m.h \in Headers
      /\ m = [h |-> m.h, payload |-> m.payload]
      /\ Len(m.payload) = IF m.h.t \in NoPayload THEN 0 ELSE m.h.size
      /\ MakeMsg(m.h) \in Seq(Nat) /\ m.h.wait < Half /\ m.h.size < Half
  BY <1>1, <1>2, <1>5, NextMsg
<1>8. PayloadFrames(m) \in Seq(Seq(Nat))
  BY <1>7, MsgBytes DEF PayloadFrames
<1>9. PICK b, p : b = MakeMsg(m.h) /\ p = PayloadFrames(m) \o r
  OBVIOUS
<1>10. b \in Seq(Nat) /\ p \in Seq(Seq(Nat)) /\ frames = <<b>> \o p
  BY <1>6, <1>7, <1>8, <1>9, ConcatProperties
<1>11. Head(frames) = b /\ frames' = p
  BY <1>4, <1>10, FirstFrame
<1>12. x = m.h
  BY <1>3, <1>7, <1>9, <1>11, JsHeaderRoundTrip
<1>13. CASE x.t # "f" /\ HasPayload(x)
  <2>1. rpc' = "payload" /\ received' = received /\ rmsg' = m.h
    BY <1>4, <1>12, <1>13
  <2>2. HeaderInStep'
    BY <2>1, <1>1, <1>2, <1>4, <1>5 DEF HeaderInStep
  <2>3. StreamInStep' /\ Stopped'
    BY <2>1, <1>4 DEF StreamInStep, Stopped
  <2>4. FramesLeft(sent, n, <<b>> \o p)
    BY <1>1, <1>4, <1>10 DEF WireInvariant, FramesInStep
  <2>5. FramesLeft(sent', Len(received'), <<MakeMsg(rmsg')>> \o frames')
    BY <2>1, <2>4, <1>1, <1>4, <1>9, <1>11
  <2>6. HasPayload(rmsg') /\ rmsg'.t # "f"
    BY <2>1, <1>12, <1>13
  <2>7. FramesInStep'
    BY <2>1, <2>5, <2>6 DEF FramesInStep
  <2>8. received' \in Seq(Messages) /\ IsPrefix(received', sent) /\ stream' \in Seq(Nat)
        /\ frames' \in Seq(Seq(Nat))
    BY <2>1, <1>4, <1>10, <1>11, MessagesInStep DEF WireInvariant, InStep
  <2>9. rmsg' \in Headers /\ rpc' \in {"header", "payload", "done", "failed"}
    BY <2>1, <1>7
  <2> QED BY <2>2, <2>3, <2>7, <2>8, <2>9, <1>4, Taken
<1>14. CASE ~(x.t # "f" /\ HasPayload(x))
  <2>1. Len(m.payload) = 0
    BY <1>7, <1>12, <1>14 DEF HasPayload, NoPayload
  <2>2. m.payload = <<>>
    BY <2>1, <1>7, EmptySeq
  <2>3. HandleMsg(m)
    BY <2>2, <1>4, <1>7, <1>12, <1>14
  <2>4. PayloadFrames(m) = <<>>
    BY <2>2 DEF PayloadFrames
  <2>5. p = r
    BY <2>4, <1>9, ConcatEmptySeq
  <2>6. FramesLeft(sent, n + 1, frames') /\ frames' \in Seq(Seq(Nat)) /\ rmsg' \in Headers
    BY <2>5, <1>4, <1>6, <1>7, <1>10, <1>11, <1>12
  <2> QED BY <2>3, <2>6, <1>1, <1>2, <1>4, <1>5, Handled
<1> QED BY <1>13, <1>14

\* readMsgPayload takes the frame of a payload.
LEMMA JsReadPayloadKeeps ==
  ASSUME WireInvariant, pair = "go-js", JsReadPayload
  PROVE  WireInvariant'
<1>1. PICK n \in Nat, k \in Nat : n = Len(received) /\ k = Len(sent)
  BY MessagesInStep
<1>2. PICK m : m = sent[n + 1]
  OBVIOUS
<1>3. /\ rpc = "payload" /\ frames # <<>> /\ frames' = Tail(frames)
      /\ HandleMsg([h |-> rmsg, payload |-> Head(frames)])
      /\ UNCHANGED <<stream, eof, sent, rmsg, pair>>
  BY DEF JsReadPayload
<1>4. n < k
  BY <1>1, <1>3 DEF WireInvariant, HeaderInStep
<1>5. PICK r \in Seq(Seq(Nat)) : frames = <<m.payload>> \o r /\ FramesLeft(sent, n + 1, r)
  BY <1>1, <1>2, <1>3, PayloadFrameAhead
<1>6. m.payload \in Seq(Nat) /\ m = [h |-> m.h, payload |-> m.payload] /\ rmsg = m.h
      /\ m.h \in Headers
  BY <1>1, <1>2, <1>3, <1>4, NextMsg
<1>7. Head(frames) = m.payload /\ frames' = r
  <2>1. PICK p : p = m.payload
    OBVIOUS
  <2> QED BY <2>1, <1>3, <1>5, <1>6, FirstFrame
<1>8. HandleMsg(m)
  BY <1>3, <1>6, <1>7
<1>9. rmsg' \in Headers
  BY <1>3, <1>6
<1> QED BY <1>1, <1>2, <1>3, <1>4, <1>5, <1>7, <1>8, <1>9, Handled

\* The "close" event comes after the last frame.
LEMMA JsClosedKeeps ==
  ASSUME WireInvariant, pair = "go-js", JsClosed
  PROVE  WireInvariant'
<1>1. /\ eof /\ frames = <<>> /\ rpc \in {"header", "payload"} /\ rpc' = "failed"
      /\ UNCHANGED <<stream, eof, sent, rmsg, received, pair, frames>>
  BY DEF JsClosed
<1>2. rpc # "payload"
  <2>1. SUFFICES ASSUME rpc = "payload" PROVE FALSE
    OBVIOUS
  <2>2. PICK m : m = sent[Len(received) + 1]
    OBVIOUS
  <2>3. PICK r \in Seq(Seq(Nat)) : frames = <<m.payload>> \o r
    BY <2>1, <2>2, PayloadFrameAhead
  <2>4. Len(received) < Len(sent)
    BY <2>1 DEF WireInvariant, HeaderInStep
  <2>5. m.payload \in Seq(Nat)
    BY <2>2, <2>4, NextMsg
  <2> QED BY <2>3, <2>5, <1>1, FirstFrame
<1>3. received = sent
  <2>1. SUFFICES ASSUME ~(Len(received) >= Len(sent)) PROVE FALSE
    BY <1>1, <1>2, NoFrameAhead
  <2>2. PICK m : m = sent[Len(received) + 1]
    OBVIOUS
  <2>3. Len(received) < Len(sent)
    BY <2>1, MessagesInStep
  <2>4. SoundMsg(m) /\ MakeMsg(m.h) \in Seq(Nat)
    BY <2>2, <2>3, NextMsg
  <2>5. PICK r \in Seq(Seq(Nat)) : frames = <<MakeMsg(m.h)>> \o (PayloadFrames(m) \o r)
    BY <2>2, <2>3, <1>1, <1>2, FramesAhead
  <2>6. PICK p : p = PayloadFrames(m) \o r
    OBVIOUS
  <2>7. p \in Seq(Seq(Nat))
    <3>1. PayloadFrames(m) \in Seq(Seq(Nat))
      BY <2>4, MsgBytes DEF PayloadFrames
    <3> QED BY <3>1, <2>6, ConcatProperties
  <2>8. PICK b : b = MakeMsg(m.h)
    OBVIOUS
  <2>9. frames = <<b>> \o p /\ b \in Seq(Nat)
    BY <2>4, <2>5, <2>6, <2>8
  <2> QED BY <2>7, <2>9, <1>1, FirstFrame
<1> QED BY <1>1, <1>3, GivesUp

-----------------------------------------------------------------------------
(* The invariant holds, and what it says.                                   *)

\* Every step of either end keeps the invariant.
LEMMA WireStep ==
  ASSUME NamesNotEmpty, StringsPlain, NumbersSigned
  PROVE  WireInvariant /\ [JsNext]_jsVars => WireInvariant'
<1> SUFFICES ASSUME WireInvariant, [JsNext]_jsVars PROVE WireInvariant'
  OBVIOUS
<1>1. CASE pair = "go-go" /\ GoNext /\ UNCHANGED <<pair, frames>>
  <2>1. CASE Write
    BY <1>1, <2>1, WriteKeeps
  <2>2. CASE CloseConn
    BY <1>1, <2>2, CloseKeeps
  <2>3. CASE ReadHeader
    BY <1>1, <2>3, ReadHeaderKeeps
  <2>4. CASE ReadPayload
    BY <1>1, <2>4, ReadPayloadKeeps
  <2>5. CASE Quiet
    BY <1>1, <2>5, CloseKeeps
  <2> QED BY <1>1, <2>1, <2>2, <2>3, <2>4, <2>5 DEF GoNext
<1>2. CASE pair \in {"js-go", "text-go"} /\ JsWrite
  BY <1>2, JsWriteKeeps
<1>3. CASE /\ pair \in {"js-go", "text-go"}
           /\ CloseConn \/ ReadHeader \/ ReadPayload \/ Quiet
           /\ UNCHANGED <<pair, frames>>
  <2>1. CASE CloseConn
    BY <1>3, <2>1, CloseKeeps
  <2>2. CASE ReadHeader
    BY <1>3, <2>2, ReadHeaderKeeps
  <2>3. CASE ReadPayload
    BY <1>3, <2>3, ReadPayloadKeeps
  <2>4. CASE Quiet
    BY <1>3, <2>4, CloseKeeps
  <2> QED BY <1>3, <2>1, <2>2, <2>3, <2>4
<1>4. CASE pair = "go-js" /\ (WriteFrames \/ JsReadMsg \/ JsReadPayload \/ JsClosed)
  <2>1. CASE WriteFrames
    BY <1>4, <2>1, WriteFramesKeeps
  <2>2. CASE JsReadMsg
    BY <1>4, <2>2, JsReadMsgKeeps
  <2>3. CASE JsReadPayload
    BY <1>4, <2>3, JsReadPayloadKeeps
  <2>4. CASE JsClosed
    BY <1>4, <2>4, JsClosedKeeps
  <2> QED BY <1>4, <2>1, <2>2, <2>3, <2>4
<1>5. CASE pair = "go-js" /\ (CloseConn \/ Quiet) /\ UNCHANGED <<pair, frames>>
  BY <1>5, CloseKeeps
<1>6. CASE UNCHANGED jsVars
  <2>1. UNCHANGED <<stream, eof, sent, rpc, rmsg, received, pair, frames>>
    BY <1>6 DEF jsVars, goVars
  <2>2. eof' \in BOOLEAN /\ (eof => eof')
    BY <2>1, MessagesInStep
  <2> QED BY <2>1, <2>2, Closed
<1> QED BY <1>1, <1>2, <1>3, <1>4, <1>5, <1>6 DEF JsNext

\* For every number of digits per place, every names, payloads, ids, waits, codes, loads and
\* times that fit their fields, and every number of messages: what ReadMsg and protocol.js
\* have not read is at each moment exactly what is left of the messages written.
THEOREM WireInductive ==
  ASSUME NamesNotEmpty, StringsPlain, NumbersSigned
  PROVE  JsSpec => []WireInvariant
<1>1. JsInit => WireInvariant
  BY WireInit
<1>2. WireInvariant /\ [JsNext]_jsVars => WireInvariant'
  BY WireStep
<1> QED BY <1>1, <1>2, PTL DEF JsSpec

\* InStep: what ReadMsg (src/protocol.go) and protocol.js make of the bytes and frames that
\* writeMsg and sendMsg wrote is the messages that were written, in their order, whatever
\* the bytes of names and payloads are.
THEOREM MessagesArriveInStep ==
  ASSUME NamesNotEmpty, StringsPlain, NumbersSigned
  PROVE  JsSpec => []InStep
<1>1. JsSpec => []WireInvariant
  BY WireInductive
<1>2. WireInvariant => InStep
  BY DEF WireInvariant
<1> QED BY <1>1, <1>2, PTL

\* A message of the ones that were taken is among the ones that were sent.
LEMMA TakenFault ==
  ASSUME WireInvariant, Len(received) < Len(sent), sent[Len(received) + 1].h.t = "f"
  PROVE  HasFault(sent)
<1>1. sent \in Seq(Messages) /\ Len(received) + 1 \in 1 .. Len(sent)
  BY MessagesInStep
<1>2. Len(received) + 1 \in DOMAIN sent
  BY <1>1, LenProperties
<1> QED BY <1>2 DEF HasFault

\* A reader of a stream that waits has all, or what follows may end the stream.
LEMMA WaitingHasAll ==
  ASSUME WireInvariant, pair # "go-js", Waiting
  PROVE  received = sent \/ (HasFault(sent) /\ ~eof)
<1>1. PICK n \in Nat, k \in Nat : n = Len(received) /\ k = Len(sent)
  BY MessagesInStep
<1>2. PICK m : m = sent[n + 1]
  OBVIOUS
<1>3. ASSUME rpc = "header", ReadMsg(stream) = NotYet, n < k PROVE HasFault(sent) /\ ~eof
  <2>1. PICK r \in Seq(Nat) : stream = MakeMsg(m.h) \o (m.payload \o r)
    BY <1>1, <1>2, <1>3, Ahead
  <2>2. Sound(m.h) /\ m.payload \in Seq(Nat)
    BY <1>1, <1>2, <1>3, NextMsg
  <2>3. PICK h, p : h = m.h /\ p = m.payload \o r
    OBVIOUS
  <2>4. p \in Seq(Nat) /\ stream = MakeMsg(h) \o p /\ Sound(h)
    BY <2>1, <2>2, <2>3, ConcatProperties
  <2>5. \/ \E j \in Nat : NotYet = Got(h, j)
        \/ h.t = "f" /\ ~eof
    BY <1>3, <2>4, HeaderRoundTrip
  <2>6. \A j \in Nat : NotYet # Got(h, j)
    <3>1. ~NotYet.ok
      BY DEF NotYet
    <3>2. \A j \in Nat : Got(h, j).ok
      BY DEF Got
    <3> QED BY <3>1, <3>2
  <2>7. m.h.t = "f" /\ ~eof
    BY <2>3, <2>5, <2>6
  <2> QED BY <2>7, <1>1, <1>2, <1>3, TakenFault
<1>4. ASSUME rpc = "header", ~(n < k) PROVE received = sent
  BY <1>1, <1>4, NoneAhead
<1>5. ASSUME rpc = "payload" PROVE ~(Len(stream) < PayloadSize)
  <2>1. n < k
    BY <1>1, <1>5 DEF WireInvariant, HeaderInStep
  <2>2. /\ m.payload \in Seq(Nat) /\ rmsg = m.h
        /\ Len(m.payload) = IF m.h.t \in NoPayload THEN 0 ELSE m.h.size
    BY <1>1, <1>2, <1>5, <2>1, NextMsg
  <2>3. PayloadSize = Len(m.payload)
    BY <2>2 DEF PayloadSize
  <2>4. CASE rmsg.t = "f"
    <3>1. PayloadSize = 0
      BY <2>4 DEF PayloadSize, NoPayload
    <3>2. Len(stream) \in Nat
      BY MessagesInStep, LenProperties
    <3> QED BY <3>1, <3>2
  <2>5. CASE rmsg.t # "f"
    <3>1. PICK p : p = m.payload
      OBVIOUS
    <3>2. PICK r \in Seq(Nat) : stream = p \o r
      BY <1>1, <1>2, <1>5, <2>5, <3>1, PayloadAhead
    <3>3. p \in Seq(Nat) /\ Len(p) = PayloadSize
      BY <2>2, <2>3, <3>1
    <3>4. Len(stream) = Len(p) + Len(r) /\ Len(p) \in Nat /\ Len(r) \in Nat
      BY <3>2, <3>3, ConcatProperties, LenProperties
    <3> QED BY <3>3, <3>4
  <2> QED BY <2>4, <2>5
<1> QED BY <1>1, <1>3, <1>4, <1>5 DEF Waiting

\* JavaScript that has no frame to read has all.
LEMMA NoFrameHasAll ==
  ASSUME WireInvariant, pair = "go-js", rpc \in {"header", "payload"}, frames = <<>>
  PROVE  received = sent
<1>1. rpc # "payload"
  <2>1. SUFFICES ASSUME rpc = "payload" PROVE FALSE
    OBVIOUS
  <2>2. PICK p : p = sent[Len(received) + 1].payload
    OBVIOUS
  <2>3. PICK r \in Seq(Seq(Nat)) : frames = <<p>> \o r
    BY <2>1, <2>2, PayloadFrameAhead
  <2>4. Len(received) < Len(sent)
    BY <2>1 DEF WireInvariant, HeaderInStep
  <2>5. p \in Seq(Nat)
    BY <2>2, <2>4, NextMsg
  <2> QED BY <2>3, <2>5, FirstFrame
<1>2. ASSUME Len(received) < Len(sent) PROVE FALSE
  <2>1. PICK m : m = sent[Len(received) + 1]
    OBVIOUS
  <2>2. SoundMsg(m) /\ MakeMsg(m.h) \in Seq(Nat)
    BY <2>1, <1>2, NextMsg
  <2>3. PICK r \in Seq(Seq(Nat)) : frames = <<MakeMsg(m.h)>> \o (PayloadFrames(m) \o r)
    BY <2>1, <1>1, <1>2, FramesAhead
  <2>4. PICK b, p : b = MakeMsg(m.h) /\ p = PayloadFrames(m) \o r
    OBVIOUS
  <2>5. p \in Seq(Seq(Nat))
    <3>1. PayloadFrames(m) \in Seq(Seq(Nat))
      BY <2>2, MsgBytes DEF PayloadFrames
    <3> QED BY <3>1, <2>4, ConcatProperties
  <2>6. frames = <<b>> \o p /\ b \in Seq(Nat)
    BY <2>2, <2>3, <2>4
  <2> QED BY <2>5, <2>6, FirstFrame
<1>3. Len(received) >= Len(sent)
  BY <1>2, MessagesInStep
<1> QED BY <1>1, <1>3, NoFrameAhead

\* NothingHeldBack: a reader that waits has every message that was written, or a protocol
\* error may be too short for it; it never asks for bytes of a message to come, and it
\* leaves its loop on nothing but the end, a protocol error or a type it does not handle.
THEOREM NothingIsHeldBack ==
  ASSUME NamesNotEmpty, StringsPlain, NumbersSigned
  PROVE  JsSpec => []NothingHeldBack
<1>1. JsSpec => []WireInvariant
  BY WireInductive
<1>2. ASSUME WireInvariant PROVE NothingHeldBack
  <2>1. Stopped
    BY <1>2 DEF WireInvariant
  <2>2. pair # "go-js" /\ Waiting => received = sent \/ (HasFault(sent) /\ ~eof)
    BY <1>2, WaitingHasAll
  <2>3. rpc = "failed" => received = sent
    BY <2>1 DEF Stopped
  <2>4. pair = "go-js" /\ rpc # "done" /\ frames = <<>> => received = sent
    BY <1>2, <2>3, NoFrameHasAll, MessagesInStep
  <2>5. rpc = "done" => \/ HasFault(received)
                        \/ pair = "go-js" /\ received[Len(received)].h.t \notin JsHandled
    <3>1. SUFFICES ASSUME rpc = "done", received[Len(received)].h.t = "f" PROVE HasFault(received)
      BY <2>1 DEF Stopped
    <3>2. received # <<>> /\ received \in Seq(Messages)
      BY <1>2, <2>1, <3>1, MessagesInStep DEF Stopped
    <3>3. Len(received) \in DOMAIN received
      BY <3>2, EmptySeq, LenProperties
    <3> QED BY <3>1, <3>3 DEF HasFault
  <2> QED BY <2>2, <2>3, <2>4, <2>5 DEF NothingHeldBack
<1> QED BY <1>1, <1>2, PTL
==============================================================================
