------------------------------ MODULE Handlers ------------------------------
(***************************************************************************)
(* src/handle.go: registering handlers while sockets look them up.  Set 1  *)
(* is the outermost; set k + 1 was made from set k by NewSubHandlers.  The *)
(* three tables of a set (buffer requests, stream requests, notifications) *)
(* have a mutex each and the same code; this is any one of them.           *)
(*                                                                         *)
(* sync.RWMutex is external: a writer that waits keeps new readers out.    *)
(***************************************************************************)
EXTENDS Integers, FiniteSets

CONSTANTS
  Ops,       \* operations
  Fns,       \* handler functions
  NoFn,      \* nil
  Depth,     \* how many sets, one inside the other
  Finders,   \* goroutines that look up handlers: the readers of sockets
  Registrars \* goroutines that register handlers

ASSUME HandlersAssumption ==
  /\ NoFn \notin Fns /\ Depth \in Nat \ {0} /\ Finders \cap Registrars = {}

VARIABLES
  specific,  \* bufReqHandlers of each set
  fallback,  \* bufReqFallbackHandler of each set
  readers,   \* who holds each set's mutex for reading
  writer,    \* who holds it for writing, a set of one at most
  waiting,   \* who waits to write
  find,      \* what each finder is doing
  reg        \* what each registrar is doing

vars == <<specific, fallback, readers, writer, waiting, find, reg>>

Sets    == 1 .. Depth
AnyOp   == "any"      \* the empty name, with which a fallback is registered
MaybeFn == Fns \cup {NoFn}

\* A finder: in a set from from on, it wants or has the mutex of the set at, and
\* it returns what it found.
TypeOK ==
  /\ specific \in [Sets -> [Ops -> MaybeFn]] /\ fallback \in [Sets -> MaybeFn]
  /\ readers \in [Sets -> SUBSET Finders]
  /\ writer \in [Sets -> SUBSET Registrars] /\ waiting \in [Sets -> SUBSET Registrars]
  /\ find \in [Finders -> [pc : {"idle", "wants", "has", "found", "returns"}, from : Sets, at : Sets,
                           op : Ops, fn : MaybeFn]]
  /\ reg \in [Registrars -> [pc : {"idle", "wants", "has", "done"}, at : Sets,
                             op : Ops \cup {AnyOp}, fn : Fns]]

Init ==
  /\ specific = [k \in Sets |-> [o \in Ops |-> NoFn]]
  /\ fallback = [k \in Sets |-> NoFn]
  /\ readers = [k \in Sets |-> {}] /\ writer = [k \in Sets |-> {}]
  /\ waiting = [k \in Sets |-> {}]
  /\ find \in [Finders -> [pc : {"idle"}, from : {1}, at : {1}, op : Ops, fn : {NoFn}]]
  /\ reg \in [Registrars -> [pc : {"idle"}, at : {1}, op : {AnyOp}, fn : Fns]]

-----------------------------------------------------------------------------
(* FindBufferRequestHandler, once for each set it goes through.             *)

Call(f) ==
  /\ find[f].pc = "idle"
  /\ \E k \in Sets, o \in Ops :
       find' = [find EXCEPT ![f] = [pc |-> "wants", from |-> k, at |-> k, op |-> o, fn |-> NoFn]]
  /\ UNCHANGED <<specific, fallback, readers, writer, waiting, reg>>

RLock(f) ==
  LET k == find[f].at IN
  /\ find[f].pc = "wants" /\ writer[k] = {} /\ waiting[k] = {}
  /\ readers' = [readers EXCEPT ![k] = @ \cup {f}]
  /\ find' = [find EXCEPT ![f].pc = "has"]
  /\ UNCHANGED <<specific, fallback, writer, waiting, reg>>

\* The set's own handler for the operation; else the outer set is asked, with this
\* one's mutex still held; the outermost has its fallback.
Outer(f, k) == [find EXCEPT ![f].pc = "wants", ![f].at = k - 1]
LookUnlocked(f) ==                   \* mutant: the mutex is given up before the outer set is asked
  LET k == find[f].at
      own == specific[k][find[f].op]
      found(h) == [find EXCEPT ![f].pc = "found", ![f].fn = h]
  IN
  /\ find[f].pc = "has"
  /\ \/ own # NoFn /\ find' = found(own) /\ UNCHANGED readers
     \/ own = NoFn /\ k > 1 /\ find' = Outer(f, k) /\ readers' = [readers EXCEPT ![k] = @ \ {f}]
     \/ own = NoFn /\ k = 1 /\ find' = found(fallback[k]) /\ UNCHANGED readers
  /\ UNCHANGED <<specific, fallback, writer, waiting, reg>>
LookAgain(f) ==                      \* mutant: a lookup that finds nothing starts over
  LET k == find[f].at
      own == specific[k][find[f].op]
      found(h) == [find EXCEPT ![f].pc = "found", ![f].fn = h]
  IN
  /\ find[f].pc = "has"
  /\ \/ own # NoFn /\ find' = found(own) /\ UNCHANGED readers
     \/ own = NoFn /\ k > 1 /\ find' = Outer(f, k) /\ UNCHANGED readers
     \/ /\ own = NoFn /\ k = 1 /\ fallback[k] # NoFn /\ find' = found(fallback[k])
        /\ UNCHANGED readers
     \/ /\ own = NoFn /\ k = 1 /\ fallback[k] = NoFn
        /\ find' = [find EXCEPT ![f].pc = "wants", ![f].at = find[f].from]
        /\ readers' = [j \in Sets |-> readers[j] \ {f}]
  /\ UNCHANGED <<specific, fallback, writer, waiting, reg>>
Look(f) ==
  LET k == find[f].at
      own == specific[k][find[f].op]
      found(h) == [find EXCEPT ![f].pc = "found", ![f].fn = h]
  IN
  /\ find[f].pc = "has"
  /\ \/ own # NoFn /\ find' = found(own)
     \/ own = NoFn /\ k > 1 /\ find' = Outer(f, k)
     \/ own = NoFn /\ k = 1 /\ find' = found(fallback[k])
  /\ UNCHANGED <<specific, fallback, readers, writer, waiting, reg>>

\* The deferred RUnlocks, outermost set first, and the return.
RUnlock(f) ==
  LET k == find[f].at IN
  /\ find[f].pc \in {"found", "returns"}
  /\ readers' = [readers EXCEPT ![k] = @ \ {f}]
  /\ find' = IF k = find[f].from THEN [find EXCEPT ![f].pc = "idle"]
             ELSE [find EXCEPT ![f].pc = "returns", ![f].at = k + 1]
  /\ UNCHANGED <<specific, fallback, writer, waiting, reg>>

-----------------------------------------------------------------------------
(* HandleBufferRequest.                                                     *)

Handle(r) ==
  /\ reg[r].pc = "idle"
  /\ \E k \in Sets, o \in Ops \cup {AnyOp}, h \in Fns :
       /\ reg' = [reg EXCEPT ![r] = [pc |-> "wants", at |-> k, op |-> o, fn |-> h]]
       /\ waiting' = [waiting EXCEPT ![k] = @ \cup {r}]
  /\ UNCHANGED <<specific, fallback, readers, writer, find>>

Lock(r) ==
  LET k == reg[r].at IN
  /\ reg[r].pc = "wants" /\ writer[k] = {} /\ readers[k] = {}
  /\ writer' = [writer EXCEPT ![k] = {r}] /\ waiting' = [waiting EXCEPT ![k] = @ \ {r}]
  /\ reg' = [reg EXCEPT ![r].pc = "has"]
  /\ UNCHANGED <<specific, fallback, readers, find>>

\* Set the entry, and the deferred Unlock.
SetAndUnlock(r) ==
  LET k == reg[r].at  o == reg[r].op IN
  /\ reg[r].pc = "has"
  /\ \/ o = AnyOp /\ fallback' = [fallback EXCEPT ![k] = reg[r].fn] /\ UNCHANGED specific
     \/ o # AnyOp /\ specific' = [specific EXCEPT ![k][o] = reg[r].fn] /\ UNCHANGED fallback
  /\ writer' = [writer EXCEPT ![k] = {}]
  /\ reg' = [reg EXCEPT ![r].pc = "done"]
  /\ UNCHANGED <<readers, waiting, find>>

FindStep(f) == RLock(f) \/ Look(f) \/ RUnlock(f)
RegStep(r)  == Lock(r) \/ SetAndUnlock(r)
Next ==
  \/ \E f \in Finders : Call(f) \/ FindStep(f)
  \/ \E r \in Registrars : Handle(r) \/ RegStep(r)
Spec == Init /\ [][Next]_vars
\* Goroutines that can run do.
Fairness ==
  /\ \A f \in Finders : WF_vars(FindStep(f))
  /\ \A r \in Registrars : WF_vars(RegStep(r))
FairSpec == Spec /\ Fairness

-----------------------------------------------------------------------------
(* Properties.                                                              *)

\* What a lookup of o from set k on should find with the tables as they are.
Finds(k, o, h) ==
  \/ \E j \in 1 .. k : /\ specific[j][o] = h /\ h # NoFn
                       /\ \A i \in j + 1 .. k : specific[i][o] = NoFn
  \/ (\A i \in 1 .. k : specific[i][o] = NoFn) /\ h = fallback[1]

\* Handlers are registered while sockets read.  Still, a lookup through several
\* sets, each with its own mutex, finds what all of them hold at one moment: until
\* the first RUnlock what it found is what the tables say.
FindIsAtomic ==
  \A f \in Finders : find[f].pc = "found" => Finds(find[f].from, find[f].op, find[f].fn)

\* Why: a finder holds the mutexes of the sets it went through, from the inside
\* out; none of them had a handler, and while it holds them none gets one.
Holds(f, k) ==
  /\ find[f].pc # "idle" /\ k <= find[f].from
  /\ find[f].at < k \/ (find[f].at = k /\ find[f].pc # "wants")
ReadersHold == \A k \in Sets, f \in Finders : Holds(f, k) => f \in readers[k]
WritersHold == \A r \in Registrars : reg[r].pc = "has" => writer[reg[r].at] = {r}
Exclusive   == \A k \in Sets : writer[k] # {} => readers[k] = {}
PathEmpty ==
  \A f \in Finders : find[f].pc \in {"wants", "has", "found"} =>
    \A j \in find[f].at + 1 .. find[f].from : specific[j][find[f].op] = NoFn
FoundThere ==
  \A f \in Finders : find[f].pc = "found" =>
    LET own == specific[find[f].at][find[f].op] IN
    \/ own # NoFn /\ find[f].fn = own
    \/ own = NoFn /\ find[f].at = 1 /\ find[f].fn = fallback[1]
InOrder == \A f \in Finders : find[f].at <= find[f].from
IInv == TypeOK /\ ReadersHold /\ WritersHold /\ Exclusive /\ PathEmpty /\ FoundThere /\ InOrder

\* No call waits for ever, however readers of nested sets and writers come between
\* each other.
CallsReturn ==
  /\ \A f \in Finders : (find[f].pc = "wants") ~> (find[f].pc = "idle")
  /\ \A r \in Registrars : (reg[r].pc = "wants") ~> (reg[r].pc = "done")

\* handle.go:134: with the empty name "handle all requests which doesn't have a
\* specific handler registered", in a set made by NewSubHandlers too, which "can be
\* used to override or extend h" (handle.go:105).
FallbackHandlesRest ==
  \A f \in Finders :
    find[f].pc = "found" /\ fallback[find[f].from] # NoFn =>
      find[f].fn # NoFn
=============================================================================
