----------------------------- MODULE JsSockInv -----------------------------
(***************************************************************************)
(* The inductive invariant behind the safety properties of a JavaScript    *)
(* Sock.  Ids start again at zero with each connection, on either side, so *)
(* that nothing numbered on one may survive it: while there is none, there *)
(* are messages in the queue only, and these are numbered for the next.    *)
(***************************************************************************)
EXTENDS JsSock

\* Sock.ws and Sock._isOpen agree between two turns of the event loop, and what is
\* queued is for the next connection.
Link ==
  /\ isOpen <=> ws # "none"
  /\ isOpen => sendq = <<>> /\ conn > 0
  /\ ~isOpen => wire = <<>> /\ inbox = <<>> /\ asked = {}

\* What is under way is a request, a part of a stream, or an answer, and says so.
GoesOut(m) ==
  /\ m.t = "r" => m.for \in made
  /\ m.t = "R" => m.for \in Asks
  /\ m.t \in {"s", "p"} => m.for \in Streams
ComesIn(m) ==
  /\ m.t = "r" => m.for \in Asks
  /\ m.t = "R" => m.for \in Reqs
  /\ m.t \in {"S", "EOS", "E"} => m.for \in Streams
Typed ==
  /\ \A m \in Range(sendq) : GoesOut(m)
  /\ \A m \in Range(wire) : GoesOut(m)
  /\ \A m \in Range(inbox) : ComesIn(m)

\* A callback is in the table under one id, of those given out since the last close,
\* and has not been called.
Entries ==
  \A i \in Ids : pendingRes[i] # None =>
    /\ i < nextOpID /\ pendingRes[i] \in made /\ settled[pendingRes[i]] = <<>>
    /\ \A j \in Ids : pendingRes[j] = pendingRes[i] => i = j

\* Under an id that is under way there is the callback of that request, or none.
Leads(i, r) == i < nextOpID /\ pendingRes[i] \in {None, r}
Numbered ==
  /\ \A m \in Range(sendq) : m.t = "r" => Leads(m.id, m.for)
  /\ \A m \in Range(wire) : m.t = "r" => Leads(m.id, m.for)
  /\ \A a \in asked : Leads(a.id, a.r)
  /\ \A m \in Range(inbox) : m.t = "R" => Leads(m.id, m.for)

\* A request is sent once.
Single(q) == \A j, k \in 1 .. Len(q) : q[j].t = "r" /\ q[j].for = q[k].for => j = k
SentOnce == Single(sendq) /\ Single(wire)

Made ==
  /\ \A r \in Reqs \ made : settled[r] = <<>>
  /\ \A r \in Reqs : settled[r] \in {<<>>, <<"error">>, <<r>>}
  /\ nextOpID <= Cardinality(made)

\* A stream request is in the table until it emits an end or an error.
InStep(q) ==
  /\ q.entry => \A i \in 1 .. Len(q.seen) : q.seen[i] = "data"
  /\ ~q.entry /\ q.seen = <<>> => q = Request0
  /\ ~q.entry /\ q.seen # <<>> => q.seen[Len(q.seen)] # "data"
  /\ \A i \in 1 .. Len(q.seen) - 1 : q.seen[i] = "data"
Streaming == \A s \in Streams : InStep(streams[s])

\* Where no callback makes a request, none is forgotten.
InTable == \A r \in made : settled[r] = <<>> => \E i \in Ids : pendingRes[i] = r

\* Where no handler answers late: the server's ids mean the same on both sides.
Means(i, q) == i < srvNext /\ srvPending[i] \in {None, q}
Answers ==
  /\ srvNext <= Cardinality(begun)
  /\ \A h \in handling : h.conn <= conn
  /\ \A h \in handling : isOpen /\ h.conn = conn => Means(h.id, h.q)
  /\ \A m \in Range(inbox) : m.t = "r" => Means(m.id, m.for)
  /\ \A m \in Range(sendq) : m.t # "R"
  /\ \A m \in Range(wire) : m.t = "R" => Means(m.id, m.for)

JsInv ==
  /\ TypeOK /\ Link /\ Typed /\ Entries /\ Numbered /\ SentOnce /\ Made /\ Streaming
  /\ Retriers = {} => InTable
  /\ ~LateResults => Answers /\ ResultsMatch
=============================================================================
