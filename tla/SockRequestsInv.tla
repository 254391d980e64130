-------------------------- MODULE SockRequestsInv ---------------------------
(***************************************************************************)
(* The inductive invariant behind OwnAnswer and NoOrphan.  As long as no   *)
(* id has been used twice, a registration and its id determine each other, *)
(* and everything that can reach a call -- its table entry, the response   *)
(* in the reader's hands, the response in its channel, the messages on the *)
(* wire -- carries that number.                                            *)
(***************************************************************************)
EXTENDS SockRequests

Held(c) == rpc = "deliver" /\ rdst = c

\* Registration n got id n - 1, and no two calls share a registration.
Numbered ==
  /\ issued < IdSpace => nextOpID = issued
  /\ \A c \in Calls : cur[c] <= issued /\ (cur[c] # 0 => id[c] = cur[c] - 1)
  /\ \A c, d \in Calls : cur[c] # 0 /\ cur[c] = cur[d] => c = d
  /\ \A c \in Calls :
       pc[c] \in {"write", "writing", "end", "ending", "forget"} => cur[c] # 0
  /\ \A c \in Buffers : pc[c] \notin {"end", "ending", "busy"}

\* A table entry is its owner's latest registration.
Table == \A i \in Ids : pendingRes[i] # None =>
           cur[pendingRes[i]] # 0 /\ id[pendingRes[i]] = i

\* Before a call registers, for the first time or again, nothing can reach it.
Fresh == \A c \in Calls : pc[c] \in {"send", "register"} =>
           ~InTable(c) /\ chan[c] = None /\ ~Held(c)

\* A response that ends a registration is the last thing to reach its call.
Final ==
  /\ rpc = "deliver" => /\ rmsg # None /\ rdst # None
                        /\ ~KeepsEntry(rmsg.t) => ~InTable(rdst)
  /\ \A c \in Calls : chan[c] # None /\ chan[c].t = "e" => ~InTable(c) /\ ~Held(c)

\* NoOrphan, and what makes it true by the time the call waits: from its
\* registration on, it can be reached unless the connection is closed.
Reachable ==
  \A c \in Buffers \ cut :
    /\ pc[c] \in {"write", "writing"} => WillWake(c) \/ conn = "closed"
    /\ pc[c] = "await" => WillWake(c)

\* Requests and responses on the wire carry their registration's id.
Genuine(m) == m.t \in ResKinds => m.n # 0 /\ m.id = m.n - 1
Wire ==
  /\ \A q \in asked : q.n # 0 /\ q.id = q.n - 1
  /\ \A k \in 1 .. Len(inbox) : Genuine(inbox[k])

Own == /\ \A c \in Calls : ~Misplaced(c, chan[c])
       /\ rpc = "deliver" => ~Misplaced(rdst, rmsg)

Core == Numbered /\ Table /\ Fresh /\ Final /\ Reachable /\ Wire /\ Own

\* The inductive invariant: types, and Core while no id has been used twice.
IInv == TypeOK /\ (NoIdReused => Core)

-----------------------------------------------------------------------------
(* The strengthening behind NothingLeft and ClosedOnceAndLast.              *)

\* The stretch of Close behind its atomic switch, and in it the stretch that
\* holds pendingResMu.
InClose(p)  == cpc[p] \in {"resmu", "connmu", "drain", "callback"}
HoldsRes(p) == cpc[p] \in {"connmu", "drain"}

\* One goroutine at most gets behind the switch; what it has done so far can be
\* told from where it is.  The reader closes only where its loop has ended.
Switch ==
  /\ closex = 0 => conn = "open" /\ told = <<>> /\ \A p \in Procs : ~InClose(p)
  /\ \A p, q \in Procs : InClose(p) /\ InClose(q) => p = q
  /\ \A p \in Procs : resmu = p <=> HoldsRes(p)
  /\ \A p \in Procs : InClose(p) => told = <<>> /\ closex # 0
  /\ \A p \in Procs : cpc[p] \in {"resmu", "connmu"} => conn = "open"
  /\ \A p \in Procs : cpc[p] \in {"drain", "callback"} => conn = "closed"
  /\ told # <<>> => conn = "closed" /\ closex # 0
  /\ Len(told) <= 1
  /\ rpc \notin {"closing", "final"} => cpc[Reader] = "idle"

\* Whoever is in the table after Close came too late for it, and will find out
\* from its write.
Late ==
  conn = "closed" /\ resmu = None =>
    \A i \in Ids : pendingRes[i] # None =>
      /\ id[pendingRes[i]] = i
      /\ pc[pendingRes[i]] \in {"write", "writing", "forget"}

\* Calls that get one answer per request.
Plain == Buffers \ StreamAnswered

\* Requests and responses under way are numbered by registrations made, and
\* nothing that leaves its entry in the table is under way to a plain call.
OneAnswer ==
  /\ \A q \in asked : q.n <= issued /\ \A c \in Plain : cur[c] = q.n => q.c = c
  /\ \A k \in 1 .. Len(inbox) : inbox[k].t \in {"S", "EOS"} =>
       inbox[k].n <= issued /\ \A c \in Plain : cur[c] # inbox[k].n
  /\ rpc = "deliver" /\ rdst \in Plain => ~KeepsEntry(rmsg.t)

\* An answer on its way to a plain call is the only thing that can reach it, and
\* one that has returned cannot be reached any more.
Released ==
  \A c \in Plain :
    /\ chan[c] # None => ~InTable(c) /\ ~Held(c)
    /\ Ended(c) => ~InTable(c)
    /\ pc[c] \in {"data", "error"} => chan[c] = None /\ ~Held(c)

\* Everything about closing, on top of IInv.
CloseInv == IInv /\ Switch /\ Late /\ (NoIdReused => OneAnswer /\ Released)

-----------------------------------------------------------------------------
(* The strengthening behind KeepsPromise.                                   *)

\* Nothing of a call is with the peer, and the peer has not settled it.
Untouched(c) == c \notin served \cup refused /\ \A q \in asked : q.c # c

\* What a response says of what the peer did with the call it is for.
Vouched(t, c) ==
  /\ t = "R" => c \in served
  /\ t = "E" => c \in refused
  /\ t = "e" => IF c \in Streams THEN c \in refused ELSE Untouched(c)
  /\ t = "S" => c \in Streams \cup refused
  /\ t = "EOS" => IF c \in Streams THEN c \in served ELSE c \in refused

\* The end of a stream that an error came before: the error takes its call out
\* of the table, and the end reaches nobody.
Overtaken(k, c) ==
  /\ inbox[k].t = "EOS" /\ c \in Streams \cap refused
  /\ \/ ~InTable(c)
     \/ \E j \in 1 .. k - 1 : inbox[j].t = "E" /\ inbox[j].n = inbox[k].n

\* A request the peer holds is its caller's latest, the only one, and not settled:
\* at most some parts of an answer have been sent to a BufferRequest.
Asked ==
  /\ \A q \in asked : /\ q.n = cur[q.c]
                      /\ q.c \notin served
                      /\ q.c \in refused => q.c \in Buffers /\ ~Unanswered(q)
                      /\ q.parts <= MaxParts
  /\ \A q, r \in asked : q.c = r.c => q = r

\* Until a request is written the peer knows nothing of it, and nothing numbered
\* like it is under way.
Unsent ==
  \A c \in Calls :
    /\ pc[c] \in {"send", "register", "write", "writing"} => Untouched(c)
    /\ pc[c] \in {"write", "writing"} =>
         /\ \A k \in 1 .. Len(inbox) : inbox[k].t \in ResKinds => inbox[k].n # cur[c]
         /\ ~Held(c) /\ (chan[c] # None => chan[c].n = 0)

\* Every response under way tells the truth about the peer: on the wire, in the
\* reader's hands, and in a channel, where Close may have put its note.
OnWire ==
  \A k \in 1 .. Len(inbox) : inbox[k].t \in ResKinds =>
    /\ inbox[k].n <= issued
    /\ \A c \in Calls : inbox[k].n = cur[c] => Vouched(inbox[k].t, c) \/ Overtaken(k, c)
InHand == rpc = "deliver" => rmsg.n # 0 /\ Vouched(rmsg.t, rdst)
InChan ==
  \A c \in Calls : chan[c] # None =>
    IF chan[c].n = 0 THEN chan[c].t = "E" /\ conn = "closed" ELSE Vouched(chan[c].t, c)

\* A call that waits has sent something; one whose write failed has lost its link.
LinkDown == conn = "closed" \/ peer = "gone" \/ shutdownWg
Waits == \A c \in Calls : /\ pc[c] \in {"await", "busy"} => cur[c] # 0
                          /\ pc[c] = "forget" => LinkDown

Promise == Asked /\ Unsent /\ OnWire /\ InHand /\ InChan /\ Waits

\* Everything the refinement needs, on top of IInv.
PromiseInv == IInv /\ (NoIdReused => Promise)

\* What the proofs use, together.
FullInv == CloseInv /\ PromiseInv
=============================================================================
