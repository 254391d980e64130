-------------------------- MODULE SockLifecycleInv --------------------------
(***************************************************************************)
(* The inductive invariant behind the safety properties of a Sock's life,  *)
(* for any number of connections adopted one after another.  One of them   *)
(* at most is open, the one adopted last; as long as there was no Shutdown *)
(* a deadline on it is kept by a reader that sets it again after whatever  *)
(* arrives, so that between these moments deadline and silence add up.     *)
(***************************************************************************)
EXTENDS SockLifecycle

\* Sock.conn is the only connection that can be open, and is open until Close.
OneOpen ==
  /\ \A c \in 1 .. conn : net[c].open => c = conn /\ closex = 0
  /\ \A i \in DOMAIN closed : closed[i].conn <= conn /\ ~net[closed[i].conn].open

\* A goroutine reads from a connection that was adopted, its own or a later one, and
\* leaves its loop without a Shutdown only where that is closed.
Before  == {"none", "greet", "version", "accept", "entry"}
InRead  == {"deadline", "read", "ending"}
Readers ==
  \A p \in Conns :
    /\ reader[p].pc # "none" \/ running[p] > 0 => p <= conn
    /\ reader[p].pc \in Before => reader[p].on = 0
    /\ reader[p].pc \in InRead => reader[p].on # 0
    /\ reader[p].on <= conn
    /\ reader[p].pc = "ending" => wg.set \/ ~net[reader[p].on].open

\* Without a Shutdown: whoever has set the deadline is still reading.  Until the
\* deadline passes, it is as far off as the silence is short of the timeout, or else
\* a reader is about to take a message, or to set the deadline again.
Reads(p, c) == reader[p].on = c /\ reader[p].pc \in {"deadline", "read"}
Watched(c)  == net[c].open /\ ~wg.set /\ net[c].readDl # None
Resets(p, c) == Reads(p, c) /\ (reader[p].pc = "deadline" \/ net[c].in # <<>>)
Attended == \A c \in 1 .. conn : Watched(c) => \E p \in Conns : Reads(p, c)
Timed ==
  \A c \in 1 .. conn : Watched(c) =>
    \/ net[c].readDl + net[c].silence >= ReadTimeout
    \/ net[c].readDl > 0 /\ \E p \in Conns : Resets(p, c)

\* An open Sock has no code of a timeout yet.
NoTimeoutYet == closex = 0 => closeCode \in {0, InvalidMsg + 1}

\* With one connection: the one goroutine that reads from it has not called wg.Done
\* before it is done.  With two there may be two, and each calls it.
DoneNotYet ==
  /\ ~wg.set => wg.count = 0
  /\ wg.set /\ reader[1].pc # "done" => wg.count = 1
  /\ wg.count >= 0

LCInv ==
  /\ TypeOK /\ OneOpen /\ Readers /\ Attended /\ Timed /\ NoTimeoutYet
  /\ ReadLeavesClosed /\ TimeoutMeansSilence
=============================================================================
