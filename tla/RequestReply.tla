---------------------------- MODULE RequestReply ----------------------------
(***************************************************************************)
(* What a caller is promised by a gotalk socket, whatever goroutines,      *)
(* tables and channels carry it out: a call ends once; it ends with data   *)
(* only if the peer served this very call; it ends with an error only if   *)
(* the peer turned it down or the link went down.  A peer serves or turns  *)
(* down a call only after it was issued, and never does both.              *)
(***************************************************************************)
CONSTANT Calls

VARIABLES
  status,    \* per call: "idle", "waiting", "answered", "failed"
  served,    \* calls the peer has carried out
  refused,   \* calls the peer has answered in another way
  link       \* "up", or "down" for good

vars == <<status, served, refused, link>>

Init ==
  /\ status = [c \in Calls |-> "idle"]
  /\ served = {} /\ refused = {}
  /\ link = "up"

Move(c, s) == status' = [status EXCEPT ![c] = s]

Issue(c) ==
  /\ status[c] = "idle" /\ Move(c, "waiting")
  /\ UNCHANGED <<served, refused, link>>

Serve(c) ==
  /\ status[c] # "idle" /\ c \notin served \cup refused
  /\ served' = served \cup {c}
  /\ UNCHANGED <<status, refused, link>>

Refuse(c) ==
  /\ status[c] # "idle" /\ c \notin served \cup refused
  /\ refused' = refused \cup {c}
  /\ UNCHANGED <<status, served, link>>

Answer(c) ==
  /\ status[c] = "waiting" /\ c \in served
  /\ Move(c, "answered")
  /\ UNCHANGED <<served, refused, link>>

Fail(c) ==
  /\ status[c] \in {"idle", "waiting"}
  /\ link = "down" \/ c \in refused
  /\ Move(c, "failed")
  /\ UNCHANGED <<served, refused, link>>

LinkDown ==
  /\ link = "up" /\ link' = "down"
  /\ UNCHANGED <<status, served, refused>>

Next ==
  \/ \E c \in Calls : Issue(c) \/ Serve(c) \/ Refuse(c) \/ Answer(c) \/ Fail(c)
  \/ LinkDown

Spec == Init /\ [][Next]_vars
=============================================================================
