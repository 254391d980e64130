----------------------------- MODULE MCHandlers -----------------------------
(* Handlers on a small instance, HandlerFuncs on signatures of up to four   *)
(* inputs and three outputs, one more each than the code allows, and the    *)
(* Server that listens for the sockets.  The three share no variable: one   *)
(* takes steps while the others are as they began.                          *)
EXTENDS Handlers, HandlerFuncs, Server, TLC

UpTo(n, S) == UNION {[1 .. k -> S] : k \in 0 .. n}
MCFuncs ==
  [form : {"func", "NamedFunc"},
   in : UpTo(3, InTypes) \cup {<<"SockPtr", "string", "other", "other">>},
   out : UpTo(2, OutTypes) \cup {<<"other", "other", "error">>}] \cup {NoFunc}

MCInit == Init /\ FuncsInit /\ ServerInit
MCNext ==
  \/ FuncsInit /\ ServerInit /\ UNCHANGED <<funcVars, serverVars>> /\ Next
  \/ Init /\ ServerInit /\ UNCHANGED <<vars, serverVars>> /\ FuncsNext
  \/ Init /\ FuncsInit /\ UNCHANGED <<vars, funcVars>> /\ ServerNext
  \/ /\ wrapped \in {"request refused", "notification refused"}
     /\ UNCHANGED <<vars, funcVars, serverVars>>
MCSpec ==
  MCInit /\ [][MCNext]_<<vars, funcVars, serverVars>> /\ Fairness /\ ServerFairness
=============================================================================
