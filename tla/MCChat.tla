------------------------------- MODULE MCChat -------------------------------
(* Chat on small instances.                                                 *)
EXTENDS Chat, TLC

CONSTANTS p1, p2, m1, a, b

MCRoomOf == [p \in {p1, p2, m1} |-> IF p = p2 THEN b ELSE a]
=============================================================================
