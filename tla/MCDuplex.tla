------------------------------ MODULE MCDuplex ------------------------------
(* Duplex on small instances.                                               *)
EXTENDS Duplex, TLC

CONSTANTS a1, a2, b1

\* "a" refuses every request, "b" one while it is at another.
MCLimit == [e \in {"a", "b"} |-> IF e = "a" THEN 0 ELSE 1]
\* Nobody refuses a request.
MCNoLimit == [e \in {"a", "b"} |-> 2]
=============================================================================
