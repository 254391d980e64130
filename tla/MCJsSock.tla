------------------------------ MODULE MCJsSock ------------------------------
(* JsSock on small instances.                                               *)
EXTENDS JsSockInv, TLC

CONSTANTS r1, r2, s1, q1, q2

\* NextOf: no callback makes a request, or r1's makes r2.
NoNext  == <<>>
OneNext == r1 :> r2
=============================================================================
