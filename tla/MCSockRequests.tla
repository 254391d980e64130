--------------------------- MODULE MCSockRequests ---------------------------
(* SockRequests on small instances.                                         *)
EXTENDS SockRequestsInv, TLC

CONSTANTS c1, c2, k1

CallSymmetry == Permutations(Calls)
=============================================================================
