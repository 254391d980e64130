-------------------------- MODULE MCSockResponder --------------------------
(* SockResponder on small instances: b are buffer requests, s are streams.  *)
EXTENDS SockResponderInv, TLC

CONSTANTS b1, b2, s1, s2
=============================================================================
