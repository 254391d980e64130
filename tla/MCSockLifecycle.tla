-------------------------- MODULE MCSockLifecycle --------------------------
(* SockLifecycle on small instances; LCInv can be checked on them too.       *)
EXTENDS SockLifecycleInv, TLC
=============================================================================
