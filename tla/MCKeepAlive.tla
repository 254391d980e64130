---------------------------- MODULE MCKeepAlive ----------------------------
(* KeepAlive on small instances.                                            *)
EXTENDS KeepAlive, TLC
=============================================================================
