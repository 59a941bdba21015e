--------------------------- MODULE MCThreadsPool ---------------------------
(* Instances of ThreadsPool for TLC. *)
EXTENDS ThreadsPool
=============================================================================
