----------------------------- MODULE MCClientIO -----------------------------
(* Instances of ClientIO for TLC. *)
EXTENDS ClientIO, TLC

CONSTANTS l1, l2, n1, n2

(* Requests arrive whole, or unit by unit. *)
Whole == {Header + Body}
Pieces == {1}

Symmetry == Permutations({l1, l2}) \cup Permutations({n1, n2})
=============================================================================
