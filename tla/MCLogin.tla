------------------------------- MODULE MCLogin -------------------------------
(* Instances of the login for TLC: p1 and p2 use the same name.            *)
EXTENDS Login, TLC

CONSTANTS p1, p2, p3, u1, u2

SharedName == [p \in Peers |-> IF p = p3 THEN u2 ELSE u1]
Symmetry == Permutations(Peers \ {p3})
=============================================================================
