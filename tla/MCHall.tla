------------------------------- MODULE MCHall -------------------------------
(* Instances of the hall for TLC.                                          *)
EXTENDS Hall, TLC

CONSTANTS c1, c2, c3, roomCapacity

MCCapacity == [r \in Rooms |-> roomCapacity]
Symmetry == Permutations(Clients)
=============================================================================
