------------------------------ MODULE MCLibCcni ------------------------------
(* Instances of the client library for TLC.                                *)
EXTENDS LibCcni

CONSTANTS c1, c2, c3, q1, q2, b1, b2

(* Two threads share a number, one has another.                            *)
TwoShare == [c \in Callers |-> IF c = c3 THEN q2 ELSE q1]
=============================================================================
