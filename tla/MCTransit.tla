----------------------------- MODULE MCTransit -----------------------------
(* Transit for TLC: key k1 has one manager, key k2 has two. *)
EXTENDS Transit

CONSTANTS k1, k2, w1, w2

OneEach == [k \in Names |-> IF k = k1 THEN {w1} ELSE Workers]
=============================================================================
