----------------------------- MODULE MCSessions -----------------------------
(* Sessions for TLC: two workers, interchangeable. *)
EXTENDS Sessions, TLC

CONSTANTS w1, w2

WorkerSymmetry == Permutations(Workers)
=============================================================================
