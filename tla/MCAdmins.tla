----------------------------- MODULE MCAdmins -----------------------------
(* Admins for TLC: interchangeable workers.                                *)
EXTENDS Admins, TLC

CONSTANTS w1, w2

WorkerSymmetry == Permutations(Workers)
=============================================================================
