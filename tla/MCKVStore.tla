----------------------------- MODULE MCKVStore -----------------------------
(* KVStore for TLC: one or two writers, one path. *)
EXTENDS KVStore, TLC

CONSTANTS p1, w1, w2, w3, a, b

(* Every worker writes: two requests on one path are served at once. *)
AllWrite == [p \in Paths |-> Workers]

(* Only w1 writes; the other workers read. *)
OneWrites == [p \in Paths |-> {w1}]

WorkerSymmetry == Permutations(Workers)
=============================================================================
