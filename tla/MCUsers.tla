------------------------------ MODULE MCUsers ------------------------------
(* Users for TLC: one administrator, or two, and a user who logs in.       *)
EXTENDS Users

CONSTANTS u1, u2, w1, w2, w3

(* u1 is managed by w1 alone, any other account by every worker. *)
OneManager == [u \in Names |-> IF u = u1 THEN {w1} ELSE Workers]

AllManage == [u \in Names |-> Workers]
=============================================================================
