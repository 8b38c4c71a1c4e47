----------------------------- MODULE KVAbstract ----------------------------
(***************************************************************************)
(* What the key-value store promises a client of one path: an append-only  *)
(* log of versions numbered 1, 2, 3, ... whose newest version is current,  *)
(* a mark that hides the secret while it is deleted, and a prune that only *)
(* ever removes versions outside the window.  One step per acknowledged    *)
(* effect; KVStore implements it when each path has one writer.            *)
(***************************************************************************)
EXTENDS Integers

CONSTANTS Paths, Values, NoValue, Window, MaxVer

VARIABLES
    current,   \* current[p]: the number of versions ever appended
    deleted,   \* deleted[p]: the secret is hidden
    log        \* log[p][n]: the value of version n, NoValue once pruned

vars == <<current, deleted, log>>

Init ==
    /\ current = [p \in Paths |-> 0]
    /\ deleted = [p \in Paths |-> FALSE]
    /\ log = [p \in Paths |-> [n \in 1..MaxVer |-> NoValue]]

(* A new version becomes the current one and makes the secret visible.     *)
Append(p, v) ==
    /\ current[p] < MaxVer
    /\ current' = [current EXCEPT ![p] = @ + 1]
    /\ deleted' = [deleted EXCEPT ![p] = FALSE]
    /\ log' = [log EXCEPT ![p][current[p] + 1] = v]

Prune(p, n) ==
    /\ n \in 1..(current[p] - Window)
    /\ log' = [log EXCEPT ![p][n] = NoValue]
    /\ UNCHANGED <<current, deleted>>

SoftDelete(p) ==
    /\ current[p] > 0
    /\ deleted' = [deleted EXCEPT ![p] = TRUE]
    /\ UNCHANGED <<current, log>>

Next ==
    \E p \in Paths :
        \/ \E v \in Values : Append(p, v)
        \/ \E n \in 1..MaxVer : Prune(p, n)
        \/ SoftDelete(p)

Spec == Init /\ [][Next]_vars
=============================================================================
