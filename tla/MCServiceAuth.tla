--------------------------- MODULE MCServiceAuth ---------------------------
(* ServiceAuth for TLC: two workers, interchangeable. *)
EXTENDS ServiceAuth, TLC

CONSTANTS s1, w1, w2

WorkerSymmetry == Permutations(Workers)

(* A bound on the states: once the last challenge is drawn nobody is being *)
(* enrolled or logged in by code.  The two methods share no record and no  *)
(* memory; that each bears with the other is seen with one challenge.      *)
SecondChallengeAlone ==
    Len(info) = MaxChallenges =>
        /\ \A s \in Services : totp[s] = NoKey
        /\ \A w \in Workers : req[w] \notin TotpRequests
=============================================================================
