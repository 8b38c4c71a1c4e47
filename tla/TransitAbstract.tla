-------------------------- MODULE TransitAbstract --------------------------
(***************************************************************************)
(* What transit keys promise: a key is a ring that starts with one version *)
(* and grows by one with each rotation, a ciphertext is made with the      *)
(* newest version, and each version is a key of its own.  A ring is loose  *)
(* once creates and rotations of it may overlap, or a create may have      *)
(* misread it: then each of them still leaves a ring that ends with a new  *)
(* key, but maybe not the versions before it.  Transit, which loads a      *)
(* record and saves it back whole, implements it.                          *)
(***************************************************************************)
EXTENDS Integers, Sequences

CONSTANT Names

VARIABLES
    ring,    \* ring[k]: the versions of key k, the newest last
    drawn,   \* number of keys ever drawn
    loose,   \* the names whose creates and rotations are not atomic
    issued   \* the ciphertexts made so far

vars == <<ring, drawn, loose, issued>>

Init ==
    /\ ring = [k \in Names |-> <<>>]
    /\ drawn = 0
    /\ loose \in SUBSET Names
    /\ issued = {}

(* The ring of k becomes r with a new key at its end.                      *)
Save(k, r) ==
    /\ drawn' = drawn + 1
    /\ ring' = [ring EXCEPT ![k] = Append(r, drawn + 1)]
    /\ UNCHANGED <<loose, issued>>

Create(k) == ring[k] = <<>> /\ Save(k, <<>>)

Rotate(k) == ring[k] # <<>> /\ Save(k, ring[k])

Overwrite(k) ==
    /\ k \in loose
    /\ \E n \in 0..drawn : \E r \in [1..n -> 1..drawn] : Save(k, r)

Newest(k) == Len(ring[k])

Encrypt(k) ==
    /\ ring[k] # <<>>
    /\ issued' = issued \cup
          {[name |-> k, version |-> Newest(k), key |-> ring[k][Newest(k)]]}
    /\ UNCHANGED <<ring, drawn, loose>>

Loosen(k) ==
    /\ loose' = loose \cup {k}
    /\ UNCHANGED <<ring, drawn, issued>>

Next == \E k \in Names : Create(k) \/ Rotate(k) \/ Overwrite(k) \/ Encrypt(k) \/ Loosen(k)

Spec == Init /\ [][Next]_vars
=============================================================================
