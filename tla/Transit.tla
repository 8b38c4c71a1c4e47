------------------------------ MODULE Transit ------------------------------
(***************************************************************************)
(* The transit keys of internal/secrets/transit.go.  A named key is one    *)
(* record, `secrets/transit/<name>`, that holds every version of the key   *)
(* and the number of the current one.  Create and Rotate load the record   *)
(* and save it in two database calls with no lock over them; Encrypt,      *)
(* Decrypt and Info only load it, in one call, so each of them is one step.*)
(* Key material is drawn at random: here a number never drawn before.      *)
(***************************************************************************)
EXTENDS Integers

CONSTANTS
    Names,      \* names of transit keys
    Workers,    \* goroutines serving create and rotate requests
    Managers,   \* Managers[k]: the workers that create or rotate key k
    MaxKeys,    \* bound on the keys ever drawn
    Faults      \* "read", "write" (a db call fails), "crash"

ASSUME MaxKeysAssumption == MaxKeys \in Nat
ASSUME ManagersAssumption == Managers \in [Names -> SUBSET Workers]
ASSUME FaultsAssumption == Faults \subseteq {"read", "write", "crash"}

Keys == 1..MaxKeys
NoKey == 0

(* CurrentVersion and Versions of TransitKeyMeta, as a map from version    *)
(* numbers to keys; current = 0 stands for a record that is not there.     *)
Records == [current : 0..MaxKeys, versions : [Keys -> Keys \cup {NoKey}]]
Absent == [current |-> 0, versions |-> [v \in Keys |-> NoKey]]

(* A ciphertext names the version it was made with; key is what made it.   *)
Ciphertexts == [name : Names, version : Keys, key : Keys]

VARIABLES
    record,   \* record[k]: the stored record of key k
    pc,       \* pc[w]: the db call the worker is about to make
    name,     \* name[w]: the key it works on
    held,     \* held[w]: the record it loaded
    drawn,    \* number of keys drawn from the random source so far
    (* History, read by properties only. *)
    issued,   \* every ciphertext handed to a client
    acked,    \* acked[k]: the greatest version ever acknowledged to a manager
    misread   \* keys a create took for missing because a read failed

vars == <<record, pc, name, held, drawn, issued, acked, misread>>

TypeOK ==
    /\ record \in [Names -> Records]
    /\ pc \in [Workers -> {"idle", "saveNew", "saveRotated"}]
    /\ name \in [Workers -> Names]
    /\ held \in [Workers -> Records]
    /\ drawn \in 0..MaxKeys
    /\ issued \subseteq Ciphertexts
    /\ acked \in [Names -> 0..MaxKeys]
    /\ misread \subseteq Names

Init ==
    /\ record = [k \in Names |-> Absent]
    /\ pc = [w \in Workers |-> "idle"]
    /\ name \in [Workers -> Names]      \* whatever: not read before it is set
    /\ held = [w \in Workers |-> Absent]
    /\ drawn = 0
    /\ issued = {}
    /\ acked = [k \in Names |-> 0]
    /\ misread = {}

Exists(k) == record[k].current > 0

(* keyVersion: the key of a version, NoKey where Versions has none.        *)
KeyVersion(r, v) == IF v \in Keys THEN r.versions[v] ELSE NoKey

(***************************************************************************)
(* Create: refuse if the record can be loaded, otherwise save a new one.   *)
(* Any error of the load counts as "no such key", a failed read included.  *)
(***************************************************************************)
(* Mutant: create does not look whether the key exists.                    *)
LoadForCreate_NoCheck(w, k) ==
    /\ pc[w] = "idle"
    /\ w \in Managers[k]
    /\ pc' = [pc EXCEPT ![w] = "saveNew"]
    /\ name' = [name EXCEPT ![w] = k]
    /\ UNCHANGED <<record, held, drawn, issued, acked, misread>>

LoadForCreate(w, k) ==
    /\ pc[w] = "idle"
    /\ w \in Managers[k]
    /\ \/ /\ ~ Exists(k)
          /\ UNCHANGED misread
       \/ /\ "read" \in Faults
          /\ misread' = misread \cup {k}
    /\ pc' = [pc EXCEPT ![w] = "saveNew"]
    /\ name' = [name EXCEPT ![w] = k]
    /\ UNCHANGED <<record, held, drawn, issued, acked>>

NewRecord(key) ==
    [current |-> 1, versions |-> [v \in Keys |-> IF v = 1 THEN key ELSE NoKey]]

(* The manager is told that version v is the current one; acked keeps the  *)
(* greatest version anyone was ever told, whatever the record does later.  *)
Acknowledge(k, v) == acked' = [acked EXCEPT ![k] = IF v > @ THEN v ELSE @]

SaveNew(w) ==
    /\ pc[w] = "saveNew"
    /\ drawn < MaxKeys
    /\ drawn' = drawn + 1
    /\ record' = [record EXCEPT ![name[w]] = NewRecord(drawn + 1)]
    /\ Acknowledge(name[w], 1)
    /\ pc' = [pc EXCEPT ![w] = "idle"]
    /\ UNCHANGED <<name, held, issued, misread>>

(***************************************************************************)
(* Rotate: load, append a version with a new key, save the whole record.   *)
(***************************************************************************)
LoadForRotate(w, k) ==
    /\ pc[w] = "idle"
    /\ w \in Managers[k]
    /\ Exists(k)
    /\ pc' = [pc EXCEPT ![w] = "saveRotated"]
    /\ name' = [name EXCEPT ![w] = k]
    /\ held' = [held EXCEPT ![w] = record[k]]
    /\ UNCHANGED <<record, drawn, issued, acked, misread>>

(* Mutant: rotation replaces the versions instead of appending to them.    *)
Rotated_Replaces(r, key) ==
    [current  |-> r.current + 1,
     versions |-> [v \in Keys |-> IF v = r.current + 1 THEN key ELSE NoKey]]

Rotated(r, key) ==
    [current  |-> r.current + 1,
     versions |-> [r.versions EXCEPT ![r.current + 1] = key]]

SaveRotated(w) ==
    /\ pc[w] = "saveRotated"
    /\ drawn < MaxKeys
    /\ drawn' = drawn + 1
    /\ record' = [record EXCEPT ![name[w]] = Rotated(held[w], drawn + 1)]
    /\ Acknowledge(name[w], held[w].current + 1)
    /\ pc' = [pc EXCEPT ![w] = "idle"]
    /\ held' = [held EXCEPT ![w] = Absent]
    /\ UNCHANGED <<name, issued, misread>>

(* The save fails: the request answers with the error, nothing is stored.  *)
SaveFails(w) ==
    /\ "write" \in Faults
    /\ pc[w] # "idle"
    /\ pc' = [pc EXCEPT ![w] = "idle"]
    /\ held' = [held EXCEPT ![w] = Absent]
    /\ UNCHANGED <<record, name, drawn, issued, acked, misread>>

(* The process restarts: the records stay, requests in flight are gone.    *)
Crash ==
    /\ "crash" \in Faults
    /\ \E w \in Workers : pc[w] # "idle"
    /\ pc' = [w \in Workers |-> "idle"]
    /\ held' = [w \in Workers |-> Absent]
    /\ UNCHANGED <<record, name, drawn, issued, acked, misread>>

(***************************************************************************)
(* Encrypt uses the current version; Decrypt looks the version up that the *)
(* ciphertext names, and authentication fails under any other key.  With   *)
(* no key for the current version Encrypt would dereference nil.           *)
(***************************************************************************)
CurrentKey(k) == KeyVersion(record[k], record[k].current)

Encrypt(k) ==
    /\ Exists(k)
    /\ CurrentKey(k) # NoKey
    /\ issued' = issued \cup
          {[name |-> k, version |-> record[k].current, key |-> CurrentKey(k)]}
    /\ UNCHANGED <<record, pc, name, held, drawn, acked, misread>>

Decrypts(c) == KeyVersion(record[c.name], c.version) = c.key

Next ==
    \/ \E w \in Workers :
         \/ \E k \in Names : LoadForCreate(w, k) \/ LoadForRotate(w, k)
         \/ SaveNew(w)
         \/ SaveRotated(w)
         \/ SaveFails(w)
    \/ \E k \in Names : Encrypt(k)
    \/ Crash

Spec == Init /\ [][Next]_vars

-----------------------------------------------------------------------------
(* Whatever requests race, a record that exists holds a key for its        *)
(* current version and for every older one, so Encrypt never dereferences  *)
(* a missing version (transit.go:85-86) and no number is skipped.          *)
CurrentUsable ==
    \A k \in Names : \A v \in Keys :
        v <= record[k].current <=> KeyVersion(record[k], v) # NoKey

(* Create and rotate requests for k are sent one at a time, and no create  *)
(* has mistaken a failed read for a missing key.                           *)
Orderly(k) ==
    /\ \A u, w \in Managers[k] : u = w
    /\ k \notin misread

(* Every ciphertext a client ever received for an orderly key can be       *)
(* decrypted: "old versions are retained for decryption" (transit.go:59),  *)
(* across rotations, failed saves and crashes.                             *)
IssuedDecryptable == \A c \in issued : Orderly(c.name) => Decrypts(c)

(* A rotation that was acknowledged stays in force, whatever creates,      *)
(* rotations, failed saves and crashes follow: for good, Encrypt uses that *)
(* version or a later one, so a key a client was told is retired is never  *)
(* current again.  It fails as soon as a save can store a record older     *)
(* than one acknowledged before it (transit.go:37-78).                     *)
RotationSticks == \A k \in Names : Orderly(k) => record[k].current >= acked[k]

(* The key of a version never changes, and versions never disappear.       *)
VersionsOnlyGrow ==
    [][\A k \in Names : Orderly(k) =>
          /\ record'[k].current \in {record[k].current, record[k].current + 1}
          /\ \A v \in Keys :
                KeyVersion(record[k], v) # NoKey =>
                    KeyVersion(record'[k], v) = KeyVersion(record[k], v)]_vars

Ring(r) == [v \in 1..r.current |-> r.versions[v]]

Loose == {k \in Names : ~ Orderly(k)}

Abstract == INSTANCE TransitAbstract WITH
    ring  <- [k \in Names |-> Ring(record[k])],
    loose <- Loose

(* Creates and rotations, each a load and a save, act on an orderly key as *)
(* if each had done both in one instant, and leave every key, orderly or   *)
(* not, a ring without gaps that ends with a new version of its own        *)
(* (transit.go:37-78).                                                     *)
AbstractSpec == Abstract!Spec
=============================================================================
