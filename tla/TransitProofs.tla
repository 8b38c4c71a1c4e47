--------------------------- MODULE TransitProofs ---------------------------
(***************************************************************************)
(* What holds of Transit for every set of names and workers and every      *)
(* number of keys, with proofs.                                            *)
(***************************************************************************)
EXTENDS Transit, Sequences, TLAPS

Dense(r) == \A v \in Keys : v <= r.current <=> r.versions[v] # NoKey

(* Whatever races: version numbers never outrun the keys drawn, and every  *)
(* record, stored or held, has a key for exactly the versions 1..current.  *)
Sound ==
    /\ \A k \in Names : record[k].current <= drawn /\ Dense(record[k])
    /\ \A w \in Workers : held[w].current <= drawn /\ Dense(held[w])
    /\ \A w \in Workers : pc[w] # "idle" => w \in Managers[name[w]]

(* For an orderly key the record a manager holds is not stale when it is   *)
(* saved, so that saving it loses nothing.                                 *)
Current(w) ==
    Orderly(name[w]) =>
        /\ pc[w] = "saveRotated" => held[w] = record[name[w]]
        /\ pc[w] = "saveNew" => record[name[w]].current = 0

Faithful ==
    /\ \A w \in Workers : Current(w)
    /\ IssuedDecryptable
    /\ RotationSticks

IInv == TypeOK /\ Sound /\ Faithful

LEMMA KeyVersionIn ==
    ASSUME NEW r, NEW v \in Keys
    PROVE  KeyVersion(r, v) = r.versions[v]
BY DEF KeyVersion

LEMMA AbsentDense == Absent \in Records /\ Dense(Absent)
BY MaxKeysAssumption DEF Absent, Records, Dense, Keys, NoKey

LEMMA NewRecordDense ==
    ASSUME NEW key \in Keys
    PROVE  /\ NewRecord(key) \in Records
           /\ Dense(NewRecord(key))
           /\ NewRecord(key).current = 1
           /\ NewRecord(key).versions[1] = key
BY MaxKeysAssumption DEF NewRecord, Records, Dense, Keys, NoKey

(* Rotation adds one version and keeps the others.                         *)
LEMMA RotatedDense ==
    ASSUME NEW r \in Records, Dense(r), NEW key \in Keys, r.current < MaxKeys
    PROVE  /\ Rotated(r, key) \in Records
           /\ Dense(Rotated(r, key))
           /\ Rotated(r, key).current = r.current + 1
           /\ \A v \in Keys : r.versions[v] # NoKey =>
                    Rotated(r, key).versions[v] = r.versions[v]
<1>1. r.current + 1 \in Keys /\ r.current \in 0..MaxKeys
  BY MaxKeysAssumption DEF Records, Keys
<1>2. Rotated(r, key) \in Records /\ Rotated(r, key).current = r.current + 1
  BY <1>1, MaxKeysAssumption DEF Rotated, Records, Keys
<1>3. \A v \in Keys : Rotated(r, key).versions[v] =
                         IF v = r.current + 1 THEN key ELSE r.versions[v]
  BY <1>1 DEF Rotated, Records
<1>4. Dense(Rotated(r, key))
  BY <1>1, <1>2, <1>3, MaxKeysAssumption DEF Dense, Keys, NoKey
<1>5. r.versions[r.current + 1] = NoKey
  BY <1>1 DEF Dense
<1> QED
  BY <1>2, <1>3, <1>4, <1>5

LEMMA InitHolds == Init => IInv
<1> SUFFICES ASSUME Init PROVE IInv
  OBVIOUS
<1>1. TypeOK
  BY AbsentDense, MaxKeysAssumption DEF Init, TypeOK
<1>2. Sound
  BY AbsentDense DEF Init, Sound, Absent
<1>3. Faithful
  BY DEF Init, Faithful, Current, IssuedDecryptable, RotationSticks, Absent
<1> QED
  BY <1>1, <1>2, <1>3 DEF IInv

LEMMA LoadForCreateKeeps ==
    ASSUME IInv, NEW w \in Workers, NEW k \in Names, LoadForCreate(w, k)
    PROVE  IInv'
<1>1. TypeOK'
  BY DEF LoadForCreate, IInv, TypeOK
<1>2. Sound'
  BY DEF LoadForCreate, IInv, TypeOK, Sound, Dense
<1>3. \A u \in Workers : Current(u)'
  <2>1. record[k].current \in 0..MaxKeys
    BY DEF IInv, TypeOK, Records
  <2>2. k \notin misread' => record[k].current = 0
    BY <2>1 DEF LoadForCreate, Exists
  <2>3. Current(w)'
    BY <2>2 DEF LoadForCreate, IInv, TypeOK, Current, Orderly
  <2>4. ASSUME NEW u \in Workers \ {w} PROVE Current(u)'
    BY DEF LoadForCreate, IInv, TypeOK, Faithful, Current, Orderly
  <2> QED
    BY <2>3, <2>4
<1>4. IssuedDecryptable' /\ RotationSticks'
  BY DEF LoadForCreate, IInv, Faithful, IssuedDecryptable, RotationSticks, Decrypts,
         Orderly
<1> QED
  BY <1>1, <1>2, <1>3, <1>4 DEF IInv, Faithful

LEMMA LoadForRotateKeeps ==
    ASSUME IInv, NEW w \in Workers, NEW k \in Names, LoadForRotate(w, k)
    PROVE  IInv'
<1>1. TypeOK'
  BY DEF LoadForRotate, IInv, TypeOK
<1>2. Sound'
  BY DEF LoadForRotate, IInv, TypeOK, Sound, Dense
<1>3. \A u \in Workers : Current(u)'
  BY DEF LoadForRotate, IInv, TypeOK, Faithful, Current, Orderly
<1>4. IssuedDecryptable' /\ RotationSticks'
  BY DEF LoadForRotate, IInv, Faithful, IssuedDecryptable, RotationSticks, Decrypts,
         Orderly
<1> QED
  BY <1>1, <1>2, <1>3, <1>4 DEF IInv, Faithful

(* Another manager's key is not the one being saved, if that is orderly.   *)
LEMMA OthersCurrent ==
    ASSUME IInv, NEW w \in Workers, pc[w] # "idle", NEW u \in Workers \ {w},
           pc'[u] = pc[u], held'[u] = held[u], name' = name,
           misread' = misread, \A q \in Names \ {name[w]} : record'[q] = record[q]
    PROVE  Current(u)'
<1>1. CASE pc[u] = "idle"
  BY <1>1 DEF Current
<1>2. CASE pc[u] # "idle"
  <2>1. Orderly(name[u]) => name[u] # name[w]
    BY <1>2 DEF Orderly, IInv, Sound
  <2>2. Orderly(name[u])' = Orderly(name[u])
    BY DEF Orderly
  <2> QED
    BY <2>1, <2>2 DEF Current, IInv, Faithful, TypeOK
<1> QED
  BY <1>1, <1>2

LEMMA SaveNewKeeps ==
    ASSUME IInv, NEW w \in Workers, SaveNew(w)
    PROVE  IInv'
<1>1. PICK k \in Names : k = name[w]
  BY DEF IInv, TypeOK
<1>2. /\ pc[w] = "saveNew" /\ drawn + 1 \in Keys /\ drawn' = drawn + 1
      /\ record' = [record EXCEPT ![k] = NewRecord(drawn + 1)]
      /\ acked' = [acked EXCEPT ![k] = IF 1 > @ THEN 1 ELSE @]
      /\ pc' = [pc EXCEPT ![w] = "idle"]
      /\ name' = name /\ held' = held /\ issued' = issued /\ misread' = misread
  BY <1>1, MaxKeysAssumption DEF SaveNew, Acknowledge, IInv, TypeOK, Keys
<1>3. /\ record'[k] = NewRecord(drawn + 1)
      /\ \A q \in Names \ {k} : record'[q] = record[q] /\ acked'[q] = acked[q]
      /\ acked[k] \in 0..MaxKeys
      /\ acked'[k] = IF 1 > acked[k] THEN 1 ELSE acked[k]
  BY <1>2 DEF IInv, TypeOK
<1>4. TypeOK'
  <2>1. acked' \in [Names -> 0..MaxKeys]
    BY <1>2, MaxKeysAssumption DEF IInv, TypeOK, Keys
  <2> QED
    BY <1>2, <2>1, NewRecordDense, MaxKeysAssumption DEF IInv, TypeOK, Keys
<1>5. Sound'
  <2>1. \A q \in Names : record'[q].current <= drawn' /\ Dense(record'[q])
    BY <1>2, <1>3, NewRecordDense DEF IInv, TypeOK, Sound, Records
  <2>2. \A u \in Workers : held'[u].current <= drawn' /\ Dense(held'[u])
    BY <1>2 DEF IInv, TypeOK, Sound, Records
  <2>3. \A u \in Workers : pc'[u] # "idle" => u \in Managers[name'[u]]
    BY <1>2 DEF IInv, TypeOK, Sound
  <2> QED
    BY <2>1, <2>2, <2>3 DEF Sound, Dense
<1>6. \A u \in Workers : Current(u)'
  <2>1. Current(w)'
    BY <1>2 DEF IInv, TypeOK, Current
  <2>2. ASSUME NEW u \in Workers \ {w} PROVE Current(u)'
    BY <1>1, <1>2, <1>3, OthersCurrent DEF IInv, TypeOK
  <2> QED
    BY <2>1, <2>2
<1>7. RotationSticks'
  <2>1. Orderly(k) => acked[k] = 0     \* no version was acknowledged before
    BY <1>1, <1>2, <1>3, MaxKeysAssumption
       DEF IInv, Faithful, Current, RotationSticks
  <2> QED
    BY <1>2, <1>3, <2>1, NewRecordDense DEF IInv, Faithful, RotationSticks, Orderly
<1>8. IssuedDecryptable'
  <2> SUFFICES ASSUME NEW c \in issued, Orderly(c.name)
               PROVE  KeyVersion(record'[c.name], c.version) = c.key
    BY <1>2 DEF IssuedDecryptable, Decrypts, Orderly
  <2>1. c \in Ciphertexts /\ KeyVersion(record[c.name], c.version) = c.key
    BY DEF IInv, TypeOK, Faithful, IssuedDecryptable, Decrypts
  <2>2. c.name = k => record[k].current = 0
    BY <1>1, <1>2 DEF IInv, Faithful, Current
  <2>3. c.name # k
    BY <2>1, <2>2, KeyVersionIn
       DEF IInv, Sound, Dense, Ciphertexts, Keys, NoKey
  <2> QED
    BY <1>3, <2>1, <2>3 DEF Ciphertexts
<1> QED
  BY <1>4, <1>5, <1>6, <1>7, <1>8 DEF IInv, Faithful

LEMMA SaveRotatedKeeps ==
    ASSUME IInv, NEW w \in Workers, SaveRotated(w)
    PROVE  IInv'
<1>1. PICK k \in Names : k = name[w]
  BY DEF IInv, TypeOK
<1> DEFINE new == Rotated(held[w], drawn + 1)
<1>2. /\ pc[w] = "saveRotated" /\ drawn + 1 \in Keys /\ drawn' = drawn + 1
      /\ record' = [record EXCEPT ![k] = new]
      /\ acked' = [acked EXCEPT ![k] =
                      IF held[w].current + 1 > @ THEN held[w].current + 1 ELSE @]
      /\ pc' = [pc EXCEPT ![w] = "idle"]
      /\ held' = [held EXCEPT ![w] = Absent]
      /\ name' = name /\ issued' = issued /\ misread' = misread
  BY <1>1, MaxKeysAssumption DEF SaveRotated, Acknowledge, IInv, TypeOK, Keys
<1>3. /\ held[w] \in Records /\ Dense(held[w]) /\ held[w].current < MaxKeys
      /\ held[w].current <= drawn
  BY MaxKeysAssumption DEF SaveRotated, IInv, TypeOK, Sound, Records
<1>4. /\ new \in Records /\ Dense(new) /\ new.current = held[w].current + 1
      /\ \A v \in Keys : held[w].versions[v] # NoKey =>
               new.versions[v] = held[w].versions[v]
  BY <1>2, <1>3, RotatedDense
<1> HIDE DEF new
<1>5. /\ record'[k] = new
      /\ \A q \in Names \ {k} : record'[q] = record[q] /\ acked'[q] = acked[q]
      /\ acked[k] \in 0..MaxKeys
      /\ acked'[k] = IF held[w].current + 1 > acked[k] THEN held[w].current + 1
                                                      ELSE acked[k]
  BY <1>2 DEF IInv, TypeOK
<1>6. TypeOK'
  <2>1. held[w].current + 1 \in 0..MaxKeys
    BY <1>4 DEF Records
  <2>2. acked' \in [Names -> 0..MaxKeys]
    BY <1>2, <2>1 DEF IInv, TypeOK
  <2> QED
    BY <1>2, <1>4, <2>2, AbsentDense, MaxKeysAssumption DEF IInv, TypeOK, Keys
<1>7. Sound'
  <2>1. \A q \in Names : record'[q].current <= drawn' /\ Dense(record'[q])
    BY <1>2, <1>3, <1>4, <1>5 DEF IInv, TypeOK, Sound, Records
  <2>2. \A u \in Workers : held'[u].current <= drawn' /\ Dense(held'[u])
    BY <1>2, AbsentDense DEF IInv, TypeOK, Sound, Records, Absent
  <2>3. \A u \in Workers : pc'[u] # "idle" => u \in Managers[name'[u]]
    BY <1>2 DEF IInv, TypeOK, Sound
  <2> QED
    BY <2>1, <2>2, <2>3 DEF Sound, Dense
<1>8. \A u \in Workers : Current(u)'
  <2>1. Current(w)'
    BY <1>2 DEF IInv, TypeOK, Current
  <2>2. ASSUME NEW u \in Workers \ {w} PROVE Current(u)'
    BY <1>1, <1>2, <1>5, OthersCurrent DEF IInv, TypeOK
  <2> QED
    BY <2>1, <2>2
<1>9. RotationSticks'
  <2>1. Orderly(k) => acked[k] <= held[w].current  \* what it loaded is not stale
    BY <1>1, <1>2 DEF IInv, Faithful, Current, RotationSticks
  <2>2. Orderly(k)' => record'[k].current >= acked'[k]
    BY <1>2, <1>3, <1>4, <1>5, <2>1 DEF Orderly, Records
  <2>3. ASSUME NEW q \in Names \ {k}, Orderly(q)' PROVE record'[q].current >= acked'[q]
    BY <1>2, <1>5, <2>3 DEF IInv, Faithful, RotationSticks, Orderly
  <2> QED
    BY <2>2, <2>3 DEF RotationSticks
<1>10. IssuedDecryptable'
  <2> SUFFICES ASSUME NEW c \in issued, Orderly(c.name)
               PROVE  KeyVersion(record'[c.name], c.version) = c.key
    BY <1>2 DEF IssuedDecryptable, Decrypts, Orderly
  <2>1. c \in Ciphertexts /\ KeyVersion(record[c.name], c.version) = c.key
    BY DEF IInv, TypeOK, Faithful, IssuedDecryptable, Decrypts
  <2>2. CASE c.name = k
    <3>1. held[w] = record[k]
      BY <1>1, <1>2, <2>2 DEF IInv, Faithful, Current
    <3>2. held[w].versions[c.version] = c.key /\ c.key # NoKey /\ c.version \in Keys
      BY <2>1, <2>2, <3>1, KeyVersionIn DEF Ciphertexts, Keys, NoKey
    <3> QED
      BY <1>4, <1>5, <2>2, <3>2, KeyVersionIn
  <2>3. CASE c.name # k
    BY <1>5, <2>1, <2>3 DEF Ciphertexts
  <2> QED
    BY <2>2, <2>3
<1> QED
  BY <1>6, <1>7, <1>8, <1>9, <1>10 DEF IInv, Faithful

LEMMA AbandonKeeps ==
    ASSUME IInv, NEW w \in Workers, SaveFails(w)
    PROVE  IInv'
<1>1. TypeOK' /\ Sound'
  BY AbsentDense DEF SaveFails, IInv, TypeOK, Sound, Absent, Dense
<1>2. \A u \in Workers : Current(u)'
  BY DEF SaveFails, IInv, TypeOK, Faithful, Current, Orderly
<1>3. IssuedDecryptable' /\ RotationSticks'
  BY DEF SaveFails, IInv, Faithful, IssuedDecryptable, RotationSticks, Decrypts, Orderly
<1> QED
  BY <1>1, <1>2, <1>3 DEF IInv, Faithful

LEMMA CrashKeeps ==
    ASSUME IInv, Crash
    PROVE  IInv'
<1>1. TypeOK' /\ Sound'
  BY AbsentDense DEF Crash, IInv, TypeOK, Sound, Absent, Dense
<1>2. \A u \in Workers : Current(u)'
  BY DEF Crash, Current
<1>3. IssuedDecryptable' /\ RotationSticks'
  BY DEF Crash, IInv, Faithful, IssuedDecryptable, RotationSticks, Decrypts, Orderly
<1> QED
  BY <1>1, <1>2, <1>3 DEF IInv, Faithful

LEMMA EncryptKeeps ==
    ASSUME IInv, NEW k \in Names, Encrypt(k)
    PROVE  IInv'
<1> DEFINE c == [name |-> k, version |-> record[k].current, key |-> CurrentKey(k)]
<1>1. record[k].current \in Keys /\ CurrentKey(k) \in Keys
  <2>1. record[k] \in Records /\ record[k].current > 0 /\ CurrentKey(k) # NoKey
    BY DEF Encrypt, Exists, IInv, TypeOK
  <2>2. record[k].current \in Keys
    BY <2>1, MaxKeysAssumption DEF Records, Keys
  <2>3. CurrentKey(k) = record[k].versions[record[k].current]
    BY <2>2 DEF CurrentKey, KeyVersion
  <2> QED
    BY <2>1, <2>2, <2>3 DEF Records
<1>2. c \in Ciphertexts /\ Decrypts(c) /\ issued' = issued \cup {c}
  BY <1>1 DEF Encrypt, CurrentKey, Decrypts, Ciphertexts
<1>3. TypeOK' /\ Sound'
  BY <1>2 DEF Encrypt, IInv, TypeOK, Sound, Dense
<1>4. (\A u \in Workers : Current(u)') /\ RotationSticks'
  BY DEF Encrypt, IInv, Faithful, Current, Orderly, RotationSticks
<1>5. IssuedDecryptable'
  BY <1>2 DEF Encrypt, IInv, Faithful, IssuedDecryptable, Decrypts, Orderly
<1> QED
  BY <1>3, <1>4, <1>5 DEF IInv, Faithful

LEMMA NextKeeps == IInv /\ [Next]_vars => IInv'
<1> SUFFICES ASSUME IInv, [Next]_vars PROVE IInv'
  OBVIOUS
<1>1. CASE UNCHANGED vars
  BY <1>1 DEF vars, IInv, TypeOK, Sound, Dense, Faithful, Current, Orderly,
              IssuedDecryptable, RotationSticks, Decrypts
<1> QED
  BY <1>1, LoadForCreateKeeps, LoadForRotateKeeps, SaveNewKeeps, SaveRotatedKeeps,
     AbandonKeeps, CrashKeeps, EncryptKeeps DEF Next

LEMMA Inductive == Spec => []IInv
BY InitHolds, NextKeeps, PTL DEF Spec

(* Every variable keeps its type; the version numbers stay within the keys *)
(* drawn because each save draws one.                                      *)
THEOREM TypeCorrect == Spec => []TypeOK
<1>1. IInv => TypeOK
  BY DEF IInv
<1> QED
  BY <1>1, Inductive, PTL

(* However creates, rotations, failures and crashes interleave, a record   *)
(* has a key for exactly its versions 1..current, so Encrypt finds one.    *)
THEOREM CurrentAlwaysUsable == Spec => []CurrentUsable
<1>1. IInv => CurrentUsable
  BY KeyVersionIn DEF IInv, Sound, Dense, CurrentUsable
<1> QED
  BY <1>1, Inductive, PTL

(* No ciphertext of an orderly key is ever lost.                           *)
THEOREM CiphertextsDecryptable == Spec => []IssuedDecryptable
<1>1. IInv => IssuedDecryptable
  BY DEF IInv, Faithful
<1> QED
  BY <1>1, Inductive, PTL

(* The current version of an orderly key is never below one that was ever  *)
(* acknowledged: no create or rotation saves a record older than that.     *)
THEOREM RotationsStick == Spec => []RotationSticks
<1>1. IInv => RotationSticks
  BY DEF IInv, Faithful
<1> QED
  BY <1>1, Inductive, PTL

(* Every step leaves the versions of an orderly key alone or adds one.     *)
THEOREM VersionsGrow == Spec => VersionsOnlyGrow
<1> DEFINE Grows(k) ==
      /\ record'[k].current \in {record[k].current, record[k].current + 1}
      /\ \A v \in Keys :
            KeyVersion(record[k], v) # NoKey =>
                KeyVersion(record'[k], v) = KeyVersion(record[k], v)
<1>1. IInv /\ [Next]_vars => [\A k \in Names : Orderly(k) => Grows(k)]_vars
  <2> SUFFICES ASSUME IInv, [Next]_vars, NEW k \in Names, Orderly(k) PROVE Grows(k)
    OBVIOUS
  <2>1. CASE record' = record
    BY <2>1
  <2>2. ASSUME NEW w \in Workers, SaveNew(w) PROVE Grows(k)
    <3>1. CASE k = name[w]
      <4>1. /\ record[k].current = 0
            /\ record' = [record EXCEPT ![k] = NewRecord(drawn + 1)]
            /\ drawn + 1 \in Keys
        BY <2>2, <3>1, MaxKeysAssumption
           DEF SaveNew, IInv, TypeOK, Faithful, Current, Keys
      <4>2. record'[k].current = 1
        BY <4>1, NewRecordDense DEF IInv, TypeOK
      <4>3. \A v \in Keys : KeyVersion(record[k], v) = NoKey
        BY <4>1, KeyVersionIn DEF IInv, Sound, Dense, Keys
      <4> QED
        BY <4>1, <4>2, <4>3
    <3>2. CASE k # name[w]
      BY <2>2, <3>2 DEF SaveNew, IInv, TypeOK
    <3> QED
      BY <3>1, <3>2
  <2>3. ASSUME NEW w \in Workers, SaveRotated(w) PROVE Grows(k)
    <3>1. CASE k = name[w]
      <4>1. /\ held[w] = record[k] /\ record[k] \in Records /\ Dense(record[k])
            /\ record' = [record EXCEPT ![k] = Rotated(record[k], drawn + 1)]
            /\ drawn + 1 \in Keys /\ record[k].current < MaxKeys
        <5>1. held[w] = record[k] /\ pc[w] = "saveRotated" /\ drawn < MaxKeys
          BY <2>3, <3>1 DEF SaveRotated, IInv, Faithful, Current
        <5>2. /\ record[k] \in Records /\ Dense(record[k])
              /\ record[k].current <= drawn /\ drawn \in 0..MaxKeys
          BY DEF IInv, TypeOK, Sound
        <5>3. record[k].current < MaxKeys /\ drawn + 1 \in Keys
          BY <5>1, <5>2, MaxKeysAssumption DEF Records, Keys
        <5> QED
          BY <2>3, <3>1, <5>1, <5>2, <5>3 DEF SaveRotated
      <4>2. /\ record'[k].current = record[k].current + 1
            /\ \A v \in Keys : record[k].versions[v] # NoKey =>
                    record'[k].versions[v] = record[k].versions[v]
        BY <4>1, RotatedDense DEF IInv, TypeOK
      <4> QED
        BY <4>2, KeyVersionIn
    <3>2. CASE k # name[w]
      BY <2>3, <3>2 DEF SaveRotated, IInv, TypeOK
    <3> QED
      BY <3>1, <3>2
  <2> QED
    BY <2>1, <2>2, <2>3
       DEF Next, LoadForCreate, LoadForRotate, SaveFails, Crash, Encrypt, vars
<1> QED
  BY <1>1, Inductive, PTL DEF Spec, VersionsOnlyGrow
-----------------------------------------------------------------------------
(* The refinement of TransitAbstract.  Every key in a record has been      *)
(* drawn, and a rotation has loaded a record that is there.                *)
Owned ==
    /\ \A k \in Names, v \in Keys : record[k].versions[v] <= drawn
    /\ \A w \in Workers, v \in Keys : held[w].versions[v] <= drawn
    /\ \A w \in Workers : pc[w] = "saveRotated" => held[w].current > 0

LEMMA NewRecordOwned ==
    ASSUME NEW key \in Keys, NEW v \in Keys
    PROVE  NewRecord(key).versions[v] <= key
BY MaxKeysAssumption DEF NewRecord, Keys, NoKey

LEMMA RotatedOwned ==
    ASSUME NEW r \in Records, NEW d \in Nat, d + 1 \in Keys, r.current < MaxKeys,
           \A v \in Keys : r.versions[v] <= d, NEW v \in Keys
    PROVE  Rotated(r, d + 1).versions[v] <= d + 1
BY MaxKeysAssumption DEF Rotated, Records, Keys, NoKey

LEMMA OwnedKeeps == IInv /\ Owned /\ [Next]_vars => Owned'
<1> SUFFICES ASSUME IInv, Owned, [Next]_vars PROVE Owned'
  OBVIOUS
<1>1. /\ drawn \in Nat
      /\ \A k \in Names, v \in Keys : record[k].versions[v] \in Int
      /\ \A w \in Workers, v \in Keys : held[w].versions[v] \in Int
  BY MaxKeysAssumption DEF IInv, TypeOK, Records, Keys, NoKey
<1>2. ASSUME NEW w \in Workers, SaveNew(w) PROVE Owned'
  <2>1. PICK k \in Names : k = name[w]
    BY DEF IInv, TypeOK
  <2>2. /\ drawn + 1 \in Keys /\ drawn' = drawn + 1 /\ held' = held
        /\ record' = [record EXCEPT ![k] = NewRecord(drawn + 1)]
        /\ pc' = [pc EXCEPT ![w] = "idle"]
    BY <1>2, <2>1, MaxKeysAssumption DEF SaveNew, IInv, TypeOK, Keys
  <2> QED
    BY <1>1, <2>2, NewRecordOwned DEF Owned, IInv, TypeOK
<1>3. ASSUME NEW w \in Workers, SaveRotated(w) PROVE Owned'
  <2>1. PICK k \in Names : k = name[w]
    BY DEF IInv, TypeOK
  <2>2. /\ drawn + 1 \in Keys /\ drawn' = drawn + 1
        /\ held' = [held EXCEPT ![w] = Absent]
        /\ record' = [record EXCEPT ![k] = Rotated(held[w], drawn + 1)]
        /\ pc' = [pc EXCEPT ![w] = "idle"]
    BY <1>3, <2>1, MaxKeysAssumption DEF SaveRotated, IInv, TypeOK, Keys
  <2>3. held[w] \in Records /\ held[w].current < MaxKeys
    BY <2>2, MaxKeysAssumption DEF IInv, TypeOK, Sound, Records, Keys
  <2>4. \A v \in Keys : Rotated(held[w], drawn + 1).versions[v] <= drawn + 1
    BY <1>1, <2>2, <2>3, RotatedOwned DEF Owned
  <2>5. \A v \in Keys : Absent.versions[v] <= drawn + 1
    BY <1>1 DEF Absent, NoKey
  <2> HIDE DEF Rotated, Absent
  <2> QED
    BY <1>1, <2>2, <2>4, <2>5 DEF Owned, IInv, TypeOK
<1>4. ASSUME NEW w \in Workers, NEW k \in Names, LoadForRotate(w, k) PROVE Owned'
  BY <1>4 DEF LoadForRotate, Exists, Owned, IInv, TypeOK, Records
<1>5. ASSUME NEW w \in Workers, NEW k \in Names, LoadForCreate(w, k) PROVE Owned'
  BY <1>5 DEF LoadForCreate, Owned, IInv, TypeOK
<1>6. ASSUME NEW w \in Workers, SaveFails(w) PROVE Owned'
  BY <1>1, <1>6 DEF SaveFails, Owned, IInv, TypeOK, Absent, NoKey
<1>7. ASSUME NEW k \in Names, Encrypt(k) PROVE Owned'
  BY <1>7 DEF Encrypt, Owned
<1>8. CASE Crash
  BY <1>1, <1>8 DEF Crash, Owned, Absent, NoKey
<1>9. CASE UNCHANGED vars
  BY <1>9 DEF vars, Owned
<1> QED
  BY <1>2, <1>3, <1>4, <1>5, <1>6, <1>7, <1>8, <1>9 DEF Next

LEMMA OwnedInductive == Spec => []Owned
<1>1. Init => Owned
  BY DEF Init, Owned, Absent, NoKey
<1> QED
  BY <1>1, OwnedKeeps, Inductive, PTL DEF Spec

(* What a save makes of a record, it makes of its ring.                    *)
LEMMA RingEmpty ==
    ASSUME NEW r \in Records
    PROVE  r.current = 0 <=> Ring(r) = <<>>
BY MaxKeysAssumption DEF Records, Ring

LEMMA RingNew ==
    ASSUME NEW key \in Keys
    PROVE  Ring(NewRecord(key)) = Append(<<>>, key)
BY MaxKeysAssumption DEF NewRecord, Ring, Keys

LEMMA RingRotated ==
    ASSUME NEW r \in Records, r.current < MaxKeys, NEW key \in Keys
    PROVE  Ring(Rotated(r, key)) = Append(Ring(r), key)
<1> DEFINE n == r.current
           new == Rotated(r, key)
<1>1. n \in Nat /\ n + 1 \in Keys /\ 1..n \subseteq Keys
  BY MaxKeysAssumption DEF Records, Keys
<1>2. /\ new.current = n + 1 /\ new.versions[n + 1] = key
      /\ \A v \in 1..n : new.versions[v] = r.versions[v]
  BY <1>1 DEF Rotated, Records
<1>3. Ring(r) \in Seq(Keys \cup {NoKey}) /\ Len(Ring(r)) = n
  BY <1>1 DEF Ring, Records
<1> HIDE DEF new
<1>4. Ring(new) = [v \in 1..(n + 1) |-> IF v = n + 1 THEN key ELSE r.versions[v]]
  BY <1>1, <1>2 DEF Ring
<1>5. Append(Ring(r), key) = [v \in 1..(n + 1) |-> IF v = n + 1 THEN key ELSE r.versions[v]]
  BY <1>1, <1>3 DEF Ring
<1> QED
  BY <1>4, <1>5 DEF new

LEMMA LooseFrame == misread' = misread => Loose' = Loose
BY DEF Loose, Orderly

(* A load that takes a failed read for a missing key makes it loose.       *)
LEMMA LoadForCreateImplemented ==
    ASSUME NEW w \in Workers, NEW k \in Names, LoadForCreate(w, k)
    PROVE  Abstract!Next \/ UNCHANGED <<record, drawn, Loose, issued>>
<1>1. record' = record /\ drawn' = drawn /\ issued' = issued
  BY DEF LoadForCreate
<1>2. CASE misread' = misread
  BY <1>1, <1>2, LooseFrame
<1>3. CASE misread' = misread \cup {k}
  <2>1. Loose' = Loose \cup {k}
    BY <1>3 DEF Loose, Orderly
  <2>2. Abstract!Loosen(k)
    BY <1>1, <2>1 DEF Abstract!Loosen
  <2> QED
    BY <2>2 DEF Abstract!Next
<1> QED
  BY <1>2, <1>3 DEF LoadForCreate

LEMMA SaveImplemented ==
    ASSUME NEW k \in Names, NEW r, NEW rec, record \in [Names -> Records],
           record' = [record EXCEPT ![k] = rec], Ring(rec) = Append(r, drawn + 1),
           drawn' = drawn + 1, issued' = issued, misread' = misread
    PROVE  Abstract!Save(k, r)
<1>1. [q \in Names |-> Ring(record[q])]' =
        [[q \in Names |-> Ring(record[q])] EXCEPT ![k] = Ring(rec)]
  OBVIOUS
<1> QED
  BY <1>1, LooseFrame DEF Abstract!Save

LEMMA SaveNewImplemented ==
    ASSUME IInv, NEW w \in Workers, SaveNew(w)
    PROVE  Abstract!Next
<1>1. PICK k \in Names : k = name[w]
  BY DEF IInv, TypeOK
<1>2. /\ pc[w] = "saveNew" /\ drawn + 1 \in Keys /\ drawn' = drawn + 1
      /\ record' = [record EXCEPT ![k] = NewRecord(drawn + 1)]
      /\ issued' = issued /\ misread' = misread
      /\ record \in [Names -> Records]
  BY <1>1, MaxKeysAssumption DEF SaveNew, IInv, TypeOK, Keys
<1>3. Abstract!Save(k, <<>>)
  BY <1>2, RingNew, SaveImplemented
<1>4. CASE Orderly(k)
  <2>1. record[k].current = 0
    BY <1>1, <1>2, <1>4 DEF IInv, Faithful, Current
  <2>2. Abstract!Create(k)
    BY <1>2, <1>3, <2>1, RingEmpty DEF Abstract!Create
  <2> QED
    BY <2>2 DEF Abstract!Next
<1>5. CASE ~ Orderly(k)
  <2>1. 0 \in 0..drawn /\ <<>> \in [1..0 -> 1..drawn]
    BY MaxKeysAssumption DEF IInv, TypeOK
  <2>2. \E n \in 0..drawn : \E r \in [1..n -> 1..drawn] : Abstract!Save(k, r)
    BY <1>3, <2>1, Zenon
  <2>3. Abstract!Overwrite(k)
    BY <1>5, <2>2 DEF Abstract!Overwrite, Loose
  <2> QED
    BY <2>3 DEF Abstract!Next
<1> QED
  BY <1>4, <1>5

(* A rotation of a loose key appends to a ring it once had, or that another*)
(* create has replaced since.                                              *)
LEMMA SaveRotatedImplemented ==
    ASSUME IInv, Owned, NEW w \in Workers, SaveRotated(w)
    PROVE  Abstract!Next
<1>1. PICK k \in Names : k = name[w]
  BY DEF IInv, TypeOK
<1>2. /\ pc[w] = "saveRotated" /\ drawn \in Nat /\ drawn + 1 \in Keys /\ drawn' = drawn + 1
      /\ record' = [record EXCEPT ![k] = Rotated(held[w], drawn + 1)]
      /\ issued' = issued /\ misread' = misread
      /\ record \in [Names -> Records]
  BY <1>1, MaxKeysAssumption DEF SaveRotated, Acknowledge, IInv, TypeOK, Keys
<1>3. /\ held[w] \in Records /\ Dense(held[w]) /\ held[w].current < MaxKeys
      /\ held[w].current \in Nat /\ held[w].current <= drawn /\ held[w].current > 0
  BY <1>2, MaxKeysAssumption DEF IInv, TypeOK, Sound, Records, Keys, Owned
<1>4. Abstract!Save(k, Ring(held[w]))
  BY <1>2, <1>3, RingRotated, SaveImplemented
<1>5. CASE Orderly(k)
  <2>1. held[w] = record[k]
    BY <1>1, <1>2, <1>5 DEF IInv, Faithful, Current
  <2>2. Abstract!Rotate(k)
    BY <1>3, <1>4, <2>1, RingEmpty DEF Abstract!Rotate
  <2> QED
    BY <2>2 DEF Abstract!Next
<1>6. CASE ~ Orderly(k)
  <2> DEFINE n == held[w].current
  <2>1. ASSUME NEW v \in 1..n PROVE held[w].versions[v] \in 1..drawn
    <3>1. v \in Keys
      BY <1>3, MaxKeysAssumption DEF Keys
    <3> QED
      BY <1>2, <1>3, <3>1, MaxKeysAssumption DEF Dense, Owned, Records, Keys, NoKey
  <2>2. Ring(held[w]) \in [1..n -> 1..drawn] /\ n \in 0..drawn
    BY <1>2, <1>3, <2>1 DEF Ring
  <2>3. Abstract!Overwrite(k)
    BY <1>4, <1>6, <2>2 DEF Abstract!Overwrite, Loose
  <2> QED
    BY <2>3 DEF Abstract!Next
<1> QED
  BY <1>5, <1>6

LEMMA EncryptImplemented ==
    ASSUME IInv, NEW k \in Names, Encrypt(k)
    PROVE  Abstract!Next
<1> DEFINE n == record[k].current
<1>1. record[k] \in Records /\ n \in Nat /\ n > 0 /\ n \in 1..n /\ n \in Keys
  BY MaxKeysAssumption DEF Encrypt, Exists, IInv, TypeOK, Records, Keys
<1>2. Len(Ring(record[k])) = n /\ Ring(record[k])[n] = record[k].versions[n]
      /\ Ring(record[k]) # <<>>
  BY <1>1, RingEmpty DEF Ring
<1>3. CurrentKey(k) = record[k].versions[n]
  BY <1>1 DEF CurrentKey, KeyVersion
<1>4. /\ record' = record /\ drawn' = drawn /\ misread' = misread
      /\ issued' = issued \cup {[name |-> k, version |-> n, key |-> CurrentKey(k)]}
  BY DEF Encrypt
<1> HIDE DEF n
<1>5. Abstract!Newest(k) = n
  BY <1>2 DEF Abstract!Newest
<1>6. UNCHANGED <<[q \in Names |-> Ring(record[q])], drawn, Loose>>
  BY <1>4, LooseFrame
<1>7. [q \in Names |-> Ring(record[q])][k] = Ring(record[k])
  OBVIOUS
<1>8. Abstract!Encrypt(k)
  BY <1>2, <1>3, <1>4, <1>5, <1>6, <1>7 DEF Abstract!Encrypt
<1> QED
  BY <1>8 DEF Abstract!Next

LEMMA StepImplemented == IInv /\ Owned /\ [Next]_vars => [Abstract!Next]_(Abstract!vars)
<1> SUFFICES ASSUME IInv, Owned, [Next]_vars
             PROVE  Abstract!Next \/ UNCHANGED <<record, drawn, Loose, issued>>
  BY DEF Abstract!vars
<1>1. ASSUME \/ UNCHANGED vars
             \/ Crash
             \/ \E w \in Workers : SaveFails(w) \/ \E k \in Names : LoadForRotate(w, k)
      PROVE  UNCHANGED <<record, drawn, Loose, issued>>
  BY <1>1, LooseFrame DEF vars, Crash, SaveFails, LoadForRotate
<1> QED
  BY <1>1, LoadForCreateImplemented, SaveNewImplemented, SaveRotatedImplemented,
     EncryptImplemented DEF Next

LEMMA InitImplemented == Init => Abstract!Init
BY MaxKeysAssumption DEF Init, Abstract!Init, Ring, Absent, Loose

(* Transit keeps the promise of TransitAbstract: every step is one of its  *)
(* steps or invisible (transit.go:37-78).                                  *)
THEOREM Refinement == Spec => AbstractSpec
<1>1. IInv /\ Owned /\ [Next]_vars => [Abstract!Next]_(Abstract!vars)
  BY StepImplemented
<1> QED
  BY <1>1, Inductive, OwnedInductive, InitImplemented, PTL
     DEF Spec, AbstractSpec, Abstract!Spec
=============================================================================
