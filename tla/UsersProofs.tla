---------------------------- MODULE UsersProofs ----------------------------
(***************************************************************************)
(* What holds of Users for every set of names, passwords, policies and     *)
(* workers, with proofs.                                                   *)
(***************************************************************************)
EXTENDS Users, TLAPS

(* Changes under way belong to managers of the account; a change that has  *)
(* read an account holds it; nobody has an answer and a request at once.   *)
Sound(w) ==
    /\ pc[w] \in {"load", "apply"} /\ req[w] \in Changes => w \in Managers[User(w)]
    /\ pc[w] = "apply" /\ req[w].op # "create" => held[w] # NoUser
    /\ pc[w] # "idle" => granted[w] = NoUser
    /\ granted[w] # NoUser => req[w] \in Logins

(* What a manager of an orderly account has read is still there when its   *)
(* change is written.                                                      *)
Current(w) ==
    pc[w] = "apply" /\ Orderly(User(w)) =>
        IF req[w].op = "create" THEN record[User(w)] = NoUser
                                ELSE held[w] = record[User(w)]

(* A login has witnessed what is promised now, and what it has read.       *)
Witness(w) ==
    /\ pc[w] \in {"load", "issue"} /\ req[w] \in Logins =>
            promised[User(w)] \in witnessed[w]
    /\ pc[w] = "issue" =>
            /\ held[w] # NoUser
            /\ held[w].password = req[w].password
            /\ Orderly(User(w)) => held[w] \in witnessed[w]

Honest(w) ==
    granted[w] # NoUser /\ Orderly(User(w)) =>
        /\ granted[w] \in witnessed[w]
        /\ granted[w].password = req[w].password

Safe(w) == Sound(w) /\ Current(w) /\ Witness(w) /\ Honest(w)

IInv == TypeOK /\ PromiseKept /\ \A w \in Workers : Safe(w)

-----------------------------------------------------------------------------
(* The fields a request has.                                               *)
LEMMA ChangeFields ==
    ASSUME NEW r \in Changes
    PROVE  /\ r.op \in {"create", "password", "policy", "delete"}
           /\ r.user \in Names
           /\ r.op \in {"create", "password"} => r.password \in Passwords
           /\ r.op \in {"create", "policy"} => r.policy \in Policies
           /\ r \notin Logins
BY DEF Changes, Logins

LEMMA LoginFields ==
    ASSUME NEW r \in Logins
    PROVE  r.op = "login" /\ r.user \in Names /\ r.password \in Passwords
BY DEF Logins

(* A request that is served has a user.                                    *)
LEMMA UserTyped ==
    ASSUME TypeOK, NEW w \in Workers, req[w] # NoRequest
    PROVE  /\ User(w) \in Names
           /\ record[User(w)] \in Accounts \cup {NoUser}
           /\ promised[User(w)] \in Accounts \cup {NoUser}
<1>1. req[w] \in Changes \cup Logins
  BY DEF TypeOK
<1>2. User(w) \in Names
  BY <1>1, ChangeFields, LoginFields DEF User
<1> QED
  BY <1>2 DEF TypeOK

(* What a change makes of an account, and what it promises, are accounts;  *)
(* on the account that was promised they are the same.                     *)
LEMMA ChangedTyped ==
    ASSUME NEW r \in Changes, NEW rec \in Accounts \cup {NoUser},
           r.op # "create" => rec # NoUser
    PROVE  /\ Changed(r, rec) \in Accounts \cup {NoUser}
           /\ r.op # "create" => Promise(r, rec) = Changed(r, rec)
<1>1. rec # NoUser => rec \in Accounts
  OBVIOUS
<1>2. CASE r.op = "create"
  <2>1. [password |-> r.password, policy |-> r.policy] \in Accounts
    BY <1>2, ChangeFields DEF Accounts
  <2> QED
    BY <2>1, <1>2 DEF Changed
<1>3. CASE r.op = "password"
  <2>1. rec \in Accounts /\ r.password \in Passwords
    BY <1>3, <1>1, ChangeFields
  <2>2. [rec EXCEPT !.password = r.password] =
           [password |-> r.password, policy |-> rec.policy]
    BY <2>1 DEF Accounts
  <2>3. [password |-> r.password, policy |-> rec.policy] \in Accounts
    BY <2>1 DEF Accounts
  <2>4. Changed(r, rec) = [rec EXCEPT !.password = r.password]
    BY <1>3 DEF Changed
  <2>5. Promise(r, rec) = [password |-> r.password, policy |-> rec.policy]
    BY <1>3 DEF Promise
  <2> QED
    BY <2>2, <2>3, <2>4, <2>5
<1>4. CASE r.op = "policy"
  <2>1. rec \in Accounts /\ r.policy \in Policies
    BY <1>4, <1>1, ChangeFields
  <2>2. [rec EXCEPT !.policy = r.policy] =
           [password |-> rec.password, policy |-> r.policy]
    BY <2>1 DEF Accounts
  <2>3. [password |-> rec.password, policy |-> r.policy] \in Accounts
    BY <2>1 DEF Accounts
  <2>4. Changed(r, rec) = [rec EXCEPT !.policy = r.policy]
    BY <1>4 DEF Changed
  <2>5. Promise(r, rec) = [password |-> rec.password, policy |-> r.policy]
    BY <1>4 DEF Promise
  <2> QED
    BY <2>2, <2>3, <2>4, <2>5
<1>5. CASE r.op = "delete"
  BY <1>5 DEF Changed, Promise
<1> QED
  BY <1>2, <1>3, <1>4, <1>5, ChangeFields

LEMMA PromiseTyped ==
    ASSUME NEW r \in Changes, NEW account \in Accounts \cup {NoUser}
    PROVE  Promise(r, account) \in Accounts \cup {NoUser}
<1>1. CASE r.op = "create"
  <2>1. [password |-> r.password, policy |-> r.policy] \in Accounts
    BY <1>1, ChangeFields DEF Accounts
  <2> QED
    BY <2>1, <1>1 DEF Promise
<1>2. CASE r.op # "create" /\ account # NoUser
  BY <1>2, ChangedTyped
<1>3. CASE r.op # "create" /\ account = NoUser
  BY <1>3, ChangeFields DEF Promise
<1> QED
  BY <1>1, <1>2, <1>3

(* A create promises what it writes.                                       *)
LEMMA CreatePromise ==
    ASSUME NEW r, r.op = "create", NEW a, NEW b
    PROVE  Promise(r, a) = Changed(r, b)
BY DEF Promise, Changed

-----------------------------------------------------------------------------
(* A worker that a step does not touch, on an account it does not write,   *)
(* or that the worker only reads, stays safe.                              *)
Untouched(w) ==
    /\ pc'[w] = pc[w]
    /\ req'[w] = req[w]
    /\ held'[w] = held[w]
    /\ granted'[w] = granted[w]
    /\ witnessed'[w] = witnessed[w]

LEMMA Frame ==
    ASSUME NEW w \in Workers, Safe(w), Untouched(w), misread \subseteq misread',
           record' = record, promised' = promised
    PROVE  Safe(w)'
<1>1. User(w)' = User(w)
  BY DEF Untouched, User
<1>2. Orderly(User(w))' => Orderly(User(w))
  BY <1>1 DEF Orderly
<1>3. Sound(w)'
  BY <1>1 DEF Safe, Sound, Untouched
<1>4. Current(w)'
  BY <1>1, <1>2 DEF Safe, Current, Untouched
<1>5. Witness(w)'
  BY <1>1, <1>2 DEF Safe, Witness, Untouched
<1>6. Honest(w)'
  BY <1>1, <1>2 DEF Safe, Honest, Untouched
<1> QED
  BY <1>3, <1>4, <1>5, <1>6 DEF Safe

(* A step of one worker that leaves the accounts alone.                    *)
LEMMA LocalStep ==
    ASSUME IInv, TypeOK', NEW w \in Workers, Safe(w)',
           \A v \in Workers \ {w} : Untouched(v),
           misread \subseteq misread', record' = record, promised' = promised
    PROVE  IInv'
<1>1. \A v \in Workers : Safe(v)'
  BY Frame DEF IInv
<1>2. PromiseKept'
  BY DEF IInv, PromiseKept, Orderly
<1> QED
  BY <1>1, <1>2 DEF IInv

LEMMA InitHolds == Init => IInv
<1> SUFFICES ASSUME Init PROVE IInv
  OBVIOUS
<1>1. TypeOK
  BY DEF Init, TypeOK
<1>2. PromiseKept
  BY DEF Init, PromiseKept
<1>3. \A w \in Workers : Safe(w)
  BY DEF Init, Safe, Sound, Current, Witness, Honest
<1> QED
  BY <1>1, <1>2, <1>3 DEF IInv

LEMMA StartKeeps ==
    ASSUME IInv, NEW w \in Workers, NEW r \in Changes \cup Logins, Start(w, r)
    PROVE  IInv'
<1>1. r.user \in Names /\ r # NoRequest
  BY ChangeFields, LoginFields, NoRequestAssumption
<1>2. promised[r.user] \in Accounts \cup {NoUser}
  BY <1>1 DEF IInv, TypeOK
<1>3. TypeOK'
  <2>1. witnessed' \in [Workers -> SUBSET (Accounts \cup {NoUser})]
    BY <1>2 DEF Start, IInv, TypeOK
  <2>2. /\ record' \in [Names -> Accounts \cup {NoUser}]
        /\ promised' \in [Names -> Accounts \cup {NoUser}]
        /\ held' \in [Workers -> Accounts \cup {NoUser}]
        /\ granted' \in [Workers -> Accounts \cup {NoUser}]
        /\ misread' \subseteq Names
    BY DEF Start, IInv, TypeOK
  <2>3. /\ pc' \in [Workers -> {"idle", "load", "apply", "issue"}]
        /\ req' \in [Workers -> Changes \cup Logins \cup {NoRequest}]
    BY DEF Start, IInv, TypeOK
  <2>4. ASSUME NEW v \in Workers
        PROVE  /\ pc'[v] \in {"load", "apply", "issue"} => req'[v] # NoRequest
               /\ pc'[v] = "apply" => req'[v] \in Changes
               /\ pc'[v] = "issue" => req'[v] \in Logins
    BY <1>1 DEF Start, IInv, TypeOK
  <2> QED
    BY <2>1, <2>2, <2>3, <2>4 DEF TypeOK
<1>4. \A v \in Workers \ {w} : Untouched(v)
  BY DEF Untouched, Start, IInv, TypeOK
<1>5. /\ pc'[w] = "load" /\ req'[w] = r /\ granted'[w] = NoUser
      /\ r \in Logins => witnessed'[w] = {promised[r.user]}
      /\ promised' = promised /\ record' = record /\ misread' = misread
      /\ r \in Changes => w \in Managers[r.user]
  BY DEF Start, IInv, TypeOK
<1>6. Safe(w)'
  BY <1>5 DEF Safe, Sound, Current, Witness, Honest, User
<1> QED
  BY <1>3, <1>4, <1>5, <1>6, LocalStep

(* A request that ends without a session leaves nothing to go wrong.       *)
LEMMA ForgetSafe ==
    ASSUME IInv, NEW w \in Workers, pc[w] # "idle", Forget(w), granted' = granted,
           record' = record, promised' = promised, misread' = misread
    PROVE  IInv'
<1>1. TypeOK'
  <2>1. /\ record' \in [Names -> Accounts \cup {NoUser}]
        /\ promised' \in [Names -> Accounts \cup {NoUser}]
        /\ held' \in [Workers -> Accounts \cup {NoUser}]
        /\ granted' \in [Workers -> Accounts \cup {NoUser}]
        /\ witnessed' \in [Workers -> SUBSET (Accounts \cup {NoUser})]
        /\ misread' \subseteq Names
    BY DEF Forget, IInv, TypeOK
  <2>2. /\ pc' \in [Workers -> {"idle", "load", "apply", "issue"}]
        /\ req' \in [Workers -> Changes \cup Logins \cup {NoRequest}]
    BY DEF Forget, IInv, TypeOK
  <2>3. ASSUME NEW v \in Workers
        PROVE  /\ pc'[v] \in {"load", "apply", "issue"} => req'[v] # NoRequest
               /\ pc'[v] = "apply" => req'[v] \in Changes
               /\ pc'[v] = "issue" => req'[v] \in Logins
    BY DEF Forget, IInv, TypeOK
  <2> QED
    BY <2>1, <2>2, <2>3 DEF TypeOK
<1>2. \A v \in Workers \ {w} : Untouched(v)
  BY DEF Untouched, Forget, IInv, TypeOK
<1>3. pc'[w] = "idle" /\ granted'[w] = NoUser
  BY DEF Forget, IInv, TypeOK, Safe, Sound
<1>4. Safe(w)'
  BY <1>3 DEF Safe, Sound, Current, Witness, Honest
<1> QED
  BY <1>1, <1>2, <1>4, LocalStep

LEMMA LoadKeeps ==
    ASSUME IInv, NEW w \in Workers, Load(w)
    PROVE  IInv'
<1> DEFINE u == User(w)
<1>1. /\ pc[w] = "load" /\ req[w] # NoRequest
      /\ record' = record /\ promised' = promised /\ granted' = granted
      /\ misread' = misread
  BY DEF Load, IInv, TypeOK
<1>2. CASE ~ Proceeds(req[w], record[u])
  BY <1>1, <1>2, ForgetSafe DEF Load
<1>3. CASE Proceeds(req[w], record[u])
  <2>1. /\ pc' = [pc EXCEPT ![w] = IF req[w].op = "login" THEN "issue" ELSE "apply"]
        /\ held' = [held EXCEPT ![w] = record[u]]
        /\ req' = req /\ witnessed' = witnessed
    BY <1>3 DEF Load
  <2>2. u \in Names /\ record[u] \in Accounts \cup {NoUser}
    BY <1>1, UserTyped DEF IInv
  <2>3. req[w] \in Changes \cup Logins
    BY <1>1 DEF IInv, TypeOK
  <2>4. (req[w].op = "login" => req[w] \in Logins)
        /\ (req[w].op # "login" => req[w] \in Changes)
    BY <2>3, ChangeFields, LoginFields
  <2>5. TypeOK'
    <3>1. /\ record' \in [Names -> Accounts \cup {NoUser}]
          /\ promised' \in [Names -> Accounts \cup {NoUser}]
          /\ held' \in [Workers -> Accounts \cup {NoUser}]
          /\ granted' \in [Workers -> Accounts \cup {NoUser}]
          /\ witnessed' \in [Workers -> SUBSET (Accounts \cup {NoUser})]
          /\ misread' \subseteq Names
      BY <1>1, <2>1, <2>2 DEF IInv, TypeOK
    <3>2. /\ pc' \in [Workers -> {"idle", "load", "apply", "issue"}]
          /\ req' \in [Workers -> Changes \cup Logins \cup {NoRequest}]
      BY <2>1 DEF IInv, TypeOK
    <3>3. ASSUME NEW v \in Workers
          PROVE  /\ pc'[v] \in {"load", "apply", "issue"} => req'[v] # NoRequest
                 /\ pc'[v] = "apply" => req'[v] \in Changes
                 /\ pc'[v] = "issue" => req'[v] \in Logins
      BY <1>1, <2>1, <2>4 DEF IInv, TypeOK
    <3> QED
      BY <3>1, <3>2, <3>3 DEF TypeOK
  <2>6. \A v \in Workers \ {w} : Untouched(v)
    BY <1>1, <2>1 DEF Untouched, IInv, TypeOK
  <2>7. /\ pc'[w] = IF req[w].op = "login" THEN "issue" ELSE "apply"
        /\ held'[w] = record[u] /\ req'[w] = req[w]
        /\ witnessed'[w] = witnessed[w] /\ granted'[w] = NoUser
        /\ User(w)' = u
    BY <1>1, <2>1 DEF IInv, TypeOK, Safe, Sound, User
  <2>8. Sound(w)'
    BY <1>1, <1>3, <2>4, <2>7 DEF IInv, Safe, Sound, Proceeds
  <2>9. Current(w)'
    BY <1>1, <1>3, <2>7 DEF Current, Proceeds
  <2>10. Witness(w)'
    <3>1. Orderly(u)' => Orderly(u) /\ record[u] = promised[u]
      BY <1>1, <2>2, <2>7 DEF Orderly, IInv, PromiseKept
    <3>2. req[w] \in Logins => promised[u] \in witnessed[w]
      BY <1>1 DEF IInv, Safe, Witness
    <3>3. req[w].op = "login" => record[u] # NoUser /\ record[u].password = req[w].password
      BY <1>3 DEF Proceeds
    <3> QED
      BY <1>1, <2>4, <2>7, <3>1, <3>2, <3>3 DEF Witness
  <2>11. Honest(w)'
    BY <2>7 DEF Honest
  <2> QED
    BY <1>1, <2>5, <2>6, <2>8, <2>9, <2>10, <2>11, LocalStep DEF Safe
<1> QED
  BY <1>2, <1>3

(* The write of a change.  The other managers of an orderly account have   *)
(* none under way; logins on the account witness the new promise.          *)
LEMMA ApplyKeeps ==
    ASSUME IInv, NEW w \in Workers, Apply(w)
    PROVE  IInv'
<1> DEFINE u == User(w)
           new == Changed(req[w], held[w])
           account == Promise(req[w], promised[u])
<1>1. /\ pc[w] = "apply" /\ req[w] \in Changes /\ req[w] # NoRequest
      /\ req[w].op # "create" => held[w] # NoUser
      /\ w \in Managers[u] /\ granted[w] = NoUser
  BY DEF Apply, IInv, TypeOK, Safe, Sound
<1>2. u \in Names /\ promised[u] \in Accounts \cup {NoUser}
  BY <1>1, UserTyped DEF IInv
<1>3. new \in Accounts \cup {NoUser} /\ account \in Accounts \cup {NoUser}
  <2>1. held[w] \in Accounts \cup {NoUser}
    BY DEF IInv, TypeOK
  <2> QED
    BY <1>1, <1>2, <2>1, ChangedTyped, PromiseTyped
<1>4. /\ record' = [record EXCEPT ![u] = new]
      /\ promised' = [promised EXCEPT ![u] = account]
      /\ pc' = [pc EXCEPT ![w] = "idle"]
      /\ req' = [req EXCEPT ![w] = NoRequest]
      /\ held' = [held EXCEPT ![w] = NoUser]
      /\ witnessed' = [v \in Workers |->
            IF pc[v] \in {"load", "issue"} /\ req[v] \in Logins /\ User(v) = u
            THEN witnessed[v] \cup {account}
            ELSE witnessed[v]]
      /\ granted' = granted /\ misread' = misread
  BY DEF Apply
<1> HIDE DEF new, account
<1>5. TypeOK'
  <2>1. /\ record' \in [Names -> Accounts \cup {NoUser}]
        /\ promised' \in [Names -> Accounts \cup {NoUser}]
        /\ held' \in [Workers -> Accounts \cup {NoUser}]
        /\ granted' \in [Workers -> Accounts \cup {NoUser}]
        /\ misread' \subseteq Names
    BY <1>3, <1>4 DEF IInv, TypeOK
  <2>2. witnessed' \in [Workers -> SUBSET (Accounts \cup {NoUser})]
    BY <1>3, <1>4 DEF IInv, TypeOK
  <2>3. /\ pc' \in [Workers -> {"idle", "load", "apply", "issue"}]
        /\ req' \in [Workers -> Changes \cup Logins \cup {NoRequest}]
    BY <1>4 DEF IInv, TypeOK
  <2>4. ASSUME NEW v \in Workers
        PROVE  /\ pc'[v] \in {"load", "apply", "issue"} => req'[v] # NoRequest
               /\ pc'[v] = "apply" => req'[v] \in Changes
               /\ pc'[v] = "issue" => req'[v] \in Logins
    BY <1>4 DEF IInv, TypeOK
  <2> QED
    BY <2>1, <2>2, <2>3, <2>4 DEF TypeOK
<1>6. PromiseKept'
  <2>1. Orderly(u) => new = account
    <3>1. CASE req[w].op = "create"
      BY <3>1, CreatePromise DEF new, account
    <3>2. CASE req[w].op # "create" /\ Orderly(u)
      <4>1. held[w] = record[u] /\ record[u] = promised[u]
        BY <1>1, <1>2, <3>2 DEF IInv, Safe, Current, PromiseKept
      <4> QED
        BY <1>1, <1>2, <3>2, <4>1, ChangedTyped DEF new, account
    <3> QED
      BY <3>1, <3>2
  <2>2. ASSUME NEW q \in Names, Orderly(q)'
        PROVE  record'[q] = promised'[q]
    <3>1. Orderly(q)
      BY <1>4, <2>2 DEF Orderly
    <3> QED
      BY <1>2, <1>4, <2>1, <3>1 DEF IInv, TypeOK, PromiseKept
  <2> QED
    BY <2>2 DEF PromiseKept
<1>7. Safe(w)'
  BY <1>1, <1>4 DEF IInv, TypeOK, Safe, Sound, Current, Witness, Honest
<1>8. ASSUME NEW v \in Workers \ {w}
      PROVE  Safe(v)'
  <2>1. /\ pc'[v] = pc[v] /\ req'[v] = req[v] /\ held'[v] = held[v]
        /\ granted'[v] = granted[v] /\ witnessed[v] \subseteq witnessed'[v]
    BY <1>4 DEF IInv, TypeOK
  <2>2. User(v)' = User(v) /\ (Orderly(User(v))' => Orderly(User(v)))
    BY <1>4, <2>1 DEF User, Orderly
  <2>3. Safe(v)
    BY DEF IInv
  <2>4. Sound(v)'
    BY <2>1, <2>2, <2>3 DEF Safe, Sound
  <2>5. Current(v)'
    <3>1. pc[v] = "apply" /\ Orderly(User(v)) => User(v) # u
      BY <1>1, <2>3 DEF IInv, TypeOK, Safe, Sound, Orderly
    <3>2. User(v) # u => record'[User(v)] = record[User(v)]
      <4>1. CASE req[v] = NoRequest
        BY <1>2, <1>4 DEF IInv, TypeOK
      <4>2. CASE req[v] # NoRequest
        BY <1>2, <1>4, <4>2, UserTyped DEF IInv, TypeOK
      <4> QED
        BY <4>1, <4>2
    <3> QED
      BY <2>1, <2>2, <2>3, <3>1, <3>2 DEF Safe, Current
  <2>6. Witness(v)'
    <3>1. ASSUME pc[v] \in {"load", "issue"}, req[v] \in Logins
          PROVE  promised'[User(v)] \in witnessed'[v]
      <4>1. User(v) \in Names
        BY <3>1, LoginFields DEF User
      <4>2. CASE User(v) = u
        <5>1. promised'[User(v)] = account
          BY <1>2, <1>4, <4>2 DEF IInv, TypeOK
        <5> QED
          BY <1>4, <3>1, <4>2, <5>1
      <4>3. CASE User(v) # u
        <5>1. promised'[User(v)] = promised[User(v)]
          BY <1>2, <1>4, <4>1, <4>3 DEF IInv, TypeOK
        <5>2. promised[User(v)] \in witnessed[v]
          BY <2>3, <3>1 DEF Safe, Witness
        <5> QED
          BY <2>1, <5>1, <5>2
      <4> QED
        BY <4>2, <4>3
    <3> QED
      BY <2>1, <2>2, <2>3, <3>1 DEF Safe, Witness
  <2>7. Honest(v)'
    BY <2>1, <2>2, <2>3 DEF Safe, Honest
  <2> QED
    BY <2>4, <2>5, <2>6, <2>7 DEF Safe
<1> QED
  BY <1>5, <1>6, <1>7, <1>8 DEF IInv

LEMMA IssueSessionKeeps ==
    ASSUME IInv, NEW w \in Workers, IssueSession(w)
    PROVE  IInv'
<1>1. /\ pc[w] = "issue" /\ req[w] \in Logins
      /\ granted' = [granted EXCEPT ![w] = held[w]]
      /\ pc' = [pc EXCEPT ![w] = "idle"]
      /\ held' = [held EXCEPT ![w] = NoUser]
      /\ record' = record /\ req' = req /\ promised' = promised
      /\ witnessed' = witnessed /\ misread' = misread
  BY DEF IssueSession, IInv, TypeOK
<1>2. TypeOK'
  BY <1>1 DEF IInv, TypeOK
<1>3. \A v \in Workers \ {w} : Untouched(v)
  BY <1>1 DEF Untouched, IInv, TypeOK
<1>4. pc'[w] = "idle" /\ granted'[w] = held[w] /\ req'[w] = req[w]
      /\ User(w)' = User(w) /\ witnessed'[w] = witnessed[w]
      /\ (Orderly(User(w))' => Orderly(User(w)))
  BY <1>1 DEF IInv, TypeOK, User, Orderly
<1>5. Witness(w)
  BY DEF IInv, Safe
<1>6. Safe(w)'
  BY <1>1, <1>4, <1>5 DEF Safe, Sound, Current, Witness, Honest
<1> QED
  BY <1>1, <1>2, <1>3, <1>6, LocalStep

(* A read that fails: the account of a create is orderly no longer.        *)
LEMMA ReadFailsKeeps ==
    ASSUME IInv, NEW w \in Workers, ReadFails(w)
    PROVE  IInv'
<1>1. /\ pc[w] = "load" /\ req[w] # NoRequest
      /\ record' = record /\ promised' = promised /\ granted' = granted
  BY DEF ReadFails, IInv, TypeOK
<1>2. CASE req[w].op # "create"
  BY <1>1, <1>2, ForgetSafe DEF ReadFails
<1>3. CASE req[w].op = "create"
  <2>1. /\ pc' = [pc EXCEPT ![w] = "apply"]
        /\ misread' = misread \cup {User(w)}
        /\ req' = req /\ held' = held /\ witnessed' = witnessed
    BY <1>3 DEF ReadFails
  <2>2. req[w] \in Changes /\ User(w) \in Names
    BY <1>1, <1>3, LoginFields, UserTyped DEF IInv, TypeOK
  <2>3. TypeOK'
    BY <1>1, <2>1, <2>2 DEF IInv, TypeOK
  <2>4. \A v \in Workers \ {w} : Untouched(v)
    BY <1>1, <2>1 DEF Untouched, IInv, TypeOK
  <2>5. pc'[w] = "apply" /\ req'[w] = req[w] /\ granted'[w] = NoUser
        /\ User(w)' = User(w) /\ ~ Orderly(User(w))'
    BY <1>1, <2>1 DEF IInv, TypeOK, Safe, Sound, User, Orderly
  <2>6. Safe(w)'
    BY <1>1, <1>3, <2>2, <2>5 DEF IInv, Safe, Sound, Current, Witness, Honest
  <2>7. misread \subseteq misread'
    BY <2>1
  <2> QED
    BY <1>1, <2>3, <2>4, <2>6, <2>7, LocalStep
<1> QED
  BY <1>2, <1>3

LEMMA WriteFailsKeeps ==
    ASSUME IInv, NEW w \in Workers, WriteFails(w)
    PROVE  IInv'
<1>1. /\ pc[w] # "idle" /\ Forget(w) /\ granted' = granted /\ record' = record
      /\ promised' = promised /\ misread' = misread
  BY DEF WriteFails
<1> QED
  BY <1>1, ForgetSafe

LEMMA CrashKeeps ==
    ASSUME IInv, Crash
    PROVE  IInv'
<1>1. TypeOK'
  BY DEF Crash, IInv, TypeOK
<1>2. PromiseKept'
  BY DEF Crash, IInv, PromiseKept, Orderly
<1>3. ASSUME NEW w \in Workers PROVE Safe(w)'
  BY DEF Crash, Safe, Sound, Current, Witness, Honest
<1> QED
  BY <1>1, <1>2, <1>3 DEF IInv

LEMMA NextKeeps == IInv /\ [Next]_vars => IInv'
<1> SUFFICES ASSUME IInv, [Next]_vars PROVE IInv'
  OBVIOUS
<1>1. CASE UNCHANGED vars
  <2>1. TypeOK'
    BY <1>1 DEF vars, IInv, TypeOK
  <2>2. PromiseKept'
    BY <1>1 DEF vars, IInv, PromiseKept, Orderly
  <2>3. ASSUME NEW w \in Workers PROVE Safe(w)'
    <3>1. Safe(w) /\ Untouched(w) /\ record' = record /\ promised' = promised
          /\ misread \subseteq misread'
      BY <1>1 DEF vars, IInv, Untouched
    <3> QED
      BY <3>1, Frame
  <2> QED
    BY <2>1, <2>2, <2>3 DEF IInv
<1> QED
  BY <1>1, StartKeeps, LoadKeeps, ApplyKeeps, IssueSessionKeeps, ReadFailsKeeps,
     WriteFailsKeeps, CrashKeeps DEF Next

LEMMA Inductive == Spec => []IInv
BY InitHolds, NextKeeps, PTL DEF Spec

-----------------------------------------------------------------------------
(* Every variable keeps its type, whatever requests the workers serve      *)
(* (user.go:27-134).                                                       *)
THEOREM TypeCorrect == Spec => []TypeOK
<1>1. IInv => TypeOK
  BY DEF IInv
<1> QED
  BY <1>1, Inductive, PTL

(* The stored account is what the acknowledged changes made of it, although*)
(* each change writes back a whole record it read earlier (user.go:96-134).*)
THEOREM PromisesKept == Spec => []PromiseKept
<1>1. IInv => PromiseKept
  BY DEF IInv
<1> QED
  BY <1>1, Inductive, PTL

(* A login is granted on an account that was promised while it ran         *)
(* (auth_handlers.go:152-158).                                             *)
THEOREM LoginsHonest == Spec => []LoginHonest
<1>1. IInv => LoginHonest
  BY DEF IInv, Safe, Honest, LoginHonest
<1> QED
  BY <1>1, Inductive, PTL

(* A create replaces no account (user.go:29-31).                           *)
THEOREM CreatesFresh == Spec => CreateIsFresh
<1> DEFINE Fresh == \A w \in Workers :
                       Apply(w) /\ req[w].op = "create" /\ Orderly(User(w))
                           => record[User(w)] = NoUser
<1>1. IInv /\ [Next]_vars => [Fresh]_vars
  BY DEF IInv, Safe, Current, Apply
<1> QED
  BY <1>1, Inductive, PTL DEF CreateIsFresh, Spec
-----------------------------------------------------------------------------
(* The refinement of UsersAbstract.                                        *)
SameLogin(w) ==
    /\ LoginStage(w)' = LoginStage(w)
    /\ LoginOf(w)' = LoginOf(w)
    /\ PassedOn(w)' = PassedOn(w)

Stutters ==
    UNCHANGED <<record, Loose, [v \in Workers |-> LoginOf(v)],
                [v \in Workers |-> LoginStage(v)], [v \in Workers |-> PassedOn(v)]>>

(* What is seen of a login depends on nothing else.                        *)
LEMMA LoginFrame ==
    ASSUME NEW w \in Workers, pc'[w] = pc[w], req'[w] = req[w], held'[w] = held[w],
           granted'[w] = granted[w]
    PROVE  SameLogin(w)
<1>1. LoginStage(w)' = LoginStage(w)
  BY DEF LoginStage
<1> QED
  BY <1>1 DEF SameLogin, LoginOf, PassedOn, User

(* A request that is not a login, or is over, is not seen.                 *)
LEMMA Unseen ==
    ASSUME NEW w \in Workers, LoginStage(w) = "idle"
    PROVE  LoginOf(w) = NoRequest /\ PassedOn(w) = NoUser
BY DEF LoginOf, PassedOn

LEMMA StillUnseen ==
    ASSUME NEW w \in Workers, LoginStage(w) = "idle", LoginStage(w)' = "idle"
    PROVE  SameLogin(w)
BY DEF SameLogin, LoginOf, PassedOn

LEMMA AllSame ==
    ASSUME \A v \in Workers : SameLogin(v)
    PROVE  UNCHANGED <<[v \in Workers |-> LoginOf(v)], [v \in Workers |-> LoginStage(v)],
                       [v \in Workers |-> PassedOn(v)]>>
BY DEF SameLogin

(* A worker's step, seen from outside.                                     *)
LEMMA OneLogin ==
    ASSUME NEW w \in Workers, \A v \in Workers \ {w} : SameLogin(v)
    PROVE  /\ [v \in Workers |-> LoginOf(v)]' =
                [[v \in Workers |-> LoginOf(v)] EXCEPT ![w] = LoginOf(w)']
           /\ [v \in Workers |-> LoginStage(v)]' =
                [[v \in Workers |-> LoginStage(v)] EXCEPT ![w] = LoginStage(w)']
           /\ [v \in Workers |-> PassedOn(v)]' =
                [[v \in Workers |-> PassedOn(v)] EXCEPT ![w] = PassedOn(w)']
BY DEF SameLogin

LEMMA LooseFrame ==
    ASSUME misread' = misread
    PROVE  Loose' = Loose
BY DEF Loose, Orderly

(* A login that ends without a session leaves.                             *)
LEMMA LeaveImplemented ==
    ASSUME NEW w \in Workers, \A v \in Workers \ {w} : SameLogin(v),
           LoginStage(w)' = "idle", record' = record, misread' = misread
    PROVE  Abstract!Next
<1>1. LoginOf(w)' = NoRequest /\ PassedOn(w)' = NoUser
  BY DEF LoginOf, PassedOn
<1>2. Abstract!Leave({w})
  BY <1>1, LooseFrame DEF Abstract!Leave, SameLogin
<1> QED
  BY <1>2 DEF Abstract!Next

LEMMA ForgetImplemented ==
    ASSUME IInv, NEW w \in Workers, pc[w] # "idle", Forget(w), granted' = granted,
           record' = record, misread' = misread
    PROVE  Abstract!Next
<1>1. \A v \in Workers \ {w} : SameLogin(v)
  BY LoginFrame DEF Forget, IInv, TypeOK
<1>2. pc'[w] = "idle" /\ granted'[w] = NoUser
  BY DEF Forget, IInv, TypeOK, Safe, Sound
<1>3. LoginStage(w)' = "idle"
  BY <1>2 DEF LoginStage
<1> QED
  BY <1>1, <1>3, LeaveImplemented

LEMMA StartImplemented ==
    ASSUME IInv, NEW w \in Workers, NEW r \in Changes \cup Logins, Start(w, r)
    PROVE  Abstract!Next
<1>1. /\ pc[w] = "idle" /\ pc'[w] = "load" /\ req'[w] = r /\ granted'[w] = NoUser
      /\ record' = record /\ misread' = misread
  BY DEF Start, IInv, TypeOK
<1>2. \A v \in Workers \ {w} : SameLogin(v)
  BY LoginFrame DEF Start, IInv, TypeOK
<1>3. CASE r \in Changes
  <2>1. LoginStage(w)' = "idle"
    BY <1>1, <1>3, ChangeFields DEF LoginStage
  <2> QED
    BY <1>1, <1>2, <2>1, LeaveImplemented
<1>4. CASE r \in Logins
  <2>1. LoginStage(w) \in {"idle", "granted"}
    BY <1>1 DEF LoginStage
  <2>2. LoginStage(w)' = "asked"
    BY <1>1, <1>4 DEF LoginStage
  <2>3. LoginOf(w)' = [user |-> r.user, password |-> r.password] /\ PassedOn(w)' = NoUser
    BY <1>1, <2>2 DEF LoginOf, PassedOn, User
  <2>4. Abstract!Ask(w, r.user, r.password)
    BY <1>1, <1>2, <2>1, <2>2, <2>3, OneLogin, LooseFrame DEF Abstract!Ask
  <2> QED
    BY <1>4, <2>4, LoginFields DEF Abstract!Next
<1> QED
  BY <1>3, <1>4

(* The read of a login that goes on is the instant at which it passes.     *)
LEMMA LoadImplemented ==
    ASSUME IInv, NEW w \in Workers, Load(w)
    PROVE  Abstract!Next \/ Stutters
<1>1. /\ pc[w] = "load" /\ req[w] \in Changes \cup Logins
      /\ record' = record /\ granted' = granted /\ misread' = misread
  BY DEF Load, IInv, TypeOK
<1>2. CASE ~ Proceeds(req[w], record[User(w)])
  BY <1>1, <1>2, ForgetImplemented DEF Load
<1>3. CASE Proceeds(req[w], record[User(w)])
  <2>1. /\ pc' = [pc EXCEPT ![w] = IF req[w].op = "login" THEN "issue" ELSE "apply"]
        /\ held' = [held EXCEPT ![w] = record[User(w)]]
        /\ req' = req
    BY <1>3 DEF Load
  <2>2. \A v \in Workers \ {w} : SameLogin(v)
    BY <1>1, <2>1, LoginFrame DEF IInv, TypeOK
  <2>3. CASE req[w] \in Changes
    <3>1. LoginStage(w) = "idle"
      BY <1>1, <2>3, ChangeFields DEF LoginStage
    <3>2. LoginStage(w)' = "idle"
      BY <1>1, <2>1, <2>3, ChangeFields DEF LoginStage, IInv, TypeOK
    <3> QED
      BY <1>1, <2>2, <3>1, <3>2, StillUnseen, AllSame, LooseFrame DEF Stutters
  <2>4. CASE req[w] \in Logins
    <3>1. pc'[w] = "issue" /\ held'[w] = record[User(w)] /\ req'[w] = req[w]
      BY <2>1, <2>4, LoginFields DEF IInv, TypeOK
    <3>2. LoginStage(w) = "asked" /\ LoginStage(w)' = "passed"
      BY <1>1, <2>4, <3>1 DEF LoginStage
    <3>3. /\ LoginOf(w) = [user |-> User(w), password |-> req[w].password]
          /\ LoginOf(w)' = LoginOf(w) /\ PassedOn(w)' = record[User(w)]
      BY <3>1, <3>2 DEF LoginOf, PassedOn, User
    <3>4. record[User(w)] # NoUser /\ record[User(w)].password = req[w].password
      BY <1>3, <2>4, LoginFields DEF Proceeds
    <3>5. UNCHANGED [v \in Workers |-> LoginOf(v)]
      BY <2>2, <3>3 DEF SameLogin
    <3>6. /\ [v \in Workers |-> LoginOf(v)][w].user = User(w)
          /\ [v \in Workers |-> LoginOf(v)][w].password = req[w].password
          /\ [v \in Workers |-> LoginStage(v)][w] = "asked"
      BY <3>2, <3>3
    <3>7. /\ [v \in Workers |-> LoginStage(v)]' =
               [[v \in Workers |-> LoginStage(v)] EXCEPT ![w] = "passed"]
          /\ [v \in Workers |-> PassedOn(v)]' =
               [[v \in Workers |-> PassedOn(v)] EXCEPT ![w] = record[User(w)]]
      BY <2>2, <3>2, <3>3, OneLogin
    <3>8. Abstract!Pass(w)
      BY <1>1, <3>4, <3>5, <3>6, <3>7, LooseFrame DEF Abstract!Pass
    <3> QED
      BY <3>8 DEF Abstract!Next
  <2> QED
    BY <1>1, <2>3, <2>4
<1> QED
  BY <1>2, <1>3

(* The write of a change is the instant at which an orderly account changes*)
(* by it: what the worker makes of the record it has read is what it would *)
(* make of the one that is there.                                          *)
LEMMA ApplyImplemented ==
    ASSUME IInv, NEW w \in Workers, Apply(w)
    PROVE  Abstract!Next
<1> DEFINE u == User(w)
           r == req[w]
<1>1. /\ pc[w] = "apply" /\ r \in Changes /\ r # NoRequest
      /\ r.op # "create" => held[w] # NoUser
      /\ held[w] \in Accounts \cup {NoUser}
      /\ granted[w] = NoUser
  BY DEF Apply, IInv, TypeOK, Safe, Sound
<1>2. u \in Names /\ record \in [Names -> Accounts \cup {NoUser}]
  BY <1>1, UserTyped DEF IInv, TypeOK
<1>3. /\ record' = [record EXCEPT ![u] = Changed(r, held[w])]
      /\ pc' = [pc EXCEPT ![w] = "idle"]
      /\ req' = [req EXCEPT ![w] = NoRequest]
      /\ held' = [held EXCEPT ![w] = NoUser]
      /\ granted' = granted /\ misread' = misread
  BY DEF Apply
<1>4. \A v \in Workers : SameLogin(v)
  <2>1. \A v \in Workers \ {w} : SameLogin(v)
    BY <1>3, LoginFrame DEF IInv, TypeOK
  <2>2. LoginStage(w) = "idle"
    BY <1>1 DEF LoginStage
  <2>3. pc'[w] = "idle" /\ granted'[w] = NoUser
    BY <1>1, <1>3 DEF IInv, TypeOK
  <2>4. LoginStage(w)' = "idle"
    BY <2>3 DEF LoginStage
  <2> QED
    BY <2>1, <2>2, <2>4, StillUnseen
<1>5. ASSUME NEW a, record' = [record EXCEPT ![u] = a]
      PROVE  Abstract!Write(u, a)
  BY <1>3, <1>4, <1>5, AllSame, LooseFrame DEF Abstract!Write, Abstract!logins
<1>6. CASE ~ Orderly(u)
  <2>1. Changed(r, held[w]) \in Accounts \cup {NoUser}
    BY <1>1, ChangedTyped
  <2>2. Abstract!Overwrite(u)
    BY <1>2, <1>3, <1>5, <1>6, <2>1
       DEF Abstract!Overwrite, Loose, Abstract!Accounts, Accounts
  <2> QED
    BY <1>2, <2>2 DEF Abstract!Next
<1>7. CASE Orderly(u)
  <2>1. IF r.op = "create" THEN record[u] = NoUser ELSE held[w] = record[u]
    BY <1>1, <1>7 DEF IInv, Safe, Current
  <2>2. CASE r.op = "create"
    <3>1. [password |-> r.password, policy |-> r.policy] \in Abstract!Accounts
      BY <1>1, <2>2, ChangeFields DEF Abstract!Accounts
    <3>2. Abstract!Create(u, [password |-> r.password, policy |-> r.policy])
      BY <1>3, <1>5, <2>1, <2>2 DEF Abstract!Create, Changed
    <3> QED
      BY <1>2, <3>1, <3>2 DEF Abstract!Next
  <2>3. CASE r.op = "password"
    <3>1. Abstract!SetPassword(u, r.password)
      BY <1>1, <1>3, <1>5, <2>1, <2>3 DEF Abstract!SetPassword, Changed
    <3> QED
      BY <1>1, <1>2, <2>3, <3>1, ChangeFields DEF Abstract!Next
  <2>4. CASE r.op = "policy"
    <3>1. Abstract!SetPolicy(u, r.policy)
      BY <1>1, <1>3, <1>5, <2>1, <2>4 DEF Abstract!SetPolicy, Changed
    <3> QED
      BY <1>1, <1>2, <2>4, <3>1, ChangeFields DEF Abstract!Next
  <2>5. CASE r.op = "delete"
    <3>1. Abstract!Delete(u)
      BY <1>1, <1>3, <1>5, <2>1, <2>5 DEF Abstract!Delete, Changed
    <3> QED
      BY <1>2, <3>1 DEF Abstract!Next
  <2> QED
    BY <1>1, <2>2, <2>3, <2>4, <2>5, ChangeFields
<1> QED
  BY <1>6, <1>7

LEMMA IssueSessionImplemented ==
    ASSUME IInv, NEW w \in Workers, IssueSession(w)
    PROVE  Abstract!Next
<1>1. /\ pc[w] = "issue" /\ held[w] # NoUser
      /\ granted' = [granted EXCEPT ![w] = held[w]]
      /\ pc' = [pc EXCEPT ![w] = "idle"]
      /\ held' = [held EXCEPT ![w] = NoUser]
      /\ record' = record /\ req' = req /\ misread' = misread
  BY DEF IssueSession, IInv, Safe, Witness
<1>2. \A v \in Workers \ {w} : SameLogin(v)
  BY <1>1, LoginFrame DEF IInv, TypeOK
<1>3. pc'[w] = "idle" /\ granted'[w] = held[w] /\ req'[w] = req[w]
  BY <1>1 DEF IInv, TypeOK
<1>4. LoginStage(w) = "passed" /\ LoginStage(w)' = "granted"
  BY <1>1, <1>3 DEF LoginStage
<1>5. LoginOf(w)' = LoginOf(w) /\ PassedOn(w)' = PassedOn(w)
  BY <1>3, <1>4 DEF LoginOf, PassedOn, User
<1>6. UNCHANGED <<[v \in Workers |-> LoginOf(v)], [v \in Workers |-> PassedOn(v)]>>
  BY <1>2, <1>5 DEF SameLogin
<1>7. Abstract!Grant(w)
  BY <1>1, <1>2, <1>4, <1>6, OneLogin, LooseFrame DEF Abstract!Grant
<1> QED
  BY <1>7 DEF Abstract!Next

LEMMA ReadFailsImplemented ==
    ASSUME IInv, NEW w \in Workers, ReadFails(w)
    PROVE  Abstract!Next
<1>1. pc[w] = "load" /\ req[w] # NoRequest /\ record' = record /\ granted' = granted
  BY DEF ReadFails, IInv, TypeOK
<1>2. CASE req[w].op # "create"
  BY <1>1, <1>2, ForgetImplemented DEF ReadFails
<1>3. CASE req[w].op = "create"
  <2>1. /\ pc' = [pc EXCEPT ![w] = "apply"]
        /\ misread' = misread \cup {User(w)}
        /\ req' = req /\ held' = held
    BY <1>3 DEF ReadFails
  <2>2. User(w) \in Names /\ req[w] \notin Logins
    BY <1>1, <1>3, LoginFields, UserTyped DEF IInv
  <2>3. \A v \in Workers \ {w} : SameLogin(v)
    BY <1>1, <2>1, LoginFrame DEF IInv, TypeOK
  <2>4. LoginStage(w) = "idle"
    BY <1>1, <2>2 DEF LoginStage
  <2>5. LoginStage(w)' = "idle"
    BY <2>1, <2>2 DEF LoginStage, IInv, TypeOK
  <2>6. Loose' = Loose \cup {User(w)}
    BY <2>1, <2>2 DEF Loose, Orderly
  <2>7. Abstract!Loosen(User(w))
    BY <1>1, <2>3, <2>4, <2>5, <2>6, StillUnseen, AllSame
       DEF Abstract!Loosen, Abstract!logins
  <2> QED
    BY <2>2, <2>7 DEF Abstract!Next
<1> QED
  BY <1>2, <1>3

LEMMA WriteFailsImplemented ==
    ASSUME IInv, NEW w \in Workers, WriteFails(w)
    PROVE  Abstract!Next
<1>1. pc[w] # "idle" /\ Forget(w) /\ granted' = granted /\ record' = record
      /\ misread' = misread
  BY DEF WriteFails
<1> QED
  BY <1>1, ForgetImplemented

LEMMA CrashImplemented ==
    ASSUME IInv, Crash
    PROVE  Abstract!Next
<1>1. /\ pc' = [w \in Workers |-> "idle"]
      /\ granted' = [w \in Workers |-> NoUser]
      /\ record' = record /\ misread' = misread
  BY DEF Crash
<1>2. \A w \in Workers : LoginStage(w)' = "idle"
  BY <1>1 DEF LoginStage
<1>3. \A w \in Workers : LoginOf(w)' = NoRequest /\ PassedOn(w)' = NoUser
  BY <1>2 DEF LoginOf, PassedOn
<1>4. Abstract!Leave(Workers)
  BY <1>1, <1>2, <1>3, LooseFrame DEF Abstract!Leave
<1> QED
  BY <1>4 DEF Abstract!Next

LEMMA StepImplemented == IInv /\ [Next]_vars => [Abstract!Next]_(Abstract!vars)
<1> SUFFICES ASSUME IInv, [Next]_vars PROVE Abstract!Next \/ Stutters
  BY DEF Stutters, Abstract!vars, Abstract!logins
<1>1. CASE UNCHANGED vars
  BY <1>1, LoginFrame, AllSame, LooseFrame DEF vars, Stutters
<1> QED
  BY <1>1, StartImplemented, LoadImplemented, ApplyImplemented, IssueSessionImplemented,
     ReadFailsImplemented, WriteFailsImplemented, CrashImplemented DEF Next

LEMMA InitImplemented == Init => Abstract!Init
BY DEF Init, Abstract!Init, LoginOf, LoginStage, PassedOn, Loose

(* Users keeps the promise of UsersAbstract: every step is one of its steps*)
(* or invisible (user.go:27-134, auth_handlers.go:152-158).                *)
THEOREM Refinement == Spec => AbstractSpec
<1>1. IInv /\ [Next]_vars => [Abstract!Next]_(Abstract!vars)
  BY StepImplemented
<1> QED
  BY <1>1, Inductive, InitImplemented, PTL DEF Spec, AbstractSpec, Abstract!Spec
=============================================================================
