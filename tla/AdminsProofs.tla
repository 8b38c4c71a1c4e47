---------------------------- MODULE AdminsProofs ----------------------------
(***************************************************************************)
(* What holds of Admins for every number of names, tokens and workers,     *)
(* with proofs.                                                            *)
(***************************************************************************)
EXTENDS Admins, TLAPS

(* A token belongs to one administrator.                                   *)
Unique ==
    \A m, n \in Names : admins[m] = admins[n] /\ admins[m] # NoToken => m = n

(* Two creates at their writes know of each other.                         *)
Alone ==
    \A v, w \in Workers :
        v # w /\ pc[v] = "create" /\ pc[w] = "create" => w \in contended

(* While a request is looked into, what it is entitled to has been noted.  *)
Informed(w) ==
    pc[w] \in Asking => Entitled(admins, req[w]) \in witnessed[w]

(* The scan has not passed a token that has been in force all the time.    *)
Unread(w) ==
    /\ pc[w] \in {"list", "scan"} => req[w].token \in 1..drawn
    /\ pc[w] = "scan" /\ FALSE \notin witnessed[w] /\ w \notin missed
          => \E n \in todo[w] : admins[n] = req[w].token

(* What the worker has decided is justified.                               *)
Justified(w) ==
    /\ pc[w] \in Admitted => TRUE \in witnessed[w]
    /\ w \in denied => pc[w] = "idle" /\ (FALSE \in witnessed[w] \/ w \in missed)
    /\ pc[w] = "create" /\ req[w].token = NoToken /\ w \notin contended => NoAdmins

IInv ==
    /\ TypeOK
    /\ Unique
    /\ Alone
    /\ \A w \in Workers : Informed(w) /\ Unread(w) /\ Justified(w)

-----------------------------------------------------------------------------
(* The three kinds of request exclude each other.                          *)
LEMMA TokenKinds == NoToken \notin Tokens /\ BySession \notin Tokens /\ NoToken # BySession
  BY BoundsAssumption DEF NoToken, BySession, Tokens

(* What each kind of request is entitled by.                               *)
LEMMA EntitledBy ==
    ASSUME NEW records, NEW r
    PROVE  /\ Entitled(records, r) \in BOOLEAN
           /\ r.token = NoToken =>
                (Entitled(records, r) <=> \A n \in Names : records[n] = NoToken)
           /\ r.token = BySession => Entitled(records, r)
           /\ r.token \in Tokens =>
                (Entitled(records, r) <=> \E n \in Names : records[n] = r.token)
<1>1. CASE r.token = NoToken
  BY <1>1, TokenKinds DEF Entitled
<1>2. CASE r.token # NoToken /\ r.token = BySession
  BY <1>2, TokenKinds DEF Entitled
<1>3. CASE r.token # NoToken /\ r.token # BySession
  BY <1>3, TokenKinds DEF Entitled
<1> QED
  BY <1>1, <1>2, <1>3

(* Every request has a name to change, unless it is a login.               *)
LEMMA RequestKinds ==
    ASSUME NEW r \in Requests
    PROVE  /\ r.op \in {"create", "delete", "login"}
           /\ r.op \in {"create", "delete"} => r.name \in Names
           /\ r.token = NoToken => r.op = "create"
           /\ r.token \in Tokens \cup {NoToken, BySession}
           /\ r # NoRequest
  BY NoRequestAssumption, TokenKinds DEF Requests

(* A step of worker w that leaves the records alone: nothing another       *)
(* worker relies on changes.                                               *)
Quiet(w) ==
    /\ admins' = admins /\ drawn' = drawn
    /\ \A v \in Workers \ {w} :
         /\ pc'[v] = pc[v] /\ req'[v] = req[v] /\ todo'[v] = todo[v]
         /\ witnessed'[v] = witnessed[v]
         /\ v \in missed' <=> v \in missed
         /\ v \in denied' <=> v \in denied
         /\ v \in contended => v \in contended'

LEMMA QuietKeepsOthers ==
    ASSUME IInv, NEW w \in Workers, Quiet(w)
    PROVE  /\ Unique'
           /\ \A v \in Workers \ {w} : (Informed(v) /\ Unread(v) /\ Justified(v))'
<1>1. Unique'
  BY DEF IInv, Unique, Quiet
<1>2. ASSUME NEW v \in Workers \ {w} PROVE (Informed(v) /\ Unread(v) /\ Justified(v))'
  <2>1. Informed(v)'
    BY <1>2 DEF IInv, Informed, Quiet, Entitled
  <2>2. Unread(v)'
    <3>1. /\ Unread(v)
          /\ admins' = admins /\ drawn' = drawn
          /\ pc'[v] = pc[v] /\ req'[v] = req[v] /\ todo'[v] = todo[v]
          /\ witnessed'[v] = witnessed[v]
          /\ v \in missed' <=> v \in missed
      BY <1>2 DEF IInv, Quiet
    <3> QED
      BY <3>1 DEF Unread
  <2>3. Justified(v)'
    BY <1>2 DEF IInv, Justified, Quiet, NoAdmins
  <2> QED
    BY <2>1, <2>2, <2>3
<1> QED
  BY <1>1, <1>2

(* The four ways a step of a worker ends.                                  *)
LEMMA ForgetKeepsAlone ==
    ASSUME IInv, NEW w \in Workers, Forget(w)
    PROVE  Alone'
  BY DEF IInv, TypeOK, Alone, Forget, Goto

LEMMA DenyKeeps ==
    ASSUME IInv, TypeOK', NEW w \in Workers, Deny(w), UNCHANGED store,
           missed' = missed \/ missed' = missed \cup {w},
           FALSE \in witnessed[w] \/ w \in missed'
    PROVE  IInv'
<1>1. Quiet(w)
  BY DEF Quiet, Deny, Forget, Goto, store, IInv, TypeOK
<1>2. pc'[w] = "idle" /\ witnessed' = witnessed
  BY DEF Deny, Forget, Goto, IInv, TypeOK
<1>3. Informed(w)' /\ Unread(w)' /\ Justified(w)'
  BY <1>2 DEF Informed, Unread, Justified, Asking, Admitted
<1> QED
  BY <1>1, <1>3, QuietKeepsOthers, ForgetKeepsAlone DEF Deny, IInv

LEMMA AnswerKeeps ==
    ASSUME IInv, TypeOK', NEW w \in Workers, Answer(w), admins' = admins, drawn' = drawn,
           pc[w] # "idle"
    PROVE  IInv'
<1>1. Quiet(w)
  BY DEF Quiet, Answer, Forget, Goto, IInv, TypeOK
<1>2. pc'[w] = "idle" /\ w \notin denied'
  BY DEF Answer, Forget, Goto, IInv, TypeOK, Justified
<1>3. Informed(w)' /\ Unread(w)' /\ Justified(w)'
  BY <1>2 DEF Informed, Unread, Justified, Asking, Admitted
<1> QED
  BY <1>1, <1>3, QuietKeepsOthers, ForgetKeepsAlone DEF Answer, IInv

LEMMA AdmitKeeps ==
    ASSUME IInv, TypeOK', NEW w \in Workers, Admit(w), UNCHANGED store,
           pc[w] \in Asking, Entitled(admins, req[w])
    PROVE  IInv'
<1>1. Quiet(w)
  BY DEF Quiet, Admit, Goto, store, IInv, TypeOK
<1>2. req[w] \in Requests
  BY DEF IInv, TypeOK, Asking
<1>3. pc'[w] \in Admitted /\ (pc'[w] = "create" <=> req[w].op = "create")
  BY <1>2, RequestKinds DEF Admit, Goto, Handler, Admitted, IInv, TypeOK
<1>4. w \notin denied' /\ TRUE \in witnessed'[w]
  <2>1. Entitled(admins, req[w]) \in witnessed[w]
    BY DEF IInv, Informed
  <2>2. Entitled(admins, req[w]) = TRUE
    BY EntitledBy
  <2>3. w \notin denied
    BY DEF IInv, Justified, Asking
  <2> QED
    BY <2>1, <2>2, <2>3 DEF Admit
<1>5. req[w].token = NoToken => NoAdmins'
  BY <1>1, EntitledBy DEF NoAdmins, Quiet
<1>6. Informed(w)' /\ Unread(w)' /\ Justified(w)'
  BY <1>3, <1>4, <1>5 DEF Informed, Unread, Justified, Asking, Admitted, Admit
<1>7. Alone'
  <2> SUFFICES ASSUME NEW u \in Workers, NEW v \in Workers, u # v,
                      pc'[u] = "create", pc'[v] = "create"
               PROVE  v \in contended'
    BY DEF Alone
  <2>1. CASE w \in {u, v}
    <3>1. req[w].op = "create"
      BY <1>3, <2>1
    <3>2. \E x \in {u, v} : x # w /\ pc[x] = "create"
      BY <1>1, <2>1 DEF Quiet
    <3>3. contended' = contended \cup Creating \cup {w}
      BY <3>1, <3>2 DEF Admit, Creating
    <3> QED
      BY <1>1, <2>1, <3>3 DEF Creating, Quiet
  <2>2. CASE w \notin {u, v}
    BY <1>1, <2>2 DEF IInv, Alone, Quiet
  <2> QED
    BY <2>1, <2>2
<1> QED
  BY <1>1, <1>6, <1>7, QuietKeepsOthers DEF IInv

(* A write takes at most one token out of force and brings a new one in.   *)
LEMMA StoreKeeps ==
    ASSUME IInv, TypeOK', NEW w \in Workers, NEW n \in Names, NEW token,
           Store(w, n, token), pc[w] # "idle",
           \/ token = NoToken /\ drawn' = drawn
           \/ token = drawn + 1 /\ drawn' = drawn + 1 /\ pc[w] = "create"
    PROVE  IInv'
<1> USE DEF NoToken
<1>1. /\ drawn \in Nat /\ drawn' \in Nat /\ drawn <= drawn'
      /\ admins \in [Names -> 0..drawn] /\ witnessed \in [Workers -> SUBSET BOOLEAN]
  BY BoundsAssumption DEF IInv, TypeOK
<1>2. /\ admins'[n] = token
      /\ \A m \in Names \ {n} : admins'[m] = admins[m]
      /\ token \notin 1..drawn
  BY <1>1 DEF Store
<1>3. Unique'
  BY <1>1, <1>2 DEF IInv, Unique
<1>4. /\ pc'[w] = "idle" /\ w \notin denied'
      /\ \A v \in Workers \ {w} :
           pc'[v] = pc[v] /\ req'[v] = req[v] /\ todo'[v] = todo[v]
  BY ZenonT(40) DEF Store, Forget, Goto, IInv, TypeOK, Justified
<1>5. Alone'
  BY ForgetKeepsAlone DEF Store
<1>6. Informed(w)' /\ Unread(w)' /\ Justified(w)'
  BY <1>4 DEF Informed, Unread, Justified, Asking, Admitted
<1>7. ASSUME NEW v \in Workers \ {w} PROVE (Informed(v) /\ Unread(v) /\ Justified(v))'
  <2>1. witnessed'[v] = IF pc[v] \in Asking
                        THEN witnessed[v] \cup {Entitled(admins', req[v])}
                        ELSE witnessed[v]
    BY <1>7 DEF Store
  <2>2. Informed(v)'
    BY <1>4, <1>7, <2>1 DEF Informed
  <2>3. Unread(v)'
    <3>1. pc[v] \in {"list", "scan"} => req[v].token \in 1..drawn
      BY <1>7 DEF IInv, Unread
    <3>2. ASSUME pc[v] = "scan", FALSE \notin witnessed'[v], v \notin missed
          PROVE  \E k \in todo[v] : admins'[k] = req[v].token
      <4>1. PICK k \in todo[v] : admins[k] = req[v].token
        BY <1>7, <2>1, <3>2 DEF IInv, Unread, Asking
      <4>2. k \in Names /\ req[v].token \in Tokens
        BY <1>7, <3>2 DEF IInv, TypeOK
      <4>3. Entitled(admins', req[v])
        BY <2>1, <3>2, EntitledBy DEF Asking
      <4>4. PICK m \in Names : admins'[m] = req[v].token
        BY <4>2, <4>3, EntitledBy
      <4>5. m # n
        BY <1>2, <3>1, <3>2, <4>4
      <4>6. m = k
        BY <1>1, <1>2, <3>1, <3>2, <4>1, <4>2, <4>4, <4>5 DEF IInv, Unique
      <4> QED
        BY <4>4, <4>6
    <3>3. pc'[v] = pc[v] /\ req'[v] = req[v] /\ todo'[v] = todo[v] /\ missed' = missed
      BY <1>4, <1>7 DEF Store
    <3>4. req[v].token \in 1..drawn => req[v].token \in 1..drawn'
      BY <1>1
    <3> QED
      BY <3>1, <3>2, <3>3, <3>4 DEF Unread
  <2>4. Justified(v)'
    <3>1. Justified(v)
      BY <1>7 DEF IInv
    <3>2. pc'[v] \in Admitted => TRUE \in witnessed'[v]
      BY <1>4, <1>7, <2>1, <3>1 DEF Justified, Asking, Admitted
    <3>3. v \in denied' => pc'[v] = "idle" /\ (FALSE \in witnessed'[v] \/ v \in missed')
      BY <1>4, <1>7, <2>1, <3>1 DEF Justified, Asking, Store
    <3>4. ASSUME pc'[v] = "create", req'[v].token = NoToken, v \notin contended'
          PROVE  NoAdmins'
      <4>1. pc[v] = "create" /\ req[v].token = NoToken /\ v \notin contended
        BY <1>4, <1>7, <3>4 DEF Store, Forget
      <4>2. NoAdmins
        BY <3>1, <4>1 DEF Justified
      <4>3. pc[w] # "create"
        BY <1>7, <4>1 DEF IInv, Alone
      <4> QED
        BY <1>2, <4>2, <4>3 DEF NoAdmins
    <3> QED
      BY <3>2, <3>3, <3>4 DEF Justified
  <2> QED
    BY <2>2, <2>3, <2>4
<1> QED
  BY <1>3, <1>5, <1>6, <1>7 DEF IInv

-----------------------------------------------------------------------------
(* The invariant holds at first and every step keeps it.                   *)
LEMMA InitHolds == Init => IInv
<1> SUFFICES ASSUME Init PROVE IInv
  OBVIOUS
<1>1. admins \in [Names -> 0..drawn] /\ drawn \in 0..MaxTokens /\ known \subseteq 1..drawn
  <2>1. CASE drawn = 1
    BY <2>1, BoundsAssumption DEF Init, NoToken
  <2>2. CASE drawn = 0
    BY <2>2, BoundsAssumption DEF Init, NoToken
  <2> QED
    BY <2>1, <2>2 DEF Init
<1>2. TypeOK
  BY <1>1 DEF Init, TypeOK
<1>3. Unique
  BY DEF Init, Unique, NoToken
<1>4. Alone /\ \A w \in Workers : Informed(w) /\ Unread(w) /\ Justified(w)
  BY DEF Init, Alone, Informed, Unread, Justified, Asking, Admitted
<1> QED
  BY <1>2, <1>3, <1>4 DEF IInv

LEMMA TypeKept == TypeOK /\ [Next]_vars => TypeOK'
<1> SUFFICES ASSUME TypeOK, [Next]_vars PROVE TypeOK'
  OBVIOUS
<1> USE DEF TypeOK, store, history
<1>1. CASE UNCHANGED vars
  BY <1>1 DEF vars
<1>2. ASSUME NEW w \in Workers, NEW r \in Requests, Start(w, r) PROVE TypeOK'
  <2>1. Entitled(admins, r) \in BOOLEAN
    BY EntitledBy
  <2>2. FirstCall(r) \in Asking
        /\ (FirstCall(r) = "hasAdmins" => r.token = NoToken)
        /\ (FirstCall(r) = "session" => r.token = BySession)
        /\ (FirstCall(r) \in {"list", "scan"} => r.token \in Tokens)
    BY RequestKinds, TokenKinds DEF FirstCall, Asking
  <2> QED
    BY <1>2, <2>1, <2>2, RequestKinds DEF Start, Goto, Asking
<1>3. ASSUME NEW w \in Workers, Admit(w), UNCHANGED store, pc[w] \in Asking PROVE TypeOK'
  <2>1. req[w] \in Requests
    BY <1>3 DEF Asking
  <2>2. Handler(req[w].op) \in Admitted \ {"remove"}
        /\ (Handler(req[w].op) = "create" => req[w].op = "create")
        /\ (Handler(req[w].op) = "get" => req[w].op = "delete")
    BY <2>1, RequestKinds DEF Handler, Admitted
  <2> QED
    BY <1>3, <2>1, <2>2 DEF Admit, Goto, Creating, Admitted, Asking
<1>4. ASSUME NEW w \in Workers, Deny(w), UNCHANGED store, missed' \subseteq Workers
      PROVE TypeOK'
  BY <1>4 DEF Deny, Forget, Goto
<1>5. ASSUME NEW w \in Workers, Answer(w), UNCHANGED <<admins, drawn, known>>,
             session' \in BOOLEAN
      PROVE TypeOK'
  BY <1>5 DEF Answer, Forget, Goto
<1>6. ASSUME NEW w \in Workers, HasAdmins(w) PROVE TypeOK'
  BY <1>3, <1>4, <1>6 DEF HasAdmins, Asking
<1>7. ASSUME NEW w \in Workers, Validate(w) PROVE TypeOK'
  BY <1>3, <1>5, <1>7 DEF Validate, Asking
<1>8. ASSUME NEW w \in Workers, List(w) PROVE TypeOK'
  BY <1>8 DEF List, Goto, Asking
<1>9. ASSUME NEW w \in Workers, ReadAdmin(w) PROVE TypeOK'
  <2>1. CASE Admit(w)
    BY <1>3, <1>9, <2>1 DEF ReadAdmin, Asking
  <2>2. CASE ~ Admit(w)
    BY <1>9, <2>2 DEF ReadAdmin, Rest
  <2> QED
    BY <2>1, <2>2
<1>10. ASSUME NEW w \in Workers, ScanDone(w) PROVE TypeOK'
  BY <1>4, <1>10 DEF ScanDone
<1>11. ASSUME NEW w \in Workers, NEW n \in Names, NEW token, Store(w, n, token),
              token \in 0..drawn', drawn' \in drawn..MaxTokens,
              known' \subseteq 1..drawn', session' = session
       PROVE TypeOK'
  <2>1. drawn \in Nat /\ drawn' \in Nat /\ drawn <= drawn'
    BY <1>11, BoundsAssumption
  <2>2. admins' \in [Names -> 0..drawn']
    BY <1>11, <2>1 DEF Store
  <2>3. witnessed' \in [Workers -> SUBSET BOOLEAN]
    <3>1. \A v \in Workers : Entitled(admins', req[v]) \in BOOLEAN
      BY EntitledBy
    <3> QED
      BY <1>11, <3>1 DEF Store
  <2>4. drawn' \in 0..MaxTokens
    BY <1>11, <2>1, BoundsAssumption
  <2>5. /\ pc' = [pc EXCEPT ![w] = "idle"] /\ req' = [req EXCEPT ![w] = NoRequest]
        /\ todo' = [todo EXCEPT ![w] = {}] /\ contended' = contended \ {w}
        /\ denied' = denied /\ missed' = missed
    BY <1>11 DEF Store, Forget, Goto
  <2> QED
    BY <1>11, <2>2, <2>3, <2>4, <2>5
<1>12. ASSUME NEW w \in Workers, Create(w) PROVE TypeOK'
  <2>1. drawn \in Nat /\ req[w].name \in Names /\ known \subseteq 1..drawn
    BY <1>12, BoundsAssumption, RequestKinds DEF Create
  <2>2. known' \subseteq 1..drawn' /\ drawn' \in drawn..MaxTokens /\ drawn + 1 \in 0..drawn'
    BY <1>12, <2>1, BoundsAssumption DEF Create
  <2>3. Store(w, req[w].name, drawn + 1) /\ session' = session
    BY <1>12 DEF Create
  <2> HIDE DEF TypeOK
  <2> QED
    BY <1>11, <2>1, <2>2, <2>3
<1>13. ASSUME NEW w \in Workers, GetForDelete(w) PROVE TypeOK'
  <2>1. CASE Answer(w)
    BY <1>5, <1>13, <2>1 DEF GetForDelete
  <2>2. CASE ~ Answer(w)
    BY <1>13, <2>2 DEF GetForDelete, Goto, Admitted
  <2> QED
    BY <2>1, <2>2
<1>14. ASSUME NEW w \in Workers, Remove(w) PROVE TypeOK'
  <2>1. req[w].name \in Names /\ NoToken \in 0..drawn /\ drawn \in drawn..MaxTokens
    BY <1>14, BoundsAssumption, RequestKinds DEF Remove, NoToken
  <2> QED
    BY <1>11, <1>14, <2>1 DEF Remove
<1>15. ASSUME NEW w \in Workers, IssueSession(w) PROVE TypeOK'
  BY <1>5, <1>15 DEF IssueSession
<1>16. ASSUME NEW w \in Workers, ReadFails(w) PROVE TypeOK'
  <2>1. CASE pc[w] \in {"hasAdmins", "list"}
    <3>1. Deny(w) /\ UNCHANGED store /\ missed' \subseteq Workers
      BY <1>16, <2>1 DEF ReadFails
    <3> QED
      BY <1>4, <3>1
  <2>2. CASE pc[w] \in {"session", "get"}
    <3>1. Answer(w) /\ UNCHANGED store
      BY <1>16, <2>2 DEF ReadFails
    <3> QED
      BY <1>5, <3>1
  <2>3. CASE pc[w] = "scan"
    <3>1. PICK n \in todo[w] :
            /\ todo' = [todo EXCEPT ![w] = Rest(todo[w], n)]
            /\ missed' = IF admins[n] = req[w].token THEN missed \cup {w} ELSE missed
      BY <1>16, <2>3 DEF ReadFails
    <3>2. missed' \subseteq Workers /\ todo' \in [Workers -> SUBSET Names]
      BY <3>1 DEF Rest
    <3> QED
      BY <1>16, <2>3, <3>2 DEF ReadFails
  <2> QED
    BY <1>16, <2>1, <2>2, <2>3 DEF ReadFails
<1>17. ASSUME NEW w \in Workers, WriteFails(w) PROVE TypeOK'
  BY <1>5, <1>17 DEF WriteFails
<1>18. CASE Crash
  BY <1>18 DEF Crash
<1> QED
  BY <1>1, <1>2, <1>6, <1>7, <1>8, <1>9, <1>10, <1>12, <1>13, <1>14, <1>15, <1>16, <1>17,
     <1>18 DEF Next

LEMMA StartKeeps ==
    ASSUME IInv, TypeOK', NEW w \in Workers, NEW r \in Requests, Start(w, r)
    PROVE  IInv'
<1>1. Quiet(w)
  BY DEF Quiet, Start, Goto, store, IInv, TypeOK
<1>2. /\ pc'[w] = FirstCall(r) /\ req'[w] = r /\ admins' = admins /\ drawn' = drawn
      /\ witnessed'[w] = {Entitled(admins, r)} /\ w \notin denied'
  BY DEF Start, Goto, store, IInv, TypeOK
<1>3. /\ FirstCall(r) \in {"hasAdmins", "session", "list"}
      /\ FirstCall(r) = "list" => r.token \in Tokens
  BY RequestKinds DEF FirstCall
<1>4. Informed(w)'
  BY <1>2 DEF Informed
<1>5. Unread(w)'
  <2>1. r.token \in Tokens => r.token \in 1..drawn
    BY TokenKinds DEF Start, IInv, TypeOK
  <2> QED
    BY <1>2, <1>3, <2>1 DEF Unread
<1>6. Justified(w)'
  BY <1>2, <1>3 DEF Justified, Admitted
<1>7. Alone'
  BY <1>1, <1>2, <1>3 DEF IInv, Alone, Quiet
<1> QED
  BY <1>1, <1>4, <1>5, <1>6, <1>7, QuietKeepsOthers DEF IInv

LEMMA HasAdminsKeeps ==
    ASSUME IInv, TypeOK', NEW w \in Workers, HasAdmins(w)
    PROVE  IInv'
<1>1. Entitled(admins, req[w]) <=> NoAdmins
  BY EntitledBy DEF HasAdmins, NoAdmins, IInv, TypeOK
<1>2. pc[w] \in Asking /\ UNCHANGED store
  BY DEF HasAdmins, Asking
<1>3. CASE NoAdmins /\ Admit(w)
  BY <1>1, <1>2, <1>3, AdmitKeeps
<1>4. CASE ~ NoAdmins /\ Deny(w) /\ UNCHANGED missed
  <2>1. Entitled(admins, req[w]) \in witnessed[w] /\ Entitled(admins, req[w]) = FALSE
    BY <1>1, <1>2, <1>4, EntitledBy DEF IInv, Informed
  <2> QED
    BY <1>2, <1>4, <2>1, DenyKeeps
<1> QED
  BY <1>3, <1>4 DEF HasAdmins, Vacant

LEMMA ValidateKeeps ==
    ASSUME IInv, TypeOK', NEW w \in Workers, Validate(w)
    PROVE  IInv'
<1>1. pc[w] \in Asking /\ pc[w] # "idle" /\ UNCHANGED store
      /\ admins' = admins /\ drawn' = drawn
  BY DEF Validate, Asking, store
<1>2. Entitled(admins, req[w])
  BY EntitledBy DEF Validate, IInv, TypeOK
<1> QED
  BY <1>1, <1>2, AdmitKeeps, AnswerKeeps DEF Validate

LEMMA ListKeeps ==
    ASSUME IInv, TypeOK', NEW w \in Workers, List(w)
    PROVE  IInv'
<1>1. Quiet(w)
  BY DEF Quiet, List, Goto, store, history, IInv, TypeOK
<1>2. /\ pc'[w] = "scan" /\ UNCHANGED <<store, req, history>>
      /\ todo'[w] = {n \in Names : admins[n] # NoToken}
  BY DEF List, Goto, IInv, TypeOK
<1>3. req[w].token \in Tokens /\ req[w].token # NoToken
      /\ Entitled(admins, req[w]) \in witnessed[w] /\ w \notin denied
  <2>1. pc[w] = "list" /\ pc[w] \in Asking
    BY DEF List, Asking
  <2>2. req[w].token \in Tokens /\ req[w].token # NoToken
    BY <2>1, TokenKinds DEF IInv, TypeOK
  <2>3. Entitled(admins, req[w]) \in witnessed[w] /\ w \notin denied
    BY <2>1 DEF IInv, Informed, Justified
  <2> QED
    BY <2>2, <2>3
<1>4. Informed(w)'
  BY <1>2, <1>3 DEF Informed, Asking, store, history
<1>5. Unread(w)'
  <2>1. req[w].token \in 1..drawn
    BY DEF IInv, Unread, List
  <2>2. FALSE \notin witnessed[w] => \E n \in Names : admins[n] = req[w].token
    BY <1>3, EntitledBy
  <2> QED
    BY <1>2, <1>3, <2>1, <2>2 DEF Unread, store, history
<1>6. Justified(w)'
  BY <1>2, <1>3 DEF Justified, Admitted, history
<1>7. Alone'
  BY <1>1, <1>2 DEF IInv, Alone, Quiet
<1> QED
  BY <1>1, <1>4, <1>5, <1>6, <1>7, QuietKeepsOthers DEF IInv

(* The scan goes past a record that does not hold the token, or that it    *)
(* could not read.                                                         *)
LEMMA PassKeeps ==
    ASSUME IInv, TypeOK', NEW w \in Workers, NEW n \in todo[w], pc[w] = "scan",
           todo' = [todo EXCEPT ![w] = todo[w] \ {n}],
           admins[n] = req[w].token => w \in missed',
           missed' = missed \/ missed' = missed \cup {w},
           UNCHANGED <<store, pc, req, denied, witnessed, contended>>
    PROVE  IInv'
<1>1. Quiet(w)
  BY DEF Quiet, store, IInv, TypeOK
<1>2. todo'[w] = todo[w] \ {n} /\ admins' = admins /\ drawn' = drawn /\ w \notin denied
  BY DEF store, IInv, TypeOK, Justified
<1>3. Informed(w)'
  BY <1>2 DEF IInv, Informed
<1>4. Unread(w)'
  BY <1>2 DEF IInv, Unread
<1>5. Justified(w)'
  BY <1>2 DEF Justified, Admitted
<1>6. Alone'
  BY DEF IInv, Alone
<1> QED
  BY <1>1, <1>3, <1>4, <1>5, <1>6, QuietKeepsOthers DEF IInv

LEMMA ReadAdminKeeps ==
    ASSUME IInv, TypeOK', NEW w \in Workers, ReadAdmin(w)
    PROVE  IInv'
<1>1. PICK n \in todo[w] :
        \/ admins[n] = req[w].token /\ Admit(w)
        \/ /\ admins[n] # req[w].token
           /\ todo' = [todo EXCEPT ![w] = todo[w] \ {n}]
           /\ UNCHANGED <<pc, req, history>>
  BY DEF ReadAdmin, Verifies, Rest
<1>2. pc[w] = "scan" /\ pc[w] \in Asking /\ UNCHANGED store
  BY DEF ReadAdmin, Asking
<1>3. CASE admins[n] = req[w].token /\ Admit(w)
  <2>1. n \in Names /\ req[w].token \in Tokens
    BY <1>2 DEF IInv, TypeOK
  <2>2. Entitled(admins, req[w])
    BY <1>3, <2>1, EntitledBy
  <2> QED
    BY <1>2, <1>3, <2>2, AdmitKeeps
<1>4. CASE /\ admins[n] # req[w].token
           /\ todo' = [todo EXCEPT ![w] = todo[w] \ {n}]
           /\ UNCHANGED <<pc, req, history>>
  BY <1>2, <1>4, PassKeeps DEF history
<1> QED
  BY <1>1, <1>3, <1>4

LEMMA ScanDoneKeeps ==
    ASSUME IInv, TypeOK', NEW w \in Workers, ScanDone(w)
    PROVE  IInv'
<1>1. FALSE \in witnessed[w] \/ w \in missed
  BY DEF ScanDone, IInv, Unread
<1> QED
  BY <1>1, DenyKeeps DEF ScanDone

LEMMA CreateKeeps ==
    ASSUME IInv, TypeOK', NEW w \in Workers, Create(w)
    PROVE  IInv'
<1>1. req[w].name \in Names /\ pc[w] # "idle"
  BY RequestKinds DEF Create, IInv, TypeOK
<1>2. Store(w, req[w].name, drawn + 1) /\ drawn' = drawn + 1 /\ pc[w] = "create"
  BY DEF Create
<1> QED
  BY <1>1, <1>2, StoreKeeps

LEMMA RemoveKeeps ==
    ASSUME IInv, TypeOK', NEW w \in Workers, Remove(w)
    PROVE  IInv'
<1>1. req[w].name \in Names /\ pc[w] # "idle"
  BY RequestKinds DEF Remove, IInv, TypeOK
<1>2. Store(w, req[w].name, NoToken) /\ drawn' = drawn
  BY DEF Remove
<1> QED
  BY <1>1, <1>2, StoreKeeps

LEMMA GetForDeleteKeeps ==
    ASSUME IInv, TypeOK', NEW w \in Workers, GetForDelete(w)
    PROVE  IInv'
<1>1. pc[w] = "get" /\ admins' = admins /\ drawn' = drawn
  BY DEF GetForDelete, store
<1>2. CASE Answer(w)
  BY <1>1, <1>2, AnswerKeeps
<1>3. CASE Goto(w, "remove") /\ UNCHANGED <<req, todo, history>>
  <2>1. Quiet(w)
    BY <1>1, <1>3 DEF Quiet, Goto, history, IInv, TypeOK
  <2>2. pc'[w] = "remove" /\ w \notin denied' /\ TRUE \in witnessed'[w]
    BY <1>1, <1>3 DEF Goto, history, IInv, TypeOK, Justified, Admitted
  <2>3. Informed(w)' /\ Unread(w)' /\ Justified(w)'
    BY <2>2 DEF Informed, Unread, Justified, Asking
  <2>4. Alone'
    BY <2>1, <2>2 DEF IInv, Alone, Quiet
  <2> QED
    BY <2>1, <2>3, <2>4, QuietKeepsOthers DEF IInv
<1> QED
  BY <1>2, <1>3 DEF GetForDelete

LEMMA ReadFailsKeeps ==
    ASSUME IInv, TypeOK', NEW w \in Workers, ReadFails(w)
    PROVE  IInv'
<1>1. UNCHANGED store /\ admins' = admins /\ drawn' = drawn
  BY DEF ReadFails, store
<1>2. CASE pc[w] \in {"hasAdmins", "list"}
  BY <1>1, <1>2, DenyKeeps DEF ReadFails
<1>3. CASE pc[w] \in {"session", "get"}
  BY <1>1, <1>3, AnswerKeeps DEF ReadFails
<1>4. CASE pc[w] = "scan"
  <2>1. PICK n \in todo[w] :
          /\ todo' = [todo EXCEPT ![w] = todo[w] \ {n}]
          /\ missed' = IF admins[n] = req[w].token THEN missed \cup {w} ELSE missed
    BY <1>4 DEF ReadFails, Rest
  <2>2. /\ admins[n] = req[w].token => w \in missed'
        /\ missed' = missed \/ missed' = missed \cup {w}
    BY <2>1
  <2>3. UNCHANGED <<store, pc, req, denied, witnessed, contended>>
    BY <1>4 DEF ReadFails
  <2> QED
    BY <1>4, <2>1, <2>2, <2>3, PassKeeps
<1> QED
  BY <1>2, <1>3, <1>4 DEF ReadFails

LEMMA CrashKeeps ==
    ASSUME IInv, TypeOK', Crash
    PROVE  IInv'
<1>1. Unique'
  BY DEF Crash, store, IInv, Unique
<1>2. Alone' /\ \A w \in Workers : (Informed(w) /\ Unread(w) /\ Justified(w))'
  BY DEF Crash, Alone, Informed, Unread, Justified, Asking, Admitted
<1> QED
  BY <1>1, <1>2 DEF IInv

LEMMA NextKeeps == IInv /\ [Next]_vars => IInv'
<1> SUFFICES ASSUME IInv, [Next]_vars PROVE IInv'
  OBVIOUS
<1>1. TypeOK'
  BY TypeKept DEF IInv
<1>2. CASE UNCHANGED vars
  <2>1. Unique' /\ Alone'
    BY <1>2 DEF vars, store, history, IInv, Unique, Alone
  <2>2. ASSUME NEW w \in Workers PROVE (Informed(w) /\ Unread(w) /\ Justified(w))'
    <3>1. Informed(w)'
      BY <1>2 DEF vars, store, history, IInv, Informed, Entitled
    <3>2. Unread(w)' /\ Justified(w)'
      BY <1>2 DEF vars, store, history, IInv, Unread, Justified, NoAdmins
    <3> QED
      BY <3>1, <3>2
  <2> QED
    BY <1>1, <2>1, <2>2 DEF IInv
<1>3. ASSUME NEW w \in Workers, IssueSession(w) \/ WriteFails(w) PROVE IInv'
  BY <1>1, <1>3, AnswerKeeps DEF IssueSession, WriteFails, store
<1> QED
  BY <1>1, <1>2, <1>3, StartKeeps, HasAdminsKeeps, ValidateKeeps, ListKeeps, ReadAdminKeeps,
     ScanDoneKeeps, CreateKeeps, GetForDeleteKeeps, RemoveKeeps, ReadFailsKeeps, CrashKeeps
     DEF Next

LEMMA Inductive == Spec => []IInv
BY InitHolds, NextKeeps, PTL DEF Spec

-----------------------------------------------------------------------------
(* Every variable keeps its type; each db call is made for the kind of     *)
(* request and token it belongs to (middleware.go:70-115).                 *)
THEOREM TypeCorrect == Spec => []TypeOK
<1>1. IInv => TypeOK
  BY DEF IInv
<1> QED
  BY <1>1, Inductive, PTL

(* No request gets in with a token that was out of force from its arrival  *)
(* on, however the scan interleaves with writes (admin.go:69-92).          *)
THEOREM AdmissionsJustified == Spec => []AdmissionJustified
<1>1. IInv => AdmissionJustified
  BY DEF IInv, Justified, AdmissionJustified
<1> QED
  BY <1>1, Inductive, PTL

(* No request with a token in force is denied, unless the very record that *)
(* holds it could not be read (admin.go:79-92).                            *)
THEOREM DenialsJustified == Spec => []DenialJustified
<1>1. IInv => DenialJustified
  BY DEF IInv, TypeOK, Justified, DenialJustified
<1> QED
  BY <1>1, Inductive, PTL

(* Without a token nobody is created beside an administrator, unless two   *)
(* creates overlap (middleware.go:122-128).                                *)
THEOREM BootstrapsFirst == Spec => []BootstrapIsFirst
<1>1. IInv => BootstrapIsFirst
  BY DEF IInv, Justified, BootstrapIsFirst
<1> QED
  BY <1>1, Inductive, PTL
=============================================================================
