---------------------------- MODULE ServerProofs ----------------------------
(***************************************************************************)
(* What holds of Server, and of the audit log in it, for every number of   *)
(* requests, keys and paths and every set of faults, with proofs.          *)
(***************************************************************************)
EXTENDS Server, TLAPS, WellFoundedInduction, FiniteSetTheorems

(* Induction on a set of numbers: a set with 0 that has n + 1 when it has  *)
(* n has them all, since nothing could be the least number missing.        *)
LEMMA Induct ==
    ASSUME NEW P, 0 \in P, \A n \in Nat : n \in P => n + 1 \in P
    PROVE  Nat \subseteq P
<1> DEFINE Less == {ss \in Nat \X Nat : ss[1] < ss[2]}
           Missing == Nat \ P
<1>1. IsWellFoundedOn(Less, Nat)
  BY NatLessThanWellFounded, Zenon DEF OpToRel
<1>0. \A i, j \in Nat : i < j => <<i, j>> \in Less
  OBVIOUS
<1> HIDE DEF Less
<1>2. ASSUME Missing # {} PROVE FALSE
  <2>1. PICK m \in Missing : \A k \in Missing : ~ (<<k, m>> \in Less)
    BY <1>1, <1>2, WFMin, Zenon
  <2>2. m # 0 /\ m \in Nat /\ m - 1 \in Nat /\ m - 1 < m /\ (m - 1) + 1 = m
    BY <2>1
  <2>3. <<m - 1, m>> \in Less
    BY <1>0, <2>2
  <2>4. m - 1 \notin Missing
    BY <2>1, <2>3
  <2> QED
    BY <2>1, <2>2, <2>4
<1> QED
  BY <1>2

-----------------------------------------------------------------------------
(* The steps of Log keep the types of the audit log.                       *)
LEMMA BeginLogTyped ==
    ASSUME AuditTypeOK, NEW r \in Requests, NEW e \in Entries, e.request = r, BeginLog(r, e)
    PROVE  AuditTypeOK'
BY DEF AuditTypeOK, BeginLog, destinations, logHistory

LEMMA DrawTyped ==
    ASSUME AuditTypeOK, NEW r \in Requests, Draw(r)
    PROVE  AuditTypeOK'
BY DEF AuditTypeOK, Draw, OwnKey, destinations

LEMMA StoreEntryTyped ==
    ASSUME AuditTypeOK, NEW r \in Requests, StoreEntry(r)
    PROVE  AuditTypeOK'
BY DEF AuditTypeOK, StoreEntry

LEMMA ReturnsTyped ==
    ASSUME AuditTypeOK, NEW r \in Requests,
           StoreEntryFails(r) \/ AppendLine(r) \/ AppendLineFails(r) \/ DrawPanics(r)
    PROVE  AuditTypeOK'
BY DEF AuditTypeOK, StoreEntryFails, AppendLine, AppendLineFails, DrawPanics, Returns,
       destinations, logHistory

LEMMA OpenAndCloseTyped ==
    ASSUME AuditTypeOK, OpenLog \/ CloseLog
    PROVE  AuditTypeOK'
BY DEF AuditTypeOK, OpenLog, CloseLog, Opened, destinations, calls, logHistory

LEMMA CallsLostTyped ==
    ASSUME AuditTypeOK, CallsLost
    PROVE  AuditTypeOK'
BY DEF AuditTypeOK, CallsLost, Pending, destinations

LEMMA AuditUnchangedTyped ==
    ASSUME AuditTypeOK, UNCHANGED auditVars
    PROVE  AuditTypeOK'
BY DEF AuditTypeOK, auditVars, destinations, calls, logHistory

-----------------------------------------------------------------------------
(* The steps of the process, of `lockr init` and of requests keep the types*)
(* of the rest.                                                            *)
LEMMA ProceedTyped ==
    ASSUME TypeOK, UNCHANGED auditVars,
           \/ OpenStore \/ Listen \/ StartFails \/ Terminate \/ Drained
           \/ DeferredCloseStore \/ LoadMasterKey \/ DeferredZeroBytes
    PROVE  ServerTypeOK'
<1> USE DEF TypeOK, ServerTypeOK, Proceed, Become, Phases, Running, disk, init, requests, query,
            history, auditVars, calls
<1>1. CASE OpenStore \/ Listen \/ Terminate \/ Drained \/ DeferredCloseStore
  BY <1>1 DEF OpenStore, Listen, Terminate, Drained, DeferredCloseStore
<1>2. CASE StartFails
  <2>1. CASE Proceed("opened", "zeroed")
    BY <1>2, <2>1 DEF StartFails
  <2>2. CASE Proceed("keyed", "logClosed")
    BY <1>2, <2>2 DEF StartFails
  <2>3. CASE Proceed("ready", "closing")
    BY <1>2, <2>3 DEF StartFails
  <2> QED
    BY <1>2, <2>1, <2>2, <2>3 DEF StartFails
<1>3. CASE LoadMasterKey
  <2>1. keyFile \in Keys /\ masterKey' = keyFile
    BY <1>3 DEF LoadMasterKey, KeyLoads
  <2>2. pc' = pc /\ logOpen' = logOpen /\ step' = step /\ phase = "opened" /\ phase' = "keyed"
    BY <1>3 DEF LoadMasterKey
  <2>3. \A r \in Requests : pc[r] = "none"
    BY <2>2
  <2> QED
    BY <1>3, <2>1, <2>2, <2>3 DEF LoadMasterKey
<1>4. CASE DeferredZeroBytes
  <2>1. \E from \in {"logClosed", "zeroing"}, to \in {"zeroing", "zeroed"} : Proceed(from, to)
    BY <1>4 DEF DeferredZeroBytes
  <2>2. masterKey' \in {Torn, Zeros} /\ masterKey' # NoKey
    BY <1>4 DEF DeferredZeroBytes, NoKey, Torn, Zeros
  <2>3. /\ phase \in {"logClosed", "zeroing"} /\ phase' \in {"zeroing", "zeroed"}
        /\ UNCHANGED <<disk, init, arrived, requests, history>>
    BY <2>1
  <2> QED
    BY <2>2, <2>3
<1> QED
  BY <1>1, <1>2, <1>3, <1>4

LEMMA LogFileTyped ==
    ASSUME TypeOK, NewLogger \/ DeferredCloseLog
    PROVE  ServerTypeOK'
BY DEF TypeOK, ServerTypeOK, Proceed, Become, NewLogger, OpenLog, DeferredCloseLog, CloseLog,
       Phases, Running, disk, init, requests, query, history, calls

LEMMA AbandonTyped ==
    ASSUME TypeOK, ServeFails \/ GivesUp
    PROVE  ServerTypeOK'
BY DEF TypeOK, ServerTypeOK, ServeFails, GivesUp, Abandon, Become, Phases, Running, disk, init,
       requests, query, auditVars, calls

LEMMA InitTyped ==
    ASSUME TypeOK, InitTruncates \/ InitWrites \/ InitDies
    PROVE  ServerTypeOK'
<1>1. CASE InitTruncates
  <2>1. generated \in Nat /\ keyFile \in 0..MaxKeys /\ keyFile <= generated /\ 0 <= generated
    BY KeysAssumption DEF TypeOK, ServerTypeOK, Keys, NoKey
  <2>2. replaced' \subseteq 1..generated'
    BY <1>1, <2>1 DEF TypeOK, ServerTypeOK, InitTruncates, NoKey
  <2> QED
    BY <1>1, <2>1, <2>2 DEF TypeOK, ServerTypeOK, InitTruncates, NoKey, process, requests, query, auditVars, calls
<1>2. CASE InitWrites
  <2>1. generated \in 0..MaxKeys /\ generated < MaxKeys
    BY <1>2 DEF TypeOK, ServerTypeOK, InitWrites
  <2>2. generated + 1 \in 0..MaxKeys /\ generated + 1 \in Keys /\ 1..generated \subseteq 1..(generated + 1)
    BY <2>1, KeysAssumption DEF Keys
  <2> QED
    BY <1>2, <2>1, <2>2 DEF TypeOK, ServerTypeOK, InitWrites, process, requests, query, history,
                            auditVars, calls
<1>3. CASE InitDies
  BY <1>3 DEF TypeOK, ServerTypeOK, InitDies, process, disk, requests, query, history, auditVars,
              calls
<1> QED
  BY <1>1, <1>2, <1>3

LEMMA EndsTyped ==
    ASSUME TypeOK, Ends
    PROVE  ServerTypeOK'
<1>1. unlogged' \subseteq Requests
  BY DEF TypeOK, ServerTypeOK, Ends
<1> QED
  BY <1>1 DEF TypeOK, ServerTypeOK, Ends, Become, CallsLost, Phases, Running, disk, init, history

LEMMA ArriveTyped ==
    ASSUME TypeOK, NEW o \in Operations, NEW p \in Paths, Arrive(o, p)
    PROVE  ServerTypeOK'
<1>1. arrived + 1 \in Requests /\ arrived \in Nat
  BY RequestsAssumption DEF TypeOK, ServerTypeOK, Arrive, Requests
<1>2. [op |-> o, path |-> p] \in RequestRecords
  BY DEF RequestRecords
<1>3. Stored \subseteq Entries
  BY DEF TypeOK, AuditTypeOK, Stored
<1> QED
  BY <1>1, <1>2, <1>3 DEF TypeOK, ServerTypeOK, Arrive, Goto, Keys, NoKey, Requests, Running, Phases, process, disk,
                          init, history, auditVars, calls

LEMMA HandlersTyped ==
    ASSUME TypeOK, NEW r \in Requests,
           Refuse(r) \/ LookUp(r) \/ Put(r) \/ QueryAudit(r) \/ Login(r)
    PROVE  TypeOK'
<1> USE DEF Codes
<1>1. pc[r] \in {"handle", "seal"} /\ step[r] = "none" /\ req[r] \in RequestRecords
  BY DEF TypeOK, ServerTypeOK, AuditTypeOK, Refuse, LookUp, Put, QueryAudit, Login, Handling
<1>2. ASSUME NEW c \in Codes, Handled(r, c)
      PROVE  AuditTypeOK'
  <2> DEFINE e == [request |-> r, op |-> req[r].op, status |-> AuditStatus(c)]
  <2>1. e \in Entries
    BY <1>1 DEF Entries, RequestRecords, AuditStatus
  <2>3. e.request = r
    OBVIOUS
  <2>2. BeginLog(r, e)
    BY <1>2 DEF Handled
  <2> HIDE DEF e
  <2> QED
    BY <2>1, <2>2, <2>3, BeginLogTyped DEF TypeOK
<1>3. ASSUME UNCHANGED auditVars
      PROVE  AuditTypeOK'
  BY <1>3, AuditUnchangedTyped DEF TypeOK
<1>4. CASE Refuse(r)
  <2>1. ServerTypeOK'
    BY <1>1, <1>4 DEF TypeOK, ServerTypeOK, AuditTypeOK, Refuse, Handled, BeginLog, Goto, process, disk,
                      init, query, history
  <2> QED
    BY <1>2, <1>4, <2>1 DEF Refuse, TypeOK
<1>5. CASE LookUp(r)
  <2>1. ServerTypeOK'
    BY <1>1, <1>5, SMTT(20) DEF TypeOK, ServerTypeOK, AuditTypeOK, LookUp, Handling, Handled, BeginLog, Goto, process,
                      disk, init, query, history, auditVars, calls
  <2> QED
    BY <1>2, <1>3, <1>5, <2>1 DEF LookUp, TypeOK
<1>6. CASE Put(r)
  <2>1. [key |-> masterKey, by |-> r] \in Secrets
    BY <1>1, <1>6 DEF TypeOK, ServerTypeOK, Put, Secrets, Keys, Zeros, Torn, NoKey
  <2>3. secrets' \in [Paths -> Secrets \cup {NoSecret}]
    BY <1>1, <1>6, <2>1 DEF TypeOK, ServerTypeOK, Put
  <2>4. PICK c \in Codes : Handled(r, c)
    BY <1>6 DEF Put
  <2>2. ServerTypeOK'
    BY <1>1, <1>6, <2>3, <2>4 DEF TypeOK, ServerTypeOK, AuditTypeOK, Put, Handled, BeginLog, Goto, process,
                      init, query, history
  <2> QED
    BY <1>2, <1>6, <2>2 DEF Put, TypeOK
<1>7. CASE QueryAudit(r)
  <2>1. PICK c \in Codes : Handled(r, c)
    BY <1>7 DEF QueryAudit, HandledEarly
  <2>2. /\ asked' \in [Requests -> QueryOptions \cup {NoQuery}] /\ DOMAIN found' = Requests
        /\ answers' \in [Requests -> Codes \cup {0}] /\ early' \subseteq Requests
    BY <1>7 DEF TypeOK, ServerTypeOK, QueryAudit, HandledEarly
  <2>3. UNCHANGED <<process, disk, init, arrived, req, before, unlogged, unstored, replaced,
                    abandoned>>
    BY <1>7 DEF QueryAudit
  <2>4. ServerTypeOK'
    <3>1. /\ pc' = [pc EXCEPT ![r] = "log"] /\ step' = [step EXCEPT ![r] = "draw"]
          /\ code' = [code EXCEPT ![r] = c] /\ logOpen' = logOpen
      BY <2>1 DEF Handled, BeginLog, Goto
    <3>2. ASSUME NEW x \in Requests
          PROVE  /\ pc'[x] # "none" => /\ req[x] \in RequestRecords /\ x <= arrived
                                       /\ phase \in Running /\ masterKey # NoKey
                 /\ pc'[x] = "log" <=> step'[x] # "none"
                 /\ pc'[x] = "log" => code'[x] \in Codes
      BY <1>1, <3>1 DEF TypeOK, ServerTypeOK, AuditTypeOK
    <3>3. pc' \in [Requests -> {"none", "handle", "seal", "log"}]
          /\ code' \in [Requests -> Codes \cup {0}]
      BY <3>1 DEF TypeOK, ServerTypeOK
    <3> QED
      BY <2>2, <2>3, <3>1, <3>2, <3>3 DEF TypeOK, ServerTypeOK, process, disk, init
  <2> QED
    BY <1>2, <2>1, <2>4 DEF TypeOK
<1>8. CASE Login(r)
  <2>1. ASSUME NEW c \in Codes, Handled(r, c), UNCHANGED <<req, query, answers, unstored>>
        PROVE  ServerTypeOK'
    BY <1>1, <1>8, <2>1 DEF TypeOK, ServerTypeOK, AuditTypeOK, Login, Handled, BeginLog, Goto, process,
                            disk, init, query
  <2>2. ASSUME Answer(r, 500), unstored' = unstored \cup {r}, UNCHANGED auditVars
        PROVE  ServerTypeOK'
    BY <1>1, <1>8, <2>2 DEF TypeOK, ServerTypeOK, AuditTypeOK, Login, Answer, Done, Unwatch, Goto, process,
                            disk, init, auditVars, calls
  <2>3. ServerTypeOK'
    BY <1>8, <2>1, <2>2 DEF Login
  <2> QED
    BY <1>2, <1>3, <1>8, <2>3 DEF Login, TypeOK
<1> QED
  BY <1>4, <1>5, <1>6, <1>7, <1>8

LEMMA LoggingTyped ==
    ASSUME TypeOK, NEW r \in Requests,
           DrawId(r) \/ DrawIdPanics(r) \/ LogToStore(r) \/ LogToFile(r)
    PROVE  TypeOK'
<1>1. step[r] # "none" /\ pc[r] = "log" /\ code[r] \in Codes
  BY DEF TypeOK, ServerTypeOK, DrawId, Draw, DrawIdPanics, DrawPanics, LogToStore, StoreEntry,
         StoreEntryFails, LogToFile, AppendLine, AppendLineFails
<1>2. CASE DrawId(r)
  <2>1. ServerTypeOK'
    BY <1>1, <1>2 DEF TypeOK, ServerTypeOK, AuditTypeOK, DrawId, Draw, Unwatch, process, disk, init, history
  <2> QED
    BY <1>2, <2>1, DrawTyped DEF TypeOK, DrawId
<1>3. CASE DrawIdPanics(r)
  <2>1. ServerTypeOK'
    BY <1>1, <1>3 DEF TypeOK, ServerTypeOK, AuditTypeOK, DrawIdPanics, DrawPanics, Returns, Done, Unwatch,
                      Goto, process, disk, init, history
  <2> QED
    BY <1>3, <2>1, ReturnsTyped DEF TypeOK, DrawIdPanics
<1>4. CASE LogToStore(r)
  <2>1. ServerTypeOK'
    BY <1>1, <1>4, SMTT(20) DEF TypeOK, ServerTypeOK, AuditTypeOK, LogToStore, StoreEntry, StoreEntryFails, Returns,
                      Answer, Done, Unwatch, Goto, process, disk, init, requests, query
  <2> QED
    BY <1>4, <2>1, ReturnsTyped, StoreEntryTyped DEF TypeOK, LogToStore
<1>5. CASE LogToFile(r)
  <2>1. ServerTypeOK'
    BY <1>1, <1>5 DEF TypeOK, ServerTypeOK, AuditTypeOK, LogToFile, AppendLine, AppendLineFails, Returns,
                      Answer, Done, Unwatch, Goto, process, disk, init
  <2> QED
    BY <1>5, <2>1, ReturnsTyped DEF TypeOK, LogToFile
<1> QED
  BY <1>2, <1>3, <1>4, <1>5

(***************************************************************************)
(* Type correctness.                                                       *)
(***************************************************************************)
LEMMA StartsTyped ==
    ASSUME Init
    PROVE  TypeOK
<1>1. Cardinality(Earlier) \in 0..MaxRequests
  BY EarlierAssumption
<1>2. AuditTypeOK
  BY EarlierAssumption DEF Init, AuditInit, AuditTypeOK
<1>3. ServerTypeOK
  BY <1>1, KeysAssumption DEF Init, AuditInit, ServerTypeOK, Phases, Keys, NoKey
<1> QED
  BY <1>2, <1>3 DEF TypeOK

LEMMA StepsTyped ==
    ASSUME TypeOK, [Next]_vars
    PROVE  TypeOK'
<1> USE DEF TypeOK
<1>1. CASE UNCHANGED vars
  <2>1. UNCHANGED auditVars
    BY <1>1 DEF vars
  <2>2. ServerTypeOK'
    BY <1>1 DEF vars, process, disk, init, requests, query, history, auditVars, calls, ServerTypeOK
  <2> QED
    BY <2>1, <2>2, AuditUnchangedTyped
<1>2. CASE InitTruncates \/ InitWrites \/ InitDies
  <2>1. UNCHANGED auditVars
    BY <1>2 DEF InitTruncates, InitWrites, InitDies
  <2> QED
    BY <1>2, <2>1, InitTyped, AuditUnchangedTyped
<1>3. CASE \/ OpenStore \/ Listen \/ StartFails \/ Terminate \/ Drained
           \/ DeferredCloseStore \/ LoadMasterKey \/ DeferredZeroBytes
  <2>1. UNCHANGED auditVars
    BY <1>3 DEF OpenStore, Listen, StartFails, Terminate, Drained, DeferredCloseStore, LoadMasterKey,
                DeferredZeroBytes
  <2> QED
    BY <1>3, <2>1, ProceedTyped, AuditUnchangedTyped
<1>4. CASE NewLogger \/ DeferredCloseLog
  BY <1>4, LogFileTyped, OpenAndCloseTyped DEF NewLogger, DeferredCloseLog
<1>5. CASE ServeFails \/ GivesUp
  <2>1. UNCHANGED auditVars
    BY <1>5 DEF ServeFails, GivesUp, Abandon
  <2> QED
    BY <1>5, <2>1, AbandonTyped, AuditUnchangedTyped
<1>6. CASE Exit \/ Crash
  <2>1. CallsLost /\ Ends
    BY <1>6 DEF Exit, Crash, Ends
  <2> QED
    BY <2>1, EndsTyped, CallsLostTyped
<1>7. ASSUME NEW o \in Operations, NEW p \in Paths, Arrive(o, p)
      PROVE  TypeOK'
  <2>1. UNCHANGED auditVars
    BY <1>7 DEF Arrive
  <2> QED
    BY <1>7, <2>1, ArriveTyped, AuditUnchangedTyped
<1>8. ASSUME NEW r \in Requests,
             Refuse(r) \/ LookUp(r) \/ Put(r) \/ QueryAudit(r) \/ Login(r)
      PROVE  TypeOK'
  BY <1>8, HandlersTyped
<1>9. ASSUME NEW r \in Requests,
             DrawId(r) \/ DrawIdPanics(r) \/ LogToStore(r) \/ LogToFile(r)
      PROVE  TypeOK'
  BY <1>9, LoggingTyped
<1> QED
  BY <1>1, <1>2, <1>3, <1>4, <1>5, <1>6, <1>7, <1>8, <1>9 DEF Next, Stop

(* Every variable keeps its type, the log file is open exactly from        *)
(* NewLogger to its deferred Close, and a request is being logged exactly  *)
(* while its goroutine is in Log (server.go:43-74, middleware.go:173).     *)
THEOREM TypeCorrect == Spec => []TypeOK
<1>1. Init => TypeOK
  BY StartsTyped
<1>2. TypeOK /\ [Next]_vars => TypeOK'
  BY StepsTyped
<1> QED
  BY <1>1, <1>2, PTL DEF Spec

(***************************************************************************)
(* The master key.  A secret is written under the key in memory.  That is  *)
(* the key in the file, unless an init has replaced it since it was read,  *)
(* or it is torn or overwritten with zeros; and when it is, Run has        *)
(* returned, and whoever still writes was in flight when it did.           *)
(***************************************************************************)
Left == phase \in {"closing", "logClosed", "zeroing", "zeroed", "closed"}

KeyInv ==
    /\ TypeOK
    /\ SecretsReadable
    /\ masterKey \in Keys => masterKey = keyFile \/ masterKey \in replaced
    /\ masterKey \in {Torn, Zeros} => phase \in {"zeroing", "zeroed", "closed"}
    /\ initPc = "write" => keyFile = NoKey
    /\ Left => \A r \in Requests : Busy(r) => r \in abandoned

LEMMA KeyInvStarts ==
    ASSUME Init
    PROVE  KeyInv
BY StartsTyped, KeysAssumption
   DEF Init, KeyInv, SecretsReadable, Left, Busy, Keys, NoKey, Zeros, Torn

(* A step that leaves keys and secrets alone and makes nobody busy.        *)
LEMMA KeyInvQuiet ==
    ASSUME KeyInv, TypeOK', UNCHANGED <<masterKey, disk, init, replaced, abandoned>>,
           \A r \in Requests : Busy(r)' => Busy(r),
           \/ phase' = phase
           \/ phase' \notin {"closing"} /\ (Left' => Left) /\ (phase = "zeroed" => phase' = "closed")
             /\ phase \notin {"zeroing", "closed"}
    PROVE  KeyInv'
BY DEF KeyInv, SecretsReadable, Left, disk, init

LEMMA KeyInvKept ==
    ASSUME KeyInv, [Next]_vars
    PROVE  KeyInv'
<1> USE DEF KeyInv
<1>0. TypeOK'
  BY StepsTyped
<1>1. CASE UNCHANGED vars
  BY <1>0, <1>1, KeyInvQuiet DEF vars, process, history, requests, Busy
<1>2. CASE InitTruncates
  BY <1>0, <1>2 DEF InitTruncates, SecretsReadable, Left, Busy, process, requests, TypeOK, ServerTypeOK, Keys,
                    NoKey, Zeros, Torn, Secrets
<1>3. CASE InitWrites
  BY <1>0, <1>3 DEF InitWrites, SecretsReadable, Left, Busy, process, requests, TypeOK, ServerTypeOK, Keys,
                    NoKey, Zeros, Torn, Secrets, history
<1>4. CASE InitDies
  BY <1>0, <1>4 DEF InitDies, SecretsReadable, Left, Busy, process, requests, disk, history
<1>5. CASE OpenStore \/ Listen \/ Terminate \/ DeferredCloseStore \/ NewLogger \/ DeferredCloseLog
  BY <1>0, <1>5, KeyInvQuiet DEF OpenStore, Listen, Terminate, DeferredCloseStore, NewLogger,
           DeferredCloseLog, Proceed, Become, Left, Busy, requests, history
<1>6. CASE StartFails
  <2>1. \A r \in Requests : ~ Busy(r)'
    BY <1>6 DEF StartFails, Proceed, TypeOK, ServerTypeOK, Running, Busy, requests
  <2> QED
    BY <1>0, <1>6, <2>1 DEF StartFails, Proceed, Become, SecretsReadable, Left, disk, init, history
<1>7. CASE Drained
  BY <1>0, <1>7 DEF Drained, Proceed, Become, Quiescent, SecretsReadable, Left, Busy, disk, init, history,
                    requests
<1>8. CASE LoadMasterKey
  BY <1>0, <1>8 DEF LoadMasterKey, KeyLoads, Proceed, Become, SecretsReadable, Left, Busy, disk, init,
                    history, requests, TypeOK, ServerTypeOK, Keys, NoKey, Zeros, Torn
<1>9. CASE DeferredZeroBytes
  BY <1>0, <1>9 DEF DeferredZeroBytes, Proceed, Become, SecretsReadable, Left, Busy, disk, init, history,
                    requests, Keys, Zeros, Torn
<1>10. CASE ServeFails \/ GivesUp
  BY <1>0, <1>10 DEF ServeFails, GivesUp, Abandon, Become, SecretsReadable, Left, Busy, disk, init, requests
<1>11. CASE Exit \/ Crash
  <2>1. Ends
    BY <1>11 DEF Exit, Crash
  <2> QED
    BY <1>0, <2>1 DEF Ends, Become, SecretsReadable, Left, Busy, disk, init, Keys, NoKey, Zeros, Torn
<1>12. ASSUME NEW o \in Operations, NEW p \in Paths, Arrive(o, p)
       PROVE  KeyInv'
  BY <1>0, <1>12 DEF Arrive, SecretsReadable, Left, process, disk, init, history
<1>13. ASSUME NEW r \in Requests, Put(r)
       PROVE  KeyInv'
  <2>1. Busy(r) /\ masterKey \in Keys \cup {Zeros, Torn}
    BY <1>13 DEF Put, Busy, TypeOK, ServerTypeOK
  <2>2. masterKey \in {Zeros, Torn} => r \in abandoned
    BY <2>1 DEF Left
  <2>3. \A x \in Requests : Busy(x)' => Busy(x)
    BY <1>13, <2>1 DEF Put, Handled, Goto, Busy, TypeOK, ServerTypeOK
  <2>4. SecretsReadable'
    BY <1>13, <2>1, <2>2 DEF Put, SecretsReadable, TypeOK, ServerTypeOK, process, history
  <2> QED
    BY <1>0, <1>13, <2>3, <2>4 DEF Put, Left, process, init, history
<1>14. ASSUME NEW r \in Requests,
              \/ Refuse(r) \/ LookUp(r) \/ QueryAudit(r) \/ Login(r)
              \/ DrawId(r) \/ DrawIdPanics(r) \/ LogToStore(r) \/ LogToFile(r)
       PROVE  KeyInv'
  <2>1. UNCHANGED <<process, disk, init, replaced, abandoned>>
    BY <1>14 DEF Refuse, LookUp, QueryAudit, Login, DrawId, DrawIdPanics, LogToStore, LogToFile, history
  <2>2. Busy(r)
    BY <1>14 DEF Refuse, LookUp, QueryAudit, Login, DrawId, DrawIdPanics, LogToStore, LogToFile,
                 Handling, Busy, TypeOK, ServerTypeOK, Draw, DrawPanics, StoreEntry, StoreEntryFails,
                 AppendLine, AppendLineFails
  <2>3. \A x \in Requests \ {r} : pc'[x] = pc[x]
    <3>1. CASE Refuse(r) \/ LookUp(r) \/ QueryAudit(r) \/ Login(r)
      BY <3>1 DEF Refuse, LookUp, QueryAudit, Login, HandledEarly, Handled, Answer, Done, Goto,
                  TypeOK, ServerTypeOK
    <3>2. CASE DrawId(r) \/ DrawIdPanics(r) \/ LogToStore(r) \/ LogToFile(r)
      BY <3>2 DEF DrawId, DrawIdPanics, LogToStore, LogToFile, Answer, Done, Goto, requests, TypeOK,
                  ServerTypeOK
    <3> QED
      BY <1>14, <3>1, <3>2
  <2>4. \A x \in Requests : Busy(x)' => Busy(x)
    BY <2>2, <2>3 DEF Busy
  <2> QED
    BY <1>0, <2>1, <2>4, KeyInvQuiet DEF process
<1> QED
  BY <1>1, <1>2, <1>3, <1>4, <1>5, <1>6, <1>7, <1>8, <1>9, <1>10, <1>11, <1>12, <1>13, <1>14
     DEF Next, Stop

(* No secret is stored that the key in the file does not read, unless an   *)
(* init replaced the key, or the request that stored it was abandoned by   *)
(* Run (server.go:63, crypto.go:42, main.go:148).                          *)
THEOREM SecretsStayReadable == Spec => []SecretsReadable
<1>1. Init => KeyInv
  BY KeyInvStarts
<1>2. KeyInv /\ [Next]_vars => KeyInv'
  BY KeyInvKept
<1>3. KeyInv => SecretsReadable
  BY DEF KeyInv
<1> QED
  BY <1>1, <1>2, <1>3, PTL DEF Spec

(***************************************************************************)
(* The file follows the store.  Only StoreEntry adds a stored entry, and   *)
(* its line is then pending; it stops being so when it is written or cut.  *)
(***************************************************************************)
FileInv == FileFollowsStore /\ Pending \subseteq written

LEMMA FileKept ==
    ASSUME TypeOK, FileInv, [Next]_vars
    PROVE  FileInv'
<1> USE DEF FileInv, FileFollowsStore, Pending
<1>2. ASSUME UNCHANGED auditVars
      PROVE  FileInv'
  BY <1>2 DEF auditVars, destinations, calls, logHistory
<1>3. CASE UNCHANGED vars
  BY <1>2, <1>3 DEF vars
<1>4. CASE InitTruncates \/ InitWrites \/ InitDies \/ ServeFails \/ GivesUp
  BY <1>2, <1>4 DEF InitTruncates, InitWrites, InitDies, ServeFails, GivesUp, Abandon
<1>5. CASE \/ OpenStore \/ Listen \/ StartFails \/ Terminate \/ Drained
           \/ DeferredCloseStore \/ LoadMasterKey \/ DeferredZeroBytes
  BY <1>2, <1>5 DEF OpenStore, Listen, StartFails, Terminate, Drained, DeferredCloseStore, LoadMasterKey,
                DeferredZeroBytes
<1>6. CASE NewLogger \/ DeferredCloseLog
  BY <1>6 DEF NewLogger, DeferredCloseLog, OpenLog, CloseLog, Opened, calls, logHistory, destinations
<1>7. CASE Exit \/ Crash
  BY <1>7 DEF Exit, Crash, Ends, CallsLost, destinations
<1>8. ASSUME NEW o \in Operations, NEW p \in Paths, Arrive(o, p)
      PROVE  FileInv'
  BY <1>2, <1>8 DEF Arrive
<1>9. ASSUME NEW r \in Requests, NEW c \in Codes, Handled(r, c), step[r] = "none"
      PROVE  FileInv'
  BY <1>9 DEF Handled, BeginLog, destinations, logHistory, TypeOK, AuditTypeOK
<1>10. ASSUME NEW r \in Requests,
              Refuse(r) \/ LookUp(r) \/ Put(r) \/ QueryAudit(r) \/ Login(r)
       PROVE  FileInv'
  <2>1. step[r] = "none"
    BY <1>10 DEF Refuse, LookUp, Put, QueryAudit, Login, Handling, TypeOK, ServerTypeOK, AuditTypeOK
  <2> QED
    BY <1>2, <1>9, <1>10, <2>1 DEF Refuse, LookUp, Put, QueryAudit, HandledEarly, Login, Codes
<1>11. ASSUME NEW r \in Requests, Draw(r) \/ DrawPanics(r) \/ StoreEntryFails(r)
       PROVE  FileInv'
  BY <1>11 DEF Draw, DrawPanics, StoreEntryFails, Returns, destinations, logHistory, TypeOK, AuditTypeOK
<1>12. ASSUME NEW r \in Requests, StoreEntry(r)
       PROVE  FileInv'
  BY <1>12 DEF StoreEntry, TypeOK, AuditTypeOK
<1>13. ASSUME NEW r \in Requests, AppendLine(r)
       PROVE  FileInv'
  <2>1. entry[r] \in written
    BY <1>13 DEF AppendLine
  <2> QED
    BY <1>13, <2>1 DEF AppendLine, Returns, TypeOK, AuditTypeOK, logHistory
<1>14. ASSUME NEW r \in Requests, AppendLineFails(r)
       PROVE  FileInv'
  BY <1>14 DEF AppendLineFails, Returns, TypeOK, AuditTypeOK, destinations
<1>15. ASSUME NEW r \in Requests,
              DrawId(r) \/ DrawIdPanics(r) \/ LogToStore(r) \/ LogToFile(r)
       PROVE  FileInv'
  BY <1>11, <1>12, <1>13, <1>14, <1>15 DEF DrawId, DrawIdPanics, LogToStore, LogToFile
<1> QED
  BY <1>3, <1>4, <1>5, <1>6, <1>7, <1>8, <1>10, <1>15 DEF Next, Stop

(* At every moment each line of the file was stored first, and a stored    *)
(* entry without its line is about to get it or was cut off               *)
(* (audit.go:72-80).                                                       *)
THEOREM FileAlwaysFollows == Spec => []FileFollowsStore
<1>1. Init => TypeOK /\ FileInv
  BY StartsTyped DEF Init, AuditInit, FileInv, FileFollowsStore, Pending
<1>2. TypeOK /\ FileInv /\ [Next]_vars => (TypeOK /\ FileInv)'
  BY StepsTyped, FileKept
<1>3. TypeOK /\ FileInv => FileFollowsStore
  BY DEF FileInv
<1> QED
  BY <1>1, <1>2, <1>3, PTL DEF Spec

(***************************************************************************)
(* Answered requests are logged.  A request that drew its own id has its   *)
(* entry under a key that nobody else has; one whose draw raced is dropped,*)
(* and so is the one whose id it got.  Before the entry of a request is    *)
(* stored there is none, and one cut short before that gets none.          *)
(***************************************************************************)
Own(r) ==
    /\ step[r] # "none" => entry[r].status = AuditStatus(code[r])
    /\ step[r] \in {"set", "append"} /\ key[r] # r => {r, key[r]} \subseteq dropped
    /\ step[r] = "append" /\ r \notin dropped => trail[r] = entry[r]
    /\ trail[r] # NoEntry /\ trail[r].request # r => {r, trail[r].request} \subseteq dropped

Unstored(r) ==
    /\ r \in unlogged => pc[r] = "none" /\ r <= arrived
    /\ r > arrived \/ r \in unlogged \/ (pc[r] # "none" /\ step[r] # "append")
          => r \in dropped \/ trail[r] = NoEntry

Logged(r) ==
    answers[r] # 0 =>
        /\ r <= arrived
        /\ pc[r] = "none" \/ (pc[r] = "log" /\ code[r] = answers[r])
        /\ r \notin dropped \cup unstored =>
              \/ /\ trail[r] # NoEntry
                 /\ trail[r].request = r
                 /\ trail[r].status = AuditStatus(answers[r])
              \/ Unentered(r)
              \/ r \in unlogged

AnswerInv == \A r \in Requests : Own(r) /\ Unstored(r) /\ Logged(r)

LEMMA AnswerInvImplies ==
    ASSUME TypeOK, AnswerInv
    PROVE  AnsweredIsLogged
<1> SUFFICES ASSUME NEW r \in Requests, answers[r] # 0, r \notin dropped \cup unstored
             PROVE  \/ \E k \in KeysOf(r) :
                          KeysOf(r) = {k} /\ trail[k].status = AuditStatus(answers[r])
                    \/ Unentered(r) /\ KeysOf(r) = {}
                    \/ r \in unlogged /\ KeysOf(r) = {}
  BY DEF AnsweredIsLogged
<1>1. ASSUME NEW k \in KeysOf(r)
      PROVE  k = r
  BY <1>1 DEF AnswerInv, Own, KeysOf
<1>2. CASE trail[r] # NoEntry /\ trail[r].request = r /\ trail[r].status = AuditStatus(answers[r])
  <2>1. r \in KeysOf(r)
    BY <1>2 DEF KeysOf
  <2> QED
    BY <1>1, <1>2, <2>1
<1>3. CASE Unentered(r) \/ r \in unlogged
  <2>1. trail[r] = NoEntry
    BY <1>3 DEF AnswerInv, Unstored, Unentered, TypeOK, ServerTypeOK
  <2>2. r \notin KeysOf(r)
    BY <2>1 DEF KeysOf
  <2>3. KeysOf(r) = {}
    BY <1>1, <2>2
  <2> QED
    BY <1>3, <2>3
<1> QED
  BY <1>2, <1>3 DEF AnswerInv, Logged

LEMMA AnswerInvStarts ==
    ASSUME Init
    PROVE  AnswerInv
<1>1. ASSUME NEW r \in Requests, trail[r] # NoEntry
      PROVE  trail[r].request = r /\ r <= Cardinality(Earlier)
  BY <1>1, EarlierAssumption DEF Init, AuditInit
<1>2. Cardinality(Earlier) \in Nat /\ \A r \in Requests : r \in Nat
  BY EarlierAssumption, RequestsAssumption DEF Requests
<1>3. ASSUME NEW r \in Requests, r > arrived PROVE trail[r] = NoEntry
  BY <1>1, <1>2, <1>3 DEF Init
<1> QED
  BY <1>1, <1>3 DEF Init, AuditInit, AnswerInv, Own, Unstored, Logged

(* A step that touches neither the log nor the requests; and one that ends *)
(* the calls of the process.                                               *)
LEMMA AnswerInvQuiet ==
    ASSUME AnswerInv,
           UNCHANGED <<trail, step, entry, key, dropped, pc, code, answers, early, unlogged,
                       unstored, arrived>>
    PROVE  AnswerInv'
BY DEF AnswerInv, Own, Unstored, Logged, Unentered

LEMMA AnswerInvEnds ==
    ASSUME TypeOK, AnswerInv, Ends
    PROVE  AnswerInv'
<1>1. /\ UNCHANGED <<trail, dropped, arrived, answers, unstored>>
      /\ pc' = [r \in Requests |-> "none"] /\ step' = [r \in Requests |-> "none"]
      /\ unlogged' = unlogged \cup {r \in Requests : Unentered(r)}
  BY DEF Ends, CallsLost, destinations
<1>2. ASSUME NEW r \in Requests, Unentered(r)
      PROVE  r <= arrived /\ (r \in dropped \/ trail[r] = NoEntry)
  BY <1>2 DEF Unentered, AnswerInv, Unstored, TypeOK, ServerTypeOK
<1>3. ASSUME NEW r \in Requests PROVE Own(r)' /\ Unstored(r)'
  BY <1>1, <1>2 DEF AnswerInv, Own, Unstored
<1>4. ASSUME NEW r \in Requests PROVE Logged(r)'
  BY <1>1 DEF AnswerInv, Logged
<1> QED
  BY <1>3, <1>4 DEF AnswerInv

LEMMA AnswerInvArrive ==
    ASSUME TypeOK, AnswerInv, NEW o \in Operations, NEW p \in Paths, Arrive(o, p)
    PROVE  AnswerInv'
<1>1. arrived + 1 \in Requests /\ arrived \in Nat
  BY RequestsAssumption DEF TypeOK, ServerTypeOK, Arrive, Requests
<1>2. answers[arrived + 1] = 0
  BY <1>1 DEF AnswerInv, Logged, Requests
<1>3. UNCHANGED <<trail, step, entry, key, dropped, code, answers, early, unlogged, unstored>>
      /\ arrived' = arrived + 1 /\ pc' = [pc EXCEPT ![arrived + 1] = "handle"]
  BY DEF Arrive, Goto, history, auditVars, destinations, calls, logHistory
<1>4. \A r \in Requests : Own(r)'
  BY <1>3 DEF AnswerInv, Own
<1>5. ASSUME NEW r \in Requests
      PROVE  Unstored(r)'
  <2>1. r \in Nat
    BY RequestsAssumption DEF Requests
  <2>2. CASE r = arrived + 1
    BY <1>1, <1>3, <2>1, <2>2 DEF AnswerInv, Unstored
  <2>3. CASE r # arrived + 1
    <3>1. pc'[r] = pc[r] /\ (r > arrived + 1 => r > arrived) /\ (r <= arrived => r <= arrived + 1)
      BY <1>1, <1>3, <2>1, <2>3 DEF TypeOK, ServerTypeOK
    <3> QED
      BY <1>3, <3>1 DEF AnswerInv, Unstored
  <2> QED
    BY <2>2, <2>3
<1>6. ASSUME NEW r \in Requests, answers'[r] # 0
      PROVE  Logged(r)'
  <2>1. r # arrived + 1 /\ r <= arrived + 1
    BY <1>1, <1>2, <1>3, <1>6 DEF AnswerInv, Logged, Requests
  <2>2. pc'[r] = pc[r]
    BY <1>1, <1>3, <2>1 DEF TypeOK, ServerTypeOK
  <2> QED
    BY <1>3, <1>6, <2>1, <2>2 DEF AnswerInv, Logged, Unentered
<1> QED
  BY <1>4, <1>5, <1>6 DEF AnswerInv, Logged

(* A request goes to Log, answered or not; or is answered without it.      *)
LEMMA AnswerInvHandled ==
    ASSUME TypeOK, AnswerInv, NEW r \in Requests, NEW c \in Codes, pc[r] # "none", step[r] = "none",
           Handled(r, c), UNCHANGED <<unlogged, unstored, arrived>>,
           UNCHANGED <<answers, early>> \/ HandledEarly(r, c)
    PROVE  AnswerInv'
<1>1. answers[r] = 0 /\ r \notin unlogged /\ r <= arrived
  BY DEF AnswerInv, Logged, Unstored, TypeOK, ServerTypeOK
<1>2. /\ pc' = [pc EXCEPT ![r] = "log"] /\ step' = [step EXCEPT ![r] = "draw"]
      /\ code' = [code EXCEPT ![r] = c]
      /\ entry' = [entry EXCEPT ![r] = [request |-> r, op |-> req[r].op, status |-> AuditStatus(c)]]
      /\ UNCHANGED <<trail, dropped, key, unlogged, unstored, arrived>>
  BY DEF Handled, BeginLog, Goto, destinations, logHistory
<1>3. ASSUME NEW x \in Requests \ {r}
      PROVE  /\ pc'[x] = pc[x] /\ step'[x] = step[x] /\ code'[x] = code[x] /\ entry'[x] = entry[x]
             /\ answers'[x] = answers[x] /\ (x \in early' <=> x \in early)
  BY <1>2 DEF HandledEarly, TypeOK, ServerTypeOK, AuditTypeOK
<1>4. /\ pc'[r] = "log" /\ step'[r] = "draw" /\ code'[r] = c
      /\ entry'[r].status = AuditStatus(c)
  BY <1>2 DEF TypeOK, ServerTypeOK, AuditTypeOK
<1>5. answers'[r] = 0 \/ (answers'[r] = c /\ r \in early')
  BY <1>1 DEF HandledEarly, TypeOK, ServerTypeOK
<1>6. ASSUME NEW x \in Requests
      PROVE  Own(x)' /\ Unstored(x)' /\ Logged(x)'
  <2>1. CASE x = r
    <3>1. Own(r)' /\ Unstored(r)'
      BY <1>1, <1>2, <1>4 DEF AnswerInv, Own, Unstored
    <3>2. Logged(r)'
      BY <1>1, <1>2, <1>4, <1>5 DEF Logged, Unentered
    <3> QED
      BY <2>1, <3>1, <3>2
  <2>2. CASE x # r
    <3>1. Own(x)' /\ Unstored(x)'
      BY <1>2, <1>3, <2>2 DEF AnswerInv, Own, Unstored
    <3>2. Logged(x)'
      BY <1>2, <1>3, <2>2 DEF AnswerInv, Logged, Unentered
    <3> QED
      BY <3>1, <3>2
  <2> QED
    BY <2>1, <2>2
<1> QED
  BY <1>6 DEF AnswerInv

LEMMA AnswerInvHandlers ==
    ASSUME TypeOK, AnswerInv, NEW r \in Requests,
           Refuse(r) \/ LookUp(r) \/ Put(r) \/ QueryAudit(r) \/ Login(r)
    PROVE  AnswerInv'
<1>1. pc[r] \in {"handle", "seal"} /\ step[r] = "none" /\ arrived' = arrived /\ r <= arrived
  BY DEF TypeOK, ServerTypeOK, AuditTypeOK, Refuse, LookUp, Put, QueryAudit, Login, Handling
<1>2. ASSUME NEW c \in Codes, Handled(r, c), UNCHANGED <<unlogged, unstored>>,
             UNCHANGED <<answers, early>> \/ HandledEarly(r, c)
      PROVE  AnswerInv'
  BY <1>1, <1>2, AnswerInvHandled
<1>3. CASE Refuse(r) \/ Put(r)
  BY <1>2, <1>3 DEF Refuse, Put, history, Codes
<1>4. CASE LookUp(r)
  <2>1. ASSUME Goto(r, "seal"), UNCHANGED <<code, auditVars>>
        PROVE  AnswerInv'
    <3>1. /\ pc' = [pc EXCEPT ![r] = "seal"]
          /\ UNCHANGED <<trail, step, entry, key, dropped, code, answers, early, unlogged,
                         unstored, arrived>>
      BY <1>4, <2>1 DEF LookUp, Goto, history, auditVars, destinations, calls, logHistory
    <3>2. \A x \in Requests : /\ Own(x)'
                              /\ x # r => pc'[x] = pc[x]
                              /\ pc'[r] = "seal"
      BY <3>1 DEF AnswerInv, Own, TypeOK, ServerTypeOK
    <3>3. answers[r] = 0 /\ r \notin unlogged
      BY <1>1 DEF AnswerInv, Logged, Unstored
    <3> QED
      BY <1>1, <3>1, <3>2, <3>3 DEF AnswerInv, Unstored, Logged, Unentered
  <2> QED
    BY <1>2, <1>4, <2>1 DEF LookUp, history, Codes
<1>5. CASE Login(r)
  <2>1. ASSUME Answer(r, 500), unstored' = unstored \cup {r}, UNCHANGED auditVars
        PROVE  AnswerInv'
    <3>1. /\ pc' = [pc EXCEPT ![r] = "none"] /\ code' = [code EXCEPT ![r] = 0]
          /\ answers' = [answers EXCEPT ![r] = 500]
          /\ UNCHANGED <<trail, step, entry, key, dropped, early, unlogged, arrived>>
      BY <1>5, <2>1 DEF Login, Answer, Done, Goto, auditVars, destinations, calls, logHistory
    <3>2. /\ pc'[r] = "none"
          /\ \A x \in Requests \ {r} : pc'[x] = pc[x] /\ code'[x] = code[x] /\ answers'[x] = answers[x]
      BY <3>1 DEF TypeOK, ServerTypeOK
    <3>3. \A x \in Requests : Own(x)'
      BY <1>1, <3>1, <3>2 DEF AnswerInv, Own
    <3>4. \A x \in Requests : Unstored(x)'
      BY <1>1, <3>1, <3>2 DEF AnswerInv, Unstored
    <3>5. \A x \in Requests : Logged(x)'
      BY <1>1, <2>1, <3>1, <3>2 DEF AnswerInv, Logged, Unentered
    <3> QED
      BY <3>3, <3>4, <3>5 DEF AnswerInv
  <2> QED
    BY <1>2, <1>5, <2>1 DEF Login, Codes
<1>6. CASE QueryAudit(r)
  BY <1>2, <1>6 DEF QueryAudit, HandledEarly, Codes
<1> QED
  BY <1>3, <1>4, <1>5, <1>6

LEMMA AnswerInvLogging ==
    ASSUME TypeOK, AnswerInv, NEW r \in Requests,
           DrawId(r) \/ DrawIdPanics(r) \/ LogToStore(r) \/ LogToFile(r)
    PROVE  AnswerInv'
<1>1. /\ step[r] # "none" /\ pc[r] = "log" /\ code[r] \in Codes /\ r <= arrived
      /\ arrived' = arrived /\ entry[r].request = r /\ entry[r] \in Entries
      /\ answers[r] \in {0, code[r]} /\ r \notin unlogged
  BY DEF TypeOK, ServerTypeOK, AuditTypeOK, DrawId, Draw, DrawIdPanics, DrawPanics, LogToStore, StoreEntry,
         StoreEntryFails, LogToFile, AppendLine, AppendLineFails, AnswerInv, Logged, Unstored
<1>2. CASE DrawId(r)
  <2>1. \A x \in Requests : Own(x)'
    BY <1>1, <1>2 DEF DrawId, Draw, OwnKey, AnswerInv, Own, destinations, TypeOK, ServerTypeOK, AuditTypeOK
  <2>2. /\ step[r] = "draw" /\ step'[r] = "set" /\ dropped \subseteq dropped'
        /\ \A x \in Requests \ {r} : step'[x] = step[x]
        /\ UNCHANGED <<trail, pc, code, answers, early, unlogged, unstored, arrived>>
    BY <1>2 DEF DrawId, Draw, OwnKey, destinations, history, TypeOK, AuditTypeOK
  <2>3. \A x \in Requests : Unstored(x)'
    BY <1>1, <2>2 DEF AnswerInv, Unstored
  <2>4. \A x \in Requests : Logged(x)'
    BY <1>1, <2>2 DEF AnswerInv, Logged, Unentered
  <2> QED
    BY <2>1, <2>3, <2>4 DEF AnswerInv
<1>3. CASE DrawIdPanics(r)
  <2>1. /\ step[r] = "draw" /\ step'[r] = "none" /\ pc'[r] = "none"
        /\ \A x \in Requests \ {r} : /\ step'[x] = step[x] /\ pc'[x] = pc[x] /\ code'[x] = code[x]
                                     /\ entry'[x] = entry[x] /\ key'[x] = key[x]
        /\ UNCHANGED <<trail, dropped, answers, early, unstored, arrived>>
        /\ unlogged' = unlogged \cup {x \in {r} : Unentered(x)}
    BY <1>3 DEF DrawIdPanics, DrawPanics, Returns, Done, Goto, destinations, logHistory, TypeOK,
                ServerTypeOK, AuditTypeOK
  <2>2. \A x \in Requests : Own(x)'
    BY <2>1 DEF AnswerInv, Own
  <2>3. \A x \in Requests : Unstored(x)'
    BY <1>1, <2>1 DEF AnswerInv, Unstored
  <2>4. \A x \in Requests : Logged(x)'
    BY <1>1, <2>1 DEF AnswerInv, Logged, Unentered
  <2> QED
    BY <2>2, <2>3, <2>4 DEF AnswerInv
<1>4. CASE StoreEntry(r) /\ LogToStore(r)
  <2>1. UNCHANGED <<pc, code, answers, unlogged, unstored, dropped, entry, key, arrived>>
        /\ early' = early \ {r}
    BY <1>4 DEF LogToStore, StoreEntry, StoreEntryFails, Returns, requests, TypeOK, AuditTypeOK
  <2>2. trail' = [trail EXCEPT ![key[r]] = entry[r]] /\ step' = [step EXCEPT ![r] = "append"]
        /\ key[r] \in Requests /\ step[r] = "set"
    BY <1>4 DEF StoreEntry, TypeOK, AuditTypeOK
  <2>3. \A x \in Requests : Own(x)'
    BY <1>1, <2>1, <2>2 DEF AnswerInv, Own, TypeOK, AuditTypeOK
  <2>4. ASSUME NEW x \in Requests PROVE Unstored(x)'
    <3>1. CASE x = r
      <4>1. step'[r] = "append" /\ ~ (r > arrived)
        BY <1>1, <2>2, RequestsAssumption DEF Requests, TypeOK, AuditTypeOK, ServerTypeOK
      <4> QED
        BY <1>1, <2>1, <3>1, <4>1 DEF Unstored
    <3>2. CASE x # r /\ x = key[r]
      <4>1. x \in dropped
        BY <2>2, <3>2 DEF AnswerInv, Own
      <4> QED
        BY <2>1, <4>1 DEF AnswerInv, Unstored
    <3>3. CASE x # r /\ x # key[r]
      <4>1. trail'[x] = trail[x] /\ step'[x] = step[x]
        BY <2>2, <3>3 DEF TypeOK, AuditTypeOK
      <4> QED
        BY <2>1, <4>1 DEF AnswerInv, Unstored
    <3> QED
      BY <3>1, <3>2, <3>3
  <2>5. ASSUME NEW x \in Requests PROVE Logged(x)'
    <3>1. CASE x = r
      <4>1. r \in dropped \/ trail'[r] = entry[r]
        BY <2>2 DEF AnswerInv, Own, TypeOK, AuditTypeOK
      <4>2. entry[r].status = AuditStatus(code[r])
        BY <1>1 DEF AnswerInv, Own
      <4> QED
        BY <1>1, <2>1, <3>1, <4>1, <4>2, NoEntryAssumption DEF AnswerInv, Logged
    <3>2. CASE x # r
      <4>1. x \in dropped \/ trail'[x] = trail[x]
        BY <2>2, <3>2 DEF AnswerInv, Own, TypeOK, AuditTypeOK
      <4>2. step'[x] = step[x] /\ (x \in early' <=> x \in early)
        BY <2>1, <2>2, <3>2 DEF TypeOK, AuditTypeOK
      <4> QED
        BY <2>1, <4>1, <4>2 DEF AnswerInv, Logged, Unentered
    <3> QED
      BY <3>1, <3>2
  <2> QED
    BY <2>3, <2>4, <2>5 DEF AnswerInv
<1>5. CASE (StoreEntryFails(r) /\ LogToStore(r)) \/ LogToFile(r)
  <2>1. /\ pc'[r] = "none" /\ step'[r] = "none" /\ answers'[r] = code[r]
        /\ step[r] = "append" \/ r \in dropped'
        /\ \A x \in Requests \ {r} : /\ step'[x] = step[x] /\ pc'[x] = pc[x] /\ code'[x] = code[x]
                                     /\ entry'[x] = entry[x] /\ key'[x] = key[x]
                                     /\ answers'[x] = answers[x] /\ (x \in early' <=> x \in early)
        /\ dropped \subseteq dropped' /\ UNCHANGED <<trail, unlogged, unstored, arrived>>
    <3>1. CASE StoreEntryFails(r) /\ LogToStore(r)
      BY <3>1 DEF LogToStore, StoreEntry, StoreEntryFails, Returns, Answer, Done, Goto, destinations,
                  TypeOK, ServerTypeOK, AuditTypeOK
    <3>2. CASE LogToFile(r)
      BY <3>2 DEF LogToFile, AppendLine, AppendLineFails, Returns, Answer, Done, Goto, destinations,
                  logHistory, TypeOK, ServerTypeOK, AuditTypeOK
    <3> QED
      BY <1>5, <3>1, <3>2
  <2>2. \A x \in Requests : Own(x)'
    BY <2>1 DEF AnswerInv, Own
  <2>3. \A x \in Requests : Unstored(x)'
    BY <1>1, <2>1 DEF AnswerInv, Unstored
  <2>4. ASSUME NEW x \in Requests PROVE Logged(x)'
    <3>1. CASE x = r
      <4>1. step[r] = "append" /\ r \notin dropped => trail[r] = entry[r]
        BY DEF AnswerInv, Own
      <4>2. entry[r].status = AuditStatus(code[r])
        BY <1>1 DEF AnswerInv, Own
      <4> QED
        BY <1>1, <2>1, <3>1, <4>1, <4>2, NoEntryAssumption DEF Logged
    <3>2. CASE x # r
      BY <2>1, <3>2 DEF AnswerInv, Logged, Unentered
    <3> QED
      BY <3>1, <3>2
  <2> QED
    BY <2>2, <2>3, <2>4 DEF AnswerInv
<1> QED
  BY <1>2, <1>3, <1>4, <1>5 DEF LogToStore

LEMMA AnswerInvKept ==
    ASSUME TypeOK, AnswerInv, [Next]_vars
    PROVE  AnswerInv'
<1> USE DEF auditVars, destinations, calls, logHistory, requests, history
<1>1. CASE UNCHANGED vars
  BY <1>1, AnswerInvQuiet DEF vars
<1>2. CASE InitTruncates \/ InitWrites \/ InitDies \/ ServeFails \/ GivesUp
  BY <1>2, AnswerInvQuiet DEF InitTruncates, InitWrites, InitDies, ServeFails, GivesUp, Abandon
<1>3. CASE \/ OpenStore \/ Listen \/ StartFails \/ Terminate \/ Drained \/ NewLogger \/ DeferredCloseLog
           \/ DeferredCloseStore \/ LoadMasterKey \/ DeferredZeroBytes
  BY <1>3, AnswerInvQuiet DEF OpenStore, Listen, StartFails, Terminate, Drained, DeferredCloseStore,
           LoadMasterKey, DeferredZeroBytes, NewLogger, DeferredCloseLog, OpenLog, CloseLog, Proceed
<1>4. CASE Exit \/ Crash
  BY <1>4, AnswerInvEnds DEF Exit, Crash
<1> QED
  BY <1>1, <1>2, <1>3, <1>4, AnswerInvArrive, AnswerInvHandlers, AnswerInvLogging DEF Next, Stop

(* Whoever has been answered has exactly one entry in the store, which says*)
(* how the request ended, unless the store refused the entry, two draws of *)
(* an id raced, or a login could not store its session                     *)
(* (middleware.go:148-184, auth_handlers.go:60-64); or the answer was long *)
(* enough to leave at once (response.go:17) and the entry is still to come,*)
(* or never comes because the process ended or a panic came first.         *)
THEOREM AnsweredAlwaysLogged == Spec => []AnsweredIsLogged
<1>1. Init => TypeOK /\ AnswerInv
  BY StartsTyped, AnswerInvStarts
<1>2. TypeOK /\ AnswerInv /\ [Next]_vars => (TypeOK /\ AnswerInv)'
  BY StepsTyped, AnswerInvKept
<1>3. TypeOK /\ AnswerInv => AnsweredIsLogged
  BY AnswerInvImplies
<1> QED
  BY <1>1, <1>2, <1>3, PTL DEF Spec

-----------------------------------------------------------------------------
(***************************************************************************)
(* Query.  The walk over the entries is a function of how many of them it  *)
(* has passed.  It exists, by induction on that number.                    *)
(***************************************************************************)
Step(seen, e, q) ==
    IF Matches(e, q) /\ ~ Full(seen, q) THEN seen \cup {e} ELSE seen

Walks(g, n, order, q) ==
    g = [i \in 0..n |-> IF i = 0 THEN {} ELSE Step(g[i - 1], order[i], q)]

LEMMA WalkExists ==
    ASSUME NEW L \in Nat, NEW order, NEW q
    PROVE  \E g : Walks(g, L, order, q)
<1> DEFINE P == {n \in Nat : \E g : Walks(g, n, order, q)}
<1>1. 0 \in P
  <2>1. Walks([i \in 0..0 |-> {}], 0, order, q)
    BY DEF Walks
  <2> QED
    BY <2>1
<1>2. ASSUME NEW n \in Nat, n \in P PROVE n + 1 \in P
  <2>1. PICK g : Walks(g, n, order, q)
    BY <1>2
  <2> DEFINE last == Step(g[n], order[n + 1], q)
             h == [i \in 0..(n + 1) |-> IF i = n + 1 THEN last ELSE g[i]]
             turn == [i \in 0..(n + 1) |-> IF i = 0 THEN {} ELSE Step(h[i - 1], order[i], q)]
  <2>2. ASSUME NEW i \in 0..(n + 1) PROVE h[i] = turn[i]
    <3>1. CASE i = 0
      BY <2>1, <3>1 DEF Walks
    <3>2. CASE i = n + 1
      <4>1. i # 0 /\ i - 1 = n /\ n \in 0..(n + 1) /\ n # n + 1
        BY <3>2
      <4>2. h[i - 1] = g[n] /\ h[i] = last
        BY <3>2, <4>1
      <4> HIDE DEF h
      <4> QED
        BY <3>2, <4>1, <4>2
    <3>3. CASE i # 0 /\ i # n + 1
      <4>1. i \in 0..n /\ i - 1 \in 0..(n + 1) /\ i - 1 # n + 1
        BY <3>3
      <4>2. h[i] = g[i] /\ h[i - 1] = g[i - 1]
        BY <3>3, <4>1
      <4>3. g[i] = Step(g[i - 1], order[i], q)
        BY <2>1, <3>3, <4>1 DEF Walks
      <4> HIDE DEF h
      <4> QED
        BY <3>3, <4>2, <4>3
    <3> QED
      BY <3>1, <3>2, <3>3
  <2>3. h = turn
    <3> HIDE DEF last
    <3>1. h = [i \in 0..(n + 1) |-> h[i]] /\ turn = [i \in 0..(n + 1) |-> turn[i]]
      OBVIOUS
    <3> HIDE DEF h, turn
    <3> QED
      BY <2>2, <3>1
  <2> HIDE DEF h
  <2>4. Walks(h, n + 1, order, q)
    BY <2>3 DEF Walks
  <2> QED
    BY <2>4
<1> HIDE DEF P
<1>3. L \in P
  BY <1>1, <1>2, Induct
<1> QED
  BY <1>3 DEF P

LEMMA WalkIs ==
    ASSUME NEW L \in Nat, NEW S, NEW order \in [1..L -> S], NEW q
    PROVE  \E g : Walks(g, L, order, q) /\ Walk(order, q) = g[L]
<1>1. Len(order) = L
  OBVIOUS
<1> DEFINE Turn(g) == [n \in 0..L |->
                         IF n = 0 THEN {}
                         ELSE IF Matches(order[n], q) /\ ~ Full(g[n - 1], q)
                              THEN g[n - 1] \cup {order[n]}
                              ELSE g[n - 1]]
           walk == CHOOSE g : g = Turn(g)
<1>2. \A g : Walks(g, L, order, q) <=> g = Turn(g)
  BY DEF Walks, Step
<1>3. Walk(order, q) = walk[L]
  BY <1>1 DEF Walk
<1> HIDE DEF Turn
<1>4. walk = Turn(walk)
  BY <1>2, WalkExists
<1> QED
  BY <1>2, <1>3, <1>4

(* What the walk has found after n entries.                                *)
LEMMA WalkHonest ==
    ASSUME NEW L \in Nat, NEW S, NEW order \in [1..L -> S], NEW q \in QueryOptions
    PROVE  /\ \A e \in Walk(order, q) : e \in S /\ Matches(e, q)
           /\ \/ q.limit > 0 /\ Cardinality(Walk(order, q)) = q.limit
              \/ \A i \in 1..L : Matches(order[i], q) => order[i] \in Walk(order, q)
<1>1. PICK g : Walks(g, L, order, q) /\ Walk(order, q) = g[L]
  BY WalkIs
<1> DEFINE Means(n) ==
      /\ IsFiniteSet(g[n])
      /\ \A e \in g[n] : e \in S /\ Matches(e, q)
      /\ q.limit > 0 => Cardinality(g[n]) <= q.limit
      /\ \/ q.limit > 0 /\ Cardinality(g[n]) = q.limit
         \/ \A i \in 1..n : Matches(order[i], q) => order[i] \in g[n]
<1> DEFINE P == {n \in Nat : n <= L => Means(n)}
<1>2. 0 \in P
  <2>1. g[0] = {}
    BY <1>1 DEF Walks
  <2>2. IsFiniteSet(g[0]) /\ Cardinality(g[0]) = 0
    BY <2>1, FS_EmptySet
  <2>3. q.limit \in {0, 1}
    BY DEF QueryOptions
  <2>4. Means(0)
    BY <2>1, <2>2, <2>3
  <2> HIDE DEF Means
  <2> QED
    BY <2>4
<1>3. ASSUME NEW n \in Nat, n \in P PROVE n + 1 \in P
  <2> SUFFICES ASSUME n + 1 <= L PROVE Means(n + 1)
    OBVIOUS
  <2>1. Means(n) /\ n + 1 \in 1..L /\ (n + 1) - 1 = n /\ n + 1 \in 0..L /\ n + 1 # 0
    BY <1>3
  <2>2. g[n + 1] = Step(g[n], order[n + 1], q)
    BY <1>1, <2>1 DEF Walks
  <2>3. order[n + 1] \in S
    BY <2>1
  <2>4. \A i \in 1..(n + 1) : i \in 1..n \/ i = n + 1
    OBVIOUS
  <2>5. Cardinality(g[n]) \in Nat
    BY <2>1, FS_CardinalityType
  <2>6. q.limit \in Nat
    BY DEF QueryOptions
  <2>7. CASE Matches(order[n + 1], q) /\ ~ Full(g[n], q)
    <3>1. g[n + 1] = g[n] \cup {order[n + 1]}
      BY <2>2, <2>7 DEF Step
    <3>0. IsFiniteSet(g[n])
      BY <2>1
    <3>2. IsFiniteSet(g[n + 1]) /\ Cardinality(g[n + 1]) <= Cardinality(g[n]) + 1
          /\ Cardinality(g[n + 1]) \in Nat
      <4> HIDE DEF P, Means
      <4>1. IsFiniteSet(g[n] \cup {order[n + 1]})
            /\ Cardinality(g[n] \cup {order[n + 1]}) =
                 IF order[n + 1] \in g[n] THEN Cardinality(g[n]) ELSE Cardinality(g[n]) + 1
        BY <3>0, FS_AddElement
      <4> QED
        BY <2>5, <3>1, <4>1
    <3>3. q.limit > 0 => Cardinality(g[n]) < q.limit
      BY <2>5, <2>6, <2>7 DEF Full
    <3>4. q.limit > 0 => Cardinality(g[n + 1]) <= q.limit
      BY <2>5, <2>6, <3>2, <3>3
    <3>5. \A e \in g[n + 1] : e \in S /\ Matches(e, q)
      BY <2>1, <2>3, <2>7, <3>1
    <3>6. \A i \in 1..n : Matches(order[i], q) => order[i] \in g[n]
      BY <2>1, <2>5, <2>6, <3>3
    <3>7. \A i \in 1..(n + 1) : Matches(order[i], q) => order[i] \in g[n + 1]
      BY <2>4, <3>1, <3>6
    <3> HIDE DEF P
    <3> QED
      BY <3>2, <3>4, <3>5, <3>7
  <2>8. CASE ~ (Matches(order[n + 1], q) /\ ~ Full(g[n], q))
    <3>1. g[n + 1] = g[n]
      BY <2>2, <2>8 DEF Step
    <3>2. CASE q.limit > 0 /\ Cardinality(g[n]) = q.limit
      BY <2>1, <3>1, <3>2
    <3>3. CASE \A i \in 1..n : Matches(order[i], q) => order[i] \in g[n]
      <4>1. CASE Matches(order[n + 1], q)
        <5>1. q.limit > 0 /\ Cardinality(g[n]) = q.limit
          BY <2>1, <2>5, <2>6, <2>8, <4>1 DEF Full
        <5> QED
          BY <2>1, <3>1, <5>1
      <4>2. CASE ~ Matches(order[n + 1], q)
        BY <2>1, <2>4, <3>1, <3>3, <4>2
      <4> QED
        BY <4>1, <4>2
    <3> QED
      BY <2>1, <3>2, <3>3
  <2> QED
    BY <2>7, <2>8
<1> HIDE DEF P
<1>4. L \in P
  BY <1>2, <1>3, Induct
<1>5. Means(L)
  BY <1>4 DEF P
<1> QED
  BY <1>1, <1>5

LEMMA StoredIsFinite == IsFiniteSet(Stored)
<1> DEFINE D == {k \in Requests : trail[k] # NoEntry}
           f == [k \in D |-> trail[k]]
<1>1. IsFiniteSet(Requests)
  BY FS_Interval, RequestsAssumption DEF Requests
<1>2. IsFiniteSet(D)
  BY <1>1, FS_Subset
<1>3. f \in Surjection(D, Stored)
  BY DEF Surjection, Stored
<1> HIDE DEF f, D
<1> QED
  BY <1>2, <1>3, FS_Surjection

(* A query finds what matches, and below its limit all of that.            *)
LEMMA ResultsHonest ==
    ASSUME NEW q \in QueryOptions, NEW result \in Results(q)
    PROVE  /\ \A e \in result : e \in Stored /\ Matches(e, q)
           /\ \/ q.limit > 0 /\ Cardinality(result) = q.limit
              \/ \A e \in Stored : Matches(e, q) => e \in result
<1> DEFINE L == Cardinality(Stored)
<1>1. IsFiniteSet(Stored) /\ L \in Nat
  BY StoredIsFinite, FS_CardinalityType
<1>2. PICK order \in SetToSeqs(Stored) : result = Walk(order, q)
  BY DEF Results
<1>3. order \in [1..L -> Stored] /\ \A i, j \in 1..L : i # j => order[i] # order[j]
  BY <1>2 DEF SetToSeqs
<1>4. order \in Injection(1..L, Stored)
  BY <1>3 DEF Injection, IsInjective
<1>5. Cardinality(1..L) = L
  BY <1>1, FS_Interval
<1> HIDE DEF L
<1>6. order \in Surjection(1..L, Stored)
  BY <1>1, <1>4, <1>5, FS_Injection DEF L
<1>7. \A e \in Stored : \E i \in 1..L : order[i] = e
  BY <1>6 DEF Surjection
<1>8. /\ \A e \in result : e \in Stored /\ Matches(e, q)
      /\ \/ q.limit > 0 /\ Cardinality(result) = q.limit
         \/ \A i \in 1..L : Matches(order[i], q) => order[i] \in result
  BY <1>1, <1>2, <1>3, WalkHonest
<1> QED
  BY <1>7, <1>8

(***************************************************************************)
(* What a query has found.  Only a store whose key another request drew    *)
(* too replaces a stored entry; so what was stored when the query arrived  *)
(* is stored when it reads the entries, or its request is among the        *)
(* dropped.                                                                *)
(***************************************************************************)
Honest(r) ==
    asked[r] # NoQuery =>
        /\ pc[r] # "none"
        /\ \A e \in found[r] : e \in written /\ Matches(e, asked[r])
        /\ \/ asked[r].limit > 0 /\ Cardinality(found[r]) = asked[r].limit
           \/ \A e \in before[r] :
                  Matches(e, asked[r]) => e \in found[r] \/ e.request \in dropped

Lasting(r) == \A e \in before[r] : e \in Stored \/ e.request \in dropped

(* A request has no entry before its goroutine has stored it.              *)
StoredOnce ==
    \A k \in Requests :
        trail[k] # NoEntry =>
            /\ trail[k].request <= arrived
            /\ pc[trail[k].request] = "none" \/ step[trail[k].request] = "append"

FoundInv ==
    /\ Stored \subseteq written
    /\ StoredOnce
    /\ \A r \in Requests : Honest(r) /\ Lasting(r)

LEMMA FoundInvStarts ==
    ASSUME Init
    PROVE  FoundInv
<1>1. \A k \in Requests : trail[k] # NoEntry => trail[k] \in Earlier /\ trail[k].request = k
  BY DEF Init, AuditInit
<1>2. Stored \subseteq written
  BY <1>1 DEF Stored, Init, AuditInit
<1>3. StoredOnce
  BY <1>1, EarlierAssumption DEF Init, AuditInit, StoredOnce
<1>4. \A r \in Requests : Honest(r) /\ Lasting(r)
  BY DEF Init, Honest, Lasting
<1> QED
  BY <1>2, <1>3, <1>4 DEF FoundInv

(* A step that stores nothing and neither begins nor ends a request.       *)
LEMMA FoundInvQuiet ==
    ASSUME TypeOK, FoundInv,
           UNCHANGED <<trail, written, query, arrived>>, dropped \subseteq dropped',
           \A r \in Requests : pc[r] = "none" <=> pc'[r] = "none",
           \A r \in Requests : step[r] = "append" => step'[r] = "append" \/ pc'[r] = "none"
    PROVE  FoundInv'
<1>1. Stored' = Stored
  BY DEF Stored
<1>2. StoredOnce'
  <2>1. \A k \in Requests : trail[k] # NoEntry => trail[k].request \in Requests
    BY DEF TypeOK, AuditTypeOK, Entries
  <2> QED
    BY <2>1 DEF FoundInv, StoredOnce
<1>3. \A r \in Requests : Honest(r)' /\ Lasting(r)'
  BY <1>1 DEF FoundInv, Honest, Lasting, query
<1> QED
  BY <1>1, <1>2, <1>3 DEF FoundInv

(* The same, by a request that stops looking at what it has found.         *)
LEMMA FoundInvUnwatch ==
    ASSUME TypeOK, FoundInv, NEW r \in Requests, Unwatch(r),
           UNCHANGED <<trail, written, arrived>>, dropped \subseteq dropped',
           pc[r] = "none" => pc'[r] = "none",
           \A x \in Requests \ {r} : pc'[x] = pc[x],
           \A x \in Requests : step[x] = "append" => step'[x] = "append" \/ pc'[x] = "none"
    PROVE  FoundInv'
<1>1. Stored' = Stored
  BY DEF Stored
<1>2. StoredOnce'
  <2>1. \A k \in Requests : trail[k] # NoEntry => trail[k].request \in Requests
    BY DEF TypeOK, AuditTypeOK, Entries
  <2> QED
    BY <2>1 DEF FoundInv, StoredOnce
<1>3. ASSUME NEW x \in Requests PROVE Honest(x)' /\ Lasting(x)'
  <2>1. CASE x = r
    BY <2>1 DEF Unwatch, Honest, Lasting, TypeOK, ServerTypeOK
  <2>2. CASE x # r
    <3>1. asked'[x] = asked[x] /\ found'[x] = found[x] /\ before'[x] = before[x] /\ pc'[x] = pc[x]
      BY <2>2 DEF Unwatch, TypeOK, ServerTypeOK
    <3> QED
      BY <1>1, <3>1 DEF FoundInv, Honest, Lasting
  <2> QED
    BY <2>1, <2>2
<1> QED
  BY <1>1, <1>2, <1>3 DEF FoundInv

LEMMA FoundInvEnds ==
    ASSUME FoundInv, TypeOK, Ends
    PROVE  FoundInv'
<1>1. Stored' = Stored /\ trail' = trail
  BY DEF Stored, Ends, CallsLost, destinations
<1>2. StoredOnce'
  <2>1. \A k \in Requests : trail[k] # NoEntry => trail[k].request \in Requests
    BY DEF TypeOK, AuditTypeOK, Entries
  <2> QED
    BY <1>1, <2>1 DEF FoundInv, StoredOnce, Ends
<1>3. \A r \in Requests : Honest(r)' /\ Lasting(r)'
  BY DEF Ends, Honest, Lasting
<1> QED
  BY <1>1, <1>2, <1>3 DEF FoundInv, Ends, CallsLost

LEMMA FoundInvArrive ==
    ASSUME TypeOK, FoundInv, NEW o \in Operations, NEW p \in Paths, Arrive(o, p)
    PROVE  FoundInv'
<1> DEFINE r == arrived + 1
<1>1. r \in Requests /\ arrived \in Nat
  BY RequestsAssumption DEF TypeOK, ServerTypeOK, Arrive, Requests
<1>2. UNCHANGED <<trail, written, dropped, step, asked, found>>
  BY DEF Arrive, auditVars, destinations, calls, logHistory
<1>3. Stored' = Stored
  BY <1>2 DEF Stored
<1>4. pc[r] = "none"
  BY <1>1 DEF TypeOK, ServerTypeOK
<1>5. StoredOnce'
  <2>1. ASSUME NEW k \in Requests, trail[k] # NoEntry
        PROVE  /\ trail[k].request \in Requests /\ trail[k].request <= arrived
               /\ pc[trail[k].request] = "none" \/ step[trail[k].request] = "append"
    BY <2>1 DEF TypeOK, AuditTypeOK, Entries, FoundInv, StoredOnce
  <2>2. ASSUME NEW k \in Requests, trail[k] # NoEntry
        PROVE  trail[k].request <= arrived' /\ pc'[trail[k].request] = pc[trail[k].request]
    <3>1. trail[k].request \in Int /\ trail[k].request # r /\ arrived' = r
      BY <1>1, <2>1, <2>2 DEF Arrive, Requests
    <3> QED
      BY <1>1, <2>1, <2>2, <3>1 DEF Arrive, Goto, TypeOK, ServerTypeOK
  <2> QED
    BY <1>2, <2>1, <2>2 DEF StoredOnce
<1>6. ASSUME NEW x \in Requests PROVE Honest(x)' /\ Lasting(x)'
  <2>1. asked[r] = NoQuery
    BY <1>1, <1>4 DEF FoundInv, Honest
  <2>2. CASE x = r
    BY <1>2, <1>3, <2>1, <2>2 DEF Arrive, Honest, Lasting, TypeOK, ServerTypeOK
  <2>3. CASE x # r
    <3>1. before'[x] = before[x] /\ pc'[x] = pc[x]
      BY <2>3 DEF Arrive, Goto, TypeOK, ServerTypeOK
    <3> QED
      BY <1>2, <1>3, <3>1 DEF FoundInv, Honest, Lasting
  <2> QED
    BY <2>2, <2>3
<1> QED
  BY <1>2, <1>3, <1>5, <1>6 DEF FoundInv

LEMMA FoundInvQuery ==
    ASSUME TypeOK, FoundInv, NEW r \in Requests, QueryAudit(r),
           NEW q \in QueryOptions, NEW result \in Results(q),
           asked' = [asked EXCEPT ![r] = q], found' = [found EXCEPT ![r] = result]
    PROVE  FoundInv'
<1>1. PICK c \in Codes : Handled(r, c)
  BY DEF QueryAudit, HandledEarly, Codes
<1>2. pc[r] = "handle" /\ step[r] = "none" /\ UNCHANGED <<trail, written, dropped, before, arrived>>
  BY <1>1 DEF QueryAudit, Handling, Handled, BeginLog, destinations, logHistory, TypeOK, ServerTypeOK,
              AuditTypeOK
<1>3. pc' = [pc EXCEPT ![r] = "log"] /\ step' = [step EXCEPT ![r] = "draw"]
  BY <1>1 DEF Handled, BeginLog, Goto
<1>4. Stored' = Stored
  BY <1>2 DEF Stored
<1>5. StoredOnce'
  <2>1. \A k \in Requests : trail[k] # NoEntry => trail[k].request \in Requests
    BY DEF TypeOK, AuditTypeOK, Entries
  <2> QED
    BY <1>2, <1>3, <2>1 DEF FoundInv, StoredOnce, TypeOK, ServerTypeOK, AuditTypeOK
<1>6. Honest(r)'
  <2>1. asked'[r] = q /\ found'[r] = result /\ pc'[r] = "log"
    BY <1>3 DEF TypeOK, ServerTypeOK
  <2>2. \A e \in result : e \in written /\ Matches(e, q)
    BY ResultsHonest DEF FoundInv
  <2>3. \/ q.limit > 0 /\ Cardinality(result) = q.limit
        \/ \A e \in before[r] : Matches(e, q) => e \in result \/ e.request \in dropped
    BY ResultsHonest DEF FoundInv, Lasting
  <2> QED
    BY <1>2, <2>1, <2>2, <2>3 DEF Honest
<1>7. ASSUME NEW x \in Requests, x # r PROVE Honest(x)'
  <2>1. asked'[x] = asked[x] /\ found'[x] = found[x] /\ pc'[x] = pc[x]
    BY <1>3, <1>7 DEF TypeOK, ServerTypeOK
  <2> QED
    BY <1>2, <2>1 DEF FoundInv, Honest
<1>8. \A x \in Requests : Lasting(x)'
  BY <1>2, <1>4 DEF FoundInv, Lasting
<1> QED
  BY <1>2, <1>4, <1>5, <1>6, <1>7, <1>8 DEF FoundInv

LEMMA FoundInvHandlers ==
    ASSUME TypeOK, FoundInv, NEW r \in Requests,
           Refuse(r) \/ LookUp(r) \/ Put(r) \/ QueryAudit(r) \/ Login(r)
    PROVE  FoundInv'
<1>1. pc[r] \in {"handle", "seal"} /\ step[r] = "none" /\ arrived' = arrived
  BY DEF TypeOK, ServerTypeOK, AuditTypeOK, Refuse, LookUp, Put, QueryAudit, Login, Handling
<1>2. ASSUME NEW c \in Codes, Handled(r, c), UNCHANGED query
      PROVE  FoundInv'
  BY <1>1, <1>2, FoundInvQuiet DEF Handled, Goto, BeginLog, destinations, logHistory, TypeOK, ServerTypeOK,
                                   AuditTypeOK
<1>3. CASE Refuse(r) \/ Put(r)
  BY <1>2, <1>3 DEF Refuse, Put, Codes
<1>4. CASE LookUp(r)
  <2>1. ASSUME Goto(r, "seal"), UNCHANGED <<code, auditVars>>, UNCHANGED query
        PROVE  FoundInv'
    BY <1>1, <2>1, FoundInvQuiet DEF Goto, auditVars, destinations, calls, logHistory, TypeOK, ServerTypeOK
  <2> QED
    BY <1>2, <1>4, <2>1 DEF LookUp, Codes
<1>5. CASE Login(r)
  <2>1. ASSUME Answer(r, 500), UNCHANGED auditVars
        PROVE  FoundInv'
    BY <1>1, <2>1, FoundInvUnwatch DEF Answer, Done, Goto, auditVars, destinations, calls, logHistory,
                                       TypeOK, ServerTypeOK
  <2> QED
    BY <1>2, <1>5, <2>1 DEF Login, Codes
<1>6. CASE QueryAudit(r)
  <2>1. ASSUME NEW c \in Codes, Handled(r, c), UNCHANGED <<asked, found>>
        PROVE  FoundInv'
    BY <1>2, <1>6, <2>1 DEF QueryAudit, query
  <2> QED
    BY <1>6, <2>1, FoundInvQuery DEF QueryAudit, Codes
<1> QED
  BY <1>3, <1>4, <1>5, <1>6

LEMMA FoundInvStore ==
    ASSUME TypeOK, AnswerInv, FoundInv, NEW r \in Requests, StoreEntry(r), pc[r] = "log",
           UNCHANGED <<requests, arrived>>, r <= arrived
    PROVE  FoundInv'
<1>1. /\ step[r] = "set" /\ step' = [step EXCEPT ![r] = "append"]
      /\ key[r] \in Requests /\ trail' = [trail EXCEPT ![key[r]] = entry[r]]
      /\ written' = written \cup {entry[r]} /\ dropped' = dropped
      /\ entry[r] \in Entries /\ entry[r].request = r
  BY DEF StoreEntry, TypeOK, AuditTypeOK
<1>2. Stored' \subseteq written'
  BY <1>1 DEF FoundInv, Stored, TypeOK, AuditTypeOK
<1>3. StoredOnce'
  <2>1. ASSUME NEW k \in Requests, trail'[k] # NoEntry
        PROVE  /\ trail'[k].request <= arrived
               /\ pc[trail'[k].request] = "none" \/ step'[trail'[k].request] = "append"
    <3>1. CASE k = key[r]
      BY <1>1, <2>1, <3>1 DEF TypeOK, AuditTypeOK
    <3>2. CASE k # key[r]
      <4>1. trail'[k] = trail[k] /\ trail[k].request \in Requests
        BY <1>1, <2>1, <3>2 DEF TypeOK, AuditTypeOK, Entries
      <4> QED
        BY <1>1, <2>1, <4>1 DEF FoundInv, StoredOnce, TypeOK, AuditTypeOK
    <3> QED
      BY <3>1, <3>2
  <2> QED
    BY <2>1 DEF StoredOnce, requests
<1>4. ASSUME NEW e \in Stored, e.request \notin dropped
      PROVE  e \in Stored'
  <2>1. PICK k \in Requests : trail[k] # NoEntry /\ e = trail[k]
    BY DEF Stored
  <2>2. k # key[r]
    <3> SUFFICES ASSUME k = key[r] PROVE FALSE
      OBVIOUS
    <3>1. trail[k].request = k
      BY <1>4, <2>1 DEF AnswerInv, Own
    <3>2. key[r] = r
      BY <1>1, <1>4, <2>1, <3>1 DEF AnswerInv, Own
    <3> QED
      BY <1>1, <2>1, <3>1, <3>2 DEF FoundInv, StoredOnce
  <2> QED
    BY <1>1, <2>1, <2>2 DEF Stored, TypeOK, AuditTypeOK
<1>5. ASSUME NEW x \in Requests PROVE Honest(x)' /\ Lasting(x)'
  BY <1>1, <1>4 DEF FoundInv, Honest, Lasting, requests, query
<1> QED
  BY <1>2, <1>3, <1>5 DEF FoundInv

LEMMA FoundInvLogging ==
    ASSUME TypeOK, AnswerInv, FoundInv, NEW r \in Requests,
           DrawId(r) \/ DrawIdPanics(r) \/ LogToStore(r) \/ LogToFile(r)
    PROVE  FoundInv'
<1>1. step[r] # "none" /\ pc[r] = "log" /\ r <= arrived /\ arrived' = arrived
  BY DEF TypeOK, ServerTypeOK, DrawId, Draw, DrawIdPanics, DrawPanics, LogToStore, StoreEntry,
         StoreEntryFails, LogToFile, AppendLine, AppendLineFails
<1>2. CASE DrawId(r)
  BY <1>1, <1>2, FoundInvUnwatch DEF DrawId, Draw, destinations, TypeOK, AuditTypeOK
<1>3. CASE DrawIdPanics(r)
  BY <1>1, <1>3, FoundInvUnwatch DEF DrawIdPanics, DrawPanics, Returns, Done, Goto, destinations, logHistory,
                                     TypeOK, ServerTypeOK, AuditTypeOK
<1>4. CASE StoreEntry(r) /\ UNCHANGED requests
  BY <1>1, <1>4, FoundInvStore
<1>5. CASE StoreEntryFails(r) /\ Answer(r, code[r])
  BY <1>1, <1>5, FoundInvUnwatch DEF StoreEntryFails, Returns, Answer, Done, Goto, destinations,
                                     TypeOK, ServerTypeOK, AuditTypeOK
<1>6. CASE LogToFile(r)
  BY <1>1, <1>6, FoundInvUnwatch DEF LogToFile, AppendLine, AppendLineFails, Returns, Answer, Done, Goto,
                                     destinations, logHistory, TypeOK, ServerTypeOK, AuditTypeOK
<1> QED
  BY <1>2, <1>3, <1>4, <1>5, <1>6 DEF LogToStore

LEMMA FoundInvKept ==
    ASSUME TypeOK, AnswerInv, FoundInv, [Next]_vars
    PROVE  FoundInv'
<1> USE DEF auditVars, destinations, calls, logHistory, requests
<1>1. CASE UNCHANGED vars
  BY <1>1, FoundInvQuiet DEF vars
<1>2. CASE InitTruncates \/ InitWrites \/ InitDies \/ ServeFails \/ GivesUp
  BY <1>2, FoundInvQuiet DEF InitTruncates, InitWrites, InitDies, ServeFails, GivesUp, Abandon
<1>3. CASE \/ OpenStore \/ Listen \/ StartFails \/ Terminate \/ Drained \/ NewLogger \/ DeferredCloseLog
           \/ DeferredCloseStore \/ LoadMasterKey \/ DeferredZeroBytes
  BY <1>3, FoundInvQuiet DEF OpenStore, Listen, StartFails, Terminate, Drained, DeferredCloseStore,
           LoadMasterKey, DeferredZeroBytes, NewLogger, DeferredCloseLog, OpenLog, CloseLog, Proceed
<1>4. CASE Exit \/ Crash
  BY <1>4, FoundInvEnds DEF Exit, Crash
<1> QED
  BY <1>1, <1>2, <1>3, <1>4, FoundInvArrive, FoundInvHandlers, FoundInvLogging DEF Next, Stop

(* A query returns only entries that match, each of them stored, and below *)
(* its limit every one that was there when it arrived, whatever order the  *)
(* map is walked in (audit.go:101-120).                                    *)
THEOREM QueriesAreHonest == Spec => []QueryHonest
<1>1. Init => TypeOK /\ AnswerInv /\ FoundInv
  BY StartsTyped, AnswerInvStarts, FoundInvStarts
<1>2. TypeOK /\ AnswerInv /\ FoundInv /\ [Next]_vars => (TypeOK /\ AnswerInv /\ FoundInv)'
  BY StepsTyped, AnswerInvKept, FoundInvKept
<1>3. TypeOK /\ AnswerInv /\ FoundInv => QueryHonest
  BY DEF FoundInv, Honest, QueryHonest
<1> QED
  BY <1>1, <1>2, <1>3, PTL DEF Spec
=============================================================================
