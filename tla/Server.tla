------------------------------- MODULE Server -------------------------------
(***************************************************************************)
(* The life of the server process around the requests it serves:           *)
(* server.Run in internal/server/server.go, the master key of              *)
(* internal/storage/crypto.go with `lockr init` (cmd/lockr/main.go), and   *)
(* the audit log (module Audit) as the middleware and the login handlers   *)
(* call it.                                                                *)
(*                                                                         *)
(* Run opens the store, loads the master key, opens the audit log, serves, *)
(* and on SIGTERM waits ten seconds at most for the requests in flight;    *)
(* then its deferred calls close the log, overwrite the master key with    *)
(* zeros and close the store, and the process exits, whoever still runs.   *)
(* `lockr init` is another process, which replaces the key file without    *)
(* looking at it.                                                          *)
(*                                                                         *)
(* What a request does to its component is the business of the other       *)
(* modules; here it encrypts and stores one secret, reads one, logs in, or *)
(* queries the audit log, and is then logged and answered.                 *)
(***************************************************************************)
EXTENDS Audit

CONSTANTS
    Paths,     \* paths of secrets
    MaxKeys,   \* bound on the master keys ever generated
    Earlier,   \* entries of requests that an earlier process has served
    NoRequest, \* the goroutine serves no request
    NoQuery,   \* no query has been answered
    NoSecret,  \* nothing is stored at a path
    Faults     \* "write" (a call of the store or a file write fails), "crash"

(* Master keys are random: numbers never drawn before.  Three values are   *)
(* nobody's key: that of a file that holds none, zeros, and that of a key  *)
(* some bytes of which are zeros already.                                  *)
Keys == 1..MaxKeys
NoKey == 0
Zeros == 0 - 1
Torn == 0 - 2

(* The status 401 stands for 403, too: both are denials to the audit log.  *)
Codes == {200, 401, 500}
RequestRecords == [op : Operations, path : Paths]
Secrets == [key : Keys \cup {Zeros, Torn}, by : Requests]

ASSUME KeysAssumption == MaxKeys \in Nat \ {0}
ASSUME FaultsAssumption == Faults \subseteq {"write", "crash"}
ASSUME EarlierAssumption ==
    /\ Earlier \subseteq Entries
    /\ \A e1, e2 \in Earlier : e1.request = e2.request => e1 = e2
    /\ \A e \in Earlier : e.request <= Cardinality(Earlier)
    /\ Cardinality(Earlier) \in 0..MaxRequests
ASSUME NothingAssumption ==
    /\ NoRequest \notin RequestRecords
    /\ NoQuery \notin QueryOptions
    /\ NoSecret \notin Secrets

VARIABLES
    phase,      \* how far Run, or what it has deferred, has come
    keyFile,    \* the key in master.key.enc
    masterKey,  \* the key in the memory of the process
    secrets,    \* secrets[p]: the key of the secret stored at p, and its writer
    initPc,     \* the step `lockr init` is about to take
    generated,  \* number of keys generated so far
    arrived,    \* number of requests received so far
    pc,         \* pc[r]: the step that r's goroutine is about to take
    req,        \* req[r]: what request r asks for, while it is served
    code,       \* code[r]: the HTTP status of its answer, once it is handled
    asked,      \* asked[r]: the options of its query
    found,      \* found[r]: the result of its query
    (* History, read by properties only. *)
    before,     \* before[r]: the entries stored when query r arrived
    answers,    \* answers[r]: the status the client has got, or 0
    early,      \* requests that have been answered and have no entry yet
    unlogged,   \* those of them whose call of Log was cut short
    unstored,   \* logins whose session could not be stored
    replaced,   \* keys that `lockr init` has overwritten in the file
    abandoned   \* requests in flight when Run returned

process == <<phase, masterKey>>
disk == <<keyFile, secrets>>
init == <<initPc, generated>>
query == <<asked, found, before>>
requests == <<pc, req, code, query>>
history == <<answers, early, unlogged, unstored, replaced, abandoned>>
vars == <<process, disk, init, arrived, requests, history, auditVars>>

Phases == {"down", "opened", "keyed", "ready", "serving", "draining",
           "closing", "logClosed", "zeroing", "zeroed", "closed"}
Running == Phases \ {"down", "opened", "keyed", "ready"}

ServerTypeOK ==
    /\ phase \in Phases
    /\ keyFile \in Keys \cup {NoKey}
    /\ masterKey \in Keys \cup {NoKey, Zeros, Torn}
    /\ secrets \in [Paths -> Secrets \cup {NoSecret}]
    /\ initPc \in {"idle", "write"}
    /\ generated \in 0..MaxKeys
    /\ arrived \in 0..MaxRequests
    /\ pc \in [Requests -> {"none", "handle", "seal", "log"}]
    /\ req \in [Requests -> RequestRecords \cup {NoRequest}]
    /\ code \in [Requests -> Codes \cup {0}]
    /\ asked \in [Requests -> QueryOptions \cup {NoQuery}]
    /\ DOMAIN found = Requests
    /\ before \in [Requests -> SUBSET Entries]
    /\ answers \in [Requests -> Codes \cup {0}]
    /\ early \subseteq Requests
    /\ unlogged \subseteq Requests
    /\ unstored \subseteq Requests
    /\ replaced \subseteq 1..generated
    /\ abandoned \subseteq Requests
    /\ keyFile <= generated
    /\ initPc = "write" => generated < MaxKeys
    /\ \A r \in Requests :
         /\ pc[r] # "none" => req[r] \in RequestRecords /\ r <= arrived /\ phase \in Running /\ masterKey # NoKey
         /\ pc[r] = "log" <=> step[r] # "none"
         /\ pc[r] = "log" => code[r] \in Codes
    /\ logOpen <=> phase \in {"ready", "serving", "draining", "closing"}
    /\ phase \in {"keyed", "ready", "serving", "draining", "closing", "logClosed"}
          => masterKey \in Keys

TypeOK == AuditTypeOK /\ ServerTypeOK

(* `lockr init` has run once; there may have been requests since.  (A file *)
(* that holds no key comes back when an init dies between its two steps.)  *)
Init ==
    /\ AuditInit(Earlier)
    /\ arrived = Cardinality(Earlier)
    /\ generated = 1
    /\ keyFile = 1
    /\ phase = "down"
    /\ masterKey = NoKey
    /\ secrets = [p \in Paths |-> NoSecret]
    /\ initPc = "idle"
    /\ pc = [r \in Requests |-> "none"]
    /\ req = [r \in Requests |-> NoRequest]
    /\ code = [r \in Requests |-> 0]
    /\ asked = [r \in Requests |-> NoQuery]
    /\ found = [r \in Requests |-> {}]
    /\ before = [r \in Requests |-> {}]
    /\ answers = [r \in Requests |-> 0]
    /\ early = {}
    /\ unlogged = {}
    /\ unstored = {}
    /\ replaced = {}
    /\ abandoned = {}

Busy(r) == pc[r] # "none"
StoreOpen == phase \notin {"down", "closed"}

Goto(r, label) == pc' = [pc EXCEPT ![r] = label]
Become(p) == phase' = p

(***************************************************************************)
(* lockr init: generate a key and write it to the key file, which          *)
(* os.WriteFile truncates first.  It does so whether or not there is a key *)
(* and whether or not a server runs.  Of the rest of init, the first       *)
(* administrator is the business of module Admins; certificates and the    *)
(* example configuration are no part of any property.                      *)
(***************************************************************************)
InitTruncates ==
    /\ initPc = "idle"
    /\ generated < MaxKeys
    /\ initPc' = "write"
    /\ keyFile' = NoKey
    /\ replaced' = replaced \cup ({keyFile} \ {NoKey})
    /\ UNCHANGED <<process, secrets, generated, arrived, requests, answers, early, unlogged,
                   unstored, abandoned, auditVars>>

InitWrites ==
    /\ initPc = "write"
    /\ initPc' = "idle"
    /\ generated' = generated + 1
    /\ keyFile' = generated + 1
    /\ UNCHANGED <<process, secrets, arrived, requests, history, auditVars>>

InitDies ==
    /\ "crash" \in Faults
    /\ initPc = "write"
    /\ initPc' = "idle"
    /\ UNCHANGED <<process, disk, generated, arrived, requests, history, auditVars>>

(***************************************************************************)
(* Run, up to serving.  The store is opened first.  A file without a key   *)
(* or a wrong passphrase ends the start; so does an audit file, a policy   *)
(* file or a certificate that cannot be read, or a port that is taken; what*)
(* has been deferred by then is run.                                       *)
(***************************************************************************)
Proceed(from, to) ==
    /\ phase = from
    /\ Become(to)
    /\ UNCHANGED <<disk, init, arrived, requests, history>>

OpenStore == Proceed("down", "opened") /\ UNCHANGED <<masterKey, auditVars>>

(* Mutant: the error of LoadMasterKey is not looked at (server.go:60).     *)
KeyLoads_Unchecked == TRUE
KeyLoads == keyFile # NoKey

LoadMasterKey ==
    /\ KeyLoads
    /\ Proceed("opened", "keyed")
    /\ masterKey' = keyFile
    /\ UNCHANGED auditVars

NewLogger == Proceed("keyed", "ready") /\ OpenLog /\ UNCHANGED masterKey

Listen == Proceed("ready", "serving") /\ UNCHANGED <<masterKey, auditVars>>

StartFails ==
    /\ \/ Proceed("opened", "zeroed")
       \/ Proceed("keyed", "logClosed")
       \/ Proceed("ready", "closing")
    /\ UNCHANGED <<masterKey, auditVars>>

(* The listener breaks while the server serves: Run returns the error and  *)
(* waits for nobody.                                                       *)
Abandon ==
    /\ abandoned' = abandoned \cup {r \in Requests : Busy(r)}
    /\ Become("closing")
    /\ UNCHANGED <<masterKey, disk, init, arrived, requests, answers, early, unlogged,
                   unstored, replaced, auditVars>>

ServeFails == phase = "serving" /\ Abandon

(***************************************************************************)
(* SIGTERM: no new requests; wait until none is in flight, ten seconds at  *)
(* most.  No clock is modelled: the ten seconds may be over at any time.   *)
(***************************************************************************)
Terminate == Proceed("serving", "draining") /\ UNCHANGED <<masterKey, auditVars>>

(* Mutant: Close in place of Shutdown, which waits for nobody              *)
(* (server.go:170).                                                        *)
Quiescent_Close == TRUE
Quiescent == \A r \in Requests : ~ Busy(r)

Drained == Quiescent /\ Proceed("draining", "closing") /\ UNCHANGED <<masterKey, auditVars>>

(* Mutant: a context without a deadline (server.go:168).                   *)
DeadlineSet_Background == FALSE
DeadlineSet == TRUE

GivesUp ==
    /\ phase = "draining"
    /\ ~ Quiescent
    /\ DeadlineSet
    /\ Abandon

(***************************************************************************)
(* The deferred calls, last deferred first, and the end of the process.    *)
(***************************************************************************)
DeferredCloseLog == Proceed("closing", "logClosed") /\ CloseLog /\ UNCHANGED masterKey

(* Crypto holds the very slice that is overwritten, byte by byte: who uses *)
(* the key meanwhile finds it torn.                                        *)
DeferredZeroBytes ==
    /\ \/ Proceed("logClosed", "zeroing") /\ masterKey' = Torn
       \/ Proceed("zeroing", "zeroed") /\ masterKey' = Zeros
    /\ UNCHANGED auditVars

DeferredCloseStore == Proceed("zeroed", "closed") /\ UNCHANGED <<masterKey, auditVars>>

(* It has been answered, and its call of Log has yet to store the entry.   *)
Unentered(r) == r \in early /\ step[r] \in {"draw", "set"}

(* The process is gone: the disk stays, memory and goroutines do not.      *)
Ends ==
    /\ Become("down")
    /\ masterKey' = NoKey
    /\ pc' = [r \in Requests |-> "none"]
    /\ req' = [r \in Requests |-> NoRequest]
    /\ code' = [r \in Requests |-> 0]
    /\ asked' = [r \in Requests |-> NoQuery]
    /\ found' = [r \in Requests |-> {}]
    /\ before' = [r \in Requests |-> {}]
    /\ CallsLost
    /\ unlogged' = unlogged \cup {r \in Requests : Unentered(r)}
    /\ UNCHANGED <<disk, init, arrived, answers, early, unstored, replaced, abandoned>>

Exit == phase = "closed" /\ Ends
Crash == "crash" \in Faults /\ phase # "down" /\ Ends

(***************************************************************************)
(* A request arrives, in a goroutine of its own, and is handled.           *)
(***************************************************************************)
Arrive(o, p) ==
    LET r == arrived + 1
    IN  /\ phase = "serving"
        /\ arrived < MaxRequests
        /\ arrived' = r
        /\ Goto(r, "handle")
        /\ req' = [req EXCEPT ![r] = [op |-> o, path |-> p]]
        /\ before' = [before EXCEPT ![r] = IF o = "query" THEN Stored ELSE {}]
        /\ UNCHANGED <<process, disk, init, code, asked, found, history, auditVars>>

AuditStatus(c) == CASE c = 200 -> "allowed" [] c = 401 -> "denied" [] OTHER -> "error"

(* The handler is done: the request is logged, and answered after that, as *)
(* net/http keeps an answer in its buffers until the handlers have         *)
(* returned.  One that is too long for them, of a query, goes out at once. *)
Handled(r, c) ==
    /\ code' = [code EXCEPT ![r] = c]
    /\ Goto(r, "log")
    /\ BeginLog(r, [request |-> r, op |-> req[r].op, status |-> AuditStatus(c)])

HandledEarly(r, c) ==
    /\ Handled(r, c)
    /\ answers' = [answers EXCEPT ![r] = c]
    /\ early' = early \cup {r}

Handling(r, o) == pc[r] = "handle" /\ req[r].op = o

StoreFails == "write" \in Faults \/ ~ StoreOpen

(* authMiddleware, withAdmin or the policy refuses the request.  A login   *)
(* stands outside them.                                                    *)
Refuse(r) ==
    /\ pc[r] = "handle"
    /\ req[r].op # "login"
    /\ Handled(r, 401)
    /\ UNCHANGED <<process, disk, init, arrived, req, query, history>>

(* A set first reads what is there, which must decrypt.  Two torn keys may *)
(* be the same or not.                                                     *)
Decrypts(p) == secrets[p] # NoSecret /\ secrets[p].key = masterKey

LookUp(r) ==
    LET p == req[r].path
    IN  /\ Handling(r, "write")
        /\ \/ /\ StoreOpen
              /\ secrets[p] = NoSecret \/ Decrypts(p)
              /\ Goto(r, "seal")
              /\ UNCHANGED <<code, auditVars>>
           \/ /\ \/ StoreFails
                 \/ secrets[p] # NoSecret /\ (~ Decrypts(p) \/ masterKey = Torn)
              /\ Handled(r, 500)
        /\ UNCHANGED <<process, disk, init, arrived, req, query, history>>

(* Encrypt and store, as one step: a store that is closed in between might *)
(* have been closed before.  The records of one set are one secret here.   *)
Put(r) ==
    /\ pc[r] = "seal"
    /\ \/ /\ StoreOpen
          /\ secrets' = [secrets EXCEPT ![req[r].path] = [key |-> masterKey, by |-> r]]
          /\ Handled(r, 200)
       \/ /\ StoreFails
          /\ Handled(r, 500)
          /\ UNCHANGED secrets
    /\ UNCHANGED <<process, keyFile, init, arrived, req, query, history>>

QueryAudit(r) ==
    /\ Handling(r, "query")
    /\ \/ /\ StoreOpen
          /\ \E q \in QueryOptions :
                /\ asked' = [asked EXCEPT ![r] = q]
                /\ \E result \in Results(q) : found' = [found EXCEPT ![r] = result]
          /\ \/ Handled(r, 200) /\ UNCHANGED <<answers, early>>
             \/ HandledEarly(r, 200)
       \/ /\ StoreFails
          /\ Handled(r, 500)
          /\ UNCHANGED <<asked, found, answers, early>>
    /\ UNCHANGED <<process, disk, init, arrived, req, before, unlogged, unstored, replaced,
                   abandoned>>

(* What a query has found is not looked at again.                          *)
Unwatch(r) ==
    /\ asked' = [asked EXCEPT ![r] = NoQuery]
    /\ found' = [found EXCEPT ![r] = {}]
    /\ before' = [before EXCEPT ![r] = {}]

Done(r) ==
    /\ Goto(r, "none")
    /\ req' = [req EXCEPT ![r] = NoRequest]
    /\ code' = [code EXCEPT ![r] = 0]
    /\ Unwatch(r)

Answer(r, c) ==
    /\ answers' = [answers EXCEPT ![r] = c]
    /\ Done(r)

(* The login handlers log the attempt themselves.  When the session cannot *)
(* be stored they answer and log nothing.                                  *)
Login(r) ==
    /\ Handling(r, "login")
    /\ \/ /\ Handled(r, 401) \/ (StoreOpen /\ Handled(r, 200))
          /\ UNCHANGED <<req, query, answers, unstored>>
       \/ /\ StoreFails
          /\ Answer(r, 500)
          /\ unstored' = unstored \cup {r}
          /\ UNCHANGED auditVars
    /\ UNCHANGED <<process, disk, init, arrived, early, unlogged, replaced, abandoned>>

(***************************************************************************)
(* The request is logged (module Audit), and answered when Log returns,    *)
(* whatever it returns, if it has not been answered before.                *)
(***************************************************************************)
DrawId(r) ==
    /\ Draw(r)
    /\ Unwatch(r)
    /\ UNCHANGED <<process, disk, init, arrived, pc, req, code, history>>

DrawIdPanics(r) ==
    /\ DrawPanics(r)
    /\ Done(r)
    /\ unlogged' = unlogged \cup {x \in {r} : Unentered(x)}
    /\ UNCHANGED <<process, disk, init, arrived, answers, early, unstored, replaced, abandoned>>

LogToStore(r) ==
    /\ \/ /\ StoreOpen
          /\ StoreEntry(r)
          /\ UNCHANGED <<requests, answers>>
       \/ /\ StoreFails
          /\ StoreEntryFails(r)
          /\ Answer(r, code[r])
    /\ early' = early \ {r}
    /\ UNCHANGED <<process, disk, init, arrived, unlogged, unstored, replaced, abandoned>>

LogToFile(r) ==
    /\ \/ AppendLine(r)
       \/ ("write" \in Faults \/ ~ logOpen) /\ AppendLineFails(r)
    /\ Answer(r, code[r])
    /\ UNCHANGED <<process, disk, init, arrived, early, unlogged, unstored, replaced, abandoned>>

Stop == Drained \/ GivesUp \/ DeferredCloseLog \/ DeferredZeroBytes \/ DeferredCloseStore \/ Exit

Next ==
    \/ InitTruncates \/ InitWrites \/ InitDies
    \/ OpenStore \/ LoadMasterKey \/ NewLogger \/ Listen \/ StartFails
    \/ ServeFails \/ Terminate \/ Stop \/ Crash
    \/ \E o \in Operations, p \in Paths : Arrive(o, p)
    \/ \E r \in Requests :
         \/ Refuse(r)
         \/ LookUp(r)
         \/ Put(r)
         \/ Login(r)
         \/ QueryAudit(r)
         \/ DrawId(r)
         \/ DrawIdPanics(r)
         \/ LogToStore(r)
         \/ LogToFile(r)

(* Run goes on by itself once it has been told to stop; nothing is assumed *)
(* of the requests it waits for.                                           *)
Fairness == WF_vars(Stop)

Spec == Init /\ [][Next]_vars /\ Fairness

-----------------------------------------------------------------------------
(* Every secret in the store can be read with the key in the key file,     *)
(* unless `lockr init` has since replaced the key it was encrypted under,  *)
(* or Run returned while the request that stored the secret was still being*)
(* served and overwrote the key with zeros under it (server.go:63,         *)
(* crypto.go:42, 203-207, main.go:148).                                    *)
SecretsReadable ==
    \A p \in Paths :
        secrets[p] # NoSecret =>
            \/ secrets[p].key = keyFile
            \/ secrets[p].key \in replaced
            \/ secrets[p].key \in {Zeros, Torn} /\ secrets[p].by \in abandoned

KeysOf(r) == {k \in Requests : trail[k] # NoEntry /\ trail[k].request = r}

(* A request that has been answered has exactly one entry in the store, and*)
(* the entry says how it ended, except when the store failed to take it,   *)
(* two draws of an id raced, or the session of a login could not be stored *)
(* (middleware.go:148-184, auth_handlers.go:60-64).  An answer too long for*)
(* the buffers of net/http leaves before the request is logged             *)
(* (response.go:17): its entry may still be missing while the call of Log  *)
(* goes on, and for ever when the end of the process or a panic cut the    *)
(* call short.                                                             *)
AnsweredIsLogged ==
    \A r \in Requests :
        answers[r] # 0 /\ r \notin dropped \cup unstored =>
            \/ \E k \in KeysOf(r) : KeysOf(r) = {k} /\ trail[k].status = AuditStatus(answers[r])
            \/ Unentered(r) /\ KeysOf(r) = {}
            \/ r \in unlogged /\ KeysOf(r) = {}

(* The file follows the store: each of its lines was stored first, and a   *)
(* stored entry whose line is missing is about to be written or was cut off*)
(* by a failed write or the end of the process, never lost later           *)
(* (audit.go:40, 72-80).                                                   *)
FileFollowsStore == lines \subseteq written /\ written \subseteq lines \cup cut \cup Pending

(* A query returns entries that match, and, below its limit, every one that*)
(* was there when it arrived (audit.go:101-120).                           *)
QueryHonest ==
    \A r \in Requests :
        asked[r] # NoQuery =>
            /\ \A e \in found[r] : e \in written /\ Matches(e, asked[r])
            /\ \/ asked[r].limit > 0 /\ Cardinality(found[r]) = asked[r].limit
               \/ \A e \in before[r] :
                      Matches(e, asked[r]) => e \in found[r] \/ e.request \in dropped

(* A server told to stop does stop, however long its requests take         *)
(* (server.go:166-170).                                                    *)
ShutdownEnds == (phase = "draining") ~> (phase = "down")
=============================================================================
