------------------------------- MODULE Admins -------------------------------
(***************************************************************************)
(* Administrators' tokens: internal/auth/admin.go as the middleware and    *)
(* the handlers of internal/api drive it, and as `lockr init` fills it.    *)
(*                                                                         *)
(* An administrator is one record, `auth/admins/<name>`, with the hash of  *)
(* one token.  A request with a token lists the records and reads them one *)
(* by one until one verifies it; a create without a token goes on if there *)
(* is no record at all; a request with the session of an administrator's   *)
(* login goes on while the session lasts; then the handler runs.  Each db  *)
(* call is one step and there is no lock over the calls of a request.      *)
(***************************************************************************)
EXTENDS Integers

CONSTANTS
    MaxNames,   \* administrators are numbered 1..MaxNames in key order
    MaxTokens,  \* bound on the tokens ever drawn
    Workers,    \* goroutines serving requests
    NoRequest,  \* the worker serves no request
    Faults      \* "read", "write" (a db call fails), "crash"

ASSUME BoundsAssumption == MaxNames \in Nat \ {0} /\ MaxTokens \in Nat \ {0}
ASSUME FaultsAssumption == Faults \subseteq {"read", "write", "crash"}

Names == 1..MaxNames
Tokens == 1..MaxTokens
NoToken == 0
BySession == MaxTokens + 1

(* Create and delete of an administrator, and a login for a session.  Only *)
(* a create may come without a token, a login brings the token itself.     *)
Requests ==
         [op : {"create"}, name : Names, token : Tokens \cup {NoToken, BySession}]
    \cup [op : {"delete"}, name : Names, token : Tokens \cup {BySession}]
    \cup [op : {"login"}, token : Tokens]

ASSUME NoRequestAssumption == NoRequest \notin Requests

VARIABLES
    admins,    \* admins[n]: the token of the stored record, or NoToken
    drawn,     \* number of tokens drawn so far
    known,     \* tokens whose answer has reached a client
    session,   \* an administrator's login has been given a session
    pc,        \* pc[w]: the db call the worker is about to make
    req,       \* req[w]: the request it serves
    todo,      \* todo[w]: records it has listed and not read yet
    (* History, read by properties only. *)
    denied,    \* workers whose last request was denied
    witnessed, \* witnessed[w]: was that request entitled, from its arrival until
               \*               it was admitted or denied
    missed,    \* workers that could not read what would have admitted them
    contended  \* workers whose create has been under way beside another one

store == <<admins, drawn, known, session>>
history == <<denied, witnessed, missed, contended>>
vars == <<store, pc, req, todo, history>>

Admitted == {"create", "get", "remove", "issue"}
Asking == {"hasAdmins", "session", "list", "scan"}

TypeOK ==
    /\ admins \in [Names -> 0..drawn]
    /\ drawn \in 0..MaxTokens
    /\ known \subseteq 1..drawn
    /\ session \in BOOLEAN
    /\ pc \in [Workers -> {"idle"} \cup Asking \cup Admitted]
    /\ req \in [Workers -> Requests \cup {NoRequest}]
    /\ todo \in [Workers -> SUBSET Names]
    /\ denied \subseteq Workers
    /\ witnessed \in [Workers -> SUBSET BOOLEAN]
    /\ missed \subseteq Workers
    /\ contended \subseteq Workers
    /\ \A w \in Workers :
         /\ pc[w] # "idle" <=> req[w] # NoRequest
         /\ pc[w] = "hasAdmins" => req[w].token = NoToken
         /\ pc[w] = "session" => req[w].token = BySession
         /\ pc[w] \in {"list", "scan"} => req[w].token \in Tokens
         /\ pc[w] = "create" => req[w].op = "create"
         /\ pc[w] \in {"get", "remove"} => req[w].op = "delete"

NoAdmins == \A n \in Names : admins[n] = NoToken

(* `lockr init` creates the first administrator, unless that failed.       *)
Init ==
    /\ \/ /\ admins = [n \in Names |-> IF n = 1 THEN 1 ELSE NoToken]
          /\ drawn = 1
          /\ known = {1}
       \/ /\ admins = [n \in Names |-> NoToken]
          /\ drawn = 0
          /\ known = {}
    /\ session = FALSE
    /\ pc = [w \in Workers |-> "idle"]
    /\ req = [w \in Workers |-> NoRequest]
    /\ todo = [w \in Workers |-> {}]
    /\ denied = {}
    /\ witnessed = [w \in Workers |-> {}]
    /\ missed = {}
    /\ contended = {}

(* A token in force entitles to every request, its absence to a create     *)
(* while there is no administrator.  What a session entitles to is not     *)
(* decided by the records (see Sessions).                                  *)
Entitled(records, r) ==
    CASE r.token = NoToken   -> \A n \in Names : records[n] = NoToken
      [] r.token = BySession -> TRUE
      [] OTHER               -> \E n \in Names : records[n] = r.token

Goto(w, label) == pc' = [pc EXCEPT ![w] = label]

FirstCall(r) ==
    CASE r.token = NoToken   -> "hasAdmins"
      [] r.token = BySession -> "session"
      [] OTHER               -> "list"

Start(w, r) ==
    /\ pc[w] = "idle"
    /\ r.token \in known \cup {NoToken, BySession}
    /\ r.token = BySession => session
    /\ Goto(w, FirstCall(r))
    /\ req' = [req EXCEPT ![w] = r]
    /\ denied' = denied \ {w}
    /\ witnessed' = [witnessed EXCEPT ![w] = {Entitled(admins, r)}]
    /\ missed' = missed \ {w}
    /\ UNCHANGED <<store, todo, contended>>

Forget(w) ==
    /\ Goto(w, "idle")
    /\ req' = [req EXCEPT ![w] = NoRequest]
    /\ todo' = [todo EXCEPT ![w] = {}]
    /\ contended' = contended \ {w}

Deny(w) ==
    /\ Forget(w)
    /\ denied' = denied \cup {w}
    /\ UNCHANGED witnessed

Answer(w) ==
    /\ Forget(w)
    /\ witnessed' = [witnessed EXCEPT ![w] = {}]
    /\ UNCHANGED <<denied, missed>>

(* The handler runs: a create draws a token and writes, a delete looks the *)
(* record up, a login issues a session.                                    *)
Handler(op) ==
    CASE op = "create" -> "create" [] op = "delete" -> "get" [] op = "login" -> "issue"

Creating == {w \in Workers : pc[w] = "create"}

Admit(w) ==
    /\ Goto(w, Handler(req[w].op))
    /\ todo' = [todo EXCEPT ![w] = {}]
    /\ missed' = missed \ {w}
    /\ contended' = IF req[w].op = "create" /\ Creating # {}
                    THEN contended \cup Creating \cup {w}
                    ELSE contended
    /\ UNCHANGED <<req, denied, witnessed>>

(***************************************************************************)
(* The middleware: HasAdmins for a create without a token, Validate for a  *)
(* session, Verify (list, then read one by one) for everything else.       *)
(***************************************************************************)
(* Mutant: the bootstrap is open at any time (middleware.go:127).          *)
Vacant_Always == TRUE
Vacant == NoAdmins

HasAdmins(w) ==
    /\ pc[w] = "hasAdmins"
    /\ \/ Vacant /\ Admit(w)
       \/ ~ Vacant /\ Deny(w) /\ UNCHANGED missed
    /\ UNCHANGED store

(* A session may have ended in the meantime.                               *)
Validate(w) ==
    /\ pc[w] = "session"
    /\ Admit(w) \/ Answer(w)
    /\ UNCHANGED store

List(w) ==
    /\ pc[w] = "list"
    /\ Goto(w, "scan")
    /\ todo' = [todo EXCEPT ![w] = {n \in Names : admins[n] # NoToken}]
    /\ UNCHANGED <<store, req, history>>

IsNext(n, names) == n \in names /\ \A k \in names : n <= k

(* Mutants: any record will do; the loop gives up at the first record that *)
(* does not verify the token (admin.go:79-92).                             *)
Verifies_Any(n, token) == admins[n] # NoToken
Verifies(n, token) == admins[n] = token

Rest_Nothing(names, n) == {}
Rest(names, n) == names \ {n}

ReadAdmin(w) ==
    /\ pc[w] = "scan"
    /\ \E n \in todo[w] :
         /\ IsNext(n, todo[w])
         /\ \/ /\ Verifies(n, req[w].token)
               /\ Admit(w)
            \/ /\ ~ Verifies(n, req[w].token)
               /\ todo' = [todo EXCEPT ![w] = Rest(@, n)]
               /\ UNCHANGED <<pc, req, history>>
    /\ UNCHANGED store

ScanDone(w) ==
    /\ pc[w] = "scan"
    /\ todo[w] = {}
    /\ Deny(w)
    /\ UNCHANGED <<store, missed>>

(***************************************************************************)
(* The handlers.  Create writes the record whether there is one or not;    *)
(* its answer, the only copy of the token, may be lost.                    *)
(***************************************************************************)
Store(w, n, token) ==
    /\ admins' = [admins EXCEPT ![n] = token]
    /\ Forget(w)
    /\ witnessed' = [v \in Workers |->
          IF v = w THEN {}
          ELSE IF pc[v] \in Asking THEN witnessed[v] \cup {Entitled(admins', req[v])}
          ELSE witnessed[v]]
    /\ UNCHANGED <<denied, missed>>

Create(w) ==
    /\ pc[w] = "create"
    /\ drawn < MaxTokens
    /\ drawn' = drawn + 1
    /\ Store(w, req[w].name, drawn + 1)
    /\ known' \in {known, known \cup {drawn + 1}}
    /\ UNCHANGED session

GetForDelete(w) ==
    /\ pc[w] = "get"
    /\ IF admins[req[w].name] # NoToken
       THEN Goto(w, "remove") /\ UNCHANGED <<req, todo, history>>
       ELSE Answer(w)
    /\ UNCHANGED store

Remove(w) ==
    /\ pc[w] = "remove"
    /\ Store(w, req[w].name, NoToken)
    /\ UNCHANGED <<drawn, known, session>>

IssueSession(w) ==
    /\ pc[w] = "issue"
    /\ session' = TRUE
    /\ Answer(w)
    /\ UNCHANGED <<admins, drawn, known>>

(***************************************************************************)
(* Faults.  Where it looks for a token a failed read denies the request,   *)
(* except that the loop goes on without a record it cannot read.           *)
(***************************************************************************)
ReadFails(w) ==
    /\ "read" \in Faults
    /\ \/ /\ pc[w] \in {"hasAdmins", "list"}
          /\ missed' = missed \cup {w}
          /\ Deny(w)
       \/ /\ pc[w] = "scan"
          /\ \E n \in todo[w] :
               /\ IsNext(n, todo[w])
               /\ todo' = [todo EXCEPT ![w] = Rest(@, n)]
               /\ missed' = IF admins[n] = req[w].token THEN missed \cup {w} ELSE missed
          /\ UNCHANGED <<pc, req, denied, witnessed, contended>>
       \/ /\ pc[w] \in {"session", "get"}
          /\ Answer(w)
    /\ UNCHANGED store

WriteFails(w) ==
    /\ "write" \in Faults
    /\ pc[w] \in {"create", "remove", "issue"}
    /\ Answer(w)
    /\ UNCHANGED store

(* The process restarts: the records stay, requests in flight are gone.    *)
Crash ==
    /\ "crash" \in Faults
    /\ \E w \in Workers : pc[w] # "idle"
    /\ pc' = [w \in Workers |-> "idle"]
    /\ req' = [w \in Workers |-> NoRequest]
    /\ todo' = [w \in Workers |-> {}]
    /\ denied' = {}
    /\ witnessed' = [w \in Workers |-> {}]
    /\ missed' = {}
    /\ contended' = {}
    /\ UNCHANGED store

Next ==
    \/ \E w \in Workers :
         \/ \E r \in Requests : Start(w, r)
         \/ HasAdmins(w)
         \/ Validate(w)
         \/ List(w)
         \/ ReadAdmin(w)
         \/ ScanDone(w)
         \/ Create(w)
         \/ GetForDelete(w)
         \/ Remove(w)
         \/ IssueSession(w)
         \/ ReadFails(w)
         \/ WriteFails(w)
    \/ Crash

Spec == Init /\ [][Next]_vars

-----------------------------------------------------------------------------
(* A request is admitted only if it was entitled at one moment since it    *)
(* arrived: with a token that a delete or a create of the same name has    *)
(* taken out of force before, it is not, although the scan reads records   *)
(* at different moments (admin.go:69-92).                                  *)
AdmissionJustified ==
    \A w \in Workers : pc[w] \in Admitted => TRUE \in witnessed[w]

(* A request is denied only if it was not entitled at one moment since it  *)
(* arrived, or the read that would have admitted it failed: creates and    *)
(* deletes of other administrators, and failed reads of their records,     *)
(* never make the scan miss a token that stays in force (admin.go:79-92).  *)
DenialJustified ==
    \A w \in denied : FALSE \in witnessed[w] \/ w \in missed

(* Without a token only the first administrator is created, unless another *)
(* create is under way beside it: at the write there is still no record    *)
(* (middleware.go:122-128, then sys_handlers.go:156).                      *)
BootstrapIsFirst ==
    \A w \in Workers :
        pc[w] = "create" /\ req[w].token = NoToken /\ w \notin contended => NoAdmins
=============================================================================
