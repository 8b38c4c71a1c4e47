------------------------------- MODULE Users -------------------------------
(***************************************************************************)
(* The password accounts of internal/auth/user.go, as the handlers of      *)
(* internal/api/user_handlers.go and handleUserLogin drive them.           *)
(*                                                                         *)
(* An account is one record, `auth/users/<name>`.  Every request reads it  *)
(* and then writes the whole record, deletes it or issues a session: two   *)
(* db calls with no lock over them, and an Argon2id hash or comparison     *)
(* between them.  `Disabled` is never set by the code and is left out.     *)
(***************************************************************************)
CONSTANTS
    Names,      \* user names
    Passwords,  \* passwords; a record holds a hash that only its own verifies
    Policies,   \* policy names
    NoUser,     \* no record under a user's key
    NoRequest,  \* the worker serves no request
    Workers,    \* goroutines serving requests
    Managers,   \* Managers[u]: the workers that create, change or delete u
    Faults      \* "read", "write" (a db call fails), "crash"

ASSUME ManagersAssumption == Managers \in [Names -> SUBSET Workers]
ASSUME FaultsAssumption == Faults \subseteq {"read", "write", "crash"}

Accounts == [password : Passwords, policy : Policies]

ASSUME NoUserAssumption == NoUser \notin Accounts

Changes ==
         [op : {"create"}, user : Names, password : Passwords, policy : Policies]
    \cup [op : {"password"}, user : Names, password : Passwords]
    \cup [op : {"policy"}, user : Names, policy : Policies]
    \cup [op : {"delete"}, user : Names]

Logins == [op : {"login"}, user : Names, password : Passwords]

ASSUME NoRequestAssumption == NoRequest \notin Changes \cup Logins

VARIABLES
    record,   \* record[u]: the stored record
    pc,       \* pc[w]: the db call the worker is about to make
    req,      \* req[w]: the request it serves, or the login it served last
    held,     \* held[w]: the record its goroutine read
    granted,  \* granted[w]: the session its last login was answered with
    (* History, read by properties only. *)
    promised, \* promised[u]: the account as the acknowledged requests left it
    witnessed,\* witnessed[w]: the promised accounts since its login arrived
    misread   \* users a create took for missing because a read failed

vars == <<record, pc, req, held, granted, promised, witnessed, misread>>

TypeOK ==
    /\ record \in [Names -> Accounts \cup {NoUser}]
    /\ pc \in [Workers -> {"idle", "load", "apply", "issue"}]
    /\ req \in [Workers -> Changes \cup Logins \cup {NoRequest}]
    /\ held \in [Workers -> Accounts \cup {NoUser}]
    /\ granted \in [Workers -> Accounts \cup {NoUser}]
    /\ promised \in [Names -> Accounts \cup {NoUser}]
    /\ witnessed \in [Workers -> SUBSET (Accounts \cup {NoUser})]
    /\ misread \subseteq Names
    /\ \A w \in Workers :
         /\ pc[w] \in {"load", "apply", "issue"} => req[w] # NoRequest
         /\ pc[w] = "apply" => req[w] \in Changes
         /\ pc[w] = "issue" => req[w] \in Logins

Init ==
    /\ record = [u \in Names |-> NoUser]
    /\ pc = [w \in Workers |-> "idle"]
    /\ req = [w \in Workers |-> NoRequest]
    /\ held = [w \in Workers |-> NoUser]
    /\ granted = [w \in Workers |-> NoUser]
    /\ promised = [u \in Names |-> NoUser]
    /\ witnessed = [w \in Workers |-> {}]
    /\ misread = {}

User(w) == req[w].user

Start(w, r) ==
    /\ pc[w] = "idle"
    /\ r \in Changes => w \in Managers[r.user]
    /\ pc' = [pc EXCEPT ![w] = "load"]
    /\ req' = [req EXCEPT ![w] = r]
    /\ granted' = [granted EXCEPT ![w] = NoUser]
    /\ witnessed' = [witnessed EXCEPT ![w] =
                        IF r \in Logins THEN {promised[r.user]} ELSE {}]
    /\ UNCHANGED <<record, held, promised, misread>>

(* The request is answered and leaves nothing in the process. *)
Forget(w) ==
    /\ pc' = [pc EXCEPT ![w] = "idle"]
    /\ req' = [req EXCEPT ![w] = NoRequest]
    /\ held' = [held EXCEPT ![w] = NoUser]
    /\ witnessed' = [witnessed EXCEPT ![w] = {}]

(***************************************************************************)
(* The first db call reads the record.  Create goes on when there is none, *)
(* the other changes when there is one, a login when its password matches. *)
(* Create takes every error of the read for "no such user".                *)
(***************************************************************************)
(* Mutants: the existence check of user.go:29, or the comparison of the    *)
(* password (user.go:57), is gone.                                         *)
Proceeds_NoCheck(r, rec) ==
    \/ r.op = "create"
    \/ r.op \in {"password", "policy", "delete"} /\ rec # NoUser
    \/ r.op = "login" /\ rec # NoUser /\ rec.password = r.password
Proceeds_AnyPassword(r, rec) ==
    \/ r.op = "create" /\ rec = NoUser
    \/ r.op # "create" /\ rec # NoUser

Proceeds(r, rec) ==
    \/ r.op = "create" /\ rec = NoUser
    \/ r.op \in {"password", "policy", "delete"} /\ rec # NoUser
    \/ r.op = "login" /\ rec # NoUser /\ rec.password = r.password

Load(w) ==
    /\ pc[w] = "load"
    /\ \/ /\ Proceeds(req[w], record[User(w)])
          /\ pc' = [pc EXCEPT ![w] = IF req[w].op = "login" THEN "issue" ELSE "apply"]
          /\ held' = [held EXCEPT ![w] = record[User(w)]]
          /\ UNCHANGED <<req, witnessed>>
       \/ /\ ~ Proceeds(req[w], record[User(w)])
          /\ Forget(w)
    /\ UNCHANGED <<record, granted, promised, misread>>

(***************************************************************************)
(* The second db call of a change writes the whole record the goroutine    *)
(* makes of the one it read.                                               *)
(***************************************************************************)
(* Mutant: a reset rebuilds the record and loses its policy.               *)
Changed_Rebuilds(r, rec) ==
    CASE r.op = "create"   -> [password |-> r.password, policy |-> r.policy]
      [] r.op = "password" -> [password |-> r.password,
                               policy |-> CHOOSE pol \in Policies : TRUE]
      [] r.op = "policy"   -> [rec EXCEPT !.policy = r.policy]
      [] r.op = "delete"   -> NoUser

Changed(r, rec) ==
    CASE r.op = "create"   -> [password |-> r.password, policy |-> r.policy]
      [] r.op = "password" -> [rec EXCEPT !.password = r.password]
      [] r.op = "policy"   -> [rec EXCEPT !.policy = r.policy]
      [] r.op = "delete"   -> NoUser

(* What an acknowledged change promises, given what was promised before:   *)
(* the field it names and no other, and nothing for an account that is not *)
(* there any more.                                                         *)
Promise(r, account) ==
    CASE r.op = "create"   -> [password |-> r.password, policy |-> r.policy]
      [] r.op = "delete"   -> NoUser
      [] r.op = "password" /\ account # NoUser ->
            [password |-> r.password, policy |-> account.policy]
      [] r.op = "policy" /\ account # NoUser ->
            [password |-> account.password, policy |-> r.policy]
      [] OTHER -> NoUser

Apply(w) ==
    LET u == User(w)
        account == Promise(req[w], promised[u])
    IN  /\ pc[w] = "apply"
        /\ record' = [record EXCEPT ![u] = Changed(req[w], held[w])]
        /\ promised' = [promised EXCEPT ![u] = account]
        /\ pc' = [pc EXCEPT ![w] = "idle"]
        /\ req' = [req EXCEPT ![w] = NoRequest]
        /\ held' = [held EXCEPT ![w] = NoUser]
        /\ witnessed' = [v \in Workers |->
              IF pc[v] \in {"load", "issue"} /\ req[v] \in Logins /\ User(v) = u
              THEN witnessed[v] \cup {account}
              ELSE witnessed[v]]
        /\ UNCHANGED <<granted, misread>>

(* Verify succeeded: the session is issued with the policy that was read.  *)
IssueSession(w) ==
    /\ pc[w] = "issue"
    /\ granted' = [granted EXCEPT ![w] = held[w]]
    /\ pc' = [pc EXCEPT ![w] = "idle"]
    /\ held' = [held EXCEPT ![w] = NoUser]
    /\ UNCHANGED <<record, req, promised, witnessed, misread>>

(***************************************************************************)
(* Faults.  A read that fails sends a create on, as if there were no user; *)
(* every other failed call ends its request with an error.                 *)
(***************************************************************************)
ReadFails(w) ==
    /\ "read" \in Faults
    /\ pc[w] = "load"
    /\ \/ /\ req[w].op = "create"
          /\ pc' = [pc EXCEPT ![w] = "apply"]
          /\ misread' = misread \cup {User(w)}
          /\ UNCHANGED <<req, held, witnessed>>
       \/ /\ req[w].op # "create"
          /\ Forget(w)
          /\ UNCHANGED misread
    /\ UNCHANGED <<record, granted, promised>>

WriteFails(w) ==
    /\ "write" \in Faults
    /\ pc[w] \in {"apply", "issue"}
    /\ Forget(w)
    /\ UNCHANGED <<record, granted, promised, misread>>

(* The process restarts: the records stay, requests in flight are gone.    *)
Crash ==
    /\ "crash" \in Faults
    /\ \E w \in Workers : pc[w] # "idle"
    /\ pc' = [w \in Workers |-> "idle"]
    /\ req' = [w \in Workers |-> NoRequest]
    /\ held' = [w \in Workers |-> NoUser]
    /\ granted' = [w \in Workers |-> NoUser]
    /\ witnessed' = [w \in Workers |-> {}]
    /\ UNCHANGED <<record, promised, misread>>

Next ==
    \/ \E w \in Workers :
         \/ \E r \in Changes \cup Logins : Start(w, r)
         \/ Load(w)
         \/ Apply(w)
         \/ IssueSession(w)
         \/ ReadFails(w)
         \/ WriteFails(w)
    \/ Crash

Spec == Init /\ [][Next]_vars

-----------------------------------------------------------------------------
(* The changes of u are sent one at a time, and no create has mistaken a   *)
(* failed read for a missing user.                                         *)
Orderly(u) ==
    /\ \A v, w \in Managers[u] : v = w
    /\ u \notin misread

(* The stored account is what the acknowledged changes made of it, field   *)
(* by field: a reset keeps the policy, a policy change keeps the password  *)
(* and a delete stays done, across failed writes and crashes, although     *)
(* each change writes a whole record it read earlier (user.go:96-134).     *)
PromiseKept == \A u \in Names : Orderly(u) => record[u] = promised[u]

(* A login is granted only on the password, and with the policy, that the  *)
(* account was promised at one moment since the login arrived: a password  *)
(* reset or a policy change that was acknowledged earlier is in force      *)
(* (Verify then Issue, auth_handlers.go:152-158).                          *)
LoginHonest ==
    \A w \in Workers :
        granted[w] # NoUser /\ Orderly(User(w)) =>
            /\ granted[w] \in witnessed[w]
            /\ granted[w].password = req[w].password

(* A create never replaces an account that exists (user.go:29-31, answered *)
(* with 409): the key is still free when the record is written.            *)
CreateIsFresh ==
    [][\A w \in Workers :
          Apply(w) /\ req[w].op = "create" /\ Orderly(User(w))
              => record[User(w)] = NoUser]_vars

(* "Deleted users cannot log in" (docs/admin-and-audit.md:72), whoever     *)
(* else manages the account: a login that arrives once the account is      *)
(* deleted, and is answered before it is created again, is not granted.    *)
DeletedCannotLogIn ==
    \A w \in Workers : granted[w] # NoUser => witnessed[w] # {NoUser}

(* How far the login of a worker has come, and what it knows.              *)
LoginStage(w) ==
    CASE pc[w] = "load" /\ req[w] \in Logins -> "asked"
      [] pc[w] = "issue" -> "passed"
      [] pc[w] = "idle" /\ granted[w] # NoUser -> "granted"
      [] OTHER -> "idle"

LoginOf(w) ==
    IF LoginStage(w) = "idle" THEN NoRequest
    ELSE [user |-> User(w), password |-> req[w].password]

PassedOn(w) ==
    CASE LoginStage(w) = "passed" -> held[w]
      [] LoginStage(w) = "granted" -> granted[w]
      [] OTHER -> NoUser

Loose == {u \in Names : ~ Orderly(u)}

Abstract == INSTANCE UsersAbstract WITH
    NoLogin <- NoRequest,
    account <- record,
    loose   <- Loose,
    login   <- [w \in Workers |-> LoginOf(w)],
    stage   <- [w \in Workers |-> LoginStage(w)],
    seen    <- [w \in Workers |-> PassedOn(w)]

(* Requests that read a record and write it back later act on an orderly   *)
(* account as if each had done both in one instant, and a login, which     *)
(* reads the account, compares a slow hash and then issues a session, is   *)
(* granted on the account of one instant while it ran (user.go:27-134,     *)
(* auth_handlers.go:152-158).                                              *)
AbstractSpec == Abstract!Spec
=============================================================================
