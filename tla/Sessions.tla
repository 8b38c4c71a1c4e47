------------------------------ MODULE Sessions ------------------------------
(***************************************************************************)
(* Session tokens: internal/auth/session.go, as the logins issue them, the *)
(* authentication middleware validates them and handleLogout revokes them. *)
(*                                                                         *)
(* A session is one record, `auth/sessions/<hash of the token>`, that      *)
(* holds its expiry; the store drops it too, by a time to live of its own  *)
(* that it keeps in whole seconds.  Issue stamps the expiry, then stores   *)
(* the record; Validate gets the record, then, after an Argon2id           *)
(* comparison, looks at the clock; a logout is validated like any request  *)
(* and then deletes the record.                                            *)
(***************************************************************************)
EXTENDS Integers, Sequences

CONSTANTS
    Workers,    \* goroutines serving logins, requests with a token, logouts
    MaxTokens,  \* bound on the tokens ever issued
    TTL,        \* session.ttl, in ticks of the clock
    Second,     \* a second, in ticks of the clock
    MaxTime,    \* bound on the clock
    Faults      \* "read", "write" (a db call fails), "crash"

ASSUME BoundsAssumption == MaxTokens \in Nat /\ TTL \in Nat /\ MaxTime \in Nat
ASSUME SecondAssumption == Second \in Nat \ {0}
ASSUME FaultsAssumption == Faults \subseteq {"read", "write", "crash"}

Never == 0
NoToken == 0

VARIABLES
    now,       \* the clock
    expiry,    \* expiry[t]: ExpiresAt in the record of the t-th token
    dropped,   \* dropped[t]: when the store drops the record; Never if not stored
    stored,    \* tokens whose record has been written and not deleted
    pc,        \* pc[w]: the step the worker is about to take
    token,     \* token[w]: the token of its login or request, or NoToken
    logout,    \* logout[w]: the request is a logout
    out,       \* out[w]: its last answer
    (* History, read by properties only. *)
    issued,    \* tokens handed to a client
    ended,     \* tokens whose record a logout has deleted
    refused,   \* tokens denied to somebody on what the store answered
    dead,      \* dead[w]: when the request arrived its token was expired, ended
               \*          or refused
    unread     \* unread[w]: it was denied because the store failed to answer

clock == <<now, expiry, dropped>>
vars == <<clock, stored, pc, token, logout, out, issued, ended, refused, dead, unread>>

Drawn == DOMAIN expiry

TypeOK ==
    /\ now \in 0..MaxTime
    /\ expiry \in Seq(Nat)
    /\ Len(expiry) <= MaxTokens
    /\ dropped \in [1..MaxTokens -> Nat]
    /\ stored \subseteq Drawn
    /\ pc \in [Workers -> {"idle", "store", "get", "check", "revoke"}]
    /\ token \in [Workers -> 0..MaxTokens]
    /\ logout \in [Workers -> BOOLEAN]
    /\ out \in [Workers -> {"none", "accepted", "denied", "loggedOut"}]
    /\ issued \subseteq Drawn
    /\ ended \subseteq Drawn \ stored
    /\ refused \subseteq Drawn
    /\ dead \in [Workers -> BOOLEAN]
    /\ unread \in [Workers -> BOOLEAN]
    /\ \A w \in Workers : pc[w] # "idle" \/ out[w] # "none" => token[w] \in Drawn

Init ==
    /\ now = 0
    /\ expiry = <<>>
    /\ dropped = [t \in 1..MaxTokens |-> Never]
    /\ stored = {}
    /\ pc = [w \in Workers |-> "idle"]
    /\ token = [w \in Workers |-> NoToken]
    /\ logout = [w \in Workers |-> FALSE]
    /\ out = [w \in Workers |-> "none"]
    /\ issued = {}
    /\ ended = {}
    /\ refused = {}
    /\ dead = [w \in Workers |-> FALSE]
    /\ unread = [w \in Workers |-> FALSE]

Goto(w, label) == pc' = [pc EXCEPT ![w] = label]

Answer(w, status) ==
    /\ Goto(w, "idle")
    /\ out' = [out EXCEPT ![w] = status]
    /\ refused' = refused \cup {t \in {token[w]} : status = "denied"}
    /\ UNCHANGED <<token, logout, dead, unread>>

Forget(w) ==
    /\ Goto(w, "idle")
    /\ out' = [out EXCEPT ![w] = "none"]
    /\ token' = [token EXCEPT ![w] = NoToken]
    /\ logout' = [logout EXCEPT ![w] = FALSE]
    /\ dead' = [dead EXCEPT ![w] = FALSE]
    /\ unread' = [unread EXCEPT ![w] = FALSE]
    /\ UNCHANGED refused

(***************************************************************************)
(* Issue: draw a token, hash it, stamp its expiry; then write the record   *)
(* with a time to live and hand the token out.                             *)
(***************************************************************************)
Stamp(w) ==
    /\ pc[w] = "idle"
    /\ Len(expiry) < MaxTokens
    /\ expiry' = Append(expiry, now + TTL)
    /\ Goto(w, "store")
    /\ token' = [token EXCEPT ![w] = Len(expiry) + 1]
    /\ logout' = [logout EXCEPT ![w] = FALSE]
    /\ out' = [out EXCEPT ![w] = "none"]
    /\ dead' = [dead EXCEPT ![w] = FALSE]
    /\ unread' = [unread EXCEPT ![w] = FALSE]
    /\ UNCHANGED <<now, dropped, stored, issued, ended, refused>>

(* The time to live is counted from the write, a later moment than the     *)
(* stamp, but the store keeps the whole second in which it ends: the record*)
(* may be gone up to a second before the expiry in it.                     *)
DropTime(t) == ((t + TTL) \div Second) * Second

StoreSession(w) ==
    /\ pc[w] = "store"
    /\ stored' = stored \cup {token[w]}
    /\ dropped' = [dropped EXCEPT ![token[w]] = DropTime(now)]
    /\ issued' = issued \cup {token[w]}
    /\ Forget(w)
    /\ UNCHANGED <<now, expiry, ended>>

(***************************************************************************)
(* A request arrives with a token that was handed out.                     *)
(***************************************************************************)
Arrive(w, t, isLogout) ==
    /\ pc[w] = "idle"
    /\ t \in issued
    /\ Goto(w, "get")
    /\ token' = [token EXCEPT ![w] = t]
    /\ logout' = [logout EXCEPT ![w] = isLogout]
    /\ out' = [out EXCEPT ![w] = "none"]
    /\ dead' = [dead EXCEPT ![w] = now > expiry[t] \/ t \in ended \cup refused]
    /\ unread' = [unread EXCEPT ![w] = FALSE]
    /\ UNCHANGED <<clock, stored, issued, ended, refused>>

(* The store answers for a record until its time to live has passed.       *)
Found(t) == t \in stored /\ now < dropped[t]

GetRecord(w) ==
    /\ pc[w] = "get"
    /\ \/ /\ Found(token[w])
          /\ Goto(w, "check")
          /\ UNCHANGED <<token, logout, out, refused, dead, unread>>
       \/ /\ ~ Found(token[w])
          /\ Answer(w, "denied")
    /\ UNCHANGED <<clock, stored, issued, ended>>

(* Mutants: Validate trusts the store's time to live alone; it takes the   *)
(* session for expired a second early, as with a leeway of the wrong sign. *)
Lapsed_Never(t) == FALSE
Lapsed_Early(t) == now + Second >= expiry[t]

Lapsed(t) == now > expiry[t]

(* An expired session is deleted, whether that succeeds or not.            *)
Check(w) ==
    /\ pc[w] = "check"
    /\ \/ /\ ~ Lapsed(token[w])
          /\ ~ logout[w]
          /\ Answer(w, "accepted")
          /\ UNCHANGED stored
       \/ /\ ~ Lapsed(token[w])
          /\ logout[w]
          /\ Goto(w, "revoke")
          /\ UNCHANGED <<token, logout, out, refused, dead, unread, stored>>
       \/ /\ Lapsed(token[w])
          /\ Answer(w, "denied")
          /\ \/ stored' = stored \ {token[w]}
             \/ "write" \in Faults /\ UNCHANGED stored
    /\ UNCHANGED <<clock, issued, ended>>

(* Mutant: logging out deletes nothing.                                    *)
Deleted_Nothing(t) == {}
Deleted(t) == {t}

(* The logout is answered alike whether the delete succeeds or not.        *)
Revoke(w) ==
    /\ pc[w] = "revoke"
    /\ \/ /\ stored' = stored \ Deleted(token[w])
          /\ ended' = ended \cup {token[w]}
       \/ /\ "write" \in Faults
          /\ UNCHANGED <<stored, ended>>
    /\ Answer(w, "loggedOut")
    /\ UNCHANGED <<clock, issued>>

(* The record cannot be read: Validate returns that error like any other,  *)
(* and the middleware answers it as it does for a token without a session. *)
ReadFails(w) ==
    /\ "read" \in Faults
    /\ pc[w] = "get"
    /\ Goto(w, "idle")
    /\ out' = [out EXCEPT ![w] = "denied"]
    /\ unread' = [unread EXCEPT ![w] = TRUE]
    /\ UNCHANGED <<clock, stored, token, logout, issued, ended, refused, dead>>

(* The record cannot be written: the login fails and hands out no token.   *)
WriteFails(w) ==
    /\ "write" \in Faults
    /\ pc[w] = "store"
    /\ Forget(w)
    /\ UNCHANGED <<clock, stored, issued, ended>>

Tick ==
    /\ now < MaxTime
    /\ now' = now + 1
    /\ UNCHANGED <<expiry, dropped, stored, pc, token, logout, out, issued, ended,
                   refused, dead, unread>>

(* The process restarts: the records stay, requests in flight are gone.    *)
Crash ==
    /\ "crash" \in Faults
    /\ \E w \in Workers : pc[w] # "idle"
    /\ pc' = [w \in Workers |-> "idle"]
    /\ token' = [w \in Workers |-> NoToken]
    /\ logout' = [w \in Workers |-> FALSE]
    /\ out' = [w \in Workers |-> "none"]
    /\ dead' = [w \in Workers |-> FALSE]
    /\ unread' = [w \in Workers |-> FALSE]
    /\ UNCHANGED <<clock, stored, issued, ended, refused>>

Next ==
    \/ \E w \in Workers :
         \/ Stamp(w)
         \/ StoreSession(w)
         \/ \E t \in 1..MaxTokens, isLogout \in BOOLEAN : Arrive(w, t, isLogout)
         \/ GetRecord(w)
         \/ Check(w)
         \/ Revoke(w)
         \/ ReadFails(w)
         \/ WriteFails(w)
    \/ Tick
    \/ Crash

Spec == Init /\ [][Next]_vars

-----------------------------------------------------------------------------
(* A request is served, and a logout done, only for a session that had not *)
(* expired, that no logout had deleted and that nobody had been denied, on *)
(* what the store answered, when the request arrived: the record may stay  *)
(* in the store for longer than the session lasts, because the store counts*)
(* from a later moment, and a clean-up may fail (session.go:49-64, 92-93). *)
(* A token denied because the store could not be read is another matter:   *)
(* the next request with it may be served (session.go:78-83).              *)
AcceptanceJustified ==
    \A w \in Workers : out[w] \in {"accepted", "loggedOut"} => ~ dead[w]

(* A token is denied only in the last second before its expiry or after it,*)
(* or once a logout has deleted its session, or because the store failed to*)
(* read the record, which is answered alike (session.go:78-83,             *)
(* middleware.go:87-91).  Neither a restart nor another request's clean-up *)
(* of an expired record (session.go:93) ends a session that is still good; *)
(* the second is the one the store rounds its time to live down by         *)
(* (session.go:64, badger.go:65-70).                                       *)
DenialJustified ==
    \A w \in Workers :
        out[w] = "denied" =>
            \/ now + Second > expiry[token[w]]
            \/ token[w] \in ended
            \/ unread[w]

(* How far the request of a worker has come, seen from outside: a record   *)
(* that was found is good news for as long as its expiry has not passed.   *)
Progress(w) ==
    CASE pc[w] = "get" -> "waiting"
      [] pc[w] = "check" -> IF now > expiry[token[w]] THEN "bad" ELSE "good"
      [] pc[w] = "revoke" -> "good"
      [] pc[w] = "store" -> "idle"
      [] pc[w] = "idle" /\ unread[w] -> "unread"
      [] OTHER -> IF out[w] = "none" THEN "idle" ELSE out[w]

Shown(w) == IF Progress(w) = "idle" THEN NoToken ELSE token[w]

Good == {t \in issued \cap stored : now < dropped[t] /\ now <= expiry[t]}

Abstract == INSTANCE SessionsAbstract WITH
    Tokens        <- 1..MaxTokens,
    LogoutMayFail <- "write" \in Faults,
    LookMayFail   <- "read" \in Faults,
    granted       <- issued,
    good          <- Good,
    shown         <- [w \in Workers |-> Shown(w)],
    state         <- [w \in Workers |-> Progress(w)]

(* Whatever the order in which requests, logouts, failed calls, restarts   *)
(* and the clock come between the steps of a validation, it answers as if  *)
(* it had looked at the session in one instant, unless the store did not   *)
(* answer at all; then it denies, and that changes nothing for the session.*)
(* What ends a session is time, as the store or the record keeps it,       *)
(* whichever is over first, or a logout of its own (session.go:69-100).    *)
AbstractSpec == Abstract!Spec
=============================================================================
