---------------------------- MODULE ServiceAuth ----------------------------
(***************************************************************************)
(* Authentication of services, by challenge and response or by one-time    *)
(* code: internal/auth/ed25519.go and internal/auth/totp.go as the handlers*)
(* of challenge, verify, TOTP login, enrolment and revocation drive them.  *)
(*                                                                         *)
(* A service's public key and policy are one record in the store, its TOTP *)
(* secret and policy another; pending challenges are a map in the process, *)
(* under a mutex.  A challenge asks the store and then inserts; a verify   *)
(* takes the challenge out of the map, looks at the clock, asks the store  *)
(* and issues a session; a TOTP login asks the store, looks at the clock   *)
(* and issues a session.  Each of these is one step, and enrolments,       *)
(* revocations, other requests, the pruning goroutines and the clock move  *)
(* in between.                                                             *)
(***************************************************************************)
EXTENDS Integers, Sequences, FiniteSets

CONSTANTS
    Services,       \* service names
    TotpServices,   \* those that are ever enrolled for TOTP
    Workers,        \* goroutines serving challenges, verifies and TOTP logins
    NoRequest,      \* the worker serves no request
    MaxKeys,        \* bound on the key pairs and secrets ever enrolled
    MaxChallenges,  \* bound on the challenges ever drawn
    MaxTotpLogins,  \* bound on the TOTP logins in flight (they share nothing)
    Lifetime,       \* challengeTTL, in ticks of the clock
    StepLength,     \* the 30 seconds of a one-time code, in ticks
    MaxTime,        \* bound on the clock
    Counters,       \* the counters that codes are made from
    Faults          \* "read", "write" (a db call fails), "crash"

ASSUME ServicesAssumption == TotpServices \subseteq Services
ASSUME BoundsAssumption ==
    /\ MaxKeys \in Nat
    /\ MaxChallenges \in Nat
    /\ MaxTotpLogins \in Nat
    /\ Lifetime \in Nat
    /\ StepLength \in Nat \ {0}
    /\ MaxTime \in Nat
    /\ Counters \subseteq Nat
ASSUME FaultsAssumption == Faults \subseteq {"read", "write", "crash"}

(* Key pairs, secrets and challenges are random: numbers never drawn before*)
(* (a key pair and a secret never have the same number, either).           *)
Keys == 1..MaxKeys
NoKey == 0
Challenges == 1..MaxChallenges

(* A verify presents a challenge signed with some private key.             *)
ChallengeRequests == [op : {"challenge"}, service : Services]
VerifyRequests == [op : {"verify"}, challenge : Challenges, key : Keys]

(* A one-time code is known by the secret and the counter it is made from: *)
(* codes that agree by chance, one in a million, are left out.             *)
TotpRequests == [op : {"totp"}, service : Services, key : Keys, counter : Counters]

Requests == ChallengeRequests \cup VerifyRequests \cup TotpRequests

ASSUME NoRequestAssumption == NoRequest \notin Requests

VARIABLES
    now,       \* the clock
    service,   \* service[s]: the key of the stored record, or NoKey
    totp,      \* totp[s]: the secret of the stored TOTP record, or NoKey
    enrolled,  \* number of key pairs and secrets generated so far
    info,      \* info[c]: service and expiry of the c-th challenge drawn
    pending,   \* the challenges in the map
    spawned,   \* pruning goroutines that have not read the clock
    stamps,    \* the times read by those that have not taken the mutex
    pc,        \* pc[w]: the step the worker is about to take
    req,       \* req[w]: the request it serves
    (* History, read by properties only. *)
    grants,    \* grants[c]: sessions issued on challenge c
    spent,     \* challenges that a verify took out of the map
    lost,      \* challenges lost in a restart
    mine,      \* mine[w]: the verify took its challenge out of the map itself
    timing,    \* timing[w]: whether its challenge or code was good when it arrived
    held,      \* held[w]: its key was in force at one moment since
    kept,      \* kept[w]: its key was in force all along
    unread     \* unread[w]: the read of its record failed

clock == <<now, service, totp, enrolled>>
memory == <<info, pending>>
pruners == <<spawned, stamps>>
workers == <<pc, req>>
watch == <<mine, timing, held, kept, unread>>
history == <<grants, spent, lost, watch>>
vars == <<clock, memory, pruners, workers, history>>

Drawn == DOMAIN info

VerifySteps == {"take", "clock", "getService"}
TotpSteps == {"getTotp", "codes"}
PCs == {"idle", "insert", "issue", "deny"} \cup VerifySteps \cup TotpSteps

TypeOK ==
    /\ now \in 0..MaxTime
    /\ service \in [Services -> Keys \cup {NoKey}]
    /\ totp \in [Services -> Keys \cup {NoKey}]
    /\ enrolled \in 0..MaxKeys
    /\ info \in Seq([service : Services, expires : Nat])
    /\ Len(info) <= MaxChallenges
    /\ pending \subseteq Drawn \ (spent \cup lost)
    /\ spawned \in Nat
    /\ stamps \subseteq 0..now
    /\ pc \in [Workers -> PCs]
    /\ req \in [Workers -> Requests \cup {NoRequest}]
    /\ grants \in [Challenges -> Nat]
    /\ spent \subseteq Drawn
    /\ lost \subseteq Drawn
    /\ mine \in [Workers -> BOOLEAN]
    /\ timing \in [Workers -> {"early", "good", "late"}]
    /\ held \in [Workers -> BOOLEAN]
    /\ kept \in [Workers -> BOOLEAN]
    /\ unread \in [Workers -> BOOLEAN]
    /\ \A w \in Workers :
         /\ pc[w] = "insert" => req[w] \in ChallengeRequests
         /\ pc[w] \in VerifySteps => req[w] \in VerifyRequests
         /\ pc[w] \in TotpSteps => req[w] \in TotpRequests
         /\ pc[w] \in {"issue", "deny"} => req[w] \in VerifyRequests \cup TotpRequests
         /\ req[w] \in VerifyRequests => req[w].challenge \in Drawn

Init ==
    /\ now = 0
    /\ service = [s \in Services |-> NoKey]
    /\ totp = [s \in Services |-> NoKey]
    /\ enrolled = 0
    /\ info = <<>>
    /\ pending = {}
    /\ spawned = 0
    /\ stamps = {}
    /\ pc = [w \in Workers |-> "idle"]
    /\ req = [w \in Workers |-> NoRequest]
    /\ grants = [c \in Challenges |-> 0]
    /\ spent = {}
    /\ lost = {}
    /\ mine = [w \in Workers |-> FALSE]
    /\ timing = [w \in Workers |-> "good"]
    /\ held = [w \in Workers |-> FALSE]
    /\ kept = [w \in Workers |-> FALSE]
    /\ unread = [w \in Workers |-> FALSE]

Challenge(w) == req[w].challenge
Goto(w, label) == pc' = [pc EXCEPT ![w] = label]

LoggingIn(w) == pc[w] \notin {"idle", "insert"}

(* The service that the worker's login is about.                           *)
ServiceOf(w) ==
    IF req[w] \in VerifyRequests THEN info[Challenge(w)].service ELSE req[w].service

(* A login arrives, good or not at this time, with a key in force or not.  *)
Watch(w, when, good) ==
    /\ mine' = [mine EXCEPT ![w] = FALSE]
    /\ timing' = [timing EXCEPT ![w] = when]
    /\ held' = [held EXCEPT ![w] = good]
    /\ kept' = [kept EXCEPT ![w] = good]
    /\ unread' = [unread EXCEPT ![w] = FALSE]

(* The request is answered.                                                *)
Answer(w) ==
    /\ Goto(w, "idle")
    /\ req' = [req EXCEPT ![w] = NoRequest]
    /\ Watch(w, "good", FALSE)

(***************************************************************************)
(* Enrol and revoke: one write to the store each.  Enrolling again replaces*)
(* the key.  A revocation deletes the public key; it leaves the TOTP record*)
(* of the service, unless the path names it as totp/<service>.             *)
(***************************************************************************)
Hold(op, s, key) ==
    LET concerned == {w \in Workers : LoggingIn(w) /\ req[w].op = op /\ ServiceOf(w) = s}
    IN  /\ held' = [w \in Workers |-> held[w] \/ (w \in concerned /\ req[w].key = key)]
        /\ kept' = [w \in Workers |-> kept[w] /\ (w \in concerned => req[w].key = key)]
        /\ UNCHANGED <<now, memory, pruners, workers, grants, spent, lost, mine, timing, unread>>

Store(s, key) ==
    /\ service' = [service EXCEPT ![s] = key]
    /\ Hold("verify", s, key)
    /\ UNCHANGED totp

StoreTotp(s, key) ==
    /\ totp' = [totp EXCEPT ![s] = key]
    /\ Hold("totp", s, key)
    /\ UNCHANGED service

Enroll(s) ==
    /\ enrolled < MaxKeys
    /\ enrolled' = enrolled + 1
    /\ Store(s, enrolled + 1) \/ (s \in TotpServices /\ StoreTotp(s, enrolled + 1))

Revoke(s) ==
    /\ Store(s, NoKey) \/ StoreTotp(s, NoKey)
    /\ UNCHANGED enrolled

(***************************************************************************)
(* GenerateChallenge: go on if the service's record can be read (if not,   *)
(* nothing changes); draw a challenge, insert it, start a pruning goroutine.*)
(***************************************************************************)
LookUp(w, s) ==
    /\ pc[w] = "idle"
    /\ service[s] # NoKey
    /\ Goto(w, "insert")
    /\ req' = [req EXCEPT ![w] = [op |-> "challenge", service |-> s]]
    /\ UNCHANGED <<clock, memory, pruners, history>>

Insert(w) ==
    /\ pc[w] = "insert"
    /\ Len(info) < MaxChallenges
    /\ info' = Append(info, [service |-> req[w].service, expires |-> now + Lifetime])
    /\ pending' = pending \cup {Len(info) + 1}
    /\ spawned' = spawned + 1
    /\ Goto(w, "idle")
    /\ req' = [req EXCEPT ![w] = NoRequest]
    /\ UNCHANGED <<clock, stamps, history>>

(***************************************************************************)
(* pruneExpired, in a goroutine of its own: read the clock, then, under    *)
(* the mutex, drop every challenge that had expired by that time.          *)
(***************************************************************************)
PruneClock ==
    /\ spawned > 0
    /\ spawned' = spawned - 1
    /\ stamps' = stamps \cup {now}
    /\ UNCHANGED <<clock, memory, workers, history>>

(* Mutant: a lifetime added twice.                                         *)
Expired_Twice(c, t) == t > info[c].expires + Lifetime

Expired(c, t) == t > info[c].expires

Prune(t) ==
    /\ t \in stamps
    /\ stamps' = stamps \ {t}
    /\ pending' = {c \in pending : ~ Expired(c, t)}
    /\ UNCHANGED <<clock, info, spawned, workers, history>>

(***************************************************************************)
(* Verify: take the challenge out of the map (one use), look at the clock, *)
(* read the service's record, check the signature against the key in it.   *)
(***************************************************************************)
StartVerify(w, c, key) ==
    /\ pc[w] = "idle"
    /\ c \in Drawn
    /\ key <= enrolled
    /\ Goto(w, "take")
    /\ req' = [req EXCEPT ![w] = [op |-> "verify", challenge |-> c, key |-> key]]
    /\ Watch(w, IF now > info[c].expires THEN "late" ELSE "good",
                key = service[info[c].service])
    /\ UNCHANGED <<clock, memory, pruners, grants, spent, lost>>

(* Mutant: the challenge stays in the map (ed25519.go:77).                 *)
Taken_Kept(c) == pending

Taken(c) == pending \ {c}

Take(w) ==
    /\ pc[w] = "take"
    /\ \/ /\ Challenge(w) \in pending
          /\ pending' = Taken(Challenge(w))
          /\ spent' = spent \cup {Challenge(w)}
          /\ mine' = [mine EXCEPT ![w] = TRUE]
          /\ Goto(w, "clock")
       \/ /\ Challenge(w) \notin pending
          /\ Goto(w, "deny")
          /\ UNCHANGED <<pending, spent, mine>>
    /\ UNCHANGED <<clock, info, pruners, req, grants, lost, timing, held, kept, unread>>

LookAtClock(w) ==
    /\ pc[w] = "clock"
    /\ \/ ~ Expired(Challenge(w), now) /\ Goto(w, "getService")
       \/ Expired(Challenge(w), now) /\ Goto(w, "deny")
    /\ UNCHANGED <<clock, memory, pruners, req, history>>

(* Mutant: the signature is not checked against the key of the record.     *)
Verifies_AnyKey(key, s) == service[s] # NoKey
Verifies(key, s) == key = service[s]

GetService(w) ==
    /\ pc[w] = "getService"
    /\ \/ Verifies(req[w].key, ServiceOf(w)) /\ Goto(w, "issue")
       \/ ~ Verifies(req[w].key, ServiceOf(w)) /\ Goto(w, "deny")
    /\ UNCHANGED <<clock, memory, pruners, req, history>>

(***************************************************************************)
(* TOTP: read the service's record, look at the clock, and compare the code*)
(* with those of the step it is in, the one before and the one after.  The *)
(* secret that was read is compared at once: with another one no counter   *)
(* gives the code.                                                         *)
(***************************************************************************)
StepAt(t) == t \div StepLength

TotpTiming(counter, t) ==
    CASE counter < StepAt(t) - 1 -> "late"
      [] counter > StepAt(t) + 1 -> "early"
      [] OTHER -> "good"

StartTotp(w, s, key, counter) ==
    /\ pc[w] = "idle"
    /\ Cardinality({x \in Workers : req[x] \in TotpRequests}) < MaxTotpLogins
    /\ key <= enrolled
    /\ Goto(w, "getTotp")
    /\ req' = [req EXCEPT ![w] = [op |-> "totp", service |-> s, key |-> key, counter |-> counter]]
    /\ Watch(w, TotpTiming(counter, now), key = totp[s])
    /\ UNCHANGED <<clock, memory, pruners, grants, spent, lost>>

GetTotp(w) ==
    /\ pc[w] = "getTotp"
    /\ \/ totp[ServiceOf(w)] = req[w].key /\ Goto(w, "codes")
       \/ totp[ServiceOf(w)] # req[w].key /\ Goto(w, "deny")
    /\ UNCHANGED <<clock, memory, pruners, req, history>>

(* Mutant: the window has no step before the present one.                  *)
InWindow_NoPrevious(counter, t) == counter \in StepAt(t)..(StepAt(t) + 1)
InWindow(counter, t) == counter \in (StepAt(t) - 1)..(StepAt(t) + 1)

CompareCodes(w) ==
    /\ pc[w] = "codes"
    /\ \/ InWindow(req[w].counter, now) /\ Goto(w, "issue")
       \/ ~ InWindow(req[w].counter, now) /\ Goto(w, "deny")
    /\ UNCHANGED <<clock, memory, pruners, req, history>>

(* The record cannot be read: Verify returns that error like any other, so *)
(* the login is denied, and its challenge stays used up.                   *)
ReadFails(w) ==
    /\ "read" \in Faults
    /\ pc[w] \in {"getService", "getTotp"}
    /\ Goto(w, "deny")
    /\ unread' = [unread EXCEPT ![w] = TRUE]
    /\ UNCHANGED <<clock, memory, pruners, req, grants, spent, lost, mine, timing, held, kept>>

(***************************************************************************)
(* The login is answered: with a session, which is stored first, or 401.   *)
(***************************************************************************)
Issue(w) ==
    /\ pc[w] = "issue"
    /\ grants' = IF req[w] \in VerifyRequests
                 THEN [grants EXCEPT ![Challenge(w)] = @ + 1]
                 ELSE grants
    /\ Answer(w)
    /\ UNCHANGED <<clock, memory, pruners, spent, lost>>

Deny(w) ==
    /\ pc[w] = "deny"
    /\ Answer(w)
    /\ UNCHANGED <<clock, memory, pruners, grants, spent, lost>>

(* The write of the session fails: the login ends with an error, 500.      *)
IssueFails(w) ==
    /\ "write" \in Faults
    /\ pc[w] = "issue"
    /\ Answer(w)
    /\ UNCHANGED <<clock, memory, pruners, grants, spent, lost>>

(***************************************************************************)
(* The clock, and a restart: the store stays, the map, the goroutines and  *)
(* the requests in flight are gone.                                        *)
(***************************************************************************)
Tick ==
    /\ now < MaxTime
    /\ now' = now + 1
    /\ UNCHANGED <<service, totp, enrolled, memory, pruners, workers, history>>

Crash ==
    /\ "crash" \in Faults
    /\ pending # {} \/ \E w \in Workers : pc[w] # "idle"
    /\ lost' = lost \cup pending
    /\ pending' = {}
    /\ spawned' = 0
    /\ stamps' = {}
    /\ pc' = [w \in Workers |-> "idle"]
    /\ req' = [w \in Workers |-> NoRequest]
    /\ mine' = [w \in Workers |-> FALSE]
    /\ timing' = [w \in Workers |-> "good"]
    /\ held' = [w \in Workers |-> FALSE]
    /\ kept' = [w \in Workers |-> FALSE]
    /\ unread' = [w \in Workers |-> FALSE]
    /\ UNCHANGED <<clock, info, grants, spent>>

Next ==
    \/ \E s \in Services : Enroll(s) \/ Revoke(s)
    \/ \E w \in Workers :
         \/ \E s \in Services : LookUp(w, s)
         \/ \E c \in Challenges, key \in Keys : StartVerify(w, c, key)
         \/ \E s \in Services, key \in Keys, counter \in Counters : StartTotp(w, s, key, counter)
         \/ Insert(w)
         \/ Take(w)
         \/ LookAtClock(w)
         \/ GetService(w)
         \/ GetTotp(w)
         \/ CompareCodes(w)
         \/ Issue(w)
         \/ Deny(w)
         \/ ReadFails(w)
         \/ IssueFails(w)
    \/ PruneClock
    \/ \E t \in stamps : Prune(t)
    \/ Tick
    \/ Crash

Spec == Init /\ [][Next]_vars

-----------------------------------------------------------------------------
(* A challenge is good for one session at most, however many verifies      *)
(* present it at once ("one-time use", ed25519.go:74-79).                  *)
OneUse == \A c \in Challenges : grants[c] <= 1

(* A session is about to be granted only on a challenge that had not       *)
(* expired when the login arrived, or with a code that was not too old then*)
(* and is not too new now; and only with the key, or secret, enrolled for  *)
(* that service at one moment since the login arrived.  So an attempt that *)
(* begins after the record is deleted, or with a key replaced by a new     *)
(* enrolment, is denied (ed25519.go:84-100, totp.go:53-72; "revokes access *)
(* immediately", ed25519.go:129).                                          *)
GrantJustified ==
    \A w \in Workers :
        pc[w] = "issue" =>
            /\ timing[w] # "late"
            /\ held[w]
            /\ req[w] \in TotpRequests => TotpTiming(req[w].counter, now) # "early"

(* A login is about to be denied, with 401 and the entry "denied", only for *)
(* one of these reasons: its key was not the one enrolled all along; the   *)
(* challenge has expired, another verify has used it, or a restart lost it;*)
(* the code was too new when it arrived, or is too old by now; or, and this*)
(* one the client cannot tell from the others, the store could not read the*)
(* record of the service (ed25519.go:93-96, totp.go:53-58,                 *)
(* auth_handlers.go:53-57 and 84-88).  In particular no pruning goroutine, *)
(* however late it runs, drops a challenge that is good.                   *)
DenialJustified ==
    \A w \in Workers :
        pc[w] = "deny" =>
            \/ ~ kept[w]
            \/ unread[w]
            \/ /\ req[w] \in VerifyRequests
               /\ \/ now > info[Challenge(w)].expires
                  \/ Challenge(w) \in spent /\ ~ mine[w]
                  \/ Challenge(w) \in lost
            \/ /\ req[w] \in TotpRequests
               /\ timing[w] = "early" \/ TotpTiming(req[w].counter, now) = "late"

(* Whenever no pruning goroutine is under way, the map holds no challenge  *)
(* that had expired when the latest one was drawn: each challenge drawn    *)
(* clears the older ones that are too old, although its goroutine reads the*)
(* clock late, waits for the mutex while others insert and prune, and may  *)
(* overtake an earlier one.  So what is never answered does not pile up    *)
(* while challenges are asked for (ed25519.go:64-65).                      *)
ExpiredPruned ==
    info # <<>> /\ spawned = 0 /\ stamps = {} =>
        \A c \in pending : info[c].expires >= info[Len(info)].expires - Lifetime
=============================================================================
