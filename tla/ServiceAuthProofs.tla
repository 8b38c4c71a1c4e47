------------------------- MODULE ServiceAuthProofs -------------------------
(***************************************************************************)
(* What holds of ServiceAuth for every set of services and workers, every  *)
(* lifetime of a challenge and length of a step, with proofs.              *)
(***************************************************************************)
EXTENDS ServiceAuth, TLAPS

IsVerify(w) == req[w] \in VerifyRequests
IsTotp(w) == req[w] \in TotpRequests

(* The key, or secret, in force for the service of a login.                *)
InForce(w) == IF IsVerify(w) THEN service[info[Challenge(w)].service] ELSE totp[req[w].service]

(* A login has been watched since it arrived.                              *)
Watched(w) ==
    LoggingIn(w) =>
        /\ req[w].key = InForce(w) => held[w]
        /\ kept[w] => req[w].key = InForce(w)

(* The worker has taken its challenge and may still issue a session on it. *)
Holds(w, c) ==
    pc[w] \in {"clock", "getService", "issue"} /\ IsVerify(w) /\ Challenge(w) = c

(* Where a challenge is: in the map, with one holder at most, or gone.     *)
Placed(c) ==
    /\ c \notin Drawn => grants[c] = 0
    /\ c \in Drawn => c \in pending \/ c \in spent \/ c \in lost \/ now > info[c].expires
    /\ c \in pending => grants[c] = 0 /\ \A w \in Workers : ~ Holds(w, c)
    /\ \A w \in Workers : Holds(w, c) => grants[c] = 0
    /\ \A u, w \in Workers : Holds(u, c) /\ Holds(w, c) => u = w
    /\ grants[c] <= 1

(* What a verify knows at its steps.                                       *)
VerifyKnows(w) ==
    IsVerify(w) =>
        /\ timing[w] = "late" => now > info[Challenge(w)].expires
        /\ pc[w] = "take" => ~ mine[w]
        /\ pc[w] \in {"getService", "issue"} => timing[w] # "late"

(* A code that was too old stays so, and one that was not too new, too.    *)
TotpKnows(w) ==
    IsTotp(w) =>
        /\ timing[w] = "late" => req[w].counter < StepAt(now) - 1
        /\ timing[w] # "early" => req[w].counter <= StepAt(now) + 1
        /\ pc[w] = "codes" => held[w]
        /\ pc[w] = "issue" => timing[w] # "late"

(* What GrantJustified and DenialJustified say of one worker.              *)
GrantAt(w) ==
    pc[w] = "issue" =>
        /\ timing[w] # "late"
        /\ held[w]
        /\ IsTotp(w) => TotpTiming(req[w].counter, now) # "early"

DenialAt(w) ==
    pc[w] = "deny" =>
        \/ ~ kept[w]
        \/ unread[w]
        \/ /\ IsVerify(w)
           /\ \/ now > info[Challenge(w)].expires
              \/ Challenge(w) \in spent /\ ~ mine[w]
              \/ Challenge(w) \in lost
        \/ /\ IsTotp(w)
           /\ timing[w] = "early" \/ TotpTiming(req[w].counter, now) = "late"

Safe(w) == Watched(w) /\ VerifyKnows(w) /\ TotpKnows(w) /\ GrantAt(w) /\ DenialAt(w)

IInv ==
    /\ TypeOK
    /\ \A c \in Challenges : Placed(c)
    /\ \A w \in Workers : Safe(w)

-----------------------------------------------------------------------------
(* The counter of the present step never goes back.                        *)
LEMMA StepsGrow ==
    ASSUME NEW t \in Nat
    PROVE  StepAt(t) \in Int /\ StepAt(t) <= StepAt(t + 1)
<1> DEFINE L == StepLength
<1>1. L \in Nat /\ L > 0
  BY BoundsAssumption
<1>2. /\ t \div L \in Int /\ (t + 1) \div L \in Int
      /\ t = L * (t \div L) + (t % L) /\ t % L \in 0..(L - 1)
      /\ t + 1 = L * ((t + 1) \div L) + ((t + 1) % L) /\ (t + 1) % L \in 0..(L - 1)
  BY <1>1
<1> QED
  BY <1>1, <1>2, Z3T(30) DEF StepAt

(* The fields of requests, and which requests are which.                   *)
LEMMA RequestFields ==
    /\ \A r \in ChallengeRequests : r.op = "challenge" /\ r.service \in Services
    /\ \A r \in VerifyRequests : r.op = "verify" /\ r.challenge \in Challenges /\ r.key \in Keys
    /\ \A r \in TotpRequests :
          r.op = "totp" /\ r.service \in Services /\ r.key \in Keys /\ r.counter \in Nat
    /\ NoRequest \notin Requests
BY BoundsAssumption, NoRequestAssumption DEF ChallengeRequests, VerifyRequests, TotpRequests

LEMMA Kinds ==
    ASSUME NEW r \in Requests
    PROVE  /\ r \in VerifyRequests <=> r.op = "verify"
           /\ r \in TotpRequests <=> r.op = "totp"
           /\ r \in ChallengeRequests <=> r.op = "challenge"
BY RequestFields DEF Requests

LEMMA ElementTyped ==
    ASSUME NEW S, NEW q \in Seq(S), NEW i \in 1..Len(q)
    PROVE  q[i] \in S
OBVIOUS

LEMMA Ranges ==
    ASSUME TypeOK
    PROVE  /\ now \in Nat /\ Len(info) \in Nat /\ Drawn = 1..Len(info) /\ Drawn \subseteq Challenges
           /\ \A c \in Drawn : info[c].service \in Services /\ info[c].expires \in Nat
           /\ pending \cap (spent \cup lost) = {}
           /\ NoKey \notin Keys
<1>1. now \in Nat /\ info \in Seq([service : Services, expires : Nat]) /\ Len(info) <= MaxChallenges
  BY BoundsAssumption DEF TypeOK
<1>2. Len(info) \in Nat /\ Drawn = 1..Len(info)
  BY <1>1 DEF Drawn
<1>3. Drawn \subseteq Challenges
  BY <1>1, <1>2, BoundsAssumption DEF Challenges
<1>4. \A c \in Drawn : info[c] \in [service : Services, expires : Nat]
  BY <1>1, <1>2, ElementTyped
<1>5. pending \cap (spent \cup lost) = {}
  BY DEF TypeOK
<1>6. NoKey \notin Keys
  BY BoundsAssumption DEF Keys, NoKey
<1> QED
  BY <1>1, <1>2, <1>3, <1>4, <1>5, <1>6

-----------------------------------------------------------------------------
LEMMA StartsTyped ==
    ASSUME Init
    PROVE  TypeOK
BY BoundsAssumption, RequestFields
   DEF Init, TypeOK, Drawn, PCs, VerifySteps, TotpSteps, Challenges, Requests

LEMMA StepsTyped ==
    ASSUME TypeOK, [Next]_vars
    PROVE  TypeOK'
<1> USE DEF TypeOK, PCs, VerifySteps, TotpSteps, Requests
<1>0. /\ now \in Nat /\ Len(info) \in Nat /\ Drawn = 1..Len(info) /\ Drawn \subseteq Challenges
      /\ NoRequest \notin Requests
  BY Ranges, RequestFields
<1>1. CASE UNCHANGED vars
  BY <1>1 DEF vars, clock, memory, pruners, workers, history, watch, Drawn
<1>2. ASSUME NEW s \in Services, Enroll(s) \/ Revoke(s)
      PROVE  TypeOK'
  <2>1. /\ service' \in [Services -> Keys \cup {NoKey}]
        /\ totp' \in [Services -> Keys \cup {NoKey}]
        /\ enrolled' \in 0..MaxKeys
    <3>1. CASE Revoke(s)
      BY <3>1 DEF Revoke, Store, StoreTotp
    <3>2. CASE Enroll(s)
      <4>1. enrolled + 1 \in Keys /\ enrolled + 1 \in 0..MaxKeys
        BY <3>2, BoundsAssumption DEF Enroll, Keys
      <4> QED
        BY <3>2, <4>1 DEF Enroll, Store, StoreTotp
    <3> QED
      BY <1>2, <3>1, <3>2
  <2>2. PICK op, key : Hold(op, s, key)
    BY <1>2 DEF Enroll, Revoke, Store, StoreTotp
  <2>3. held' \in [Workers -> BOOLEAN] /\ kept' \in [Workers -> BOOLEAN]
    BY <2>2 DEF Hold
  <2> QED
    BY <2>1, <2>2, <2>3 DEF Hold, memory, pruners, workers, Drawn
<1>3. ASSUME NEW w \in Workers, NEW s \in Services, LookUp(w, s)
      PROVE  TypeOK'
  BY <1>3, RequestFields DEF LookUp, Goto, ChallengeRequests, VerifyRequests, clock, memory, pruners,
                             history, watch, Drawn
<1>4. ASSUME NEW w \in Workers, NEW c \in Challenges, NEW key \in Keys, StartVerify(w, c, key)
      PROVE  TypeOK'
  BY <1>4, RequestFields DEF StartVerify, Goto, Watch, ChallengeRequests, VerifyRequests, clock, memory,
                             pruners, Drawn
<1>5. ASSUME NEW w \in Workers, NEW s \in Services, NEW key \in Keys, NEW counter \in Counters,
             StartTotp(w, s, key, counter)
      PROVE  TypeOK'
  BY <1>5, RequestFields DEF StartTotp, Goto, Watch, TotpTiming, TotpRequests, clock, memory, pruners, Drawn
<1>6. ASSUME NEW w \in Workers, Insert(w)
      PROVE  TypeOK'
  <2>1. req[w].service \in Services /\ now + Lifetime \in Nat
    BY <1>0, <1>6, RequestFields, BoundsAssumption DEF Insert
  <2>2. /\ info' \in Seq([service : Services, expires : Nat]) /\ Len(info') = Len(info) + 1
        /\ Len(info') <= MaxChallenges /\ Drawn' = Drawn \cup {Len(info) + 1}
        /\ Len(info) + 1 \notin Drawn
    BY <1>0, <1>6, <2>1, BoundsAssumption, SMTT(20) DEF Insert, Drawn
  <2>3. pending' \subseteq Drawn' \ (spent' \cup lost')
    BY <1>0, <1>6, <2>2, ZenonT(40) DEF Insert, history
  <2>4. req' = [req EXCEPT ![w] = NoRequest] /\ pc' = [pc EXCEPT ![w] = "idle"] /\ spawned' = spawned + 1
        /\ UNCHANGED <<clock, stamps, history>>
    BY <1>6 DEF Insert, Goto
  <2>5. UNCHANGED <<now, service, totp, enrolled, stamps, grants, spent, lost, mine, timing, held, kept,
                    unread>>
    BY <2>4 DEF clock, history, watch
  <2>6. spawned' \in Nat /\ pc' \in [Workers -> PCs] /\ req' \in [Workers -> Requests \cup {NoRequest}]
    BY <2>4
  <2>7. /\ pc'[w] = "idle" /\ req'[w] = NoRequest
        /\ \A u \in Workers \ {w} : pc'[u] = pc[u] /\ req'[u] = req[u]
    BY <2>4
  <2>8. \A u \in Workers :
          /\ pc'[u] = "insert" => req'[u] \in ChallengeRequests
          /\ pc'[u] \in VerifySteps => req'[u] \in VerifyRequests
          /\ pc'[u] \in TotpSteps => req'[u] \in TotpRequests
          /\ pc'[u] \in {"issue", "deny"} => req'[u] \in VerifyRequests \cup TotpRequests
          /\ req'[u] \in VerifyRequests => req'[u].challenge \in Drawn'
    BY <1>0, <2>2, <2>7
  <2>9. spent' \subseteq Drawn' /\ lost' \subseteq Drawn'
    BY <2>2, <2>5
  <2> QED
    BY <2>2, <2>3, <2>5, <2>6, <2>8, <2>9
<1>7. ASSUME NEW w \in Workers, Take(w)
      PROVE  TypeOK'
  <2>1. /\ UNCHANGED <<now, service, totp, enrolled, info, spawned, stamps, req, grants, lost>>
        /\ UNCHANGED <<timing, held, kept, unread>>
        /\ pc[w] = "take" /\ pc' \in {[pc EXCEPT ![w] = "clock"], [pc EXCEPT ![w] = "deny"]}
    BY <1>7 DEF Take, Goto, clock, pruners
  <2>2. /\ pc' \in [Workers -> PCs] /\ pc'[w] \in {"clock", "deny"}
        /\ \A u \in Workers \ {w} : pc'[u] = pc[u]
    BY <2>1
  <2>3. req[w] \in VerifyRequests /\ Challenge(w) \in Drawn
    BY <2>1 DEF Challenge
  <2>4. pending' \subseteq Drawn \ (spent' \cup lost) /\ spent' \subseteq Drawn
    BY <1>7, <2>3 DEF Take, Taken
  <2>5. mine' \in [Workers -> BOOLEAN]
    BY <1>7 DEF Take
  <2>6. \A u \in Workers :
          /\ pc'[u] = "insert" => req[u] \in ChallengeRequests
          /\ pc'[u] \in VerifySteps => req[u] \in VerifyRequests
          /\ pc'[u] \in TotpSteps => req[u] \in TotpRequests
          /\ pc'[u] \in {"issue", "deny"} => req[u] \in VerifyRequests \cup TotpRequests
          /\ req[u] \in VerifyRequests => req[u].challenge \in Drawn
    BY <2>2, <2>3
  <2> QED
    BY <2>1, <2>2, <2>4, <2>5, <2>6 DEF Drawn
<1>8. ASSUME NEW w \in Workers,
             LookAtClock(w) \/ GetService(w) \/ GetTotp(w) \/ CompareCodes(w) \/ ReadFails(w)
      PROVE  TypeOK'
  <2>1. /\ UNCHANGED <<now, service, totp, enrolled, info, pending, spawned, stamps, req, grants, spent, lost>>
        /\ UNCHANGED <<mine, timing, held, kept>>
    BY <1>8 DEF LookAtClock, GetService, GetTotp, CompareCodes, ReadFails, clock, memory, pruners, history, watch
  <2>2. unread' \in [Workers -> BOOLEAN]
    BY <1>8 DEF LookAtClock, GetService, GetTotp, CompareCodes, ReadFails, history, watch
  <2>3. PICK label \in {"getService", "codes", "issue", "deny"} :
          /\ pc' = [pc EXCEPT ![w] = label]
          /\ pc[w] \in VerifySteps \cup TotpSteps
          /\ label = "getService" => pc[w] = "clock"
          /\ label = "codes" => pc[w] = "getTotp"
    BY <1>8 DEF LookAtClock, GetService, GetTotp, CompareCodes, ReadFails, Goto
  <2>4. /\ pc' \in [Workers -> PCs] /\ pc'[w] = label
        /\ \A u \in Workers \ {w} : pc'[u] = pc[u]
    BY <2>3
  <2>5. \A u \in Workers :
          /\ pc'[u] = "insert" => req[u] \in ChallengeRequests
          /\ pc'[u] \in VerifySteps => req[u] \in VerifyRequests
          /\ pc'[u] \in TotpSteps => req[u] \in TotpRequests
          /\ pc'[u] \in {"issue", "deny"} => req[u] \in VerifyRequests \cup TotpRequests
    BY <2>3, <2>4
  <2> QED
    BY <2>1, <2>2, <2>4, <2>5 DEF Drawn
<1>9. ASSUME NEW w \in Workers, Issue(w) \/ Deny(w) \/ IssueFails(w)
      PROVE  TypeOK'
  <2>1. grants' \in [Challenges -> Nat]
    BY <1>9, RequestFields DEF Issue, Deny, IssueFails, Challenge
  <2>2. Answer(w) /\ UNCHANGED <<clock, memory, pruners, spent, lost>>
    BY <1>9 DEF Issue, Deny, IssueFails
  <2> QED
    BY <1>0, <2>1, <2>2, RequestFields DEF Answer, Goto, Watch, clock, memory, pruners, Drawn
<1>10. CASE PruneClock
  BY <1>0, <1>10 DEF PruneClock, clock, memory, workers, history, watch, Drawn
<1>11. ASSUME NEW t \in stamps, Prune(t)
       PROVE  TypeOK'
  BY <1>11 DEF Prune, clock, workers, history, watch, Drawn
<1>12. CASE Tick
  <2>1. now' \in 0..MaxTime /\ 0..now \subseteq 0..now'
    BY <1>0, <1>12, BoundsAssumption DEF Tick
  <2> QED
    BY <1>12, <2>1 DEF Tick, memory, pruners, workers, history, watch, Drawn
<1>13. CASE Crash
  BY <1>0, <1>13, RequestFields DEF Crash, clock, Drawn
<1> QED
  BY <1>1, <1>2, <1>3, <1>4, <1>5, <1>6, <1>7, <1>8, <1>9, <1>10, <1>11, <1>12, <1>13 DEF Next

(* Every variable keeps its type; a pending challenge has been drawn and   *)
(* neither used nor lost, and each step serves a request of its kind       *)
(* (ed25519.go:16-42, auth_handlers.go:10-103).                            *)
THEOREM TypeCorrect == Spec => []TypeOK
<1>1. Init => TypeOK
  BY StartsTyped
<1>2. TypeOK /\ [Next]_vars => TypeOK'
  BY StepsTyped
<1> QED
  BY <1>1, <1>2, PTL DEF Spec

-----------------------------------------------------------------------------
(* The windows in terms of the present step.                               *)
LEMMA Timings ==
    ASSUME NEW n \in Nat, NEW t \in Nat
    PROVE  /\ TotpTiming(n, t) \in {"early", "good", "late"}
           /\ TotpTiming(n, t) = "late" <=> n < StepAt(t) - 1
           /\ TotpTiming(n, t) = "early" <=> n > StepAt(t) + 1
           /\ InWindow(n, t) <=> n >= StepAt(t) - 1 /\ n <= StepAt(t) + 1
<1>1. StepAt(t) \in Int
  BY StepsGrow
<1> QED
  BY <1>1 DEF TotpTiming, InWindow

(* Challenges are drawn and never change.                                  *)
Grown == info' = info \/ \E x : info' = Append(info, x)

LEMMA DrawnStay ==
    ASSUME TypeOK, Grown, NEW c \in Drawn
    PROVE  c \in Drawn' /\ info'[c] = info[c]
<1>1. info \in Seq([service : Services, expires : Nat]) /\ c \in 1..Len(info) /\ Len(info) \in Nat
  BY Ranges DEF TypeOK
<1> QED
  BY <1>1 DEF Grown, Drawn

(* A login that no step is about stays sound, whatever the clock does.     *)
LEMMA SafeStays ==
    ASSUME TypeOK, NEW w \in Workers, Safe(w), Grown, now' = now \/ now' = now + 1,
           UNCHANGED <<service, totp>>,
           pc'[w] = pc[w], req'[w] = req[w], mine'[w] = mine[w], timing'[w] = timing[w],
           held'[w] = held[w], kept'[w] = kept[w], unread'[w] = unread[w],
           spent \subseteq spent', lost \subseteq lost'
    PROVE  Safe(w)'
<1>1. now \in Nat /\ StepAt(now) \in Int /\ StepAt(now)' \in Int /\ StepAt(now) <= StepAt(now)'
  <2>0. now \in Nat /\ now + 1 \in Nat
    BY Ranges
  <2>1. StepAt(now) \in Int /\ StepAt(now + 1) \in Int /\ StepAt(now) <= StepAt(now + 1)
    BY <2>0, StepsGrow
  <2>2. StepAt(now)' = StepAt(now) \/ StepAt(now)' = StepAt(now + 1)
    BY DEF StepAt
  <2> QED
    BY <2>0, <2>1, <2>2
<1>2. /\ IsVerify(w) => /\ Challenge(w) \in Drawn /\ Challenge(w)' = Challenge(w)
                        /\ info'[Challenge(w)] = info[Challenge(w)]
                        /\ info[Challenge(w)].expires \in Nat
      /\ IsVerify(w)' = IsVerify(w) /\ IsTotp(w)' = IsTotp(w)
  BY DrawnStay, Ranges DEF TypeOK, IsVerify, IsTotp, Challenge
<1>3. IsTotp(w) => req[w].counter \in Nat
  BY RequestFields DEF IsTotp
<1>4. Watched(w)'
  BY <1>2 DEF Safe, Watched, LoggingIn, InForce, Challenge
<1>5. VerifyKnows(w)'
  BY <1>1, <1>2 DEF Safe, VerifyKnows
<1>6. TotpKnows(w)'
  <2>1. SUFFICES ASSUME IsTotp(w)
                 PROVE  TotpKnows(w)'
    BY <1>2 DEF TotpKnows
  <2>2. req[w].counter \in Nat /\ req'[w].counter = req[w].counter
    BY <1>3, <2>1
  <2>3. /\ timing'[w] = "late" => req'[w].counter < StepAt(now)' - 1
        /\ timing'[w] # "early" => req'[w].counter <= StepAt(now)' + 1
    BY <1>1, <2>1, <2>2 DEF Safe, TotpKnows
  <2> QED
    BY <1>2, <2>1, <2>3 DEF Safe, TotpKnows, StepAt
<1>7. GrantAt(w)'
  <2>1. ASSUME IsTotp(w), TotpTiming(req[w].counter, now) # "early"
        PROVE  TotpTiming(req[w].counter, now)' # "early"
    BY <1>1, <1>3, <2>1 DEF TotpTiming, StepAt
  <2> QED
    BY <1>2, <2>1 DEF Safe, GrantAt
<1>8. DenialAt(w)'
  <2>1. ASSUME IsTotp(w), TotpTiming(req[w].counter, now) = "late"
        PROVE  TotpTiming(req[w].counter, now)' = "late"
    BY <1>1, <1>3, <2>1 DEF TotpTiming, StepAt
  <2> QED
    BY <1>1, <1>2, <2>1 DEF Safe, DenialAt
<1> QED
  BY <1>4, <1>5, <1>6, <1>7, <1>8 DEF Safe

(* A worker that serves no login is sound.                                 *)
LEMMA SafeIdle ==
    ASSUME NEW w \in Workers, pc[w] \in {"idle", "insert"}, req[w] \in ChallengeRequests \cup {NoRequest}
    PROVE  Safe(w)
BY RequestFields, NoRequestAssumption
   DEF Safe, Watched, LoggingIn, VerifyKnows, TotpKnows, GrantAt, DenialAt, IsVerify, IsTotp, Requests

(* A challenge stays where it is, or goes, when nobody takes it.           *)
LEMMA PlacedStays ==
    ASSUME TypeOK, NEW c \in Challenges, Placed(c), Grown,
           c \in Drawn' => c \in Drawn,
           \A w \in Workers : Holds(w, c)' => Holds(w, c),
           grants'[c] = grants[c], now' = now \/ now' = now + 1,
           c \in pending' => c \in pending,
           spent \subseteq spent', lost \subseteq lost',
           c \in pending => \/ c \in pending' \/ c \in spent' \/ c \in lost' \/ now > info[c].expires
    PROVE  Placed(c)'
<1>1. c \in Drawn => c \in Drawn' /\ info'[c] = info[c] /\ info[c].expires \in Nat /\ now \in Nat
  BY DrawnStay, Ranges
<1> QED
  BY <1>1 DEF Placed

-----------------------------------------------------------------------------
LEMMA IInvStarts ==
    ASSUME Init
    PROVE  IInv
<1>1. \A w \in Workers : Safe(w)
  BY SafeIdle DEF Init
<1>2. \A c \in Challenges : Placed(c)
  BY DEF Init, Placed, Drawn, Holds
<1> QED
  BY <1>1, <1>2, StartsTyped DEF IInv

(* An enrolment or a revocation changes the key in force and marks those   *)
(* whose login is about that service.                                      *)
LEMMA EnrolledSafe ==
    ASSUME IInv, NEW s \in Services, NEW w \in Workers, Enroll(s) \/ Revoke(s)
    PROVE  Safe(w)'
<1> USE DEF IInv
<1>1. PICK op \in {"verify", "totp"}, key \in Nat :
         /\ Hold(op, s, key)
         /\ service' = IF op = "verify" THEN [service EXCEPT ![s] = key] ELSE service
         /\ totp' = IF op = "totp" THEN [totp EXCEPT ![s] = key] ELSE totp
  BY BoundsAssumption DEF Enroll, Revoke, Store, StoreTotp, TypeOK, NoKey
<1>2. UNCHANGED <<now, info, pc, req, spent, lost, mine, timing, unread>>
  BY <1>1 DEF Hold, memory, workers
<1>3. /\ held'[w] = (held[w] \/ (LoggingIn(w) /\ req[w].op = op /\ ServiceOf(w) = s /\ req[w].key = key))
      /\ kept'[w] = (kept[w] /\ (LoggingIn(w) /\ req[w].op = op /\ ServiceOf(w) = s => req[w].key = key))
  BY <1>1 DEF Hold, TypeOK
<1>4. VerifyKnows(w)' /\ TotpKnows(w)' /\ GrantAt(w)' /\ DenialAt(w)'
  BY <1>2, <1>3 DEF Safe, VerifyKnows, TotpKnows, GrantAt, DenialAt, IsVerify, IsTotp, Challenge,
                    TotpTiming, StepAt
<1>5. LoggingIn(w) => \/ IsVerify(w) /\ req[w].op = "verify" /\ info[Challenge(w)].service \in Services
                      \/ IsTotp(w) /\ req[w].op = "totp" /\ req[w].service \in Services /\ ~ IsVerify(w)
  BY Ranges, RequestFields DEF TypeOK, LoggingIn, IsVerify, IsTotp, PCs, VerifySteps, TotpSteps, Challenge
<1>6. Watched(w)'
  <2>1. CASE ~ LoggingIn(w)
    BY <1>2, <2>1 DEF Watched, LoggingIn
  <2>2. CASE LoggingIn(w) /\ IsVerify(w)
    BY <1>1, <1>2, <1>3, <1>5, <2>2, RequestFields, ZenonT(40)
       DEF Safe, Watched, LoggingIn, IsVerify, InForce, ServiceOf, Challenge, TypeOK
  <2>3. CASE LoggingIn(w) /\ IsTotp(w)
    BY <1>1, <1>2, <1>3, <1>5, <2>3, RequestFields, ZenonT(40)
       DEF Safe, Watched, LoggingIn, IsVerify, IsTotp, InForce, ServiceOf, Challenge, TypeOK
  <2> QED
    BY <1>5, <2>1, <2>2, <2>3
<1> QED
  BY <1>4, <1>6 DEF Safe

(* A login that arrives is watched from now on.                            *)
LEMMA ArrivedSafe ==
    ASSUME IInv, NEW w \in Workers, NEW c \in Challenges, NEW key \in Keys, StartVerify(w, c, key)
    PROVE  Safe(w)'
<1>1. /\ req'[w] = [op |-> "verify", challenge |-> c, key |-> key] /\ pc'[w] = "take" /\ ~ mine'[w]
      /\ timing'[w] = IF now > info[c].expires THEN "late" ELSE "good"
      /\ held'[w] = (key = service[info[c].service]) /\ kept'[w] = (key = service[info[c].service])
      /\ UNCHANGED <<now, info, service, totp, spent, lost>>
  BY DEF IInv, StartVerify, Watch, Goto, TypeOK, clock, memory
<1>2. req'[w] \in VerifyRequests /\ req'[w] \notin TotpRequests
  BY <1>1, RequestFields DEF VerifyRequests
<1>3. /\ req'[w].key = key /\ Challenge(w)' = c /\ InForce(w)' = service[info[c].service]
      /\ IsVerify(w)' /\ ~ IsTotp(w)'
  BY <1>1, <1>2 DEF InForce, IsVerify, IsTotp, Challenge
<1>4. Watched(w)'
  BY <1>1, <1>3 DEF Watched
<1>5. VerifyKnows(w)'
  BY <1>1, <1>3 DEF VerifyKnows
<1>6. TotpKnows(w)' /\ GrantAt(w)' /\ DenialAt(w)'
  BY <1>1, <1>3 DEF TotpKnows, GrantAt, DenialAt
<1> QED
  BY <1>4, <1>5, <1>6 DEF Safe

LEMMA ArrivedTotpSafe ==
    ASSUME IInv, NEW w \in Workers, NEW s \in Services, NEW key \in Keys, NEW counter \in Counters,
           StartTotp(w, s, key, counter)
    PROVE  Safe(w)'
<1>1. /\ req'[w] = [op |-> "totp", service |-> s, key |-> key, counter |-> counter] /\ pc'[w] = "getTotp"
      /\ timing'[w] = TotpTiming(counter, now)
      /\ held'[w] = (key = totp[s]) /\ kept'[w] = (key = totp[s])
      /\ UNCHANGED <<now, info, service, totp, spent, lost>>
  BY DEF IInv, StartTotp, Watch, Goto, TypeOK, clock, memory
<1>2. req'[w] \in TotpRequests /\ req'[w] \notin VerifyRequests
  BY <1>1, RequestFields DEF TotpRequests
<1>3. counter \in Nat /\ now \in Nat /\ StepAt(now) \in Int
  BY BoundsAssumption, Ranges, StepsGrow DEF IInv
<1>4. TotpTiming(counter, now) = "late" => counter < StepAt(now) - 1
  BY <1>3, Timings
<1>5. TotpTiming(counter, now) # "early" => counter <= StepAt(now) + 1
  BY <1>3, Timings
<1>6. StepAt(now)' = StepAt(now)
  BY <1>1 DEF StepAt
<1>7. /\ req'[w].key = key /\ req'[w].counter = counter /\ InForce(w)' = totp[s]
      /\ IsTotp(w)' /\ ~ IsVerify(w)'
  BY <1>1, <1>2 DEF InForce, IsVerify, IsTotp
<1>8. Watched(w)'
  BY <1>1, <1>7 DEF Watched
<1>9. TotpKnows(w)'
  BY <1>1, <1>4, <1>5, <1>6, <1>7 DEF TotpKnows
<1>10. VerifyKnows(w)' /\ GrantAt(w)' /\ DenialAt(w)'
  BY <1>1, <1>7 DEF VerifyKnows, GrantAt, DenialAt
<1> QED
  BY <1>8, <1>9, <1>10 DEF Safe

(* The steps of a verify.                                                  *)
LEMMA TakeSafe ==
    ASSUME IInv, NEW w \in Workers, Take(w)
    PROVE  Safe(w)'
<1>1. IsVerify(w) /\ ~ IsTotp(w) /\ Challenge(w) \in Drawn /\ Placed(Challenge(w)) /\ ~ mine[w]
      /\ pc[w] = "take" /\ LoggingIn(w) /\ Safe(w)
  BY Ranges, RequestFields DEF IInv, Take, TypeOK, IsVerify, IsTotp, VerifySteps, Safe, VerifyKnows,
                               LoggingIn, Challenge
<1>2. UNCHANGED <<now, info, service, totp, req, timing, held, kept, lost>>
  BY DEF Take, clock
<1>3. CASE Challenge(w) \in pending
  <2>1. pc'[w] = "clock"
    BY <1>3 DEF Take, Goto, IInv, TypeOK
  <2> QED
    BY <1>1, <1>2, <2>1 DEF Safe, Watched, VerifyKnows, TotpKnows, GrantAt, DenialAt, IsVerify, IsTotp,
                            InForce, Challenge, LoggingIn
<1>4. CASE Challenge(w) \notin pending
  <2>1. pc'[w] = "deny" /\ spent' = spent /\ mine' = mine
    BY <1>4 DEF Take, Goto, IInv, TypeOK
  <2>2. Challenge(w) \in spent \/ Challenge(w) \in lost \/ now > info[Challenge(w)].expires
    BY <1>1, <1>4 DEF Placed
  <2> QED
    BY <1>1, <1>2, <2>1, <2>2 DEF Safe, Watched, VerifyKnows, TotpKnows, GrantAt, DenialAt, IsVerify, IsTotp,
                            InForce, Challenge, LoggingIn
<1> QED
  BY <1>3, <1>4

LEMMA VerifyStepsSafe ==
    ASSUME IInv, NEW w \in Workers, LookAtClock(w) \/ GetService(w)
    PROVE  Safe(w)'
<1>1. IsVerify(w) /\ ~ IsTotp(w) /\ LoggingIn(w) /\ Safe(w) /\ pc[w] \in {"clock", "getService"}
  BY RequestFields DEF IInv, LookAtClock, GetService, TypeOK, IsVerify, IsTotp, VerifySteps, LoggingIn
<1>2. UNCHANGED <<now, info, service, totp, req, mine, timing, held, kept, spent, lost>>
  BY DEF LookAtClock, GetService, clock, memory, history, watch
<1>3. CASE LookAtClock(w)
  <2>1. pc[w] = "clock" /\ pc'[w] = IF now > info[Challenge(w)].expires THEN "deny" ELSE "getService"
    BY <1>3 DEF LookAtClock, Expired, Goto, IInv, TypeOK
  <2>2. Watched(w)' /\ VerifyKnows(w)'
    BY <1>1, <1>2, <2>1 DEF Safe, Watched, VerifyKnows, IsVerify, InForce, Challenge, LoggingIn
  <2>3. TotpKnows(w)'
    BY <1>1, <1>2 DEF TotpKnows, IsTotp
  <2>4. GrantAt(w)' /\ DenialAt(w)'
    BY <1>1, <1>2, <2>1 DEF GrantAt, DenialAt, IsVerify, Challenge
  <2> QED
    BY <2>2, <2>3, <2>4 DEF Safe
<1>4. CASE GetService(w)
  <2>1. pc[w] = "getService" /\ pc'[w] = IF req[w].key = InForce(w) THEN "issue" ELSE "deny"
    BY <1>1, <1>4 DEF GetService, Verifies, ServiceOf, InForce, IsVerify, Goto, IInv, TypeOK
  <2> QED
    BY <1>1, <1>2, <2>1 DEF Safe, Watched, VerifyKnows, TotpKnows, GrantAt, DenialAt, IsVerify, IsTotp,
                            InForce, Challenge, LoggingIn
<1> QED
  BY <1>3, <1>4

(* The steps of a TOTP login.                                              *)
LEMMA TotpStepsSafe ==
    ASSUME IInv, NEW w \in Workers, GetTotp(w) \/ CompareCodes(w)
    PROVE  Safe(w)'
<1>1. IsTotp(w) /\ ~ IsVerify(w) /\ LoggingIn(w) /\ Safe(w) /\ pc[w] \in {"getTotp", "codes"}
  BY RequestFields DEF IInv, GetTotp, CompareCodes, TypeOK, IsVerify, IsTotp, TotpSteps, LoggingIn
<1>2. UNCHANGED <<now, info, service, totp, req, mine, timing, held, kept, spent, lost>>
  BY DEF GetTotp, CompareCodes, clock, memory, history, watch
<1>3. req[w].counter \in Nat /\ now \in Nat /\ StepAt(now) \in Int /\ StepAt(now)' = StepAt(now)
  BY <1>1, <1>2, RequestFields, Ranges, StepsGrow DEF IInv, IsTotp, StepAt
<1>4. TotpTiming(req[w].counter, now)' = TotpTiming(req[w].counter, now)
  BY <1>2 DEF TotpTiming, StepAt
<1>5. CASE GetTotp(w)
  <2>1. pc[w] = "getTotp" /\ pc'[w] = IF req[w].key = InForce(w) THEN "codes" ELSE "deny"
    BY <1>1, <1>5 DEF GetTotp, ServiceOf, InForce, IsVerify, Goto, IInv, TypeOK
  <2>2. Watched(w)' /\ VerifyKnows(w)'
    BY <1>1, <1>2, <2>1 DEF Safe, Watched, VerifyKnows, IsVerify, InForce, Challenge, LoggingIn
  <2>3. IF req[w].key = InForce(w) THEN held[w] ELSE ~ kept[w]
    BY <1>1 DEF Safe, Watched
  <2>4. TotpKnows(w)'
    BY <1>1, <1>2, <1>3, <2>1, <2>3 DEF Safe, TotpKnows, IsTotp
  <2>5. GrantAt(w)' /\ DenialAt(w)'
    BY <1>2, <2>1, <2>3 DEF GrantAt, DenialAt
  <2> QED
    BY <2>2, <2>4, <2>5 DEF Safe
<1>6. CASE CompareCodes(w)
  <2>1. pc[w] = "codes" /\ pc'[w] = IF InWindow(req[w].counter, now) THEN "issue" ELSE "deny"
    BY <1>6 DEF CompareCodes, Goto, IInv, TypeOK
  <2>2. Watched(w)' /\ VerifyKnows(w)'
    BY <1>1, <1>2, <2>1 DEF Safe, Watched, VerifyKnows, IsVerify, InForce, Challenge, LoggingIn
  <2>3. CASE InWindow(req[w].counter, now)
    <3>1. timing[w] # "late" /\ TotpTiming(req[w].counter, now) # "early" /\ held[w]
      BY <1>1, <1>3, <2>1, <2>3, Timings DEF Safe, TotpKnows
    <3>2. TotpKnows(w)'
      BY <1>1, <1>2, <1>3, <2>1, <2>3, <3>1 DEF Safe, TotpKnows, IsTotp
    <3>3. GrantAt(w)' /\ DenialAt(w)'
      BY <1>1, <1>2, <1>4, <2>1, <2>3, <3>1 DEF GrantAt, DenialAt, IsTotp
    <3> QED
      BY <2>2, <3>2, <3>3 DEF Safe
  <2>4. CASE ~ InWindow(req[w].counter, now)
    <3>1. timing[w] = "early" \/ TotpTiming(req[w].counter, now) = "late"
      BY <1>1, <1>3, <2>4, Timings DEF Safe, TotpKnows
    <3>2. TotpKnows(w)'
      BY <1>1, <1>2, <1>3, <2>1, <2>4 DEF Safe, TotpKnows, IsTotp
    <3>3. GrantAt(w)' /\ DenialAt(w)'
      BY <1>1, <1>2, <1>4, <2>1, <2>4, <3>1 DEF GrantAt, DenialAt, IsTotp
    <3> QED
      BY <2>2, <3>2, <3>3 DEF Safe
  <2> QED
    BY <2>3, <2>4
<1> QED
  BY <1>5, <1>6

(* A login whose record cannot be read is denied for that.                 *)
LEMMA ReadFailsSafe ==
    ASSUME IInv, NEW w \in Workers, ReadFails(w)
    PROVE  Safe(w)'
<1>1. /\ pc[w] \in {"getService", "getTotp"} /\ pc'[w] = "deny" /\ unread'[w]
      /\ UNCHANGED <<now, info, service, totp, req, mine, timing, held, kept, spent, lost>>
  BY DEF IInv, TypeOK, ReadFails, Goto, clock, memory
<1>2. Watched(w)' /\ VerifyKnows(w)' /\ TotpKnows(w)'
  BY <1>1 DEF IInv, Safe, Watched, LoggingIn, InForce, VerifyKnows, TotpKnows, IsVerify, IsTotp, Challenge,
              StepAt
<1>3. GrantAt(w)' /\ DenialAt(w)'
  BY <1>1 DEF GrantAt, DenialAt
<1> QED
  BY <1>2, <1>3 DEF Safe

(* The answer ends the login.                                              *)
LEMMA AnsweredSafe ==
    ASSUME IInv, NEW w \in Workers, Answer(w)
    PROVE  Safe(w)'
<1>1. pc'[w] = "idle" /\ req'[w] = NoRequest
  BY DEF IInv, TypeOK, Answer, Goto
<1> QED
  BY <1>1, RequestFields, NoRequestAssumption
     DEF Safe, Watched, LoggingIn, VerifyKnows, TotpKnows, GrantAt, DenialAt, IsVerify, IsTotp, Requests

(* A step of one worker leaves the logins of the others as they are.       *)
Alone(w) ==
    \A u \in Workers \ {w} :
        /\ pc'[u] = pc[u] /\ req'[u] = req[u] /\ mine'[u] = mine[u]
        /\ timing'[u] = timing[u] /\ held'[u] = held[u] /\ kept'[u] = kept[u]
        /\ unread'[u] = unread[u]

LEMMA StepAlone ==
    ASSUME TypeOK, NEW w \in Workers,
           \/ \E s \in Services : LookUp(w, s)
           \/ \E c \in Challenges, key \in Keys : StartVerify(w, c, key)
           \/ \E s \in Services, key \in Keys, counter \in Counters : StartTotp(w, s, key, counter)
           \/ Insert(w) \/ Take(w) \/ LookAtClock(w) \/ GetService(w) \/ GetTotp(w) \/ CompareCodes(w)
           \/ ReadFails(w) \/ Issue(w) \/ Deny(w) \/ IssueFails(w)
    PROVE  /\ Alone(w) /\ Grown /\ UNCHANGED <<now, service, totp>>
           /\ spent \subseteq spent' /\ lost \subseteq lost'
<1> USE DEF TypeOK, Alone, Grown, clock, memory, history, watch
<1>1. CASE \E s \in Services : LookUp(w, s)
  BY <1>1 DEF LookUp, Goto
<1>2. CASE \E c \in Challenges, key \in Keys : StartVerify(w, c, key)
  BY <1>2 DEF StartVerify, Watch, Goto
<1>3. CASE \E s \in Services, key \in Keys, counter \in Counters : StartTotp(w, s, key, counter)
  BY <1>3 DEF StartTotp, Watch, Goto
<1>4. CASE Insert(w)
  BY <1>4 DEF Insert, Goto
<1>5. CASE Take(w)
  BY <1>5 DEF Take, Goto
<1>6. CASE LookAtClock(w) \/ GetService(w) \/ GetTotp(w) \/ CompareCodes(w) \/ ReadFails(w)
  BY <1>6 DEF LookAtClock, GetService, GetTotp, CompareCodes, ReadFails, Goto
<1>7. CASE Issue(w) \/ Deny(w) \/ IssueFails(w)
  BY <1>7 DEF Issue, Deny, IssueFails, Answer, Watch, Goto
<1> QED
  BY <1>1, <1>2, <1>3, <1>4, <1>5, <1>6, <1>7

LEMMA AllSafe ==
    ASSUME IInv, [Next]_vars
    PROVE  \A w \in Workers : Safe(w)'
<1> USE DEF IInv
<1>1. ASSUME NEW w \in Workers,
             \/ \E s \in Services : LookUp(w, s)
             \/ \E c \in Challenges, key \in Keys : StartVerify(w, c, key)
             \/ \E s \in Services, key \in Keys, counter \in Counters : StartTotp(w, s, key, counter)
             \/ Insert(w) \/ Take(w) \/ LookAtClock(w) \/ GetService(w) \/ GetTotp(w) \/ CompareCodes(w)
             \/ ReadFails(w) \/ Issue(w) \/ Deny(w) \/ IssueFails(w),
             NEW u \in Workers
      PROVE  Safe(u)'
  <2>1. CASE u # w
    BY <1>1, <2>1, StepAlone, SafeStays DEF Alone
  <2>2. ASSUME NEW s \in Services, LookUp(w, s)
        PROVE  Safe(w)'
    <3>1. pc'[w] = "insert" /\ req'[w] = [op |-> "challenge", service |-> s]
      BY <2>2 DEF LookUp, Goto, TypeOK
    <3>2. req'[w] \notin VerifyRequests /\ req'[w] \notin TotpRequests
      BY <3>1, RequestFields
    <3> QED
      BY <3>1, <3>2 DEF Safe, Watched, LoggingIn, VerifyKnows, TotpKnows, GrantAt, DenialAt, IsVerify, IsTotp
  <2>3. CASE Insert(w)
    <3>1. pc'[w] = "idle" /\ req'[w] = NoRequest
      BY <2>3 DEF Insert, Goto, TypeOK
    <3> QED
      BY <2>1, <3>1, RequestFields
         DEF Safe, Watched, LoggingIn, VerifyKnows, TotpKnows, GrantAt, DenialAt, IsVerify, IsTotp, Requests
  <2>4. CASE Issue(w) \/ Deny(w) \/ IssueFails(w)
    BY <2>1, <2>4, AnsweredSafe DEF Issue, Deny, IssueFails
  <2> QED
    BY <1>1, <2>1, <2>2, <2>3, <2>4, ArrivedSafe, ArrivedTotpSafe, TakeSafe, VerifyStepsSafe, TotpStepsSafe,
       ReadFailsSafe
<1>2. ASSUME NEW u \in Workers,
             UNCHANGED vars \/ PruneClock \/ (\E t \in stamps : Prune(t)) \/ Tick
      PROVE  Safe(u)'
  <2>1. /\ Grown /\ (now' = now \/ now' = now + 1)
        /\ UNCHANGED <<service, totp, pc, req, mine, timing, held, kept, unread, spent, lost>>
    BY <1>2 DEF vars, PruneClock, Prune, Tick, clock, memory, pruners, workers, history, watch, Grown
  <2>2. /\ pc'[u] = pc[u] /\ req'[u] = req[u] /\ mine'[u] = mine[u] /\ timing'[u] = timing[u]
        /\ held'[u] = held[u] /\ kept'[u] = kept[u] /\ unread'[u] = unread[u]
        /\ spent \subseteq spent' /\ lost \subseteq lost'
    BY <2>1
  <2>3. Safe(u)
    OBVIOUS
  <2> QED
    BY <2>1, <2>2, <2>3, SafeStays
<1>3. ASSUME NEW u \in Workers, Crash
      PROVE  Safe(u)'
  <2>1. pc'[u] = "idle" /\ req'[u] = NoRequest
    BY <1>3 DEF Crash
  <2> QED
    BY <2>1, RequestFields
       DEF Safe, Watched, LoggingIn, VerifyKnows, TotpKnows, GrantAt, DenialAt, IsVerify, IsTotp, Requests
<1> QED
  BY <1>1, <1>2, <1>3, EnrolledSafe DEF Next

-----------------------------------------------------------------------------
(* A challenge has one holder at most: only a verify that takes it out of  *)
(* the map gets it.                                                        *)
LEMMA TakePlaces ==
    ASSUME IInv, NEW w \in Workers, Take(w), NEW c \in Challenges
    PROVE  Placed(c)'
<1> DEFINE d == Challenge(w)
<1>1. IsVerify(w) /\ d \in Drawn /\ Placed(c) /\ pc[w] = "take"
      /\ UNCHANGED <<now, info, req, grants, lost>>
  BY DEF IInv, Take, TypeOK, IsVerify, VerifySteps, Challenge, clock
<1>2. ASSUME NEW u \in Workers, u # w \/ d \notin pending
      PROVE  Holds(u, c)' => Holds(u, c)
  BY <1>1, <1>2 DEF Take, Goto, IInv, TypeOK, Holds, IsVerify, Challenge
<1>3. CASE d \in pending /\ d = c
  <2>1. pending' = pending \ {c} /\ spent' = spent \cup {c}
    BY <1>3 DEF Take, Taken
  <2>2. grants[c] = 0 /\ \A u \in Workers : ~ Holds(u, c)
    BY <1>1, <1>3 DEF Placed
  <2>3. \A u \in Workers : Holds(u, c)' => u = w
    BY <1>2, <2>2
  <2> QED
    BY <1>1, <1>3, <2>1, <2>2, <2>3 DEF Placed, Drawn
<1>4. CASE ~ (d \in pending /\ d = c)
  <2>1. \A u \in Workers : Holds(u, c)' => Holds(u, c)
    <3>1. CASE d \notin pending
      BY <1>2, <3>1
    <3>2. CASE d # c
      BY <1>1, <1>2, <3>2 DEF Holds, Challenge
    <3> QED
      BY <1>4, <3>1, <3>2
  <2>2. /\ c \in pending' => c \in pending
        /\ c \in pending => c \in pending'
        /\ spent \subseteq spent'
    BY <1>4 DEF Take, Taken
  <2> QED
    BY <1>1, <2>1, <2>2 DEF Placed, Drawn
<1> QED
  BY <1>3, <1>4

(* A challenge that is drawn is in the map, and nobody has it.             *)
LEMMA InsertPlaces ==
    ASSUME IInv, NEW w \in Workers, Insert(w), NEW c \in Challenges
    PROVE  Placed(c)'
<1>1. /\ pc'[w] = "idle" /\ \A u \in Workers \ {w} : pc'[u] = pc[u] /\ req'[u] = req[u]
      /\ UNCHANGED <<now, grants, spent, lost>>
      /\ info' = Append(info, [service |-> req[w].service, expires |-> now + Lifetime])
      /\ pending' = pending \cup {Len(info) + 1}
  BY DEF IInv, TypeOK, Insert, Goto, clock, history
<1>2. Len(info) \in Nat /\ Drawn = 1..Len(info) /\ Drawn' = Drawn \cup {Len(info) + 1}
      /\ Len(info) + 1 \notin Drawn
  BY <1>1, Ranges DEF IInv, TypeOK, Drawn
<1>3. \A u \in Workers : Holds(u, c)' => Holds(u, c)
  BY <1>1 DEF Holds, IsVerify, Challenge
<1>4. CASE c = Len(info) + 1
  <2>1. \A u \in Workers : ~ Holds(u, c)
    BY <1>2, <1>4 DEF IInv, TypeOK, Holds, IsVerify, Challenge
  <2> QED
    BY <1>1, <1>2, <1>3, <1>4, <2>1 DEF IInv, Placed
<1>5. CASE c # Len(info) + 1
  BY <1>1, <1>2, <1>3, <1>5, PlacedStays DEF IInv, Grown
<1> QED
  BY <1>4, <1>5

(* The holder of a challenge gives it up when it is granted a session.     *)
LEMMA AnswerPlaces ==
    ASSUME IInv, NEW w \in Workers, Issue(w) \/ Deny(w) \/ IssueFails(w), NEW c \in Challenges
    PROVE  Placed(c)'
<1>1. /\ pc'[w] = "idle" /\ \A u \in Workers \ {w} : pc'[u] = pc[u] /\ req'[u] = req[u]
      /\ UNCHANGED <<now, info, pending, spent, lost>>
  BY DEF IInv, TypeOK, Issue, Deny, IssueFails, Answer, Watch, Goto, clock, memory
<1>2. \A u \in Workers : Holds(u, c)' => Holds(u, c) /\ u # w
  BY <1>1 DEF Holds, IsVerify, Challenge
<1>3. CASE Issue(w) /\ Holds(w, c)
  <2>1. grants[c] = 0 /\ c \notin pending /\ \A u \in Workers : ~ Holds(u, c)'
    BY <1>2, <1>3 DEF IInv, Placed
  <2>2. grants'[c] = 1
    BY <1>3, <2>1 DEF Issue, Holds, IsVerify, Challenge, IInv, TypeOK
  <2>3. c \in Drawn /\ Drawn' = Drawn
    BY <1>1, <1>3 DEF Holds, IsVerify, Challenge, IInv, TypeOK, Drawn
  <2> QED
    BY <1>1, <2>1, <2>2, <2>3 DEF IInv, Placed
<1>4. CASE ~ (Issue(w) /\ Holds(w, c))
  <2>1. grants'[c] = grants[c]
    BY <1>4 DEF Issue, Deny, IssueFails, Holds, IsVerify, Challenge, IInv, TypeOK
  <2> QED
    BY <1>1, <1>2, <2>1 DEF IInv, Placed, Drawn
<1> QED
  BY <1>3, <1>4

LEMMA AllPlaced ==
    ASSUME IInv, [Next]_vars, NEW c \in Challenges
    PROVE  Placed(c)'
<1> USE DEF IInv
<1>1. ASSUME UNCHANGED <<info, pending, pc, req, grants, spent, lost>>, now' = now \/ now' = now + 1
      PROVE  Placed(c)'
  BY <1>1, PlacedStays DEF Grown, Holds, IsVerify, Challenge, Drawn
<1>2. CASE UNCHANGED vars \/ PruneClock \/ Tick
  BY <1>1, <1>2 DEF vars, PruneClock, Tick, clock, memory, workers, history
<1>3. ASSUME NEW s \in Services, Enroll(s) \/ Revoke(s)
      PROVE  Placed(c)'
  BY <1>1, <1>3 DEF Enroll, Revoke, Store, StoreTotp, Hold, memory, workers
<1>4. ASSUME NEW w \in Workers,
             \/ \E s \in Services : LookUp(w, s)
             \/ \E x \in Challenges, key \in Keys : StartVerify(w, x, key)
             \/ \E s \in Services, key \in Keys, counter \in Counters : StartTotp(w, s, key, counter)
      PROVE  Placed(c)'
  <2>1. /\ UNCHANGED <<now, info, pending, grants, spent, lost>>
        /\ pc'[w] \in {"insert", "take", "getTotp"}
        /\ \A u \in Workers \ {w} : pc'[u] = pc[u] /\ req'[u] = req[u]
    BY <1>4, ZenonT(40) DEF LookUp, StartVerify, StartTotp, Goto, TypeOK, clock, memory, history
  <2>2. \A u \in Workers : Holds(u, c)' => Holds(u, c)
    BY <2>1 DEF Holds, IsVerify, Challenge
  <2> QED
    BY <2>1, <2>2 DEF Placed, Drawn
<1>5. ASSUME NEW w \in Workers,
             LookAtClock(w) \/ GetService(w) \/ GetTotp(w) \/ CompareCodes(w) \/ ReadFails(w)
      PROVE  Placed(c)'
  <2>1. /\ UNCHANGED <<now, info, req, pending, grants, spent, lost>>
        /\ \A u \in Workers \ {w} : pc'[u] = pc[u]
        /\ pc[w] \in {"clock", "getService"} \/ ~ IsVerify(w)
    BY <1>5, RequestFields DEF LookAtClock, GetService, GetTotp, CompareCodes, ReadFails, Goto, TypeOK, clock, memory,
                               history, IsVerify, TotpSteps
  <2>2. \A u \in Workers : Holds(u, c)' => Holds(u, c)
    BY <2>1 DEF Holds, IsVerify, Challenge
  <2> QED
    BY <2>1, <2>2 DEF Placed, Drawn
<1>6. ASSUME NEW t \in stamps, Prune(t)
      PROVE  Placed(c)'
  <2>1. /\ UNCHANGED <<now, info, pc, req, grants, spent, lost>>
        /\ pending' = {x \in pending : ~ Expired(x, t)}
    BY <1>6 DEF Prune, clock, workers, history
  <2>2. t \in Nat /\ now \in Nat /\ t <= now /\ \A x \in Drawn : info[x].expires \in Nat
    BY Ranges DEF TypeOK
  <2>3. pending \subseteq Drawn
    BY DEF TypeOK
  <2>4. c \in pending => c \in pending' \/ now > info[c].expires
    BY <2>1, <2>2, <2>3 DEF Expired
  <2>5. \A u \in Workers : Holds(u, c)' => Holds(u, c)
    BY <2>1 DEF Holds, IsVerify, Challenge
  <2> QED
    BY <2>1, <2>4, <2>5, PlacedStays DEF Grown, Drawn
<1>7. CASE Crash
  <2>1. /\ UNCHANGED <<now, info, grants, spent>> /\ pending' = {} /\ lost' = lost \cup pending
        /\ \A u \in Workers : pc'[u] = "idle"
    BY <1>7 DEF Crash, clock
  <2>2. \A u \in Workers : ~ Holds(u, c)'
    BY <2>1 DEF Holds
  <2> QED
    BY <2>1, <2>2 DEF Placed, Drawn
<1> QED
  BY <1>2, <1>3, <1>4, <1>5, <1>6, <1>7, TakePlaces, InsertPlaces, AnswerPlaces DEF Next

LEMMA IInvHolds == Spec => []IInv
<1>1. Init => IInv
  BY IInvStarts
<1>2. IInv /\ [Next]_vars => IInv'
  BY StepsTyped, AllPlaced, AllSafe DEF IInv, Challenges
<1> QED
  BY <1>1, <1>2, PTL DEF Spec

-----------------------------------------------------------------------------
(* A challenge is good for one session at most, however many verifies      *)
(* present it at once, whatever is enrolled, pruned or restarted meanwhile *)
(* (ed25519.go:74-79).                                                     *)
THEOREM GoodForOneUse == Spec => []OneUse
<1>1. IInv => OneUse
  BY DEF IInv, Placed, OneUse
<1> QED
  BY <1>1, IInvHolds, PTL

(* A session is about to be granted only on a challenge or a code that was *)
(* in time, with a key that was in force for the service at some moment    *)
(* since the login arrived (ed25519.go:81-112, totp.go:52-74).             *)
THEOREM GrantsAreJustified == Spec => []GrantJustified
<1>1. IInv => GrantJustified
  BY DEF IInv, Safe, GrantAt, GrantJustified, IsTotp
<1> QED
  BY <1>1, IInvHolds, PTL

(* A login is refused only for one of these: its key was not in force all  *)
(* along, its challenge had expired, was taken by another verify or lost in*)
(* a restart, its code was too new or too old, or the store failed to read *)
(* the record of the service, an error that the handlers answer and log as *)
(* a denial (ed25519.go:93-96, totp.go:53-58, auth_handlers.go:53-57).     *)
THEOREM DenialsAreJustified == Spec => []DenialJustified
<1>1. IInv => DenialJustified
  BY DEF IInv, Safe, DenialAt, DenialJustified, IsVerify, IsTotp
<1> QED
  BY <1>1, IInvHolds, PTL

-----------------------------------------------------------------------------
(* The pruning goroutines.  After a challenge is drawn, until the map is   *)
(* clear of what had expired by then, some goroutine has still to prune by *)
(* a reading of the clock that is not earlier.                             *)
LastDraw == info[Len(info)].expires - Lifetime

Cleared == \A c \in pending : info[c].expires >= LastDraw

PruneInv ==
    info # <<>> =>
        /\ LastDraw <= now
        /\ spawned > 0 \/ (\E t \in stamps : t >= LastDraw) \/ Cleared

LEMMA PruneInvStays ==
    ASSUME TypeOK, PruneInv, info' = info, now' \in Nat, now' >= now, pending' \subseteq pending,
           UNCHANGED <<spawned, stamps>> \/ pending' = {}
    PROVE  PruneInv'
<1>1. info # <<>> => LastDraw \in Int
  BY Ranges, BoundsAssumption DEF TypeOK, LastDraw
<1> QED
  BY <1>1, Ranges DEF PruneInv, Cleared, LastDraw

LEMMA InsertPrunes ==
    ASSUME TypeOK, NEW w \in Workers, Insert(w)
    PROVE  PruneInv'
<1>1. /\ info' = Append(info, [service |-> req[w].service, expires |-> now + Lifetime])
      /\ spawned' = spawned + 1 /\ now' = now
  BY DEF Insert, clock
<1>2. Len(info') = Len(info) + 1 /\ info'[Len(info')].expires = now + Lifetime
  BY <1>1, Ranges DEF TypeOK
<1>3. spawned' > 0 /\ LastDraw' <= now'
  BY <1>1, <1>2, Ranges, BoundsAssumption DEF TypeOK, LastDraw
<1> QED
  BY <1>3 DEF PruneInv

LEMMA PruneClockPrunes ==
    ASSUME TypeOK, PruneInv, PruneClock
    PROVE  PruneInv'
BY DEF PruneInv, PruneClock, Cleared, LastDraw, clock, memory

LEMMA PrunePrunes ==
    ASSUME TypeOK, PruneInv, NEW t \in stamps, Prune(t)
    PROVE  PruneInv'
<1> SUFFICES ASSUME info # <<>> PROVE PruneInv'
  BY DEF Prune, PruneInv
<1>1. /\ UNCHANGED <<now, info, spawned>> /\ stamps' = stamps \ {t}
      /\ pending' = {c \in pending : ~ Expired(c, t)} /\ LastDraw' = LastDraw
  BY DEF Prune, clock, LastDraw
<1>2. t \in Nat /\ LastDraw \in Int /\ \A c \in pending : info[c].expires \in Nat
  BY Ranges, BoundsAssumption DEF TypeOK, LastDraw
<1>3. CASE t >= LastDraw
  <2>1. Cleared'
    BY <1>1, <1>2, <1>3 DEF Cleared, Expired
  <2> QED
    BY <1>1, <2>1 DEF PruneInv
<1>4. CASE ~ (t >= LastDraw)
  BY <1>1, <1>2, <1>4 DEF PruneInv, Cleared
<1> QED
  BY <1>3, <1>4

LEMMA PruneInvHolds == Spec => []PruneInv
<1>1. Init => PruneInv
  BY DEF Init, PruneInv
<1>2. TypeOK /\ PruneInv /\ [Next]_vars => PruneInv'
  <2> SUFFICES ASSUME TypeOK, PruneInv, [Next]_vars PROVE PruneInv'
    OBVIOUS
  <2>0. now \in Nat
    BY Ranges
  <2>1. ASSUME UNCHANGED <<memory, pruners>>, now' = now \/ now' = now + 1 PROVE PruneInv'
    BY <2>0, <2>1, PruneInvStays DEF memory, pruners
  <2>2. CASE UNCHANGED vars \/ Tick
    BY <2>1, <2>2 DEF vars, clock, Tick
  <2>3. ASSUME NEW s \in Services, Enroll(s) \/ Revoke(s) PROVE PruneInv'
    BY <2>1, <2>3 DEF Enroll, Revoke, Store, StoreTotp, Hold
  <2>4. ASSUME NEW w \in Workers,
               \/ \E s \in Services : LookUp(w, s)
               \/ \E c \in Challenges, key \in Keys : StartVerify(w, c, key)
               \/ \E s \in Services, key \in Keys, counter \in Counters :
                       StartTotp(w, s, key, counter)
               \/ LookAtClock(w) \/ GetService(w) \/ GetTotp(w) \/ CompareCodes(w)
               \/ ReadFails(w) \/ Issue(w) \/ Deny(w) \/ IssueFails(w)
        PROVE  PruneInv'
    BY <2>1, <2>4 DEF LookUp, StartVerify, StartTotp, LookAtClock, GetService, GetTotp, CompareCodes,
                      ReadFails, Issue, Deny, IssueFails, clock
  <2>5. ASSUME NEW w \in Workers, Take(w) PROVE PruneInv'
    <3>1. info' = info /\ now' = now /\ UNCHANGED <<spawned, stamps>> /\ pending' \subseteq pending
      BY <2>5 DEF Take, Taken, clock, pruners
    <3> QED
      BY <2>0, <3>1, PruneInvStays
  <2>6. CASE Crash
    BY <2>0, <2>6, PruneInvStays DEF Crash, clock
  <2> QED
    BY <2>2, <2>3, <2>4, <2>5, <2>6, InsertPrunes, PruneClockPrunes, PrunePrunes DEF Next
<1> QED
  BY <1>1, <1>2, TypeCorrect, PTL DEF Spec

(* However many challenges are drawn, and however late, in whatever order  *)
(* their pruning goroutines read the clock and get the mutex: when none is *)
(* under way, the map holds no challenge that had expired when the latest  *)
(* one was drawn (ed25519.go:55-65, 134-143).                              *)
THEOREM ExpiredGetPruned == Spec => []ExpiredPruned
<1>1. TypeOK /\ PruneInv => ExpiredPruned
  BY Ranges, BoundsAssumption DEF TypeOK, PruneInv, Cleared, LastDraw, ExpiredPruned
<1> QED
  BY <1>1, TypeCorrect, PruneInvHolds, PTL
=============================================================================
