------------------------ MODULE SessionsClientProofs ------------------------
(***************************************************************************)
(* The life of a session token, on the server and in a client's hands:     *)
(* what holds of Sessions for every set of workers, every time to live and *)
(* every bound, and of Client for every set of clients, of policies, of    *)
(* failures and every number of requests, with proofs.  The two components *)
(* share no state: first comes what is proved of Sessions, then what is    *)
(* proved of Client.                                                       *)
(***************************************************************************)
EXTENDS Sessions, Client, TLAPS


(* No read of the record will find a good session any more.                *)
Gone(t) == now > expiry[t] \/ t \notin stored \/ now >= dropped[t]

(* The store keeps a record for as long as the session is good: it drops   *)
(* it less than a second before the expiry in it, and requests delete it   *)
(* only at a logout or once it has expired.                                *)
Registered ==
    /\ stored \subseteq issued /\ ended \subseteq issued
    /\ refused \subseteq issued /\ issued \subseteq Drawn
    /\ \A t \in issued :
         /\ dropped[t] + Second > expiry[t]
         /\ t \notin stored => t \in ended \/ now > expiry[t]
    /\ \A t \in refused \cup ended : Gone(t)

(* A request for a dead session is caught at the record or at the clock.   *)
Caught(w) ==
    /\ pc[w] = "store" => /\ token[w] \in Drawn \ issued
                          /\ expiry[token[w]] <= now + TTL
    /\ pc[w] \in {"get", "check", "revoke"} \/ out[w] # "none" => token[w] \in issued
    /\ pc[w] = "get" /\ dead[w] => Gone(token[w])
    /\ pc[w] = "check" /\ dead[w] => now > expiry[token[w]]
    /\ pc[w] = "revoke" => ~ dead[w]

(* The answer a worker has given is justified.                             *)
Justified(w) ==
    /\ pc[w] # "idle" => out[w] = "none" /\ ~ unread[w]
    /\ out[w] \in {"accepted", "loggedOut"} => ~ dead[w]
    /\ out[w] = "denied" =>
         now + Second > expiry[token[w]] \/ token[w] \in ended \/ unread[w]

Distinct ==
    \A u, w \in Workers : u # w /\ pc[u] = "store" /\ pc[w] = "store" => token[u] # token[w]

IInv ==
    /\ TypeOK
    /\ Registered
    /\ Distinct
    /\ \A w \in Workers : Caught(w) /\ Justified(w)

-----------------------------------------------------------------------------
(* Numbers are numbers.                                                    *)
LEMMA Numbers ==
    ASSUME TypeOK
    PROVE  /\ now \in Nat
           /\ Drawn = 1..Len(expiry) /\ Len(expiry) \in Nat
           /\ Drawn \subseteq 1..MaxTokens
           /\ \A t \in Drawn : expiry[t] \in Nat /\ dropped[t] \in Nat /\ t # NoToken
<1>1. now \in Nat /\ expiry \in Seq(Nat) /\ Len(expiry) <= MaxTokens
      /\ dropped \in [1..MaxTokens -> Nat]
  BY BoundsAssumption DEF TypeOK
<1>2. Drawn = 1..Len(expiry) /\ Len(expiry) \in Nat
  BY <1>1 DEF Drawn
<1>3. Drawn \subseteq 1..MaxTokens
  BY <1>1, <1>2, BoundsAssumption
<1>4. \A t \in Drawn : expiry[t] \in Nat /\ dropped[t] \in Nat /\ t # NoToken
  BY <1>1, <1>2, <1>3 DEF NoToken
<1> QED
  BY <1>1, <1>2, <1>3, <1>4

(* The store rounds the end of a record down, by less than a second.       *)
LEMMA RoundedDown ==
    ASSUME NEW n \in Nat
    PROVE  DropTime(n) \in Nat /\ DropTime(n) <= n + TTL /\ n + TTL < DropTime(n) + Second
<1> DEFINE m == n + TTL
           q == m \div Second
<1>1. m \in Nat /\ Second \in Nat /\ Second > 0
  BY BoundsAssumption, SecondAssumption
<1>2. q \in Int /\ m % Second \in 0..(Second - 1) /\ m = Second * q + (m % Second)
  BY <1>1
<1>3. q * Second = Second * q /\ Second * q \in Nat
  <2> DEFINE x == m % Second
  <2>1. q \in Int /\ x \in 0..(Second - 1) /\ m = Second * q + x
    BY <1>2
  <2> HIDE DEF m, q, x
  <2>2. q * Second = Second * q /\ Second * q \in Int
    BY <1>1, <2>1, Z3T(30)
  <2>3. q >= 0
    <3> SUFFICES ASSUME q <= -1 PROVE FALSE
      BY <2>1
    <3>1. Second * q <= -Second
      BY <1>1, <2>1, Z3T(30)
    <3> QED
      BY <1>1, <2>1, <2>2, <3>1
  <2>4. Second * q >= 0
    BY <1>1, <2>1, <2>3, Z3T(30)
  <2> QED
    BY <2>2, <2>4
<1> HIDE DEF m, q
<1>4. q * Second \in Nat /\ q * Second <= m /\ m < q * Second + Second
  <2> DEFINE p == Second * q
             x == m % Second
  <2>1. p \in Nat /\ x \in 0..(Second - 1) /\ m = p + x /\ q * Second = p
    BY <1>2, <1>3
  <2> HIDE DEF p, x
  <2> QED
    BY <1>1, <2>1
<1> QED
  BY <1>4 DEF m, q, DropTime

(* What every step does to tokens that were handed out: time passes, more  *)
(* is over, and no record comes back.                                      *)
Forward ==
    /\ now <= now'
    /\ Drawn \subseteq Drawn'
    /\ \A t \in Drawn : expiry'[t] = expiry[t]
    /\ ended \subseteq ended'
    /\ issued \subseteq issued'
    /\ \A t \in issued : dropped'[t] = dropped[t] /\ (t \in stored' => t \in stored)

Still(w) ==
    /\ pc'[w] = pc[w]
    /\ token'[w] = token[w]
    /\ out'[w] = out[w]
    /\ dead'[w] = dead[w]
    /\ unread'[w] = unread[w]

LEMMA GoneForGood ==
    ASSUME TypeOK, TypeOK', Registered, Forward, NEW t \in issued, Gone(t)
    PROVE  Gone(t)'
<1>1. t \in Drawn /\ t \in Drawn'
  BY DEF Registered, Forward
<1>2. now \in Nat /\ expiry[t] \in Nat /\ dropped[t] \in Nat
  BY <1>1, Numbers
<1>3. now' \in Nat
  BY BoundsAssumption DEF TypeOK
<1>4. now <= now' /\ expiry'[t] = expiry[t] /\ dropped'[t] = dropped[t]
      /\ (t \in stored' => t \in stored)
  BY <1>1 DEF Forward
<1>5. now > expiry[t] \/ t \notin stored \/ now >= dropped[t]
  BY DEF Gone
<1>6. now' > expiry'[t] \/ t \notin stored' \/ now' >= dropped'[t]
  BY <1>2, <1>3, <1>4, <1>5
<1> QED
  BY <1>6 DEF Gone

LEMMA Frame ==
    ASSUME IInv, TypeOK', Forward, NEW w \in Workers, Still(w),
           pc[w] = "store" => token[w] \notin issued'
    PROVE  Caught(w)' /\ Justified(w)'
<1>1. Caught(w) /\ Justified(w)
  BY DEF IInv
<1>2. now \in Nat /\ now' \in Nat
  BY BoundsAssumption DEF IInv, TypeOK
<1>3. token[w] \in issued => /\ token[w] \in Drawn /\ expiry[token[w]] \in Nat
                             /\ expiry'[token[w]] = expiry[token[w]]
                             /\ (Gone(token[w]) => Gone(token[w])')
  <2> SUFFICES ASSUME token[w] \in issued
               PROVE  /\ token[w] \in Drawn /\ expiry[token[w]] \in Nat
                      /\ expiry'[token[w]] = expiry[token[w]]
                      /\ (Gone(token[w]) => Gone(token[w])')
    OBVIOUS
  <2>1. PICK t \in issued : t = token[w]
    OBVIOUS
  <2>2. t \in Drawn
    BY DEF IInv, Registered
  <2>3. expiry[t] \in Nat /\ expiry'[t] = expiry[t]
    BY <2>2, Numbers DEF IInv, Forward
  <2>4. Gone(t) => Gone(t)'
    BY GoneForGood DEF IInv
  <2>5. Gone(token[w]) => Gone(token[w])'
    <3>1. token'[w] = t
      BY <2>1 DEF Still
    <3> QED
      BY <2>1, <2>4, <3>1 DEF Gone
  <2> QED
    BY <2>1, <2>2, <2>3, <2>5
<1>4. Caught(w)'
  <2>1. pc[w] = "store" => expiry'[token[w]] <= now' + TTL
    <3> SUFFICES ASSUME pc[w] = "store" PROVE expiry'[token[w]] <= now' + TTL
      OBVIOUS
    <3>1. token[w] \in Drawn /\ expiry[token[w]] <= now + TTL
      BY <1>1 DEF Caught
    <3>2. expiry[token[w]] \in Nat /\ expiry'[token[w]] = expiry[token[w]]
      BY <3>1, Numbers DEF IInv, Forward
    <3> QED
      BY <1>2, <3>1, <3>2, BoundsAssumption DEF Forward
  <2> QED
    BY <1>1, <1>2, <1>3, <2>1 DEF Caught, Still, Forward
<1>5. Justified(w)'
  <2>1. out[w] # "none" => token[w] \in issued
    BY <1>1 DEF Caught
  <2>2. /\ pc'[w] # "idle" => out'[w] = "none" /\ ~ unread'[w]
        /\ out'[w] \in {"accepted", "loggedOut"} => ~ dead'[w]
    BY <1>1 DEF Justified, Still
  <2>3. ASSUME out'[w] = "denied"
        PROVE  now' + Second > expiry'[token[w]] \/ token[w] \in ended' \/ unread'[w]
    <3>1. now + Second > expiry[token[w]] \/ token[w] \in ended \/ unread'[w]
      BY <1>1, <2>3 DEF Justified, Still
    <3>2. expiry[token[w]] \in Nat /\ expiry'[token[w]] = expiry[token[w]]
      BY <1>3, <2>1, <2>3 DEF Still
    <3> QED
      BY <1>2, <3>1, <3>2, SecondAssumption DEF Forward
  <2>4. token'[w] = token[w]
    BY DEF Still
  <2> QED
    BY <2>2, <2>3, <2>4 DEF Justified
<1> QED
  BY <1>4, <1>5

(* A step of worker w that draws and hands out no token.                   *)
LEMMA LocalStep ==
    ASSUME IInv, TypeOK', Forward, Registered', issued' = issued, NEW w \in Workers,
           \A v \in Workers \ {w} : Still(v), pc'[w] # "store",
           Caught(w)', Justified(w)'
    PROVE  IInv'
<1>1. ASSUME NEW v \in Workers \ {w} PROVE Caught(v)' /\ Justified(v)'
  <2>1. pc[v] = "store" => token[v] \notin issued'
    BY DEF IInv, Caught
  <2> QED
    BY <2>1, Frame
<1>2. Distinct'
  BY DEF Distinct, IInv, Still
<1> QED
  BY <1>1, <1>2 DEF IInv

LEMMA InitHolds == Init => IInv
<1> SUFFICES ASSUME Init PROVE IInv
  OBVIOUS
<1>1. TypeOK
  BY BoundsAssumption DEF Init, TypeOK, Drawn, Never, NoToken
<1>2. Registered
  BY DEF Init, Registered
<1>3. \A w \in Workers : Caught(w) /\ Justified(w)
  BY DEF Init, Caught, Justified
<1>4. Distinct
  BY DEF Init, Distinct
<1> QED
  BY <1>1, <1>2, <1>3, <1>4 DEF IInv

LEMMA StampKeeps ==
    ASSUME IInv, NEW w \in Workers, Stamp(w)
    PROVE  IInv'
<1> DEFINE n == Len(expiry) + 1
<1>1. /\ expiry' = Append(expiry, now + TTL) /\ Len(expiry) < MaxTokens
      /\ pc' = [pc EXCEPT ![w] = "store"]
      /\ token' = [token EXCEPT ![w] = n]
      /\ out' = [out EXCEPT ![w] = "none"]
      /\ dead' = [dead EXCEPT ![w] = FALSE]
      /\ unread' = [unread EXCEPT ![w] = FALSE]
      /\ logout' = [logout EXCEPT ![w] = FALSE]
      /\ UNCHANGED <<now, dropped, stored, issued, ended, refused>>
  BY DEF Stamp, Goto
<1>2. now \in Nat /\ Drawn = 1..Len(expiry) /\ Len(expiry) \in Nat
      /\ expiry \in Seq(Nat) /\ now + TTL \in Nat
  BY Numbers, BoundsAssumption DEF IInv, TypeOK
<1>3. expiry' \in Seq(Nat) /\ Len(expiry') = n /\ Drawn' = 1..n
      /\ \A t \in 1..Len(expiry) : expiry'[t] = expiry[t]
  BY <1>1, <1>2 DEF Drawn
<1>4. Drawn \subseteq Drawn' /\ n \in Drawn' /\ n \notin Drawn
  BY <1>2, <1>3
<1>5. TypeOK'
  <2>1. Len(expiry') <= MaxTokens /\ n \in 0..MaxTokens
    BY <1>1, <1>2, <1>3, BoundsAssumption
  <2>2. ASSUME NEW v \in Workers
        PROVE  pc'[v] # "idle" \/ out'[v] # "none" => token'[v] \in Drawn'
    BY <1>1, <1>4 DEF IInv, TypeOK
  <2> QED
    BY <1>1, <1>3, <1>4, <2>1, <2>2 DEF IInv, TypeOK
<1>6. Forward
  BY <1>1, <1>2, <1>3, <1>4 DEF Forward
<1>7. Registered'
  <2>1. \A t \in issued : t \in Drawn /\ expiry'[t] = expiry[t]
    BY <1>2, <1>3 DEF IInv, Registered
  <2> QED
    BY <1>1, <1>4, <2>1 DEF IInv, Registered, Gone
<1>8. Caught(w)' /\ Justified(w)'
  <2>1. expiry'[n] = now + TTL
    BY <1>1, <1>2
  <2> QED
    BY <1>1, <1>2, <1>4, <2>1 DEF IInv, TypeOK, Registered, Caught, Justified
<1>9. ASSUME NEW v \in Workers \ {w} PROVE Caught(v)' /\ Justified(v)'
  <2>1. Still(v)
    BY <1>1 DEF Still, IInv, TypeOK
  <2>2. pc[v] = "store" => token[v] \notin issued'
    BY <1>1 DEF IInv, Caught
  <2> QED
    BY <1>5, <1>6, <2>1, <2>2, Frame
<1>10. Distinct'
  <2>1. \A v \in Workers : pc[v] = "store" => token[v] # n
    BY <1>4 DEF IInv, Caught
  <2> QED
    BY <1>1, <2>1 DEF IInv, Distinct, TypeOK
<1> QED
  BY <1>5, <1>7, <1>8, <1>9, <1>10 DEF IInv

LEMMA StoreSessionKeeps ==
    ASSUME IInv, NEW w \in Workers, StoreSession(w)
    PROVE  IInv'
<1> DEFINE t == token[w]
<1>1. /\ pc[w] = "store" /\ stored' = stored \cup {t}
      /\ dropped' = [dropped EXCEPT ![t] = DropTime(now)]
      /\ issued' = issued \cup {t}
      /\ pc' = [pc EXCEPT ![w] = "idle"]
      /\ out' = [out EXCEPT ![w] = "none"]
      /\ token' = [token EXCEPT ![w] = NoToken]
      /\ dead' = [dead EXCEPT ![w] = FALSE]
      /\ unread' = [unread EXCEPT ![w] = FALSE]
      /\ logout' = [logout EXCEPT ![w] = FALSE]
      /\ UNCHANGED <<now, expiry, ended, refused>>
  BY DEF StoreSession, Forget, Goto
<1>2. t \in Drawn /\ t \notin issued
  BY <1>1 DEF IInv, Caught
<1>3. now \in Nat /\ now + TTL \in Nat /\ t \in 1..MaxTokens
      /\ dropped \in [1..MaxTokens -> Nat] /\ DropTime(now) \in Nat
  <2>1. now \in Nat /\ now + TTL \in Nat /\ t \in 1..MaxTokens
        /\ dropped \in [1..MaxTokens -> Nat]
    BY <1>2, Numbers, BoundsAssumption DEF IInv, TypeOK
  <2> QED
    BY <2>1, RoundedDown
<1>4. Drawn' = Drawn
  BY <1>1 DEF Drawn
<1>5. TypeOK'
  <2>1. dropped' \in [1..MaxTokens -> Nat]
    BY <1>1, <1>3
  <2>2. ended' \subseteq Drawn' \ stored'
    BY <1>1, <1>2, <1>4 DEF IInv, TypeOK, Registered
  <2>3. ASSUME NEW v \in Workers
        PROVE  pc'[v] # "idle" \/ out'[v] # "none" => token'[v] \in Drawn'
    BY <1>1, <1>4 DEF IInv, TypeOK
  <2> QED
    BY <1>1, <1>2, <1>4, <2>1, <2>2, <2>3, BoundsAssumption DEF IInv, TypeOK, NoToken
<1>6. Forward
  BY <1>1, <1>2, <1>3, <1>4 DEF Forward
<1>7. Registered'
  <2>1. expiry[t] <= now + TTL
    BY <1>1 DEF IInv, Caught
  <2>2. ASSUME NEW s \in issued'
        PROVE  /\ dropped'[s] + Second > expiry'[s]
               /\ s \notin stored' => s \in ended' \/ now' > expiry'[s]
    <3>1. CASE s = t
      <4>1. expiry[t] \in Nat /\ now + TTL < DropTime(now) + Second
        BY <1>2, <1>3, Numbers, RoundedDown DEF IInv
      <4>2. dropped'[s] = DropTime(now) /\ expiry'[s] = expiry[t] /\ s \in stored'
        BY <1>1, <1>3, <3>1
      <4> HIDE DEF t
      <4> QED
        BY <1>3, <2>1, <4>1, <4>2, SecondAssumption
    <3>2. CASE s # t
      BY <1>1, <1>3, <2>2, <3>2 DEF IInv, Registered
    <3> QED
      BY <3>1, <3>2
  <2>3. ASSUME NEW s \in refused' \cup ended' PROVE Gone(s)'
    <3>1. s \in issued /\ Gone(s)
      BY <1>1, <2>3 DEF IInv, Registered
    <3> QED
      BY <1>5, <1>6, <3>1, GoneForGood DEF IInv
  <2>4. /\ stored' \subseteq issued' /\ ended' \subseteq issued'
        /\ refused' \subseteq issued' /\ issued' \subseteq Drawn'
    BY <1>1, <1>2, <1>4 DEF IInv, Registered
  <2> QED
    BY <2>2, <2>3, <2>4 DEF Registered
<1>8. Caught(w)' /\ Justified(w)'
  BY <1>1 DEF IInv, TypeOK, Caught, Justified
<1>9. ASSUME NEW v \in Workers \ {w} PROVE Caught(v)' /\ Justified(v)'
  <2>1. Still(v)
    BY <1>1 DEF Still, IInv, TypeOK
  <2>2. pc[v] = "store" => token[v] \notin issued'
    BY <1>1 DEF IInv, Caught, Distinct
  <2> QED
    BY <1>5, <1>6, <2>1, <2>2, Frame
<1>10. Distinct'
  BY <1>1 DEF IInv, Distinct, TypeOK
<1> QED
  BY <1>5, <1>7, <1>8, <1>9, <1>10 DEF IInv

(* Steps that move neither the clock nor the deadlines.                    *)
LEMMA SameClock ==
    ASSUME IInv, UNCHANGED clock, issued' = issued, ended \subseteq ended',
           stored' \subseteq stored
    PROVE  /\ Forward /\ Drawn' = Drawn
           /\ \A t \in issued : t \in Drawn /\ expiry'[t] = expiry[t]
<1>1. now \in Nat
  BY Numbers DEF IInv
<1> QED
  BY <1>1 DEF IInv, Registered, Forward, Drawn, clock

LEMMA ArriveKeeps ==
    ASSUME IInv, NEW w \in Workers, NEW t \in 1..MaxTokens, NEW isLogout \in BOOLEAN,
           Arrive(w, t, isLogout)
    PROVE  IInv'
<1>1. /\ pc[w] = "idle" /\ t \in issued
      /\ pc' = [pc EXCEPT ![w] = "get"]
      /\ token' = [token EXCEPT ![w] = t]
      /\ out' = [out EXCEPT ![w] = "none"]
      /\ dead' = [dead EXCEPT ![w] = now > expiry[t] \/ t \in ended \cup refused]
      /\ unread' = [unread EXCEPT ![w] = FALSE]
      /\ logout' = [logout EXCEPT ![w] = isLogout]
      /\ UNCHANGED <<clock, stored, issued, ended, refused>>
  BY DEF Arrive, Goto
<1>2. Forward /\ Drawn' = Drawn /\ t \in Drawn
  BY <1>1, SameClock
<1>3. TypeOK'
  <2>1. dead' \in [Workers -> BOOLEAN]
    BY <1>1 DEF IInv, TypeOK
  <2>2. token' \in [Workers -> 0..MaxTokens]
    BY <1>1, BoundsAssumption DEF IInv, TypeOK
  <2>3. ASSUME NEW v \in Workers
        PROVE  pc'[v] # "idle" \/ out'[v] # "none" => token'[v] \in Drawn'
    BY <1>1, <1>2 DEF IInv, TypeOK
  <2> QED
    BY <1>1, <1>2, <2>1, <2>2, <2>3 DEF IInv, TypeOK, clock
<1>4. Registered'
  BY <1>1, <1>2 DEF IInv, Registered, Gone, clock
<1>5. Caught(w)' /\ Justified(w)'
  <2>1. /\ pc'[w] = "get" /\ token'[w] = t /\ out'[w] = "none"
        /\ dead'[w] = (now > expiry[t] \/ t \in ended \cup refused)
        /\ ~ unread'[w]
    BY <1>1 DEF IInv, TypeOK
  <2>2. dead'[w] => Gone(t)
    BY <2>1 DEF IInv, Registered, Gone
  <2>3. Gone(t)' <=> Gone(t)
    BY <1>1 DEF Gone, clock
  <2>4. (pc[w] = "get" /\ dead[w] => Gone(token[w]))'
    BY <2>1, <2>2, <2>3 DEF Gone
  <2> QED
    BY <1>1, <2>1, <2>4 DEF Caught, Justified
<1>6. \A v \in Workers \ {w} : Still(v)
  BY <1>1 DEF Still, IInv, TypeOK
<1> QED
  BY <1>1, <1>2, <1>3, <1>4, <1>5, <1>6, LocalStep DEF IInv, TypeOK

(* A request that ends without an answer to look at.                       *)
LEMMA ForgetKeeps ==
    ASSUME IInv, NEW w \in Workers, Forget(w), UNCHANGED <<clock, stored, issued, ended>>
    PROVE  IInv'
<1>1. /\ pc' = [pc EXCEPT ![w] = "idle"]
      /\ token' = [token EXCEPT ![w] = NoToken]
      /\ out' = [out EXCEPT ![w] = "none"]
      /\ dead' = [dead EXCEPT ![w] = FALSE]
      /\ unread' = [unread EXCEPT ![w] = FALSE]
      /\ logout' = [logout EXCEPT ![w] = FALSE]
      /\ refused' = refused
  BY DEF Forget, Goto
<1>2. Forward /\ Drawn' = Drawn
  BY SameClock
<1>3. TypeOK'
  <2>1. ASSUME NEW v \in Workers
        PROVE  pc'[v] # "idle" \/ out'[v] # "none" => token'[v] \in Drawn'
    BY <1>1, <1>2 DEF IInv, TypeOK
  <2> QED
    BY <1>1, <1>2, <2>1, BoundsAssumption DEF IInv, TypeOK, clock, NoToken
<1>4. Registered'
  BY <1>1, <1>2 DEF IInv, Registered, Gone, clock
<1>5. Caught(w)' /\ Justified(w)'
  BY <1>1 DEF IInv, TypeOK, Caught, Justified
<1>6. \A v \in Workers \ {w} : Still(v)
  BY <1>1 DEF Still, IInv, TypeOK
<1> QED
  BY <1>1, <1>2, <1>3, <1>4, <1>5, <1>6, LocalStep DEF IInv, TypeOK

(* A request that is answered: a refusal has to be justified.              *)
LEMMA AnswerKeeps ==
    ASSUME IInv, NEW w \in Workers, NEW s \in {"accepted", "denied", "loggedOut"},
           pc[w] \in {"get", "check", "revoke"}, Answer(w, s),
           UNCHANGED <<clock, issued>>, ended \subseteq ended', stored' \subseteq stored,
           stored \ stored' \subseteq {token[w]},
           ended' \subseteq ended \cup ({token[w]} \ stored'),
           token[w] \notin stored' => token[w] \in ended' \/ now > expiry[token[w]],
           s = "denied" => Gone(token[w]),
           s # "denied" => ~ dead[w]
    PROVE  IInv'
<1> DEFINE t == token[w]
<1>1. /\ pc' = [pc EXCEPT ![w] = "idle"]
      /\ out' = [out EXCEPT ![w] = s]
      /\ refused' = refused \cup {u \in {t} : s = "denied"}
      /\ UNCHANGED <<token, logout, dead, unread>>
  BY DEF Answer, Goto
<1>2. Forward /\ Drawn' = Drawn /\ t \in issued
      /\ \A u \in issued : u \in Drawn /\ expiry'[u] = expiry[u]
  BY SameClock DEF IInv, Caught
<1>3. TypeOK'
  <2>1. ASSUME NEW v \in Workers
        PROVE  pc'[v] # "idle" \/ out'[v] # "none" => token'[v] \in Drawn'
    BY <1>1, <1>2 DEF IInv, TypeOK
  <2>2. stored' \subseteq Drawn' /\ ended' \subseteq Drawn' \ stored'
        /\ refused' \subseteq Drawn'
    BY <1>1, <1>2 DEF IInv, TypeOK
  <2>3. out' \in [Workers -> {"none", "accepted", "denied", "loggedOut"}]
    BY <1>1 DEF IInv, TypeOK
  <2> QED
    BY <1>1, <1>2, <2>1, <2>2, <2>3 DEF IInv, TypeOK, clock
<1>4. Registered'
  <2>1. ASSUME NEW u \in issued'
        PROVE  /\ dropped'[u] + Second > expiry'[u]
               /\ u \notin stored' => u \in ended' \/ now' > expiry'[u]
    <3>1. u \in issued
      BY <2>1
    <3>2. CASE u = t
      BY <3>1, <3>2 DEF IInv, Registered, clock
    <3>3. CASE u # t
      BY <3>1, <3>3 DEF IInv, Registered, clock
    <3> QED
      BY <3>2, <3>3
  <2>2. ASSUME NEW u \in refused' \cup ended' PROVE Gone(u)'
    <3>1. CASE u \in refused \cup ended
      BY <1>2, <1>3, <3>1, GoneForGood DEF IInv, Registered
    <3>2. CASE u \notin refused \cup ended
      <4>1. u = t /\ (s = "denied" \/ u \notin stored')
        BY <1>1, <2>2, <3>2
      <4>2. CASE u \notin stored'
        BY <4>2 DEF Gone
      <4>3. CASE s = "denied"
        BY <1>2, <1>3, <4>1, <4>3, GoneForGood DEF IInv
      <4> QED
        BY <4>1, <4>2, <4>3
    <3> QED
      BY <3>1, <3>2
  <2>3. /\ stored' \subseteq issued' /\ ended' \subseteq issued'
        /\ refused' \subseteq issued' /\ issued' \subseteq Drawn'
    BY <1>1, <1>2 DEF IInv, Registered
  <2> QED
    BY <2>1, <2>2, <2>3 DEF Registered
<1>5. pc'[w] = "idle" /\ out'[w] = s /\ token'[w] = t /\ dead'[w] = dead[w]
  BY <1>1 DEF IInv, TypeOK
<1>6. Caught(w)' /\ Justified(w)'
  <2>1. s = "denied" => now + Second > expiry[t] \/ t \in ended
    <3>1. now \in Nat /\ expiry[t] \in Nat /\ dropped[t] \in Nat
      BY <1>2, Numbers DEF IInv
    <3>2. /\ dropped[t] + Second > expiry[t]
          /\ t \notin stored => t \in ended \/ now > expiry[t]
      BY <1>2 DEF IInv, Registered
    <3> QED
      BY <3>1, <3>2, SecondAssumption DEF Gone
  <2>2. s = "denied" => now' + Second > expiry'[t] \/ t \in ended'
    BY <2>1 DEF clock
  <2> QED
    BY <1>2, <1>5, <2>2 DEF Caught, Justified
<1>7. \A v \in Workers \ {w} : Still(v)
  BY <1>1 DEF Still, IInv, TypeOK
<1> QED
  BY <1>2, <1>3, <1>4, <1>5, <1>6, <1>7, LocalStep

(* A request that goes on to its next call.                                *)
LEMMA GotoKeeps ==
    ASSUME IInv, NEW w \in Workers, NEW label \in {"check", "revoke"},
           pc[w] \in {"get", "check"}, Goto(w, label),
           UNCHANGED <<clock, stored, token, logout, out, issued, ended, refused, dead, unread>>,
           label = "check" /\ dead[w] => now > expiry[token[w]],
           label = "revoke" => ~ dead[w]
    PROVE  IInv'
<1>1. pc' = [pc EXCEPT ![w] = label]
  BY DEF Goto
<1>2. Forward /\ Drawn' = Drawn
  BY SameClock
<1>3. TypeOK'
  BY <1>1, <1>2 DEF IInv, TypeOK, clock
<1>4. Registered'
  BY <1>2 DEF IInv, Registered, Gone, clock
<1>5. Caught(w)' /\ Justified(w)'
  BY <1>1 DEF IInv, TypeOK, Caught, Justified, clock
<1>6. \A v \in Workers \ {w} : Still(v)
  BY <1>1 DEF Still, IInv, TypeOK
<1>7. pc'[w] # "store"
  BY <1>1 DEF IInv, TypeOK
<1> QED
  BY <1>2, <1>3, <1>4, <1>5, <1>6, <1>7, LocalStep

LEMMA GetRecordKeeps ==
    ASSUME IInv, NEW w \in Workers, GetRecord(w)
    PROVE  IInv'
<1>1. /\ pc[w] = "get" /\ token[w] \in issued /\ (dead[w] => Gone(token[w]))
      /\ UNCHANGED <<clock, stored, issued, ended>>
  BY DEF GetRecord, IInv, Caught
<1>2. now \in Nat /\ expiry[token[w]] \in Nat /\ dropped[token[w]] \in Nat
  BY <1>1, Numbers DEF IInv, Registered
<1>3. CASE Found(token[w])
  <2>1. Goto(w, "check") /\ UNCHANGED <<token, logout, out, refused, dead, unread>>
    BY <1>3 DEF GetRecord
  <2>2. dead[w] => now > expiry[token[w]]
    BY <1>1, <1>2, <1>3 DEF Found, Gone
  <2> QED
    BY <1>1, <2>1, <2>2, GotoKeeps
<1>4. CASE ~ Found(token[w])
  <2>1. Answer(w, "denied")
    BY <1>4 DEF GetRecord
  <2>2. Gone(token[w])
    BY <1>2, <1>4 DEF Found, Gone
  <2>3. token[w] \notin stored' => token[w] \in ended' \/ now > expiry[token[w]]
    BY <1>1 DEF IInv, Registered
  <2> QED
    BY <1>1, <2>1, <2>2, <2>3, AnswerKeeps
<1> QED
  BY <1>3, <1>4

LEMMA CheckKeeps ==
    ASSUME IInv, NEW w \in Workers, Check(w)
    PROVE  IInv'
<1>1. /\ pc[w] = "check" /\ token[w] \in issued
      /\ (dead[w] => now > expiry[token[w]])
      /\ UNCHANGED <<clock, issued, ended>>
      /\ token[w] \notin stored => token[w] \in ended \/ now > expiry[token[w]]
  BY DEF Check, IInv, Caught, Registered
<1>2. CASE ~ Lapsed(token[w]) /\ ~ logout[w]
  <2>1. Answer(w, "accepted") /\ stored' = stored /\ ~ dead[w]
    BY <1>1, <1>2 DEF Check, Lapsed
  <2> QED
    BY <1>1, <2>1, AnswerKeeps
<1>3. CASE ~ Lapsed(token[w]) /\ logout[w]
  <2>1. /\ Goto(w, "revoke") /\ ~ dead[w]
        /\ UNCHANGED <<token, logout, out, refused, dead, unread, stored>>
    BY <1>1, <1>3 DEF Check, Lapsed
  <2> QED
    BY <1>1, <2>1, GotoKeeps
<1>4. CASE Lapsed(token[w])
  <2>1. /\ Answer(w, "denied")
        /\ stored' = stored \ {token[w]} \/ stored' = stored
        /\ now > expiry[token[w]]
    BY <1>4 DEF Check, Lapsed
  <2>2. Gone(token[w])
    BY <2>1 DEF Gone
  <2> QED
    BY <1>1, <2>1, <2>2, AnswerKeeps
<1> QED
  BY <1>2, <1>3, <1>4

LEMMA RevokeKeeps ==
    ASSUME IInv, NEW w \in Workers, Revoke(w)
    PROVE  IInv'
<1>1. /\ pc[w] = "revoke" /\ ~ dead[w] /\ Answer(w, "loggedOut")
      /\ UNCHANGED <<clock, issued>>
      /\ token[w] \notin stored => token[w] \in ended \/ now > expiry[token[w]]
      /\ \/ /\ stored' = stored \ {token[w]}
            /\ ended' = ended \cup {token[w]}
         \/ UNCHANGED <<stored, ended>>
  BY DEF Revoke, Deleted, IInv, Caught, Registered
<1> QED
  BY <1>1, AnswerKeeps

(* A denial that follows from nothing in the store; it counts as none.     *)
LEMMA ReadFailsKeeps ==
    ASSUME IInv, NEW w \in Workers, ReadFails(w)
    PROVE  IInv'
<1>1. /\ pc[w] = "get"
      /\ pc' = [pc EXCEPT ![w] = "idle"]
      /\ out' = [out EXCEPT ![w] = "denied"]
      /\ unread' = [unread EXCEPT ![w] = TRUE]
      /\ UNCHANGED <<clock, stored, token, logout, issued, ended, refused, dead>>
  BY DEF ReadFails, Goto
<1>2. Forward /\ Drawn' = Drawn /\ token[w] \in issued
  BY <1>1, SameClock DEF IInv, Caught
<1>3. TypeOK'
  <2>1. out' \in [Workers -> {"none", "accepted", "denied", "loggedOut"}]
        /\ pc' \in [Workers -> {"idle", "store", "get", "check", "revoke"}]
    BY <1>1 DEF IInv, TypeOK
  <2>2. ASSUME NEW v \in Workers
        PROVE  pc'[v] # "idle" \/ out'[v] # "none" => token'[v] \in Drawn'
    BY <1>1, <1>2 DEF IInv, TypeOK
  <2> QED
    BY <1>1, <1>2, <2>1, <2>2 DEF IInv, TypeOK, clock
<1>4. Registered'
  BY <1>1, <1>2 DEF IInv, Registered, Gone, clock
<1>5. Caught(w)' /\ Justified(w)'
  BY <1>1, <1>2 DEF IInv, TypeOK, Caught, Justified
<1>6. \A v \in Workers \ {w} : Still(v)
  BY <1>1 DEF Still, IInv, TypeOK
<1> QED
  BY <1>1, <1>2, <1>3, <1>4, <1>5, <1>6, LocalStep DEF IInv, TypeOK

LEMMA WriteFailsKeeps ==
    ASSUME IInv, NEW w \in Workers, WriteFails(w)
    PROVE  IInv'
BY ForgetKeeps DEF WriteFails

LEMMA TickKeeps ==
    ASSUME IInv, Tick
    PROVE  IInv'
<1>1. /\ now' = now + 1 /\ now < MaxTime /\ now \in Nat /\ Drawn' = Drawn
      /\ UNCHANGED <<expiry, dropped, stored, pc, token, logout, out, issued, ended,
                     refused, dead, unread>>
  BY Numbers DEF Tick, IInv, Drawn
<1>2. TypeOK'
  BY <1>1, BoundsAssumption DEF IInv, TypeOK
<1>3. Forward
  BY <1>1 DEF Forward
<1>4. Registered'
  <2>1. ASSUME NEW t \in issued'
        PROVE  /\ dropped'[t] + Second > expiry'[t]
               /\ t \notin stored' => t \in ended' \/ now' > expiry'[t]
    <3>1. t \in issued /\ expiry[t] \in Nat
      BY <1>1, <2>1, Numbers DEF IInv, Registered
    <3> QED
      BY <1>1, <3>1 DEF IInv, Registered
  <2>2. ASSUME NEW t \in refused' \cup ended' PROVE Gone(t)'
    <3>1. t \in issued /\ Gone(t)
      BY <1>1, <2>2 DEF IInv, Registered
    <3> QED
      BY <1>2, <1>3, <3>1, GoneForGood DEF IInv
  <2> QED
    BY <1>1, <2>1, <2>2 DEF IInv, Registered
<1>5. ASSUME NEW w \in Workers PROVE Caught(w)' /\ Justified(w)'
  <2>1. Still(w) /\ (pc[w] = "store" => token[w] \notin issued')
    BY <1>1 DEF Still, IInv, Caught
  <2> QED
    BY <1>2, <1>3, <2>1, Frame
<1>6. Distinct'
  BY <1>1 DEF IInv, Distinct
<1> QED
  BY <1>2, <1>4, <1>5, <1>6 DEF IInv

LEMMA CrashKeeps ==
    ASSUME IInv, Crash
    PROVE  IInv'
<1>1. Drawn' = Drawn
  BY DEF Crash, clock, Drawn
<1>2. TypeOK'
  BY <1>1, BoundsAssumption DEF Crash, clock, IInv, TypeOK, NoToken
<1>3. Registered'
  BY <1>1 DEF Crash, clock, IInv, Registered, Gone
<1>4. Distinct' /\ \A w \in Workers : Caught(w)' /\ Justified(w)'
  BY DEF Crash, Distinct, Caught, Justified
<1> QED
  BY <1>2, <1>3, <1>4 DEF IInv

LEMMA NextKeeps == IInv /\ [Next]_vars => IInv'
<1> SUFFICES ASSUME IInv, [Next]_vars PROVE IInv'
  OBVIOUS
<1>1. CASE UNCHANGED vars
  <2>1. Drawn' = Drawn
    BY <1>1 DEF vars, clock, Drawn
  <2>2. TypeOK'
    BY <1>1, <2>1 DEF vars, clock, IInv, TypeOK
  <2>3. Registered'
    BY <1>1, <2>1 DEF vars, clock, IInv, Registered, Gone
  <2>4. Distinct'
    BY <1>1 DEF vars, IInv, Distinct
  <2>5. ASSUME NEW w \in Workers PROVE Caught(w)' /\ Justified(w)'
    BY <1>1, <2>1 DEF vars, clock, IInv, Caught, Justified, Gone
  <2> QED
    BY <2>2, <2>3, <2>4, <2>5 DEF IInv
<1> QED
  BY <1>1, StampKeeps, StoreSessionKeeps, ArriveKeeps, GetRecordKeeps, CheckKeeps,
     RevokeKeeps, ReadFailsKeeps, WriteFailsKeeps, TickKeeps, CrashKeeps DEF Next

LEMMA Inductive == Spec => []IInv
BY InitHolds, NextKeeps, PTL DEF Spec

-----------------------------------------------------------------------------
(* Every variable keeps its type; a record a logout has deleted does not   *)
(* come back (session.go:44-110).                                          *)
THEOREM TypeCorrect == Spec => []TypeOK
<1>1. IInv => TypeOK
  BY DEF IInv
<1> QED
  BY <1>1, Inductive, PTL

(* No request is served for a session that was over, logged out or denied, *)
(* on what the store answered, when the request arrived (session.go:76-96).*)
THEOREM AcceptancesJustified == Spec => []AcceptanceJustified
<1>1. IInv => AcceptanceJustified
  BY DEF IInv, Justified, AcceptanceJustified
<1> QED
  BY <1>1, Inductive, PTL

(* No session is denied before the last second of its time but after a     *)
(* logout, or because the store did not answer (session.go:78-83, 92-95;   *)
(* badger.go:65-70).                                                       *)
THEOREM DenialsJustified == Spec => []DenialJustified
<1>1. IInv => DenialJustified
  BY DEF IInv, Justified, DenialJustified
<1> QED
  BY <1>1, Inductive, PTL

-----------------------------------------------------------------------------
(* Sessions implements SessionsAbstract.  A step of worker w is seen as a  *)
(* change of its own request, or of the set of good tokens.                *)
SameSeen(w) == Progress(w)' = Progress(w) /\ Shown(w)' = Shown(w)

LEMMA SeenFrame ==
    ASSUME IInv, NEW w \in Workers, Still(w), now' = now,
           \A t \in Drawn : expiry'[t] = expiry[t]
    PROVE  SameSeen(w)
<1>1. pc[w] = "check" => expiry'[token[w]] = expiry[token[w]]
  BY DEF IInv, Caught, Registered
<1>2. Progress(w)' = Progress(w)
  BY <1>1 DEF Progress, Still
<1> QED
  BY <1>2 DEF SameSeen, Shown, Still

(* A worker's step, seen from outside.                                     *)
LEMMA OneSeen ==
    ASSUME NEW w \in Workers, \A v \in Workers \ {w} : SameSeen(v)
    PROVE  /\ [v \in Workers |-> Progress(v)]' =
                [[v \in Workers |-> Progress(v)] EXCEPT ![w] = Progress(w)']
           /\ [v \in Workers |-> Shown(v)]' =
                [[v \in Workers |-> Shown(v)] EXCEPT ![w] = Shown(w)']
BY DEF SameSeen

(* Tokens stay as good as they are while neither records nor time change.  *)
LEMMA GoodFrame ==
    ASSUME UNCHANGED <<now, dropped, stored, issued>>, \A t \in issued : expiry'[t] = expiry[t]
    PROVE  Good' = Good
BY DEF Good

(* A request that fails is forgotten, or was never seen.                   *)
LEMMA LeaveImplemented ==
    ASSUME NEW w \in Workers, \A v \in Workers \ {w} : SameSeen(v),
           Progress(w)' = "idle", Good' = Good, issued' = issued
    PROVE  Abstract!Next
<1>1. Shown(w)' = NoToken
  BY DEF Shown
<1>2. Abstract!Leave({w})
  BY <1>1 DEF Abstract!Leave, SameSeen
<1> QED
  BY <1>2 DEF Abstract!Next

LEMMA StampImplemented ==
    ASSUME IInv, NEW w \in Workers, Stamp(w)
    PROVE  Abstract!Next
<1>1. /\ expiry' = Append(expiry, now + TTL)
      /\ pc' = [pc EXCEPT ![w] = "store"]
      /\ token' = [token EXCEPT ![w] = Len(expiry) + 1]
      /\ out' = [out EXCEPT ![w] = "none"]
      /\ dead' = [dead EXCEPT ![w] = FALSE]
      /\ unread' = [unread EXCEPT ![w] = FALSE]
      /\ UNCHANGED <<now, dropped, stored, issued>>
  BY DEF Stamp, Goto
<1>2. \A t \in Drawn : expiry'[t] = expiry[t]
  BY <1>1, Numbers DEF IInv, TypeOK
<1>3. \A v \in Workers \ {w} : SameSeen(v)
  <2>1. \A v \in Workers \ {w} : Still(v)
    BY <1>1 DEF Still, IInv, TypeOK
  <2> QED
    BY <1>1, <1>2, <2>1, SeenFrame
<1>4. Progress(w)' = "idle"
  BY <1>1 DEF Progress, IInv, TypeOK
<1>5. Good' = Good
  BY <1>1, <1>2, GoodFrame DEF IInv, Registered
<1> QED
  BY <1>1, <1>3, <1>4, <1>5, LeaveImplemented

LEMMA StoreSessionImplemented ==
    ASSUME IInv, NEW w \in Workers, StoreSession(w)
    PROVE  Abstract!Next
<1> PICK t \in 1..MaxTokens : t = token[w] /\ t \notin issued
  BY Numbers DEF StoreSession, IInv, Caught
<1>1. /\ pc[w] = "store" /\ stored' = stored \cup {t}
      /\ dropped' = [dropped EXCEPT ![t] = DropTime(now)]
      /\ issued' = issued \cup {t}
      /\ pc' = [pc EXCEPT ![w] = "idle"]
      /\ out' = [out EXCEPT ![w] = "none"]
      /\ token' = [token EXCEPT ![w] = NoToken]
      /\ dead' = [dead EXCEPT ![w] = FALSE]
      /\ unread' = [unread EXCEPT ![w] = FALSE]
      /\ UNCHANGED <<now, expiry>>
  BY DEF StoreSession, Forget, Goto
<1>2. \A v \in Workers : SameSeen(v)
  <2>1. \A v \in Workers \ {w} : SameSeen(v)
    BY <1>1, SeenFrame DEF Still, IInv, TypeOK
  <2>2. Progress(w) = "idle" /\ Progress(w)' = "idle"
    BY <1>1 DEF Progress, IInv, TypeOK
  <2> QED
    BY <2>1, <2>2 DEF SameSeen, Shown
<1>3. Good' \in {Good, Good \cup {t}}
  <2>1. \A u \in issued : dropped'[u] = dropped[u]
    BY <1>1 DEF IInv, TypeOK
  <2>2. \A u : u # t => (u \in Good' <=> u \in Good)
    BY <1>1, <2>1 DEF Good
  <2>3. t \notin Good
    BY DEF Good
  <2>4. CASE t \in Good'
    BY <2>2, <2>3, <2>4
  <2>5. CASE t \notin Good'
    BY <2>2, <2>3, <2>5
  <2> QED
    BY <2>4, <2>5
<1>4. Abstract!Grant(t)
  BY <1>1, <1>2, <1>3 DEF Abstract!Grant, SameSeen
<1> QED
  BY <1>4 DEF Abstract!Next

LEMMA ArriveImplemented ==
    ASSUME IInv, NEW w \in Workers, NEW t \in 1..MaxTokens, NEW isLogout \in BOOLEAN,
           Arrive(w, t, isLogout)
    PROVE  Abstract!Next
<1>1. /\ pc[w] = "idle" /\ t \in issued
      /\ pc' = [pc EXCEPT ![w] = "get"]
      /\ token' = [token EXCEPT ![w] = t]
      /\ out' = [out EXCEPT ![w] = "none"]
      /\ \A v \in Workers \ {w} : dead'[v] = dead[v] /\ unread'[v] = unread[v]
      /\ UNCHANGED <<now, expiry, dropped, stored, issued>>
  BY DEF Arrive, Goto, clock, IInv, TypeOK
<1>2. \A v \in Workers \ {w} : SameSeen(v)
  BY <1>1, SeenFrame DEF Still, IInv, TypeOK
<1>3. Progress(w) \in {"idle", "accepted", "denied", "loggedOut", "unread"}
  BY <1>1 DEF Progress, IInv, TypeOK
<1>4. Progress(w)' = "waiting" /\ Shown(w)' = t
  BY <1>1 DEF Progress, Shown, IInv, TypeOK
<1>5. Good' = Good
  BY <1>1, GoodFrame
<1>6. Abstract!Ask(w, t)
  BY <1>1, <1>2, <1>3, <1>4, <1>5, OneSeen DEF Abstract!Ask, Abstract!OnItsWay
<1> QED
  BY <1>6 DEF Abstract!Next

(* An answer leaves the token it is about in sight.                        *)
LEMMA AnswerSeen ==
    ASSUME IInv, NEW w \in Workers, NEW s \in {"accepted", "denied", "loggedOut"},
           pc[w] \in {"get", "check", "revoke"}, Answer(w, s), UNCHANGED clock
    PROVE  /\ \A v \in Workers \ {w} : SameSeen(v)
           /\ Progress(w)' = s /\ Shown(w)' = token[w] /\ Shown(w) = token[w]
<1>1. /\ pc' = [pc EXCEPT ![w] = "idle"]
      /\ out' = [out EXCEPT ![w] = s]
      /\ UNCHANGED <<token, dead, unread, now, expiry>>
  BY DEF Answer, Goto, clock
<1>2. \A v \in Workers \ {w} : SameSeen(v)
  BY <1>1, SeenFrame DEF Still, IInv, TypeOK
<1>3. pc'[w] = "idle" /\ out'[w] = s /\ ~ unread'[w]
  BY <1>1 DEF IInv, TypeOK, Justified
<1>4. Progress(w)' = s
  BY <1>3 DEF Progress
<1>5. Progress(w) # "idle"
  BY DEF Progress
<1> QED
  BY <1>1, <1>2, <1>4, <1>5 DEF Shown

LEMMA GetRecordImplemented ==
    ASSUME IInv, NEW w \in Workers, GetRecord(w)
    PROVE  Abstract!Next
<1>1. /\ pc[w] = "get" /\ token[w] \in issued /\ token[w] \in Drawn
      /\ UNCHANGED <<clock, stored, issued, ended>>
      /\ UNCHANGED <<now, expiry, dropped>>
  BY DEF GetRecord, IInv, Caught, Registered, clock
<1>2. Good' = Good /\ Progress(w) = "waiting" /\ Shown(w) = token[w]
  BY <1>1, GoodFrame DEF Progress, Shown
<1>3. now \in Nat /\ expiry[token[w]] \in Nat /\ dropped[token[w]] \in Nat
  BY <1>1, Numbers DEF IInv
<1>4. CASE Found(token[w])
  <2>1. pc' = [pc EXCEPT ![w] = "check"] /\ UNCHANGED <<token, out, dead, unread>>
    BY <1>4 DEF GetRecord, Goto
  <2>2. \A v \in Workers \ {w} : SameSeen(v)
    BY <1>1, <2>1, SeenFrame DEF Still, IInv, TypeOK
  <2>3. pc'[w] = "check"
    BY <2>1 DEF IInv, TypeOK
  <2>4. Progress(w)' = IF token[w] \in Good THEN "good" ELSE "bad"
    BY <1>1, <1>3, <1>4, <2>1, <2>3 DEF Progress, Good, Found
  <2>5. Shown(w)' = token[w]
    BY <2>1, <2>4 DEF Shown
  <2>6. Abstract!Look(w)
    BY <1>1, <1>2, <2>2, <2>4, <2>5, OneSeen
       DEF Abstract!Look, Abstract!OnItsWay, Abstract!Seen
  <2> QED
    BY <2>6 DEF Abstract!Next
<1>5. CASE ~ Found(token[w])
  <2>1. Answer(w, "denied")
    BY <1>5 DEF GetRecord
  <2>2. token[w] \notin Good
    BY <1>5 DEF Good, Found
  <2>3. Abstract!Deny(w)
    BY <1>1, <1>2, <2>1, <2>2, AnswerSeen, OneSeen
       DEF Abstract!Deny, Abstract!OnItsWay, Abstract!Seen
  <2> QED
    BY <2>3 DEF Abstract!Next
<1> QED
  BY <1>4, <1>5

(* Deleting the record of a token that is over ends no other.              *)
LEMMA CheckImplemented ==
    ASSUME IInv, NEW w \in Workers, Check(w)
    PROVE  Abstract!Next \/ UNCHANGED <<issued, Good, [v \in Workers |-> Shown(v)],
                                       [v \in Workers |-> Progress(v)]>>
<1>1. /\ pc[w] = "check" /\ token[w] \in issued /\ token[w] \in Drawn
      /\ UNCHANGED <<clock, issued, ended>>
      /\ UNCHANGED <<now, expiry, dropped>>
  BY DEF Check, IInv, Caught, Registered, clock
<1>2. now \in Nat /\ expiry[token[w]] \in Nat
  BY <1>1, Numbers DEF IInv
<1>3. CASE ~ Lapsed(token[w]) /\ ~ logout[w]
  <2>1. Answer(w, "accepted") /\ stored' = stored
    BY <1>3 DEF Check
  <2>2. Progress(w) = "good" /\ Good' = Good
    BY <1>1, <1>3, <2>1, GoodFrame DEF Progress, Lapsed
  <2>3. Abstract!Accept(w)
    BY <1>1, <2>1, <2>2, AnswerSeen, OneSeen DEF Abstract!Accept
  <2> QED
    BY <2>3 DEF Abstract!Next
<1>4. CASE ~ Lapsed(token[w]) /\ logout[w]
  <2>1. pc' = [pc EXCEPT ![w] = "revoke"] /\ UNCHANGED <<token, out, dead, unread, stored>>
    BY <1>4 DEF Check, Goto
  <2>2. \A v \in Workers \ {w} : SameSeen(v)
    BY <1>1, <2>1, SeenFrame DEF Still, IInv, TypeOK
  <2>3. pc'[w] = "revoke"
    BY <2>1 DEF IInv, TypeOK
  <2>4. Progress(w) = "good" /\ Progress(w)' = "good" /\ Shown(w)' = Shown(w)
    BY <1>1, <1>4, <2>1, <2>3 DEF Progress, Shown, Lapsed
  <2>5. \A v \in Workers : SameSeen(v)
    BY <2>2, <2>4 DEF SameSeen
  <2> QED
    BY <1>1, <2>1, <2>5, GoodFrame DEF SameSeen
<1>5. CASE Lapsed(token[w])
  <2>1. Answer(w, "denied") /\ stored' \in {stored, stored \ {token[w]}}
    BY <1>5 DEF Check
  <2>2. Progress(w) = "bad"
    BY <1>1, <1>5 DEF Progress, Lapsed
  <2>3. token[w] \notin Good
    BY <1>2, <1>5 DEF Good, Lapsed
  <2>4. Good' = Good
    BY <1>1, <2>1, <2>3 DEF Good
  <2>5. Abstract!Deny(w)
    BY <1>1, <2>1, <2>2, <2>4, AnswerSeen, OneSeen DEF Abstract!Deny, Abstract!OnItsWay
  <2> QED
    BY <2>5 DEF Abstract!Next
<1> QED
  BY <1>3, <1>4, <1>5

LEMMA RevokeImplemented ==
    ASSUME IInv, NEW w \in Workers, Revoke(w)
    PROVE  Abstract!Next
<1>1. /\ pc[w] = "revoke" /\ Answer(w, "loggedOut")
      /\ UNCHANGED <<clock, issued>> /\ UNCHANGED <<now, expiry, dropped>>
      /\ stored' = stored \ {token[w]} \/ ("write" \in Faults /\ stored' = stored)
  BY DEF Revoke, Deleted, clock
<1>2. Progress(w) = "good" /\ Shown(w) = token[w]
  BY <1>1 DEF Progress, Shown
<1>3. Good' = Good \ {token[w]} \/ ("write" \in Faults /\ Good' = Good)
  BY <1>1 DEF Good
<1>4. Abstract!LogOut(w)
  BY <1>1, <1>2, <1>3, AnswerSeen, OneSeen DEF Abstract!LogOut
<1> QED
  BY <1>4 DEF Abstract!Next

(* A request denied because nobody could look at its token.                *)
LEMMA ReadFailsImplemented ==
    ASSUME IInv, NEW w \in Workers, ReadFails(w)
    PROVE  Abstract!Next
<1>1. /\ pc[w] = "get" /\ "read" \in Faults
      /\ pc' = [pc EXCEPT ![w] = "idle"]
      /\ out' = [out EXCEPT ![w] = "denied"]
      /\ unread' = [unread EXCEPT ![w] = TRUE]
      /\ UNCHANGED <<now, expiry, dropped, stored, token, issued, dead>>
  BY DEF ReadFails, Goto, clock
<1>2. \A v \in Workers \ {w} : SameSeen(v)
  BY <1>1, SeenFrame DEF Still, IInv, TypeOK
<1>3. pc'[w] = "idle" /\ unread'[w]
  BY <1>1 DEF IInv, TypeOK
<1>4. Progress(w) = "waiting" /\ Progress(w)' = "unread"
  BY <1>1, <1>3 DEF Progress
<1>5. Shown(w)' = Shown(w) /\ Good' = Good
  BY <1>1, <1>4, GoodFrame DEF Shown
<1>6. Abstract!RefuseUnread(w)
  BY <1>1, <1>2, <1>4, <1>5, OneSeen DEF Abstract!RefuseUnread
<1> QED
  BY <1>6 DEF Abstract!Next

LEMMA WriteFailsImplemented ==
    ASSUME IInv, NEW w \in Workers, WriteFails(w)
    PROVE  Abstract!Next
<1>1. /\ pc' = [pc EXCEPT ![w] = "idle"]
      /\ out' = [out EXCEPT ![w] = "none"]
      /\ token' = [token EXCEPT ![w] = NoToken]
      /\ dead' = [dead EXCEPT ![w] = FALSE]
      /\ unread' = [unread EXCEPT ![w] = FALSE]
      /\ UNCHANGED <<now, expiry, dropped, stored, issued>>
  BY DEF WriteFails, Forget, Goto, clock
<1>2. \A v \in Workers \ {w} : SameSeen(v)
  BY <1>1, SeenFrame DEF Still, IInv, TypeOK
<1>3. Progress(w)' = "idle"
  BY <1>1 DEF Progress, IInv, TypeOK
<1> QED
  BY <1>1, <1>2, <1>3, GoodFrame, LeaveImplemented

(* The clock ends sessions, under requests that have found their records.  *)
LEMMA TickImplemented ==
    ASSUME IInv, Tick
    PROVE  Abstract!Next
<1>1. /\ now' = now + 1 /\ now \in Nat
      /\ UNCHANGED <<expiry, dropped, stored, pc, token, out, issued, unread>>
  BY Numbers DEF Tick, IInv
<1>2. Good' \in SUBSET Good
  <2>1. \A t \in issued : expiry[t] \in Nat /\ dropped[t] \in Nat
    BY Numbers DEF IInv, Registered
  <2> QED
    BY <1>1, <2>1 DEF Good
<1> DEFINE W == {w \in Workers : pc[w] = "check" /\ now' > expiry[token[w]]}
<1>3. ASSUME NEW w \in Workers PROVE Shown(w)' = Shown(w)
  <2>1. Progress(w)' = "idle" <=> Progress(w) = "idle"
    BY <1>1 DEF Progress, IInv, TypeOK
  <2> QED
    BY <1>1, <2>1 DEF Shown
<1>4. ASSUME NEW w \in W
      PROVE  /\ Progress(w) \in {"waiting", "good", "bad"}
             /\ Progress(w)' = "bad" /\ Shown(w)' = token[w] /\ token[w] \notin Good'
  <2>1. w \in Workers /\ pc[w] = "check" /\ token[w] \in issued
    BY DEF IInv, Caught
  <2>2. expiry[token[w]] \in Nat
    BY <2>1, Numbers DEF IInv, Registered
  <2>3. Progress(w) \in {"waiting", "good", "bad"} /\ Progress(w)' = "bad"
    BY <1>1, <2>1 DEF Progress
  <2>4. token[w] \notin Good'
    BY <1>1, <2>1, <2>2 DEF Good
  <2> QED
    BY <1>1, <2>3, <2>4 DEF Shown
<1>5. ASSUME NEW w \in Workers \ W PROVE Progress(w)' = Progress(w)
  <2>1. CASE pc[w] = "check"
    <3>1. token[w] \in issued
      BY <2>1 DEF IInv, Caught
    <3>2. expiry[token[w]] \in Nat
      BY <3>1, Numbers DEF IInv, Registered
    <3>3. ~ (now' > expiry[token[w]]) /\ ~ (now > expiry[token[w]])
      BY <1>1, <2>1, <3>2
    <3> QED
      BY <1>1, <2>1, <3>3 DEF Progress
  <2>2. CASE pc[w] # "check"
    BY <1>1, <2>2 DEF Progress
  <2> QED
    BY <2>1, <2>2
<1>6. Abstract!Expire
  <2>1. W \subseteq {w \in Workers : Abstract!OnItsWay(w)}
    BY <1>4 DEF Abstract!OnItsWay
  <2>2. [w \in Workers |-> Progress(w)]' =
          [w \in Workers |-> IF w \in W THEN Abstract!Seen(w)' ELSE [v \in Workers |-> Progress(v)][w]]
    BY <1>4, <1>5 DEF Abstract!Seen
  <2> HIDE DEF W
  <2> QED
    BY <1>1, <1>2, <1>3, <2>1, <2>2 DEF Abstract!Expire
<1> QED
  BY <1>6 DEF Abstract!Next

LEMMA CrashImplemented ==
    ASSUME IInv, Crash
    PROVE  Abstract!Next
<1>1. /\ pc' = [w \in Workers |-> "idle"]
      /\ out' = [w \in Workers |-> "none"]
      /\ unread' = [w \in Workers |-> FALSE]
      /\ UNCHANGED <<now, expiry, dropped, stored, issued>>
  BY DEF Crash, clock
<1>2. \A w \in Workers : Progress(w)' = "idle" /\ Shown(w)' = NoToken
  BY <1>1 DEF Progress, Shown
<1>3. Abstract!Leave(Workers)
  BY <1>1, <1>2, GoodFrame DEF Abstract!Leave
<1> QED
  BY <1>3 DEF Abstract!Next

LEMMA StepImplemented == IInv /\ [Next]_vars => [Abstract!Next]_(Abstract!vars)
<1> SUFFICES ASSUME IInv, [Next]_vars
             PROVE  Abstract!Next \/ UNCHANGED <<issued, Good, [v \in Workers |-> Shown(v)],
                                                [v \in Workers |-> Progress(v)]>>
  BY DEF Abstract!vars
<1>1. CASE UNCHANGED vars
  <2>1. \A w \in Workers : SameSeen(w)
    BY <1>1 DEF vars, clock, SameSeen, Shown, Progress
  <2> QED
    BY <1>1, <2>1, GoodFrame DEF vars, clock, SameSeen
<1> QED
  BY <1>1, StampImplemented, StoreSessionImplemented, ArriveImplemented, GetRecordImplemented,
     CheckImplemented, RevokeImplemented, ReadFailsImplemented, WriteFailsImplemented,
     TickImplemented, CrashImplemented DEF Next

LEMMA InitImplemented == Init => Abstract!Init
BY DEF Init, Abstract!Init, Good, Shown, Progress

(* Sessions keeps the promise of SessionsAbstract: every step is one of its*)
(* steps or invisible (session.go:69-100).                                 *)
THEOREM Refinement == Spec => AbstractSpec
<1>1. IInv /\ [Next]_vars => [Abstract!Next]_(Abstract!vars)
  BY StepImplemented
<1> QED
  BY <1>1, Inductive, InitImplemented, PTL DEF Spec, AbstractSpec, Abstract!Spec

-----------------------------------------------------------------------------
(***************************************************************************)
(* The Go client and the requests it sends.                                *)
(***************************************************************************)

(* Every variable has its type.                                            *)
Types ==
    /\ clientToken \in [Clients -> Tokens \cup {Nothing}]
    /\ waits \in [Clients -> Requests \cup {0}]
    /\ sent \in 0..MaxRequests
    /\ stage \in [Requests -> Stages]
    /\ req \in [Requests -> RequestRecords \cup {NoRequest}]
    /\ policy \in [Requests -> Policies \cup {NoPolicy}]
    /\ answer \in [Requests -> Answers \cup {NoAnswer}]
    /\ live \in [Tokens -> Policies \cup {NoPolicy}]
    /\ service \in [Clients -> Policies \cup {NoPolicy}]
    /\ pending \subseteq 1..sent
    /\ grants \in [Policies -> RuleSets]
    /\ secret \in 0..sent
    /\ result \in [Clients -> Results \cup {NoResult}]
    /\ seen \in [Clients -> SUBSET (0..sent)]

HistoryTypes ==
    /\ vouched \in [Requests -> SUBSET Policies]
    /\ allowed \in [Requests -> BOOLEAN]

(* A request is whole while it is on its way, and only a call is checked.  *)
Shaped(n) ==
    /\ n > sent <=> stage[n] = "unsent"
    /\ stage[n] \notin {"unsent", "over"} => req[n] \in RequestRecords
    /\ stage[n] = "answered" => answer[n] \in Answers
    /\ stage[n] \in {"checked", "granted"} => policy[n] \in Policies /\ req[n].kind \in Calls
    /\ stage[n] = "answered" /\ req[n].kind = "verify" /\ answer[n].ok
         => answer[n].data # Nothing

(* Its token has carried the policy it goes on with, and one of those its  *)
(* token has carried has allowed it before it reaches the store.           *)
Permitted(n) ==
    /\ stage[n] = "checked" => policy[n] \in vouched[n]
    /\ stage[n] = "granted" => allowed[n]

(* The request a client waits for is its own; the secret of the moment is  *)
(* one it may be answered with, and what it has been answered with, or has *)
(* returned, was there.                                                    *)
Follows(c) ==
    waits[c] # 0 =>
        /\ waits[c] <= sent
        /\ req[waits[c]] \in RequestRecords
        /\ req[waits[c]].client = c
        /\ result[c] = NoResult
        /\ req[waits[c]].kind \in Calls => secret \in seen[c]
        /\ stage[waits[c]] = "answered" /\ req[waits[c]].kind = "get" /\ answer[waits[c]].ok
             => answer[waits[c]].data \in seen[c] \ {Nothing}

Real(c) ==
    result[c] # NoResult /\ result[c].call = "get" =>
        result[c].value \in seen[c] \ {Nothing}

ClientIInv ==
    /\ Types
    /\ HistoryTypes
    /\ \A n \in Requests : Shaped(n) /\ Permitted(n)
    /\ \A c \in Clients : Follows(c) /\ Real(c)

-----------------------------------------------------------------------------
LEMMA RequestNumbers ==
    ASSUME Types
    PROVE  /\ sent \in Nat /\ sent <= MaxRequests
           /\ \A n \in Requests : n \in Nat /\ n # 0 /\ n # Nothing
           /\ 0..sent \subseteq Requests \cup {Nothing}
           /\ 1..sent \subseteq Requests
           /\ sent < MaxRequests => sent + 1 \in Requests
BY RequestsAssumption DEF Types, Requests, Nothing

(* What a step leaves of a request, and of a client.                       *)
SameRequest(n) ==
    stage'[n] = stage[n] /\ req'[n] = req[n] /\ policy'[n] = policy[n] /\ answer'[n] = answer[n]

SameClient(c) ==
    /\ waits'[c] = waits[c] /\ result'[c] = result[c]
    /\ waits[c] = 0 => seen'[c] = seen[c]
    /\ waits[c] # 0 => /\ seen[c] \subseteq seen'[c]
                       /\ secret' = secret \/ secret' \in seen'[c]

(* The request a client waits for is not taken from it, nor answered.      *)
SameWait(c) ==
    waits[c] # 0 => /\ req'[waits[c]] = req[waits[c]]
                    /\ stage'[waits[c]] = "answered" =>
                         stage[waits[c]] = "answered" /\ answer'[waits[c]] = answer[waits[c]]

LEMMA ShapedFrame ==
    ASSUME ClientIInv, NEW n \in Requests, SameRequest(n),
           sent' = sent \/ (sent' = sent + 1 /\ n # sent + 1)
    PROVE  Shaped(n)'
<1>1. Shaped(n) /\ n \in Nat /\ sent \in Nat
  BY RequestNumbers DEF ClientIInv
<1>2. (n > sent) <=> (n > sent')
  BY <1>1
<1> QED
  BY <1>1, <1>2 DEF Shaped, SameRequest

LEMMA FollowsFrame ==
    ASSUME ClientIInv, NEW c \in Clients, SameClient(c), SameWait(c),
           sent' \in Nat, sent <= sent'
    PROVE  Follows(c)' /\ Real(c)'
<1>1. Follows(c) /\ Real(c) /\ sent \in Nat
  BY RequestNumbers DEF ClientIInv
<1>2. Real(c)'
  <2>1. CASE waits[c] = 0
    BY <1>1, <2>1 DEF Real, SameClient
  <2>2. CASE waits[c] # 0
    BY <1>1, <2>2 DEF Real, Follows, SameClient
  <2> QED
    BY <2>1, <2>2
<1>3. Follows(c)'
  <2> SUFFICES ASSUME waits[c] # 0 PROVE Follows(c)'
    BY DEF Follows, SameClient
  <2> DEFINE n == waits[c]
  <2>1. waits'[c] = n /\ n \in Nat /\ n <= sent'
    BY <1>1 DEF Follows, SameClient, ClientIInv, Types, Requests
  <2>2. req'[n] = req[n] /\ result'[c] = NoResult
    BY <1>1 DEF Follows, SameClient, SameWait
  <2>3. req[n].kind \in Calls => secret' \in seen'[c]
    BY <1>1 DEF Follows, SameClient
  <2>4. stage'[n] = "answered" /\ req[n].kind = "get" /\ answer'[n].ok
          => answer'[n].data \in seen'[c] \ {Nothing}
    BY <1>1 DEF Follows, SameClient, SameWait
  <2> HIDE DEF n
  <2> QED
    BY <1>1, <2>1, <2>2, <2>3, <2>4 DEF Follows, n
<1> QED
  BY <1>2, <1>3

(* The history after a step.                                               *)
LEMMA HistoryKeeps ==
    ASSUME ClientIInv, Types', Witness, \A n \in Requests : Shaped(n)'
    PROVE  HistoryTypes'
<1>1. ASSUME NEW n \in Requests PROVE OnItsWay(n)' => Carries(n)' \subseteq Policies
  <2> SUFFICES ASSUME OnItsWay(n)' PROVE Carries(n)' \subseteq Policies
    OBVIOUS
  <2>1. req'[n] \in RequestRecords
    BY DEF OnItsWay, Shaped
  <2>2. req'[n].token \in Tokens \cup {Nothing}
    BY <2>1 DEF RequestRecords
  <2> QED
    BY <2>2 DEF Carries, Types
<1>2. vouched' \in [Requests -> SUBSET Policies]
  BY <1>1 DEF Witness, ClientIInv, HistoryTypes
<1>3. allowed' \in [Requests -> BOOLEAN]
  BY DEF Witness
<1> QED
  BY <1>2, <1>3 DEF HistoryTypes

(* What the history says of a request that is on its way after a step.     *)
LEMMA WitnessSays ==
    ASSUME Witness, NEW n \in Requests, OnItsWay(n)'
    PROVE  /\ vouched'[n] = vouched[n] \cup Carries(n)'
           /\ allowed[n] => allowed'[n]
           /\ \A p \in vouched'[n] : Allows(p, req[n].kind)' => allowed'[n]
<1>1. vouched'[n] = vouched[n] \cup Carries(n)'
  BY DEF Witness
<1>2. allowed'[n] = (allowed[n] \/ \E p \in vouched'[n] : Allows(p, req[n].kind)')
  BY DEF Witness
<1> QED
  BY <1>1, <1>2

LEMMA PermittedFrame ==
    ASSUME ClientIInv, Types', Witness, NEW n \in Requests, SameRequest(n)
    PROVE  Permitted(n)'
<1>1. Permitted(n) /\ Shaped(n)
  BY DEF ClientIInv
<1>2. ASSUME stage[n] = "checked" PROVE policy'[n] \in vouched'[n]
  <2>1. OnItsWay(n)'
    BY <1>1, <1>2 DEF SameRequest, Shaped, OnItsWay
  <2>2. vouched[n] \subseteq vouched'[n]
    BY <2>1, WitnessSays
  <2> QED
    BY <1>1, <1>2, <2>2 DEF Permitted, SameRequest
<1>3. ASSUME stage[n] = "granted" PROVE allowed'[n]
  <2>1. OnItsWay(n)'
    BY <1>1, <1>3 DEF SameRequest, Shaped, OnItsWay
  <2> QED
    BY <1>1, <1>3, <2>1, WitnessSays DEF Permitted
<1> QED
  BY <1>2, <1>3 DEF Permitted, SameRequest

(* All that a step has to show.                                            *)
LEMMA StepKeeps ==
    ASSUME ClientIInv, Types', Witness,
           \A n \in Requests : Shaped(n)' /\ (SameRequest(n) \/ Permitted(n)'),
           \A c \in Clients : Follows(c)' /\ Real(c)'
    PROVE  ClientIInv'
<1>1. HistoryTypes'
  BY HistoryKeeps
<1>2. \A n \in Requests : Permitted(n)'
  BY PermittedFrame
<1> QED
  BY <1>1, <1>2 DEF ClientIInv

LEMMA ClientInitHolds == ClientInit => ClientIInv
<1> SUFFICES ASSUME ClientInit PROVE ClientIInv
  OBVIOUS
<1>1. Types
  <2>1. PICK p \in Policies : live = [t \in Tokens |-> IF t = Admin THEN p ELSE NoPolicy]
    BY DEF ClientInit
  <2>2. live \in [Tokens -> Policies \cup {NoPolicy}]
    BY <2>1
  <2> QED
    BY <2>2, RequestsAssumption DEF ClientInit, Types, Tokens, Stages, Nothing
<1>2. HistoryTypes
  BY DEF ClientInit, HistoryTypes
<1>3. ASSUME NEW n \in Requests PROVE Shaped(n) /\ Permitted(n)
  BY DEF ClientInit, Shaped, Permitted, Requests
<1>4. ASSUME NEW c \in Clients PROVE Follows(c) /\ Real(c)
  BY DEF ClientInit, Follows, Real
<1> QED
  BY <1>1, <1>2, <1>3, <1>4 DEF ClientIInv

-----------------------------------------------------------------------------
(* The server's steps.  An answer goes to the client that waits for it; a  *)
(* secret that it carries is the one of the moment.                        *)
LEMMA ReplyKeeps ==
    ASSUME ClientIInv, NEW n \in Requests, NEW ok \in BOOLEAN,
           NEW data \in Requests \cup {Nothing},
           stage[n] \in {"sent", "checked", "granted"}, Reply(n, ok, data), Witness,
           UNCHANGED <<clientToken, waits, sent, service, grants, result>>,
           live' \in [Tokens -> Policies \cup {NoPolicy}],
           pending' \subseteq 1..sent,
           secret' \in 0..sent,
           seen' \in [Clients -> SUBSET (0..sent)],
           \A c \in Clients : SameClient(c),
           ok /\ req[n].kind = "verify" => data # Nothing,
           ok /\ req[n].kind = "get" => data = secret /\ secret # Nothing
    PROVE  ClientIInv'
<1> DEFINE a == [ok |-> ok, data |-> data]
           c == req[n].client
<1>1. Shaped(n) /\ req[n] \in RequestRecords /\ c \in Clients /\ a \in Answers
      /\ sent \in Nat /\ n \in Nat /\ ~ (n > sent) /\ sent' = sent
  <2>1. Shaped(n)
    BY DEF ClientIInv
  <2>2. req[n] \in RequestRecords /\ ~ (n > sent)
    BY <2>1 DEF Shaped
  <2> QED
    BY <2>1, <2>2, RequestNumbers DEF ClientIInv, RequestRecords, Answers
<1>2. /\ policy' = [policy EXCEPT ![n] = NoPolicy]
      /\ waits[c] = n => /\ stage' = [stage EXCEPT ![n] = "answered"]
                         /\ answer' = [answer EXCEPT ![n] = a]
                         /\ req' = req
      /\ waits[c] # n => /\ stage' = [stage EXCEPT ![n] = "over"]
                         /\ req' = [req EXCEPT ![n] = NoRequest]
                         /\ answer' = answer
  BY DEF Reply
<1> HIDE DEF a, c
<1>3. Types'
  BY <1>1, <1>2 DEF ClientIInv, Types, Stages
<1>4. /\ policy'[n] = NoPolicy
      /\ waits[c] = n => stage'[n] = "answered" /\ answer'[n] = a /\ req'[n] = req[n]
      /\ waits[c] # n => stage'[n] = "over"
  BY <1>2 DEF ClientIInv, Types
<1>5. ASSUME NEW m \in Requests, m # n PROVE SameRequest(m)
  BY <1>2, <1>5 DEF SameRequest, ClientIInv, Types
<1>6. Shaped(n)' /\ Permitted(n)'
  <2>1. CASE waits[c] = n
    BY <1>1, <1>4, <2>1 DEF Shaped, Permitted, a
  <2>2. CASE waits[c] # n
    BY <1>1, <1>4, <2>2 DEF Shaped, Permitted
  <2> QED
    BY <2>1, <2>2
<1>7. ASSUME NEW d \in Clients PROVE Follows(d)' /\ Real(d)'
  <2>1. Follows(d) /\ Real(d)
    BY DEF ClientIInv
  <2>2. waits[d] \in Requests \cup {0}
    BY DEF ClientIInv, Types
  <2>3. CASE waits[d] # n \/ waits[c] # n
    <3>1. waits[d] # n
      BY <1>1, <2>1, <2>3, RequestNumbers DEF Follows, ClientIInv, c
    <3>2. SameWait(d)
      BY <1>5, <2>2, <3>1 DEF SameWait, SameRequest
    <3> QED
      BY <1>1, <3>2, FollowsFrame
  <2>4. CASE waits[d] = n /\ waits[c] = n
    <3>1. n # 0 /\ d = c
      BY <2>1, <2>4, RequestNumbers DEF Follows, ClientIInv, c
    <3>2. waits'[d] = n /\ n <= sent' /\ req'[n] = req[n] /\ result'[d] = NoResult
      BY <1>1, <1>4, <2>1, <2>4, <3>1 DEF Follows
    <3>3. req[n].kind \in Calls => secret \in seen[d] /\ secret \in seen'[d] /\ secret' \in seen'[d]
      BY <2>1, <2>4, <3>1 DEF Follows, SameClient
    <3>4. answer'[n].ok /\ req'[n].kind = "get" => answer'[n].data \in seen'[d] \ {Nothing}
      BY <1>4, <2>4, <3>3 DEF a, Calls
    <3>5. Real(d)'
      BY <3>2 DEF Real
    <3>6. Follows(d)'
      BY <1>1, <2>1, <2>4, <3>1, <3>2, <3>3, <3>4 DEF Follows
    <3> QED
      BY <3>5, <3>6
  <2> QED
    BY <2>3, <2>4
<1>8. \A m \in Requests : Shaped(m)' /\ (SameRequest(m) \/ Permitted(m)')
  BY <1>1, <1>5, <1>6, ShapedFrame
<1> QED
  BY <1>3, <1>7, <1>8, StepKeeps

LEMMA MovesKeeps ==
    ASSUME ClientIInv, NEW n \in Requests, NEW to \in {"checked", "granted"},
           stage[n] \in {"sent", "checked"}, req[n].kind \in Calls, Moves(n, to), Witness,
           UNCHANGED <<caller, sent, server, outcome>>,
           policy' \in [Requests -> Policies \cup {NoPolicy}], policy'[n] \in Policies,
           \A m \in Requests \ {n} : policy'[m] = policy[m],
           Permitted(n)'
    PROVE  ClientIInv'
<1>1. /\ stage' = [stage EXCEPT ![n] = to]
      /\ UNCHANGED <<req, answer, clientToken, waits, sent, live, service, pending, grants,
                     secret, result, seen>>
  BY DEF Moves, caller, server, outcome
<1>2. Types'
  BY <1>1 DEF ClientIInv, Types, Stages
<1>3. stage'[n] = to
  BY <1>1 DEF ClientIInv, Types
<1>4. ASSUME NEW m \in Requests, m # n PROVE SameRequest(m)
  BY <1>1, <1>4 DEF SameRequest, ClientIInv, Types
<1>5. Shaped(n)'
  <2>1. Shaped(n)
    BY DEF ClientIInv
  <2> QED
    BY <1>1, <1>3, <2>1 DEF Shaped
<1>6. ASSUME NEW c \in Clients PROVE Follows(c)' /\ Real(c)'
  <2>1. SameClient(c)
    BY <1>1 DEF SameClient
  <2>2. waits[c] \in Requests \cup {0}
    BY DEF ClientIInv, Types
  <2>3. SameWait(c)
    BY <1>1, <1>3, <2>2 DEF SameWait, ClientIInv, Types
  <2> QED
    BY <1>1, <2>1, <2>3, FollowsFrame, RequestNumbers DEF ClientIInv
<1>7. \A m \in Requests : Shaped(m)' /\ (SameRequest(m) \/ Permitted(m)')
  BY <1>1, <1>4, <1>5, ShapedFrame
<1> QED
  BY <1>2, <1>6, <1>7, StepKeeps

LEMMA ValidateKeeps ==
    ASSUME ClientIInv, NEW n \in Requests, Validate(n)
    PROVE  ClientIInv'
<1> DEFINE t == req[n].token
<1>1. /\ stage[n] = "sent" /\ req[n].kind \in Calls /\ Witness
      /\ UNCHANGED <<caller, sent, server, outcome>>
  BY DEF Validate, Handling
<1>2. req[n] \in RequestRecords /\ t \in Tokens \cup {Nothing}
  <2>1. req[n] \in RequestRecords
    BY <1>1 DEF ClientIInv, Shaped
  <2> QED
    BY <2>1 DEF RequestRecords
<1>3. CASE GoodToken(t) /\ Moves(n, "checked") /\ policy' = [policy EXCEPT ![n] = live[t]]
  <2>1. t # Nothing /\ live[t] # NoPolicy /\ live[t] \in Policies
    BY <1>2, <1>3 DEF GoodToken, ClientIInv, Types
  <2>2. policy' \in [Requests -> Policies \cup {NoPolicy}] /\ policy'[n] = live[t]
        /\ \A m \in Requests \ {n} : policy'[m] = policy[m]
    BY <1>3, <2>1 DEF ClientIInv, Types
  <2>3. stage'[n] = "checked" /\ req' = req /\ live' = live
    BY <1>1, <1>3 DEF Moves, ClientIInv, Types, server
  <2>4. Permitted(n)'
    <3>1. OnItsWay(n)' /\ live[t] \in Carries(n)'
      BY <1>1, <2>1, <2>3 DEF OnItsWay, Carries
    <3>2. live[t] \in vouched'[n]
      BY <1>1, <3>1, WitnessSays
    <3> QED
      BY <2>2, <2>3, <3>2 DEF Permitted
  <2> QED
    BY <1>1, <1>3, <2>1, <2>2, <2>4, MovesKeeps
<1>4. CASE Reply(n, FALSE, Nothing)
  <2>1. \A c \in Clients : SameClient(c)
    BY <1>1 DEF SameClient, caller, server, outcome
  <2> QED
    BY <1>1, <1>4, <2>1, ReplyKeeps DEF ClientIInv, Types, caller, server, outcome
<1> QED
  BY <1>3, <1>4 DEF Validate

LEMMA DecideKeeps ==
    ASSUME ClientIInv, NEW n \in Requests, Decide(n)
    PROVE  ClientIInv'
<1>1. /\ stage[n] = "checked" /\ req[n].kind \in Calls /\ Witness
      /\ UNCHANGED <<caller, sent, server, outcome>>
  BY DEF Decide, Handling
<1>2. CASE Allows(policy[n], req[n].kind)
  <2>1. Moves(n, "granted") /\ policy' = policy
    BY <1>2 DEF Decide, Capability
  <2>2. policy[n] \in Policies /\ policy[n] \in vouched[n]
    BY <1>1 DEF ClientIInv, Shaped, Permitted
  <2>3. stage'[n] = "granted" /\ req' = req /\ grants' = grants
    BY <1>1, <2>1 DEF Moves, ClientIInv, Types, server
  <2>4. Permitted(n)'
    <3>1. OnItsWay(n)'
      BY <1>1, <2>3 DEF OnItsWay
    <3>2. policy[n] \in vouched'[n]
      BY <1>1, <2>2, <3>1, WitnessSays
    <3>3. \A p : Allows(p, req[n].kind)' <=> Allows(p, req[n].kind)
      BY <2>3 DEF Allows
    <3>4. allowed'[n]
      BY <1>1, <1>2, <3>1, <3>2, <3>3, WitnessSays
    <3> QED
      BY <2>3, <3>4 DEF Permitted
  <2> QED
    BY <1>1, <2>1, <2>2, <2>4, MovesKeeps DEF ClientIInv, Types
<1>3. CASE ~ Allows(policy[n], req[n].kind)
  <2>1. Reply(n, FALSE, Nothing)
    BY <1>3 DEF Decide, Capability
  <2>2. \A c \in Clients : SameClient(c)
    BY <1>1 DEF SameClient, caller, server, outcome
  <2> QED
    BY <1>1, <2>1, <2>2, ReplyKeeps DEF ClientIInv, Types, caller, server, outcome
<1> QED
  BY <1>2, <1>3

(* A store call that leaves the secret, or writes it.                      *)
LEMMA ServeKeeps ==
    ASSUME ClientIInv, NEW n \in Requests, Serve(n)
    PROVE  ClientIInv'
<1>1. /\ stage[n] = "granted" /\ req[n].kind \in Calls /\ Witness
      /\ UNCHANGED <<clientToken, waits, sent, live, service, pending, grants, result>>
  BY DEF Serve, Handling, caller
<1>2. n \in 1..sent /\ secret \in 0..sent /\ secret \in Requests \cup {Nothing}
  <2>1. ~ (n > sent)
    BY <1>1 DEF ClientIInv, Shaped
  <2> QED
    BY <2>1, RequestNumbers DEF ClientIInv, Types
<1>3. ASSUME NEW value \in 0..sent, Holds(value)
      PROVE  /\ secret' \in 0..sent /\ seen' \in [Clients -> SUBSET (0..sent)]
             /\ \A c \in Clients : SameClient(c)
  <2>1. secret' = value
        /\ seen' = [c \in Clients |-> IF waits[c] = 0 THEN seen[c] ELSE seen[c] \cup {value}]
    BY <1>3 DEF Holds, Idle
  <2>2. seen' \in [Clients -> SUBSET (0..sent)]
    BY <2>1 DEF ClientIInv, Types
  <2>3. \A c \in Clients : SameClient(c)
    BY <1>1, <2>1 DEF SameClient
  <2> QED
    BY <2>1, <2>2, <2>3
<1>4. ASSUME Untouched
      PROVE  /\ secret' = secret /\ seen' = seen
             /\ secret' \in 0..sent /\ seen' \in [Clients -> SUBSET (0..sent)]
             /\ \A c \in Clients : SameClient(c)
  BY <1>1, <1>4 DEF Untouched, SameClient, ClientIInv, Types
<1>5. live' \in [Tokens -> Policies \cup {NoPolicy}] /\ pending' \subseteq 1..sent
  BY <1>1 DEF ClientIInv, Types
<1>6. CASE req[n].kind = "set" /\ Holds(n) /\ Reply(n, TRUE, Nothing)
  <2>1. n \in 0..sent
    BY <1>2
  <2> QED
    BY <1>1, <1>3, <1>5, <1>6, <2>1, ReplyKeeps
<1>7. CASE req[n].kind = "get" /\ secret # Nothing /\ Untouched /\ Reply(n, TRUE, secret)
  BY <1>1, <1>2, <1>4, <1>5, <1>7, ReplyKeeps
<1>8. CASE req[n].kind = "delete" /\ Holds(Nothing) /\ Reply(n, TRUE, Nothing)
  <2>1. Nothing \in 0..sent
    BY RequestNumbers DEF ClientIInv, Nothing
  <2> QED
    BY <1>1, <1>3, <1>5, <1>8, <2>1, ReplyKeeps
<1>9. CASE Untouched /\ Reply(n, FALSE, Nothing)
  BY <1>1, <1>4, <1>5, <1>9, ReplyKeeps
<1> QED
  BY <1>6, <1>7, <1>8, <1>9 DEF Serve

LEMMA IssueChallengeKeeps ==
    ASSUME ClientIInv, NEW n \in Requests, IssueChallenge(n)
    PROVE  ClientIInv'
<1>1. /\ stage[n] = "sent" /\ req[n].kind = "challenge" /\ Witness
      /\ UNCHANGED <<clientToken, waits, sent, live, service, grants, secret, result, seen>>
  BY DEF IssueChallenge, Handling, caller, outcome
<1>2. n \in 1..sent
  BY <1>1, RequestNumbers DEF ClientIInv, Shaped, Requests
<1>3. PICK ok \in BOOLEAN, data \in {n, Nothing} :
         Reply(n, ok, data) /\ pending' \in {pending, pending \cup {n}}
  BY DEF IssueChallenge
<1>4. pending' \subseteq 1..sent
  BY <1>2, <1>3 DEF ClientIInv, Types
<1>5. \A c \in Clients : SameClient(c)
  BY <1>1 DEF SameClient
<1>6. data \in Requests \cup {Nothing}
  OBVIOUS
<1> QED
  BY <1>1, <1>3, <1>4, <1>5, <1>6, ReplyKeeps DEF ClientIInv, Types

LEMMA VerifyKeeps ==
    ASSUME ClientIInv, NEW n \in Requests, Verify(n)
    PROVE  ClientIInv'
<1> DEFINE p == service[req[n].client]
<1>1. /\ stage[n] = "sent" /\ req[n].kind = "verify" /\ Witness
      /\ pending' = pending \ {req[n].challenge}
      /\ UNCHANGED <<clientToken, waits, sent, service, grants, secret, result, seen>>
  BY DEF Verify, Handling, caller, outcome
<1>2. p \in Policies \cup {NoPolicy}
  <2>1. req[n] \in RequestRecords
    BY <1>1 DEF ClientIInv, Shaped
  <2>2. req[n].client \in Clients
    BY <2>1 DEF RequestRecords
  <2> QED
    BY <2>2 DEF ClientIInv, Types
<1>3. \A c \in Clients : SameClient(c)
  BY <1>1 DEF SameClient
<1>4. pending' \subseteq 1..sent /\ n # Nothing
  BY <1>1, RequestNumbers DEF ClientIInv, Types
<1>5. CASE live' = [live EXCEPT ![n] = p] /\ Reply(n, TRUE, n)
  <2>1. live' \in [Tokens -> Policies \cup {NoPolicy}]
    BY <1>2, <1>5 DEF ClientIInv, Types
  <2> QED
    BY <1>1, <1>3, <1>4, <1>5, <2>1, ReplyKeeps DEF ClientIInv, Types
<1>6. CASE Reply(n, FALSE, Nothing) /\ UNCHANGED live
  BY <1>1, <1>3, <1>4, <1>6, ReplyKeeps DEF ClientIInv, Types
<1> QED
  BY <1>5, <1>6 DEF Verify

LEMMA LoseKeeps ==
    ASSUME ClientIInv, NEW n \in Requests, Lose(n)
    PROVE  ClientIInv'
<1> DEFINE c == req[n].client
           r == IF waits[c] = n THEN req[n] ELSE NoRequest
<1>1. /\ stage[n] \in {"sent", "checked", "granted"} /\ Witness
      /\ stage' = [stage EXCEPT ![n] = "over"]
      /\ req' = [req EXCEPT ![n] = r]
      /\ policy' = [policy EXCEPT ![n] = NoPolicy]
      /\ UNCHANGED <<clientToken, waits, sent, answer, live, service, pending, grants, secret,
                     result, seen>>
  BY DEF Lose, caller, server, outcome, ClientIInv, Types
<1>2. Shaped(n) /\ req[n] \in RequestRecords
  BY <1>1 DEF ClientIInv, Shaped
<1>3. r \in RequestRecords \cup {NoRequest}
  BY <1>2
<1> HIDE DEF r
<1>4. Types'
  BY <1>1, <1>3 DEF ClientIInv, Types, Stages
<1>5. stage'[n] = "over" /\ req'[n] = r
  BY <1>1 DEF ClientIInv, Types
<1>6. ASSUME NEW m \in Requests, m # n PROVE SameRequest(m)
  BY <1>1, <1>6 DEF SameRequest, ClientIInv, Types
<1>7. Shaped(n)' /\ Permitted(n)'
  BY <1>1, <1>2, <1>5 DEF Shaped, Permitted
<1>8. ASSUME NEW d \in Clients PROVE Follows(d)' /\ Real(d)'
  <2>1. SameClient(d)
    BY <1>1 DEF SameClient
  <2>2. waits[d] \in Requests \cup {0} /\ Follows(d)
    BY DEF ClientIInv, Types
  <2>3. waits[d] = n => d = c
    BY <2>2, RequestNumbers DEF Follows, ClientIInv
  <2>4. SameWait(d)
    <3>1. CASE waits[d] = n
      BY <1>5, <2>3, <3>1 DEF SameWait, r
    <3>2. CASE waits[d] # n
      BY <1>6, <2>2, <3>2 DEF SameWait, SameRequest
    <3> QED
      BY <3>1, <3>2
  <2> QED
    BY <1>1, <2>1, <2>4, FollowsFrame, RequestNumbers DEF ClientIInv
<1>9. \A m \in Requests : Shaped(m)' /\ (SameRequest(m) \/ Permitted(m)')
  BY <1>1, <1>6, <1>7, ShapedFrame
<1> QED
  BY <1>1, <1>4, <1>8, <1>9, StepKeeps

(* What others do meanwhile changes neither requests nor the secret.       *)
LEMMA OthersKeep ==
    ASSUME ClientIInv, Witness,
           UNCHANGED <<caller, requests, pending, secret, outcome>>,
           live' \in [Tokens -> Policies \cup {NoPolicy}],
           service' \in [Clients -> Policies \cup {NoPolicy}],
           grants' \in [Policies -> RuleSets]
    PROVE  ClientIInv'
<1>1. UNCHANGED <<clientToken, waits, sent, stage, req, policy, answer, pending, secret,
                  result, seen>>
  BY DEF caller, requests, outcome
<1>2. Types'
  BY <1>1 DEF ClientIInv, Types
<1>3. ASSUME NEW n \in Requests PROVE SameRequest(n) /\ Shaped(n)'
  <2>1. SameRequest(n)
    BY <1>1 DEF SameRequest
  <2> QED
    BY <1>1, <2>1, ShapedFrame
<1>4. ASSUME NEW c \in Clients PROVE Follows(c)' /\ Real(c)'
  <2>1. SameClient(c) /\ SameWait(c)
    BY <1>1 DEF SameClient, SameWait
  <2> QED
    BY <1>1, <2>1, FollowsFrame, RequestNumbers DEF ClientIInv
<1> QED
  BY <1>2, <1>3, <1>4, StepKeeps

LEMMA EndKeeps ==
    ASSUME ClientIInv, NEW t \in Tokens, End(t)
    PROVE  ClientIInv'
<1>1. /\ live' = [live EXCEPT ![t] = NoPolicy] /\ Witness
      /\ UNCHANGED <<caller, requests, service, pending, grants, secret, outcome>>
  BY DEF End
<1>2. live' \in [Tokens -> Policies \cup {NoPolicy}]
  BY <1>1 DEF ClientIInv, Types
<1> QED
  BY <1>1, <1>2, OthersKeep DEF ClientIInv, Types

LEMMA EnrollKeeps ==
    ASSUME ClientIInv, NEW c \in Clients, NEW p \in Policies \cup {NoPolicy}, Enroll(c, p)
    PROVE  ClientIInv'
BY OthersKeep DEF Enroll, ClientIInv, Types

LEMMA ReloadKeeps ==
    ASSUME ClientIInv, NEW p \in Policies, NEW calls \in RuleSets, Reload(p, calls)
    PROVE  ClientIInv'
BY OthersKeep DEF Reload, ClientIInv, Types

-----------------------------------------------------------------------------
(* The client's steps.  It sends a request,                                *)
LEMMA SendKeeps ==
    ASSUME ClientIInv, NEW c \in Clients, NEW kind \in Calls \cup Logins, Idle(c),
           Send(c, kind, Nothing), NEW S \in SUBSET (0..sent), kind \in Calls => secret \in S,
           result' = [result EXCEPT ![c] = NoResult],
           seen' = [seen EXCEPT ![c] = S],
           UNCHANGED <<clientToken, policy, answer, server>>, Witness
    PROVE  ClientIInv'
<1>0. sent < MaxRequests /\ sent + 1 \in Requests /\ sent \in Nat
  BY RequestNumbers DEF Send, ClientIInv
<1> PICK n \in Requests : n = sent + 1
  BY <1>0
<1> DEFINE t == IF kind \in Calls THEN clientToken[c] ELSE Nothing
           r == [client |-> c, kind |-> kind, token |-> t, challenge |-> Nothing]
<1>1. /\ sent < MaxRequests /\ sent' = n
      /\ waits' = [waits EXCEPT ![c] = n]
      /\ stage' = [stage EXCEPT ![n] = "sent"]
      /\ req' = [req EXCEPT ![n] = r]
      /\ UNCHANGED <<live, service, pending, grants, secret>>
  BY DEF Send, server
<1>2. sent \in Nat /\ n \in Nat /\ n \in Requests /\ n # 0 /\ n <= MaxRequests
  BY <1>0, RequestsAssumption
<1>3. r \in RequestRecords
  BY DEF RequestRecords, ClientIInv, Types
<1> HIDE DEF r
<1>4. Types'
  <2>1. 0..sent \subseteq 0..sent' /\ 1..sent \subseteq 1..sent' /\ sent' \in 0..MaxRequests
    BY <1>1, <1>2, RequestsAssumption
  <2>2. seen' \in [Clients -> SUBSET (0..sent')]
    BY <2>1 DEF ClientIInv, Types
  <2> QED
    BY <1>1, <1>2, <1>3, <2>1, <2>2 DEF ClientIInv, Types, Stages
<1>5. stage'[n] = "sent" /\ req'[n] = r /\ r.client = c /\ r.kind = kind
  BY <1>1, <1>2 DEF ClientIInv, Types, r
<1>6. ASSUME NEW m \in Requests, m # n PROVE SameRequest(m)
  BY <1>1, <1>6 DEF SameRequest, ClientIInv, Types
<1>7. Shaped(n)' /\ Permitted(n)'
  BY <1>1, <1>2, <1>3, <1>5 DEF Shaped, Permitted
<1>8. Follows(c)' /\ Real(c)'
  <2>1. waits'[c] = n /\ result'[c] = NoResult /\ seen'[c] = S
    BY <1>1 DEF ClientIInv, Types
  <2> QED
    BY <1>1, <1>2, <1>3, <1>5, <2>1 DEF Follows, Real
<1>9. ASSUME NEW d \in Clients \ {c} PROVE Follows(d)' /\ Real(d)'
  <2>1. SameClient(d)
    BY <1>1 DEF SameClient, ClientIInv, Types
  <2>2. Follows(d) /\ waits[d] \in Requests \cup {0}
    BY DEF ClientIInv, Types
  <2>3. waits[d] # n
    BY <1>2, <2>2 DEF Follows
  <2>4. SameWait(d)
    BY <1>6, <2>2, <2>3 DEF SameWait, SameRequest
  <2> QED
    BY <1>1, <1>2, <2>1, <2>4, FollowsFrame
<1>10. \A m \in Requests : Shaped(m)' /\ (SameRequest(m) \/ Permitted(m)')
  BY <1>1, <1>6, <1>7, ShapedFrame
<1> QED
  BY <1>4, <1>8, <1>9, <1>10, StepKeeps

LEMMA CallKeeps ==
    ASSUME ClientIInv, NEW c \in Clients, NEW call \in Calls, Call(c, call)
    PROVE  ClientIInv'
<1>1. {secret} \in SUBSET (0..sent)
  BY DEF ClientIInv, Types
<1> QED
  BY <1>1, SendKeeps DEF Call

LEMMA AuthenticateKeeps ==
    ASSUME ClientIInv, NEW c \in Clients, Authenticate(c)
    PROVE  ClientIInv'
<1>1. {} \in SUBSET (0..sent) /\ "challenge" \in Logins /\ "challenge" \notin Calls
  BY DEF Logins, Calls
<1> QED
  BY <1>1, SendKeeps DEF Authenticate

(* reads the answer to the one it waits for, or gives it up,               *)
LEMMA EndOfCallKeeps ==
    ASSUME ClientIInv, NEW c \in Clients, waits[c] # 0,
           waits' = [waits EXCEPT ![c] = 0],
           Read(waits[c]) \/ UNCHANGED <<sent, stage, req, answer>>,
           clientToken' \in [Clients -> Tokens \cup {Nothing}],
           result' \in [Clients -> Results \cup {NoResult}],
           seen' \in [Clients -> SUBSET (0..sent)],
           \A d \in Clients \ {c} : result'[d] = result[d] /\ seen'[d] = seen[d],
           Real(c)',
           UNCHANGED <<policy, server>>, Witness
    PROVE  ClientIInv'
<1> PICK n \in Requests : n = waits[c]
  BY DEF ClientIInv, Types
<1>1. /\ n \in Nat /\ ~ (n > sent) /\ sent \in Nat
      /\ req[n].client = c /\ Shaped(n) /\ sent' = sent
      /\ UNCHANGED <<policy, live, service, pending, grants, secret>>
  <2>1. n \in Nat /\ sent \in Nat
    BY RequestNumbers DEF ClientIInv
  <2>2. Follows(c) /\ Shaped(n)
    BY DEF ClientIInv
  <2> QED
    BY <2>1, <2>2 DEF Follows, Read, server
<1>2. \/ /\ stage' = [stage EXCEPT ![n] = "over"]
         /\ req' = [req EXCEPT ![n] = NoRequest]
         /\ answer' = [answer EXCEPT ![n] = NoAnswer]
      \/ UNCHANGED <<stage, req, answer>>
  BY DEF Read
<1>3. Types'
  BY <1>1, <1>2 DEF ClientIInv, Types, Stages
<1>4. ASSUME NEW m \in Requests, m # n PROVE SameRequest(m)
  BY <1>1, <1>2, <1>4 DEF SameRequest, ClientIInv, Types
<1>5. SameRequest(n) \/ (Shaped(n)' /\ Permitted(n)')
  <2>1. CASE stage' = [stage EXCEPT ![n] = "over"]
    <3>1. stage'[n] = "over"
      BY <1>1, <2>1 DEF ClientIInv, Types
    <3> QED
      BY <1>1, <3>1 DEF Shaped, Permitted
  <2>2. CASE UNCHANGED <<stage, req, answer>>
    BY <1>1, <2>2 DEF SameRequest
  <2> QED
    BY <1>2, <2>1, <2>2
<1>6. ASSUME NEW d \in Clients \ {c} PROVE Follows(d)' /\ Real(d)'
  <2>1. SameClient(d)
    BY <1>1 DEF SameClient, ClientIInv, Types
  <2>2. Follows(d) /\ waits[d] \in Requests \cup {0}
    BY DEF ClientIInv, Types
  <2>3. waits[d] # 0 => waits[d] # n
    BY <1>1, <2>2 DEF Follows
  <2>4. SameWait(d)
    BY <1>4, <2>2, <2>3 DEF SameWait, SameRequest
  <2> QED
    BY <1>1, <2>1, <2>4, FollowsFrame
<1>7. Follows(c)'
  BY DEF Follows, ClientIInv, Types
<1>8. \A m \in Requests : Shaped(m)' /\ (SameRequest(m) \/ Permitted(m)')
  BY <1>1, <1>4, <1>5, ShapedFrame
<1> QED
  BY <1>3, <1>6, <1>7, <1>8, StepKeeps

LEMMA VerifiedKeeps ==
    ASSUME ClientIInv, NEW c \in Clients, Verified(c)
    PROVE  ClientIInv'
<1>1. /\ waits[c] # 0 /\ stage[waits[c]] = "answered" /\ Witness
      /\ waits' = [waits EXCEPT ![c] = 0]
      /\ seen' = [seen EXCEPT ![c] = {}]
      /\ clientToken' = [clientToken EXCEPT ![c] = answer[waits[c]].data]
      /\ Read(waits[c])
      /\ UNCHANGED <<result, policy, server>>
  BY DEF Verified, Answered, Ends
<1>2. answer[waits[c]].data \in Tokens \cup {Nothing}
  <2>1. answer[waits[c]] \in Answers
    BY <1>1 DEF ClientIInv, Types, Shaped
  <2> QED
    BY <2>1 DEF Answers, Tokens
<1>3. Real(c)'
  <2>1. result[c] = NoResult
    BY <1>1 DEF ClientIInv, Follows
  <2> QED
    BY <1>1, <2>1 DEF Real
<1>4. /\ clientToken' \in [Clients -> Tokens \cup {Nothing}]
      /\ result' \in [Clients -> Results \cup {NoResult}]
      /\ seen' \in [Clients -> SUBSET (0..sent)]
      /\ \A d \in Clients \ {c} : result'[d] = result[d] /\ seen'[d] = seen[d]
  BY <1>1, <1>2 DEF ClientIInv, Types
<1> QED
  BY <1>1, <1>3, <1>4, EndOfCallKeeps

LEMMA ReturnKeeps ==
    ASSUME ClientIInv, NEW c \in Clients, Return(c)
    PROVE  ClientIInv'
<1> PICK n \in Requests : n = waits[c]
  BY DEF Return, Answered, ClientIInv, Types
<1> DEFINE call == req[n].kind
           a == answer[n]
<1>1. /\ waits[c] # 0 /\ stage[n] = "answered" /\ call \in Calls /\ Witness
      /\ IF call = "get" /\ ~ a.ok
         THEN Ends(c)
         ELSE Succeeds(c, call, a.data)
      /\ Read(n)
      /\ UNCHANGED <<clientToken, policy, server>>
  BY DEF Return, Answered, LooksAtError
<1>2. Follows(c) /\ a \in Answers /\ a.data \in Requests \cup {Nothing}
  <2>1. a \in Answers
    BY <1>1 DEF ClientIInv, Shaped
  <2> QED
    BY <2>1 DEF ClientIInv, Answers
<1> HIDE DEF a, call
<1>3. waits' = [waits EXCEPT ![c] = 0] /\ clientToken' \in [Clients -> Tokens \cup {Nothing}]
  BY <1>1 DEF Ends, Succeeds, ClientIInv, Types
<1>4. CASE Ends(c)
  <2>1. result' = result /\ seen' = [seen EXCEPT ![c] = {}]
    BY <1>4 DEF Ends
  <2>2. /\ result' \in [Clients -> Results \cup {NoResult}]
        /\ seen' \in [Clients -> SUBSET (0..sent)]
        /\ \A d \in Clients \ {c} : result'[d] = result[d] /\ seen'[d] = seen[d]
    BY <2>1 DEF ClientIInv, Types
  <2>3. Real(c)'
    BY <1>1, <1>2, <2>1 DEF Real, Follows
  <2> QED
    BY <1>1, <1>3, <2>2, <2>3, EndOfCallKeeps
<1>5. CASE Succeeds(c, call, a.data) /\ (call = "get" => a.ok)
  <2> DEFINE r == [call |-> call, value |-> a.data]
  <2>1. result' = [result EXCEPT ![c] = r] /\ seen' = seen
    BY <1>5 DEF Succeeds
  <2>2. r \in Results
    BY <1>1, <1>2 DEF Results
  <2>3. /\ result' \in [Clients -> Results \cup {NoResult}]
        /\ seen' \in [Clients -> SUBSET (0..sent)]
        /\ \A d \in Clients \ {c} : result'[d] = result[d] /\ seen'[d] = seen[d]
    BY <2>1, <2>2 DEF ClientIInv, Types
  <2>4. call = "get" => a.data \in seen[c] \ {Nothing}
    BY <1>1, <1>2, <1>5 DEF Follows, a, call
  <2>5. Real(c)'
    <3>1. result'[c] = r
      BY <2>1 DEF ClientIInv, Types
    <3> QED
      BY <2>1, <2>4, <3>1 DEF Real
  <2> QED
    BY <1>1, <1>3, <2>3, <2>5, EndOfCallKeeps
<1> QED
  BY <1>1, <1>4, <1>5

LEMMA FailKeeps ==
    ASSUME ClientIInv, NEW c \in Clients, Fail(c)
    PROVE  ClientIInv'
<1>1. /\ waits[c] # 0 /\ Witness
      /\ waits' = [waits EXCEPT ![c] = 0]
      /\ seen' = [seen EXCEPT ![c] = {}]
      /\ clientToken' = [clientToken EXCEPT ![c] = clientToken[c]]
      /\ Read(waits[c]) \/ UNCHANGED <<sent, stage, req, answer>>
      /\ UNCHANGED <<result, policy, server>>
  BY DEF Fail, Idle, Ends, TokenAfterFailure
<1>2. Real(c)'
  <2>1. result[c] = NoResult
    BY <1>1 DEF ClientIInv, Follows
  <2> QED
    BY <1>1, <2>1 DEF Real
<1>3. /\ clientToken' \in [Clients -> Tokens \cup {Nothing}]
      /\ result' \in [Clients -> Results \cup {NoResult}]
      /\ seen' \in [Clients -> SUBSET (0..sent)]
      /\ \A d \in Clients \ {c} : result'[d] = result[d] /\ seen'[d] = seen[d]
  BY <1>1 DEF ClientIInv, Types
<1> QED
  BY <1>1, <1>2, <1>3, EndOfCallKeeps

(* or does both.                                                           *)
LEMMA ChallengedKeeps ==
    ASSUME ClientIInv, NEW c \in Clients, Challenged(c)
    PROVE  ClientIInv'
<1>1. /\ waits[c] # 0 /\ stage[waits[c]] = "answered" /\ Witness
      /\ ReadAndSend(c, waits[c], "verify", answer[waits[c]].data)
      /\ UNCHANGED <<clientToken, policy, live, service, pending, grants, secret, result, seen>>
  BY DEF Challenged, Answered, server, outcome
<1>2. sent < MaxRequests /\ sent + 1 \in Requests /\ sent \in Nat
  BY <1>1, RequestNumbers DEF ReadAndSend, ClientIInv
<1> PICK n \in Requests : n = waits[c]
  BY <1>1 DEF ClientIInv, Types
<1> PICK k \in Requests : k = sent + 1
  BY <1>2
<1> DEFINE r == [client |-> c, kind |-> "verify", challenge |-> answer[n].data, token |-> Nothing]
<1>3. /\ sent' = k
      /\ waits' = [waits EXCEPT ![c] = k]
      /\ stage' = [stage EXCEPT ![n] = "over", ![k] = "sent"]
      /\ req' = [req EXCEPT ![n] = NoRequest, ![k] = r]
      /\ answer' = [answer EXCEPT ![n] = NoAnswer]
  BY <1>1 DEF ReadAndSend
<1>4. /\ Follows(c) /\ Shaped(n) /\ req[n].client = c /\ answer[n] \in Answers
      /\ n \in Nat /\ n # 0 /\ n <= sent /\ n # k /\ k \in Nat /\ k # 0 /\ k <= MaxRequests
  <2>1. Follows(c) /\ Shaped(n) /\ n \in Nat /\ n # 0
    BY RequestNumbers DEF ClientIInv
  <2> QED
    BY <1>1, <1>2, <2>1, RequestsAssumption DEF Follows, Shaped
<1>5. r \in RequestRecords
  BY <1>4 DEF Answers, RequestRecords, Logins
<1> HIDE DEF r
<1>6. Types'
  <2>1. 0..sent \subseteq 0..sent' /\ 1..sent \subseteq 1..sent' /\ sent' \in 0..MaxRequests
    BY <1>2, <1>3, <1>4, RequestsAssumption
  <2>2. seen' \in [Clients -> SUBSET (0..sent')]
    BY <1>1, <2>1 DEF ClientIInv, Types
  <2> QED
    BY <1>1, <1>3, <1>5, <2>1, <2>2 DEF ClientIInv, Types, Stages
<1>7. stage'[k] = "sent" /\ req'[k] = r /\ stage'[n] = "over"
  BY <1>3, <1>4 DEF ClientIInv, Types
<1>8. ASSUME NEW m \in Requests, m # n, m # k PROVE SameRequest(m)
  BY <1>1, <1>3, <1>8 DEF SameRequest, ClientIInv, Types
<1>9. Shaped(k)' /\ Permitted(k)' /\ Shaped(n)' /\ Permitted(n)'
  <2>1. ~ (n > sent') /\ ~ (k > sent')
    BY <1>2, <1>3, <1>4
  <2> QED
    BY <1>5, <1>7, <2>1 DEF Shaped, Permitted
<1>10. Follows(c)' /\ Real(c)'
  <2>1. waits'[c] = k /\ result'[c] = NoResult /\ r.client = c /\ r.kind = "verify"
    BY <1>1, <1>3, <1>4 DEF ClientIInv, Types, Follows, r
  <2> QED
    BY <1>3, <1>4, <1>5, <1>7, <2>1 DEF Follows, Real, Calls
<1>11. ASSUME NEW d \in Clients \ {c} PROVE Follows(d)' /\ Real(d)'
  <2>1. SameClient(d)
    BY <1>1, <1>3 DEF SameClient, ClientIInv, Types
  <2>2. Follows(d) /\ waits[d] \in Requests \cup {0}
    BY DEF ClientIInv, Types
  <2>3. waits[d] # 0 => waits[d] # n /\ waits[d] # k
    BY <1>2, <1>4, <2>2 DEF Follows
  <2>4. SameWait(d)
    BY <1>8, <2>2, <2>3 DEF SameWait, SameRequest
  <2> QED
    BY <1>2, <1>3, <1>4, <2>1, <2>4, FollowsFrame
<1>12. \A m \in Requests : Shaped(m)' /\ (SameRequest(m) \/ Permitted(m)')
  BY <1>3, <1>8, <1>9, ShapedFrame
<1> QED
  BY <1>1, <1>6, <1>10, <1>11, <1>12, StepKeeps

LEMMA ClientNextKeeps == ClientIInv /\ [ClientNext]_clientVars => ClientIInv'
<1> SUFFICES ASSUME ClientIInv, [ClientNext]_clientVars PROVE ClientIInv'
  OBVIOUS
<1>1. CASE UNCHANGED clientVars
  <2>1. UNCHANGED <<clientToken, waits, sent, stage, req, policy, answer, live, service,
                    pending, grants, secret, result, seen, vouched, allowed>>
    BY <1>1 DEF clientVars, caller, requests, server, outcome, witness
  <2>2. Types' /\ HistoryTypes'
    BY <2>1 DEF ClientIInv, Types, HistoryTypes
  <2>3. ASSUME NEW n \in Requests PROVE Shaped(n)' /\ Permitted(n)'
    BY <2>1 DEF ClientIInv, Shaped, Permitted
  <2>4. ASSUME NEW c \in Clients PROVE Follows(c)' /\ Real(c)'
    BY <2>1 DEF ClientIInv, Follows, Real
  <2> QED
    BY <2>2, <2>3, <2>4 DEF ClientIInv
<1>2. ASSUME NEW c \in Clients,
             (\E call \in Calls : Call(c, call)) \/ Authenticate(c) \/ Challenged(c)
             \/ Verified(c) \/ Return(c) \/ Fail(c)
      PROVE  ClientIInv'
  BY <1>2, CallKeeps, AuthenticateKeeps, ChallengedKeeps, VerifiedKeeps, ReturnKeeps, FailKeeps
<1>3. ASSUME NEW n \in Requests,
             Validate(n) \/ Decide(n) \/ Serve(n) \/ IssueChallenge(n) \/ Verify(n) \/ Lose(n)
      PROVE  ClientIInv'
  BY <1>3, ValidateKeeps, DecideKeeps, ServeKeeps, IssueChallengeKeeps, VerifyKeeps, LoseKeeps
<1> QED
  BY <1>1, <1>2, <1>3, EndKeeps, EnrollKeeps, ReloadKeeps DEF ClientNext

LEMMA ClientInductive == ClientSpec => []ClientIInv
BY ClientInitHolds, ClientNextKeeps, PTL DEF ClientSpec

-----------------------------------------------------------------------------
(* Every variable keeps its type, and a client waits for a request of its  *)
(* own that is whole (client.go:41-69).                                    *)
THEOREM ClientTypeCorrect == ClientSpec => []ClientTypeOK
<1>1. ClientIInv => ClientTypeOK
  <2> SUFFICES ASSUME ClientIInv PROVE ClientTypeOK
    OBVIOUS
  <2>1. ASSUME NEW n \in Requests
        PROVE  /\ n > sent <=> stage[n] = "unsent"
               /\ stage[n] \notin {"unsent", "over"} => req[n] \in RequestRecords
               /\ stage[n] = "answered" => answer[n] \in Answers
               /\ stage[n] \in {"checked", "granted"} => policy[n] \in Policies
    BY DEF ClientIInv, Shaped
  <2>2. ASSUME NEW c \in Clients
        PROVE  waits[c] # 0 => req[waits[c]] \in RequestRecords /\ req[waits[c]].client = c
    BY DEF ClientIInv, Follows
  <2> QED
    BY <2>1, <2>2 DEF ClientIInv, Types, HistoryTypes, ClientTypeOK
<1> QED
  BY <1>1, ClientInductive, PTL

(* A KVGet returns what the path has held during the call                  *)
(* (client.go:113-132).                                                    *)
THEOREM ReadsAlwaysReal == ClientSpec => []ReadsAreReal
<1>1. ClientIInv => ReadsAreReal
  BY DEF ClientIInv, Real, ReadsAreReal
<1> QED
  BY <1>1, ClientInductive, PTL

(* No call is served that was not permitted on its way                     *)
(* (middleware.go:85-98, kv_handlers.go:46, 72, 123).                      *)
THEOREM ServingsPermitted == ClientSpec => ServedIsPermitted
<1>1. ClientIInv /\ [ClientNext]_clientVars =>
        [\A n \in Requests :
           /\ stage[n] = "granted" /\ stage'[n] # "granted"
           /\ secret' # secret \/ (stage'[n] = "answered" /\ answer'[n].ok)
           => allowed[n]]_clientVars
  BY DEF ClientIInv, Permitted
<1> QED
  BY <1>1, ClientInductive, PTL DEF ClientSpec, ServedIsPermitted

LEMMA TokenStep ==
    ASSUME ClientIInv, [ClientNext]_clientVars, NEW c \in Clients,
           clientToken[c] # Nothing, clientToken'[c] = Nothing
    PROVE  answer[waits[c]] # NoAnswer /\ ~ answer[waits[c]].ok
<1>2. CASE \E d \in Clients : Verified(d)
  <2>1. PICK d \in Clients : Verified(d)
    BY <1>2
  <2>2. clientToken' = [clientToken EXCEPT ![d] = answer[waits[d]].data]
    BY <2>1 DEF Verified
  <2>3. waits[d] # 0 /\ stage[waits[d]] = "answered" /\ req[waits[d]].kind = "verify"
    BY <2>1 DEF Verified, Answered
  <2> PICK n \in Requests : n = waits[d]
    BY <2>3 DEF ClientIInv, Types
  <2>4. answer[n] \in Answers /\ (answer[n].ok => answer[n].data # Nothing)
    BY <2>3 DEF ClientIInv, Shaped
  <2>5. CASE c = d
    BY <2>2, <2>4, <2>5, NothingAssumption DEF ClientIInv, Types
  <2>6. CASE c # d
    BY <2>2, <2>6 DEF ClientIInv, Types
  <2> QED
    BY <2>5, <2>6
<1>3. CASE \E d \in Clients : Fail(d)
  BY <1>3 DEF Fail, TokenAfterFailure, ClientIInv, Types
<1>4. CASE UNCHANGED clientToken
  BY <1>4
<1>5. \/ UNCHANGED clientToken
      \/ \E d \in Clients : Verified(d) \/ Fail(d)
  <2>1. ASSUME NEW d \in Clients, NEW call \in Calls, Call(d, call) PROVE UNCHANGED clientToken
    BY <2>1 DEF Call
  <2>2. ASSUME NEW d \in Clients, Authenticate(d) \/ Challenged(d) \/ Return(d)
        PROVE  UNCHANGED clientToken
    BY <2>2 DEF Authenticate, Challenged, Return
  <2>3. ASSUME NEW n \in Requests,
               Validate(n) \/ Decide(n) \/ Serve(n) \/ IssueChallenge(n) \/ Verify(n) \/ Lose(n)
        PROVE  UNCHANGED clientToken
    BY <2>3 DEF Validate, Decide, Serve, IssueChallenge, Verify, Lose, caller
  <2>4. ASSUME \/ \E t \in Tokens : End(t)
               \/ \E d \in Clients, p \in Policies \cup {NoPolicy} : Enroll(d, p)
               \/ \E p \in Policies, calls \in RuleSets : Reload(p, calls)
        PROVE  UNCHANGED clientToken
    BY <2>4 DEF End, Enroll, Reload, caller
  <2>5. UNCHANGED clientVars => UNCHANGED clientToken
    BY DEF clientVars, caller
  <2>6. CASE ClientNext
    BY <2>1, <2>2, <2>3, <2>4, <2>6 DEF ClientNext
  <2> QED
    BY <2>5, <2>6
<1> QED
  BY <1>2, <1>3, <1>4, <1>5

(* Only a refused login takes the token of a client (client.go:83-110).    *)
THEOREM TokensLostByRefusal == ClientSpec => TokenLostByRefusal
<1>1. ClientIInv /\ [ClientNext]_clientVars =>
        [\A c \in Clients : clientToken[c] # Nothing /\ clientToken'[c] = Nothing =>
            answer[waits[c]] # NoAnswer /\ ~ answer[waits[c]].ok]_clientVars
  BY TokenStep
<1> QED
  BY <1>1, ClientInductive, PTL DEF ClientSpec, TokenLostByRefusal
=============================================================================
