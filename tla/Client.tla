------------------------------- MODULE Client -------------------------------
(***************************************************************************)
(* The Go client (pkg/client/client.go), the network, and what a request   *)
(* passes on the server: authMiddleware (internal/api/middleware.go), the  *)
(* policy check of the handler, and the handler's call of its store.       *)
(*                                                                         *)
(* A client waits 15 seconds for an answer.  When it gives up, or the      *)
(* connection breaks, the server does not stop: the handler never looks at *)
(* the request's context.  So a call that has failed may still take effect.*)
(* Sessions, policies, challenges and the store are those of the other     *)
(* modules, seen from outside: each is one atomic step here.  One goroutine*)
(* uses a client at a time, since Client has no lock for its token.        *)
(***************************************************************************)
EXTENDS Integers, FiniteSets

CONSTANTS
    Clients,      \* clients, each the only user of its own service
    MaxRequests,  \* bound on the requests ever sent
    Policies,     \* names of policies
    RuleSets,     \* the sets of calls that a policy may allow on the path
    NoPolicy,     \* no session, no service
    NoRequest,    \* the request has not been sent, or is forgotten
    NoAnswer,     \* it has not been answered, or the answer has been read
    NoResult,     \* the last call is on its way, or has failed, or was a login
    Failures      \* "store" (a store call fails), "network" (a request is lost)

Requests == 1..MaxRequests
Calls == {"set", "get", "delete"}
Logins == {"challenge", "verify"}

ASSUME RequestsAssumption == MaxRequests \in Nat
ASSUME PoliciesAssumption == NoPolicy \notin Policies /\ RuleSets \subseteq SUBSET Calls
ASSUME FailuresAssumption == Failures \subseteq {"store", "network"}

(* A session's token and a challenge are named by the request that was     *)
(* answered with them, a secret by the request that wrote it.              *)
Nothing == 0
Admin == 0 - 1
Tokens == Requests \cup {Admin}

RequestRecords ==
    [client : Clients, kind : Calls \cup Logins, token : Tokens \cup {Nothing},
     challenge : Requests \cup {Nothing}]
Answers == [ok : BOOLEAN, data : Requests \cup {Nothing}]
Results == [call : Calls, value : Requests \cup {Nothing}]

ASSUME NothingAssumption ==
    NoRequest \notin RequestRecords /\ NoAnswer \notin Answers /\ NoResult \notin Results

VARIABLES
    (* The clients. *)
    clientToken,  \* clientToken[c]: the token client c sends
    waits,        \* waits[c]: the request whose answer it waits for, or 0
    (* The network and the handlers. *)
    sent,     \* number of requests sent
    stage,    \* stage[n]: how far request n has come
    req,      \* req[n]: what it asks for
    policy,   \* policy[n]: the policy in its context
    answer,   \* answer[n]: its answer
    (* The server. *)
    live,     \* live[t]: the policy that goes with token t, or NoPolicy
    service,  \* service[c]: the policy of c's service, or NoPolicy
    pending,  \* challenges that wait for their signature
    grants,   \* grants[p]: the calls policy p allows on the path
    secret,   \* the secret at the path: the request that wrote it, or 0
    (* History, read by properties only. *)
    result,   \* result[c]: what the last call of c has returned without an error
    seen,     \* seen[c]: the secrets the path has held while that call was on its way
    vouched,  \* vouched[n]: policies its token has carried since it was sent
    allowed   \* allowed[n]: one of these policies has since allowed the call

caller == <<clientToken, waits>>
requests == <<sent, stage, req, policy, answer>>
server == <<live, service, pending, grants, secret>>
outcome == <<result, seen>>
witness == <<vouched, allowed>>
clientVars == <<caller, requests, server, outcome, witness>>

Stages == {"unsent", "sent", "checked", "granted", "answered", "over"}

ClientTypeOK ==
    /\ clientToken \in [Clients -> Tokens \cup {Nothing}]
    /\ waits \in [Clients -> Requests \cup {0}]
    /\ sent \in 0..MaxRequests
    /\ stage \in [Requests -> Stages]
    /\ req \in [Requests -> RequestRecords \cup {NoRequest}]
    /\ policy \in [Requests -> Policies \cup {NoPolicy}]
    /\ answer \in [Requests -> Answers \cup {NoAnswer}]
    /\ live \in [Tokens -> Policies \cup {NoPolicy}]
    /\ service \in [Clients -> Policies \cup {NoPolicy}]
    /\ pending \subseteq 1..sent
    /\ grants \in [Policies -> RuleSets]
    /\ secret \in 0..sent
    /\ result \in [Clients -> Results \cup {NoResult}]
    /\ seen \in [Clients -> SUBSET (0..sent)]
    /\ vouched \in [Requests -> SUBSET Policies]
    /\ allowed \in [Requests -> BOOLEAN]
    /\ \A n \in Requests :
         /\ n > sent <=> stage[n] = "unsent"
         /\ stage[n] \notin {"unsent", "over"} => req[n] \in RequestRecords
         /\ stage[n] = "answered" => answer[n] \in Answers
         /\ stage[n] \in {"checked", "granted"} => policy[n] \in Policies
    /\ \A c \in Clients : waits[c] # 0 => req[waits[c]] \in RequestRecords /\ req[waits[c]].client = c

(* New.  The client may have been given an admin token.                    *)
ClientInit ==
    /\ clientToken \in [Clients -> {Nothing, Admin}]
    /\ waits = [c \in Clients |-> 0]
    /\ sent = 0
    /\ stage = [n \in Requests |-> "unsent"]
    /\ req = [n \in Requests |-> NoRequest]
    /\ policy = [n \in Requests |-> NoPolicy]
    /\ answer = [n \in Requests |-> NoAnswer]
    /\ \E p \in Policies : live = [t \in Tokens |-> IF t = Admin THEN p ELSE NoPolicy]
    /\ service \in [Clients -> Policies \cup {NoPolicy}]
    /\ pending = {}
    /\ grants \in [Policies -> RuleSets]
    /\ secret = Nothing
    /\ result = [c \in Clients |-> NoResult]
    /\ seen = [c \in Clients |-> {}]
    /\ vouched = [n \in Requests |-> {}]
    /\ allowed = [n \in Requests |-> FALSE]

-----------------------------------------------------------------------------
(* policy.Allowed, of the policy that is in force now.                     *)
Allows(p, call) == call \in grants[p]

(* What a reader of the history needs to know of each call on its way: the *)
(* policies its token has carried, and whether one has allowed it.         *)
OnItsWay(n) == stage[n] \in {"sent", "checked", "granted"} /\ req[n].kind \in Calls
Carries(n) == IF req[n].token = Nothing THEN {} ELSE {live[req[n].token]} \ {NoPolicy}

Witness ==
    /\ vouched' = [n \in Requests |->
                     IF OnItsWay(n)' THEN vouched[n] \cup Carries(n)' ELSE {}]
    /\ allowed' = [n \in Requests |->
                     OnItsWay(n)' /\ (allowed[n] \/ \E p \in vouched'[n] : Allows(p, req[n].kind)')]

-----------------------------------------------------------------------------
(***************************************************************************)
(* The client.                                                             *)
(***************************************************************************)
Send(c, kind, challenge) ==
    /\ sent < MaxRequests
    /\ sent' = sent + 1
    /\ waits' = [waits EXCEPT ![c] = sent + 1]
    /\ stage' = [stage EXCEPT ![sent + 1] = "sent"]
    /\ req' = [req EXCEPT ![sent + 1] =
                 [client |-> c, kind |-> kind, challenge |-> challenge,
                  token |-> IF kind \in Calls THEN clientToken[c] ELSE Nothing]]

(* The answer to n has been read; the client sends another request.        *)
ReadAndSend(c, n, kind, challenge) ==
    /\ sent < MaxRequests
    /\ sent' = sent + 1
    /\ waits' = [waits EXCEPT ![c] = sent + 1]
    /\ stage' = [stage EXCEPT ![n] = "over", ![sent + 1] = "sent"]
    /\ req' = [req EXCEPT ![n] = NoRequest,
                          ![sent + 1] = [client |-> c, kind |-> kind, challenge |-> challenge,
                                         token |-> Nothing]]
    /\ answer' = [answer EXCEPT ![n] = NoAnswer]

Idle(c) == waits[c] = 0

(* KVSet, KVGet and KVDelete, with the client's token.  TransitEncrypt and *)
(* TransitDecrypt look at their answers as KVGet does.                     *)
Call(c, call) ==
    /\ Idle(c)
    /\ Send(c, call, Nothing)
    /\ result' = [result EXCEPT ![c] = NoResult]
    /\ seen' = [seen EXCEPT ![c] = {secret}]
    /\ UNCHANGED <<clientToken, policy, answer, server>>
    /\ Witness

(* The login routes do not look at a token.                                *)
Authenticate(c) ==
    /\ Idle(c)
    /\ Send(c, "challenge", Nothing)
    /\ result' = [result EXCEPT ![c] = NoResult]
    /\ seen' = [seen EXCEPT ![c] = {}]
    /\ UNCHANGED <<clientToken, policy, answer, server>>
    /\ Witness

Answered(c, kinds) ==
    /\ waits[c] # 0
    /\ stage[waits[c]] = "answered"
    /\ req[waits[c]].kind \in kinds

(* doJSON decodes the answer whatever its status: that of a refused        *)
(* challenge leaves the challenge empty, and the client signs that.        *)
Challenged(c) ==
    LET n == waits[c]
    IN  /\ Answered(c, {"challenge"})
        /\ ReadAndSend(c, n, "verify", answer[n].data)
        /\ UNCHANGED <<clientToken, policy, server, outcome>>
        /\ Witness

(* The call ends, with an error or a token or with a result.               *)
Ends(c) ==
    /\ waits' = [waits EXCEPT ![c] = 0]
    /\ seen' = [seen EXCEPT ![c] = {}]
    /\ UNCHANGED result

Succeeds(c, call, value) ==
    /\ waits' = [waits EXCEPT ![c] = 0]
    /\ result' = [result EXCEPT ![c] = [call |-> call, value |-> value]]
    /\ UNCHANGED seen

Read(n) ==
    /\ stage' = [stage EXCEPT ![n] = "over"]
    /\ req' = [req EXCEPT ![n] = NoRequest]
    /\ answer' = [answer EXCEPT ![n] = NoAnswer]
    /\ UNCHANGED sent

Verified(c) ==
    LET n == waits[c]
    IN  /\ Answered(c, {"verify"})
        /\ Ends(c)
        /\ clientToken' = [clientToken EXCEPT ![c] = answer[n].data]
        /\ Read(n)
        /\ UNCHANGED <<policy, server>>
        /\ Witness

(* Only the calls that return a value look at the error of the answer.     *)
(* Mutant: they do not, either (client.go:126).                            *)
LooksAtError_Never(call) == FALSE
LooksAtError(call) == call = "get"

Return(c) ==
    LET n == waits[c]
        call == req[n].kind
    IN  /\ Answered(c, Calls)
        /\ IF LooksAtError(call) /\ ~ answer[n].ok
           THEN Ends(c)
           ELSE Succeeds(c, call, answer[n].data)
        /\ Read(n)
        /\ UNCHANGED <<clientToken, policy, server>>
        /\ Witness

(* http.Client.Do fails: the 15 seconds are over, or the connection is.    *)
(* The server is not told.  Mutant: the token is dropped before the error  *)
(* is looked at (client.go:102-109).                                       *)
TokenAfterFailure_Dropped(c) == IF req[waits[c]].kind \in Logins THEN Nothing ELSE clientToken[c]
TokenAfterFailure(c) == clientToken[c]

Fail(c) ==
    LET n == waits[c]
    IN  /\ ~ Idle(c)
        /\ Ends(c)
        /\ clientToken' = [clientToken EXCEPT ![c] = TokenAfterFailure(c)]
        /\ IF stage[n] \in {"answered", "over"}
           THEN Read(n)
           ELSE UNCHANGED <<sent, stage, req, answer>>
        /\ UNCHANGED <<policy, server>>
        /\ Witness

-----------------------------------------------------------------------------
(***************************************************************************)
(* The server.                                                             *)
(***************************************************************************)
Moves(n, to) ==
    /\ stage' = [stage EXCEPT ![n] = to]
    /\ UNCHANGED <<req, answer>>

(* The handler is done.  Its answer reaches the client that waits for it.  *)
Reply(n, ok, data) ==
    /\ policy' = [policy EXCEPT ![n] = NoPolicy]
    /\ IF waits[req[n].client] = n
       THEN /\ stage' = [stage EXCEPT ![n] = "answered"]
            /\ answer' = [answer EXCEPT ![n] = [ok |-> ok, data |-> data]]
            /\ UNCHANGED req
       ELSE /\ stage' = [stage EXCEPT ![n] = "over"]
            /\ req' = [req EXCEPT ![n] = NoRequest]
            /\ UNCHANGED answer

Handling(n, at, kinds) == stage[n] = at /\ req[n].kind \in kinds
StoreFails == "store" \in Failures

(* authMiddleware: the token's record is read, and with it its policy.     *)
(* Mutant: its error is not looked at (middleware.go:88).                  *)
GoodToken_Unchecked(t) == t # Nothing
GoodToken(t) == t # Nothing /\ live[t] # NoPolicy

Validate(n) ==
    LET t == req[n].token
    IN  /\ Handling(n, "sent", Calls)
        /\ \/ /\ GoodToken(t)
              /\ Moves(n, "checked")
              /\ policy' = [policy EXCEPT ![n] = live[t]]
           \/ /\ ~ GoodToken(t) \/ StoreFails
              /\ Reply(n, FALSE, Nothing)
        /\ UNCHANGED <<caller, sent, server, outcome>>
        /\ Witness

(* Each handler asks for the capability of its own call.  Mutant: a set    *)
(* asks for that of a get (kv_handlers.go:72).                             *)
Capability_Read(call) == IF call = "set" THEN "get" ELSE call
Capability(call) == call

Decide(n) ==
    /\ Handling(n, "checked", Calls)
    /\ IF Allows(policy[n], Capability(req[n].kind))
       THEN Moves(n, "granted") /\ UNCHANGED policy
       ELSE Reply(n, FALSE, Nothing)
    /\ UNCHANGED <<caller, sent, server, outcome>>
    /\ Witness

(* The handler's store call.                                               *)
Holds(value) ==
    /\ secret' = value
    /\ seen' = [c \in Clients |-> IF Idle(c) THEN seen[c] ELSE seen[c] \cup {value}]

Untouched == UNCHANGED <<secret, seen>>

Serve(n) ==
    LET call == req[n].kind
    IN  /\ Handling(n, "granted", Calls)
        /\ \/ call = "set" /\ Holds(n) /\ Reply(n, TRUE, Nothing)
           \/ call = "get" /\ secret # Nothing /\ Untouched /\ Reply(n, TRUE, secret)
           \/ call = "delete" /\ secret # Nothing /\ Holds(Nothing) /\ Reply(n, TRUE, Nothing)
           \/ /\ StoreFails \/ (call # "set" /\ secret = Nothing)
              /\ Untouched
              /\ Reply(n, FALSE, Nothing)
        /\ UNCHANGED <<caller, sent, live, service, pending, grants, result>>
        /\ Witness

(* The login handlers (module ServiceAuth has their steps).  A challenge   *)
(* may have expired, or the server may have been started again since.      *)
IssueChallenge(n) ==
    /\ Handling(n, "sent", {"challenge"})
    /\ \/ /\ service[req[n].client] # NoPolicy
          /\ pending' = pending \cup {n}
          /\ Reply(n, TRUE, n)
       \/ /\ StoreFails \/ service[req[n].client] = NoPolicy
          /\ Reply(n, FALSE, Nothing)
          /\ UNCHANGED pending
    /\ UNCHANGED <<caller, sent, live, service, grants, secret, outcome>>
    /\ Witness

Verify(n) ==
    LET p == service[req[n].client]
        good == req[n].challenge \in pending /\ p # NoPolicy
    IN  /\ Handling(n, "sent", {"verify"})
        /\ pending' = pending \ {req[n].challenge}
        /\ \/ good /\ live' = [live EXCEPT ![n] = p] /\ Reply(n, TRUE, n)
           \/ Reply(n, FALSE, Nothing) /\ UNCHANGED live
        /\ UNCHANGED <<caller, sent, service, grants, secret, outcome>>
        /\ Witness

(* The request is lost on its way, or the server dies under it.            *)
Lose(n) ==
    /\ "network" \in Failures
    /\ stage[n] \in {"sent", "checked", "granted"}
    /\ stage' = [stage EXCEPT ![n] = "over"]
    /\ req' = [req EXCEPT ![n] = IF waits[@.client] = n THEN @ ELSE NoRequest]
    /\ policy' = [policy EXCEPT ![n] = NoPolicy]
    /\ UNCHANGED <<caller, sent, answer, server, outcome>>
    /\ Witness

-----------------------------------------------------------------------------
(***************************************************************************)
(* What others do meanwhile: a session expires or an administrator is      *)
(* removed; a service is enrolled or revoked; policies are reloaded.       *)
(***************************************************************************)
End(t) ==
    /\ live[t] # NoPolicy
    /\ live' = [live EXCEPT ![t] = NoPolicy]
    /\ UNCHANGED <<caller, requests, service, pending, grants, secret, outcome>>
    /\ Witness

Enroll(c, p) ==
    /\ service' = [service EXCEPT ![c] = p]
    /\ UNCHANGED <<caller, requests, live, pending, grants, secret, outcome>>
    /\ Witness

Reload(p, calls) ==
    /\ grants' = [grants EXCEPT ![p] = calls]
    /\ UNCHANGED <<caller, requests, live, service, pending, secret, outcome>>
    /\ Witness

ClientNext ==
    \/ \E c \in Clients :
         \/ \E call \in Calls : Call(c, call)
         \/ Authenticate(c)
         \/ Challenged(c)
         \/ Verified(c)
         \/ Return(c)
         \/ Fail(c)
    \/ \E n \in Requests :
         \/ Validate(n)
         \/ Decide(n)
         \/ Serve(n)
         \/ IssueChallenge(n)
         \/ Verify(n)
         \/ Lose(n)
    \/ \E t \in Tokens : End(t)
    \/ \E c \in Clients, p \in Policies \cup {NoPolicy} : Enroll(c, p)
    \/ \E p \in Policies, calls \in RuleSets : Reload(p, calls)

ClientSpec == ClientInit /\ [][ClientNext]_clientVars

-----------------------------------------------------------------------------
(* A call is served only if its token carried, at some moment after the    *)
(* call was sent, a policy that then or later allowed it: no call outlives *)
(* its right to be made, whatever expires, is enrolled or reloaded while it*)
(* is on its way (middleware.go:85-98, kv_handlers.go:46, 72, 123).        *)
ServedIsPermitted ==
    [][\A n \in Requests :
          /\ stage[n] = "granted" /\ stage'[n] # "granted"
          /\ secret' # secret \/ (stage'[n] = "answered" /\ answer'[n].ok)
          => allowed[n]]_clientVars

(* A KVGet that returns no error returns a secret that the path held at    *)
(* some moment during the call, whatever calls the client has given up and *)
(* the server still runs (client.go:113-132).                              *)
ReadsAreReal ==
    \A c \in Clients :
        result[c] # NoResult /\ result[c].call = "get" =>
            result[c].value \in seen[c] \ {Nothing}

(* A client loses its token only to a refused login: a login that fails    *)
(* under way leaves the client able to go on (client.go:83-110).           *)
TokenLostByRefusal ==
    [][\A c \in Clients : clientToken[c] # Nothing /\ clientToken'[c] = Nothing =>
           answer[waits[c]] # NoAnswer /\ ~ answer[waits[c]].ok]_clientVars
=============================================================================
