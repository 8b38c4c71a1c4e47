-------------------------- MODULE SessionsAbstract --------------------------
(***************************************************************************)
(* What session tokens promise: a token is good from the moment it is      *)
(* handed out until its time has come or a logout ends it, and never again.*)
(* A request is served, refused or logged out by the last look somebody    *)
(* took at its token between its arrival and its answer, as if that were   *)
(* one instant; or the look fails, and it is refused unseen, which does    *)
(* nothing to the token.  Sessions, whose record and clock are read apart  *)
(* and whose requests may die between any two calls, implements it.        *)
(***************************************************************************)
CONSTANTS
    Workers,       \* requests at a time
    Tokens,
    NoToken,       \* the worker has no request
    LogoutMayFail, \* a logout may leave its token good
    LookMayFail    \* a look at a token may fail

VARIABLES
    granted,  \* tokens ever handed out
    good,     \* those that are good now
    shown,    \* shown[w]: the token of w's request
    state     \* state[w]: what the last look at it has seen, or its answer

vars == <<granted, good, shown, state>>

Init ==
    /\ granted = {}
    /\ good = {}
    /\ shown = [w \in Workers |-> NoToken]
    /\ state = [w \in Workers |-> "idle"]

(* A login may take so long that its token is over when it is handed out.  *)
Grant(t) ==
    /\ t \notin granted
    /\ granted' = granted \cup {t}
    /\ good' \in {good, good \cup {t}}
    /\ UNCHANGED <<shown, state>>

OnItsWay(w) == state[w] \in {"waiting", "good", "bad"}

Ask(w, t) ==
    /\ ~ OnItsWay(w)
    /\ t \in granted
    /\ shown' = [shown EXCEPT ![w] = t]
    /\ state' = [state EXCEPT ![w] = "waiting"]
    /\ UNCHANGED <<granted, good>>

Seen(w) == IF shown[w] \in good THEN "good" ELSE "bad"

Look(w) ==
    /\ OnItsWay(w)
    /\ state' = [state EXCEPT ![w] = Seen(w)]
    /\ UNCHANGED <<granted, good, shown>>

Accept(w) ==
    /\ state[w] = "good"
    /\ state' = [state EXCEPT ![w] = "accepted"]
    /\ UNCHANGED <<granted, good, shown>>

LogOut(w) ==
    /\ state[w] = "good"
    /\ state' = [state EXCEPT ![w] = "loggedOut"]
    /\ good' = good \ {shown[w]} \/ (LogoutMayFail /\ good' = good)
    /\ UNCHANGED <<granted, shown>>

Deny(w) ==
    /\ OnItsWay(w)
    /\ state[w] = "bad" \/ Seen(w) = "bad"
    /\ state' = [state EXCEPT ![w] = "denied"]
    /\ UNCHANGED <<granted, good, shown>>

(* Nobody could look at the token: the request is refused all the same.    *)
RefuseUnread(w) ==
    /\ LookMayFail
    /\ state[w] = "waiting"
    /\ state' = [state EXCEPT ![w] = "unread"]
    /\ UNCHANGED <<granted, good, shown>>

(* Time passes: tokens expire, and a request may look at its own again.    *)
Expire ==
    /\ good' \in SUBSET good
    /\ \E W \in SUBSET {w \in Workers : OnItsWay(w)} :
         state' = [w \in Workers |-> IF w \in W THEN Seen(w)' ELSE state[w]]
    /\ UNCHANGED <<granted, shown>>

(* Logins fail, and requests die with the process.  No token does.         *)
Leave(W) ==
    /\ shown' = [w \in Workers |-> IF w \in W THEN NoToken ELSE shown[w]]
    /\ state' = [w \in Workers |-> IF w \in W THEN "idle" ELSE state[w]]
    /\ UNCHANGED <<granted, good>>

Next ==
    \/ \E t \in Tokens : Grant(t)
    \/ \E w \in Workers :
         \/ \E t \in Tokens : Ask(w, t)
         \/ Look(w)
         \/ Accept(w)
         \/ LogOut(w)
         \/ Deny(w)
         \/ RefuseUnread(w)
    \/ Expire
    \/ \E W \in SUBSET Workers : Leave(W)

Spec == Init /\ [][Next]_vars
=============================================================================
