--------------------------- MODULE UsersAbstract ---------------------------
(***************************************************************************)
(* What the accounts promise: a create, a change of password or policy and *)
(* a delete each happen in one instant, to the account as it is then, and  *)
(* a login passes on the account as it is at one instant between its       *)
(* arrival and its answer.  An account is loose once changes of it may     *)
(* overlap or a create may have misread its record: nothing is promised of *)
(* its contents, but logins still go by them.  Users, whose changes read a *)
(* record and write it back whole, implements it.                          *)
(***************************************************************************)
CONSTANTS Names, Passwords, Policies, NoUser, NoLogin, Workers

Accounts == [password : Passwords, policy : Policies]

VARIABLES
    account,  \* account[u]: user u's account, or NoUser
    loose,    \* the names whose changes are not atomic
    login,    \* login[w]: the user and password of w's login, or NoLogin
    stage,    \* stage[w]: how far that login has come
    seen      \* seen[w]: the account it has passed on, or NoUser

logins == <<login, stage, seen>>
vars == <<account, loose, logins>>

Init ==
    /\ account = [u \in Names |-> NoUser]
    /\ loose \in SUBSET Names
    /\ login = [w \in Workers |-> NoLogin]
    /\ stage = [w \in Workers |-> "idle"]
    /\ seen = [w \in Workers |-> NoUser]

-----------------------------------------------------------------------------
(* Changes.                                                                *)
Write(u, a) ==
    /\ account' = [account EXCEPT ![u] = a]
    /\ UNCHANGED <<loose, logins>>

Create(u, a) == account[u] = NoUser /\ Write(u, a)

SetPassword(u, password) ==
    account[u] # NoUser /\ Write(u, [account[u] EXCEPT !.password = password])

SetPolicy(u, policy) ==
    account[u] # NoUser /\ Write(u, [account[u] EXCEPT !.policy = policy])

Delete(u) == account[u] # NoUser /\ Write(u, NoUser)

Overwrite(u) == u \in loose /\ \E a \in Accounts \cup {NoUser} : Write(u, a)

Loosen(u) ==
    /\ loose' = loose \cup {u}
    /\ UNCHANGED <<account, logins>>

-----------------------------------------------------------------------------
(* Logins.                                                                 *)
Ask(w, u, password) ==
    /\ stage[w] \in {"idle", "granted"}
    /\ login' = [login EXCEPT ![w] = [user |-> u, password |-> password]]
    /\ stage' = [stage EXCEPT ![w] = "asked"]
    /\ seen' = [seen EXCEPT ![w] = NoUser]
    /\ UNCHANGED <<account, loose>>

Pass(w) ==
    LET a == account[login[w].user]
    IN  /\ stage[w] = "asked"
        /\ a # NoUser
        /\ a.password = login[w].password
        /\ stage' = [stage EXCEPT ![w] = "passed"]
        /\ seen' = [seen EXCEPT ![w] = a]
        /\ UNCHANGED <<account, loose, login>>

Grant(w) ==
    /\ stage[w] = "passed"
    /\ stage' = [stage EXCEPT ![w] = "granted"]
    /\ UNCHANGED <<account, loose, login, seen>>

(* Logins are refused, fail or die with the process; answers are read.     *)
Leave(W) ==
    /\ login' = [w \in Workers |-> IF w \in W THEN NoLogin ELSE login[w]]
    /\ stage' = [w \in Workers |-> IF w \in W THEN "idle" ELSE stage[w]]
    /\ seen' = [w \in Workers |-> IF w \in W THEN NoUser ELSE seen[w]]
    /\ UNCHANGED <<account, loose>>

Next ==
    \/ \E u \in Names :
         \/ \E a \in Accounts : Create(u, a)
         \/ \E password \in Passwords : SetPassword(u, password)
         \/ \E policy \in Policies : SetPolicy(u, policy)
         \/ Delete(u)
         \/ Overwrite(u)
         \/ Loosen(u)
    \/ \E w \in Workers :
         \/ \E u \in Names, password \in Passwords : Ask(w, u, password)
         \/ Pass(w)
         \/ Grant(w)
    \/ \E W \in SUBSET Workers : Leave(W)

Spec == Init /\ [][Next]_vars
=============================================================================
