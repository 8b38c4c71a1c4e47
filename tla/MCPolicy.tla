------------------------------ MODULE MCPolicy ------------------------------
(***************************************************************************)
(* Policy for TLC: files that allow with an exception in either order, one *)
(* that replaces a built-in policy, one path inside the exception and one  *)
(* outside it.                                                             *)
(***************************************************************************)
EXTENDS Policy

CONSTANTS w1, w2

Prod == KV \o <<"prod">>
Rule(prefix, below, capabilities, deny) ==
    [prefix |-> prefix, below |-> below, capabilities |-> capabilities, deny |-> deny]

ReadProd == Rule(Prod, TRUE, {"read", "write"}, FALSE)
NotInternal == Rule(Prod \o <<"internal">>, TRUE, {}, TRUE)
OneKey == Rule(Transit \o <<"pay">>, FALSE, {"encrypt"}, FALSE)

MCSegments == {"secrets", "kv", "transit", "prod", "internal", "api", "db", "pay", "x"}

MCContents ==
    {[name |-> "team", rules |-> <<ReadProd, NotInternal>>],
     [name |-> "team", rules |-> <<NotInternal, ReadProd, OneKey>>],
     [name |-> "readonly", rules |-> <<ReadProd>>]}

MCPaths ==
    {Prod \o <<"api">>, Prod \o <<"internal">>, Prod \o <<"internal", "db">>, KV,
     Transit \o <<"pay">>, Transit \o <<"pay", "x">>}

WorkerSymmetry == Permutations(Workers)
=============================================================================
