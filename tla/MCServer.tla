------------------------------ MODULE MCServer ------------------------------
(* Server for TLC: an earlier process has logged a login and a write. *)
EXTENDS Server

CONSTANTS p1

LoginAndWrite == {[request |-> 1, op |-> "login", status |-> "allowed"],
                  [request |-> 2, op |-> "write", status |-> "allowed"]}
=============================================================================
