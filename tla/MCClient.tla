------------------------------ MODULE MCClient ------------------------------
(***************************************************************************)
(* Constants for model checking Client.                                    *)
(***************************************************************************)
EXTENDS Client

CONSTANTS c1, app

(* A policy that allows everything on the path, and one that only reads.   *)
MCRuleSets == {Calls, {"get"}}
=============================================================================
