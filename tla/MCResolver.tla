----------------------------- MODULE MCResolver -----------------------------
(***************************************************************************)
(* A small instance of Resolver: two clients that happen to choose the     *)
(* same transaction ID and one that does not, ports that are reused.       *)
(***************************************************************************)
EXTENDS Resolver

MCQuery == {[id |-> 1, name |-> "x"], [id |-> 1, name |-> "y"], [id |-> 2, name |-> "x"]}
=============================================================================
