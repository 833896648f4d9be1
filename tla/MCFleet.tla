------------------------------ MODULE MCFleet ------------------------------
(* Instances of Fleet for TLC. *)
EXTENDS Fleet, TLC

Perms == Permutations(Nodes) \union Permutations(Calls)
=============================================================================
