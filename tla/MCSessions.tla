---------------------------- MODULE MCSessions -----------------------------
(* Instances of Sessions for TLC. *)
EXTENDS Sessions, TLC

Perms == Permutations(Keys) \union Permutations(Requests)
=============================================================================
