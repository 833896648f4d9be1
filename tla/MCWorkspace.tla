---------------------------- MODULE MCWorkspace ----------------------------
(* Instances of Workspace for TLC. *)
EXTENDS Workspace, TLC

Perms == Permutations(SessionKeys) \union Permutations(Runs) \union Permutations(Files)
=============================================================================
