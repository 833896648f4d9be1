---------------------------- MODULE MCArtifacts ----------------------------
(* Instances of Artifacts for TLC. *)
EXTENDS Artifacts, TLC

Perms == Permutations(Tokens) \union Permutations(Requests)
=============================================================================
