-------------------------- MODULE MCLeaseManager --------------------------
(* Instances of LeaseManager for TLC. *)
EXTENDS LeaseManager, TLC

Perms == Permutations(LeaseId)
===========================================================================
