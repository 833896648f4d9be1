------------------------------- MODULE MCCron -------------------------------
(* Instances of Cron for TLC. *)
EXTENDS Cron, TLC

MCSlots == {1, 3, 9}
Perms == Permutations(Replica)
===========================================================================
