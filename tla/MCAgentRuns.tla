---------------------------- MODULE MCAgentRuns ----------------------------
(* Instances of AgentRuns for TLC. *)
EXTENDS AgentRuns, TLC

Perms == Permutations(Run) \cup Permutations(Lease) \cup Permutations(User)
===========================================================================
