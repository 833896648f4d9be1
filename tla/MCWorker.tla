------------------------------ MODULE MCWorker ------------------------------
(* Two parts of the worker for TLC: the commands of a lease (ExecStream) and *)
(* the egress rules of the slots (SlotEgress), once with overlapping answers *)
(* of the manager and once with several slots.  They share no variable, so   *)
(* that one run checks them side by side: in a behaviour only one moves.     *)
EXTENDS ExecStream, TLC

CONSTANTS Hosts, NoHost, Stores, Overlapping, Single, MaxAnswers, MaxBoots

VARIABLES policy, artifactHost, persistent, slot, net, boot, answer, want, left,
          part    \* what moves

Enforce(hosts) == [enforce |-> TRUE, allow |-> hosts, leaseAllow |-> {"x"}]
Open == [enforce |-> FALSE, allow |-> {}, leaseAllow |-> {}]

OverlapPolicies == {Enforce({}), Enforce({"a"}), Open}
LoopPolicies == {Enforce({"a"}), Open}

Egress(Calls, NSlots, Policies) == INSTANCE SlotEgress WITH call <- answer

\* An object store is a host, and "none" is none.
ASSUME HostsAssumption == Stores \subseteq Hosts /\ NoHost \notin Stores /\ "a" \in Hosts

egressVars == <<policy, artifactHost, persistent, slot, net, boot, answer, want, left>>
allVars == <<vars, egressVars, part>>

Off == "off"
EgressOff == /\ policy = Off /\ artifactHost = Off /\ persistent = Off /\ slot = Off
             /\ net = Off /\ boot = Off /\ answer = Off /\ want = Off /\ left = Off

WorkerInit ==
    /\ part \in {"commands", "overlap", "loop"}
    /\ Init
    /\ CASE part = "overlap" -> Egress(Overlapping, 1, OverlapPolicies)!Init
         [] part = "loop" -> Egress(Single, 2, LoopPolicies)!Init
         [] OTHER -> EgressOff

WorkerNext ==
    \/ part = "commands" /\ Next /\ UNCHANGED <<egressVars, part>>
    \/ part = "overlap" /\ Egress(Overlapping, 1, OverlapPolicies)!Next /\ UNCHANGED <<vars, part>>
    \/ part = "loop" /\ Egress(Single, 2, LoopPolicies)!Next /\ UNCHANGED <<vars, part>>

WorkerSpec == WorkerInit /\ [][WorkerNext]_allVars

(* The type invariants of both modules.                                      *)
AllTypeOK ==
    /\ TypeOK
    /\ part = "overlap" => Egress(Overlapping, 1, OverlapPolicies)!TypeOK
    /\ part = "loop" => Egress(Single, 2, LoopPolicies)!TypeOK
(* A slot reaches what it and its lease were given (see SlotEgress).         *)
RulesHold ==
    /\ part = "overlap" => Egress(Overlapping, 1, OverlapPolicies)!RulesHold
    /\ part = "loop" => Egress(Single, 2, LoopPolicies)!RulesHold

Perms == Permutations(Overlapping)
=============================================================================
