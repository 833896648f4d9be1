----------------------------- MODULE SlotEgress -----------------------------
(***************************************************************************)
(* What the programs in a slot may connect to.  The rules are a chain in   *)
(* the slot's own network namespace, written command by command: when the  *)
(* slot is built, when the manager sends another policy, when a lease asks *)
(* for a target of its own, and when the object store of the artifacts     *)
(* becomes known.  Each of these awaits between two commands.              *)
(***************************************************************************)
EXTENDS Naturals, Sequences, FiniteSetsExt

CONSTANTS Hosts, NoHost,
          Stores,       \* hosts of object stores that the manager may name
          Policies,     \* what the manager may send
          Calls,        \* registrations and heartbeats that may overlap
          NSlots,       \* config.slots
          MaxAnswers,   \* bound: answers of the manager
          MaxBoots      \* bound: rebuilds of slots

VARIABLES
    policy,      \* the policy that egressPolicy.current() returns
    artifactHost, \* of the manager's client
    persistent,  \* persistentEgress
    slot,        \* the pool's table: the namespace of each slot, its signature, its lease
    net,         \* each slot's newest namespace with its chain
    boot,        \* bootSlot in progress
    call,        \* what the manager's answers have set going
    want,        \* targets of a request that waits for a slot
    left         \* what is left of the bounds

vars == <<policy, artifactHost, persistent, slot, net, boot, call, want, left>>

Slots == 1..NSlots
Idle == [st |-> "idle"]
NoBoot == [st |-> "none"]
Nothing == [asked |-> FALSE, targets |-> {}]
NoLease == [st |-> "free", targets |-> {}]

-----------------------------------------------------------------------------
(* A chain: the targets it accepts before its REJECT, and its policy.      *)

\* A new namespace lets everything through.
EmptyChain == [default |-> "ACCEPT", allow |-> {}, reject |-> FALSE]
Reach(n) == n.chain.allow \union
              (IF n.chain.default = "ACCEPT" /\ ~n.chain.reject THEN Hosts ELSE {})

Cmd(op, hs) == [op |-> op, hosts |-> hs]
\* -A appends, and what comes after REJECT is never reached; -I inserts before it.
AppendRule(ch, hs) == IF ch.reject THEN ch ELSE [ch EXCEPT !.allow = @ \union hs]
InsertRule(ch, hs) == [ch EXCEPT !.allow = @ \union hs]
Run(ch, cmd) ==
    CASE cmd.op = "DROP" -> [ch EXCEPT !.default = "DROP"]
      [] cmd.op = "ACCEPT" -> [ch EXCEPT !.default = "ACCEPT"]
      [] cmd.op = "F" -> [ch EXCEPT !.allow = {}, !.reject = FALSE]
      [] cmd.op = "A" -> AppendRule(ch, cmd.hosts)
      [] cmd.op = "REJECT" -> [ch EXCEPT !.reject = TRUE]

\* buildEgressPlan.
Plan(enforce, hs) ==
    IF enforce THEN <<Cmd("DROP", {}), Cmd("F", {}), Cmd("A", hs), Cmd("REJECT", {})>>
    ELSE <<Cmd("F", {}), Cmd("ACCEPT", {})>>
\* programSlotEgress resolves the policy's targets and the pool's own, then
\* takes the commands one by one.
PlanFor(p) == Plan(p.enforce, p.allow \union persistent)

-----------------------------------------------------------------------------
(* odd marks a namespace in which something came between: a second policy  *)
(* or a lease while a plan was running, a plan that failed, a rule that was *)
(* left out because the policy of now is open and that of the slot is not. *)

SetCall(c, q) == call' = [call EXCEPT ![c] = q]
Alive(i, gen) == net[i].gen = gen
Programming(i) == {c \in Calls : call[c].st = "plan" /\ call[c].i = i /\ Alive(i, call[c].gen)}
MarkOdd(is) == net' = [i \in Slots |-> [net[i] EXCEPT !.odd = @ \/ i \in is]]

-----------------------------------------------------------------------------
(* Answers of the manager: applyEgressPolicy, then applyArtifactHost.      *)

\* applyPolicy leaves alone what is up to date and what is leased.
SkipsCurrent(s, p) == s.sig = p
Skips(s, p) == s.sig = p \/ s.lease.st # "free"

\* The loop up to its next await: the next slot it works on, if any.
Stale(from, p) == {i \in from..NSlots : ~Skips(slot[i], p)}
ApplyFrom(from, p, h) ==
    IF Stale(from, p) = {} THEN [st |-> "host", i |-> 0, host |-> h]
    ELSE LET i == Min(Stale(from, p))
         IN  [st |-> "plan", i |-> i, pol |-> p, host |-> h, gen |-> slot[i].gen,
              cmds |-> <<>>, built |-> FALSE]
Begins(q, p) ==
    IF q.st = "plan" /\ (Programming(q.i) # {} \/ q.pol # p) THEN {q.i} ELSE {}

Answer(c, p, h) ==
    LET q == IF p # policy THEN ApplyFrom(1, p, h) ELSE [st |-> "host", i |-> 0, host |-> h] IN
    /\ call[c] = Idle
    /\ left.answers > 0 /\ left' = [left EXCEPT !.answers = @ - 1]
    /\ policy' = p
    /\ SetCall(c, q)
    /\ MarkOdd(Begins(q, p) \union
               {i \in Slots : p # policy /\ (boot[i] # NoBoot \/ Programming(i) # {})})
    /\ UNCHANGED <<artifactHost, persistent, slot, boot, want>>

ResolvePlan(c) ==
    /\ call[c].st = "plan" /\ ~call[c].built
    /\ SetCall(c, [call[c] EXCEPT !.cmds = PlanFor(call[c].pol), !.built = TRUE])
    /\ UNCHANGED <<policy, artifactHost, persistent, slot, net, boot, want, left>>

StepPlan(c) ==
    LET q == call[c] IN
    /\ q.st = "plan" /\ q.cmds # <<>> /\ Alive(q.i, q.gen)
    /\ net' = [net EXCEPT ![q.i].chain = Run(@, Head(q.cmds)),
                          ![q.i].pols = @ \union {q.pol}]
    /\ SetCall(c, [q EXCEPT !.cmds = Tail(@)])
    /\ UNCHANGED <<policy, artifactHost, persistent, slot, boot, want, left>>

\* The signature goes to the entry that was in hand, which may have been replaced.
EndPlan(c) ==
    LET q == call[c]
        next == ApplyFrom(q.i + 1, q.pol, q.host) IN
    /\ q.st = "plan" /\ q.built /\ q.cmds = <<>>
    /\ slot' = [slot EXCEPT ![q.i].sig = IF slot[q.i].gen = q.gen THEN q.pol ELSE @]
    /\ SetCall(c, next)
    /\ MarkOdd(Begins(next, policy))
    /\ UNCHANGED <<policy, artifactHost, persistent, boot, want, left>>

\* A command fails, and every command does in a namespace that is gone.
PlanFails(c) ==
    LET q == call[c]
        next == ApplyFrom(q.i + 1, q.pol, q.host) IN
    /\ q.st = "plan" /\ q.built /\ q.cmds # <<>>
    /\ MarkOdd(Begins(next, policy) \union (IF Alive(q.i, q.gen) THEN {q.i} ELSE {}))
    /\ SetCall(c, next)
    /\ UNCHANGED <<policy, artifactHost, persistent, slot, boot, want, left>>

\* allowEgressAll: the host is remembered first, then every slot gets the rule.
RememberHost(c) ==
    LET q == call[c] IN
    /\ q.st = "host" /\ q.i = 0 /\ q.host \notin {NoHost, artifactHost}
    /\ persistent' = persistent \union {q.host}
    /\ IF policy.enforce
       THEN SetCall(c, [q EXCEPT !.i = 1]) /\ UNCHANGED <<artifactHost, net>>
       ELSE /\ SetCall(c, Idle) /\ artifactHost' = q.host
            /\ MarkOdd({i \in Slots : slot[i].sig.enforce})
    /\ UNCHANGED <<policy, slot, boot, want, left>>

SameHost(c) ==
    /\ call[c].st = "host" /\ call[c].i = 0 /\ call[c].host \in {NoHost, artifactHost}
    /\ SetCall(c, Idle)
    /\ UNCHANGED <<policy, artifactHost, persistent, slot, net, boot, want, left>>

AllowHost(c) ==
    LET q == call[c] IN
    /\ q.st = "host" /\ q.i \in Slots /\ Alive(q.i, slot[q.i].gen)
    /\ net' = [net EXCEPT ![q.i].chain = InsertRule(@, {q.host}),
                          ![q.i].odd = @ \/ Programming(q.i) # {}]
    /\ SetCall(c, [q EXCEPT !.i = @ + 1])
    /\ UNCHANGED <<policy, artifactHost, persistent, slot, boot, want, left>>

HostAllowed(c) ==
    /\ call[c].st = "host" /\ call[c].i = NSlots + 1
    /\ artifactHost' = call[c].host
    /\ SetCall(c, Idle)
    /\ UNCHANGED <<policy, persistent, slot, net, boot, want, left>>

\* The slot's namespace is gone or the command fails: the next answer tries again.
AllowHostFails(c) ==
    /\ call[c].st = "host" /\ call[c].i \in Slots
    /\ SetCall(c, Idle)
    /\ UNCHANGED <<policy, artifactHost, persistent, slot, net, boot, want, left>>

-----------------------------------------------------------------------------
(* Leases.                                                                 *)

\* Only targets of the list may be asked for, and before there is a slot.
ScreenEgressRequest(hs) == hs \subseteq policy.leaseAllow
Ask(hs) ==
    /\ want = Nothing
    /\ policy.enforce => ScreenEgressRequest(hs)
    /\ want' = [asked |-> TRUE, targets |-> IF policy.enforce THEN hs ELSE {}]
    /\ UNCHANGED <<policy, artifactHost, persistent, slot, net, boot, call, left>>

Free == {i \in Slots : slot[i].lease.st = "free"}
Acquire ==
    LET i == Min(Free) IN
    /\ want.asked /\ Free # {}
    /\ slot' = [slot EXCEPT ![i].lease = [st |-> IF want.targets = {} THEN "running" ELSE "taken",
                                          targets |-> want.targets]]
    /\ want' = Nothing
    /\ MarkOdd(IF Programming(i) # {} THEN {i} ELSE {})
    /\ UNCHANGED <<policy, artifactHost, persistent, boot, call, left>>

NoSlot ==
    /\ want.asked /\ Free = {}
    /\ want' = Nothing
    /\ UNCHANGED <<policy, artifactHost, persistent, slot, net, boot, call, left>>

\* allowEgress; where nothing is filtered there is nothing to insert.
AllowEgress(i) ==
    LET s == slot[i] IN
    /\ s.lease.st = "taken"
    /\ IF policy.enforce
       THEN net' = [net EXCEPT ![i].chain = InsertRule(@, s.lease.targets)]
       ELSE MarkOdd(IF s.sig.enforce THEN {i} ELSE {})
    /\ slot' = [slot EXCEPT ![i].lease.st = "running"]
    /\ UNCHANGED <<policy, artifactHost, persistent, boot, call, want, left>>

\* The lease ends, or its rule could not be set; the slot stays busy.
Close(i) ==
    /\ slot[i].lease.st \in {"taken", "running"}
    /\ left.boots > 0 /\ left' = [left EXCEPT !.boots = @ - 1]
    /\ slot' = [slot EXCEPT ![i].lease.st = "closing"]
    /\ UNCHANGED <<policy, artifactHost, persistent, net, boot, call, want>>

-----------------------------------------------------------------------------
(* release: the old namespace dies, bootSlot makes a new one under the     *)
(* policy of this moment, with the same plan.                              *)

Fresh(i) == [gen |-> net[i].gen + 1, chain |-> EmptyChain, pols |-> {policy}, odd |-> FALSE]

BootSlot(i) ==
    /\ slot[i].lease.st = "closing" /\ boot[i] = NoBoot
    /\ net' = [net EXCEPT ![i] = Fresh(i)]
    /\ boot' = [boot EXCEPT ![i] = [st |-> "boot", pol |-> policy, cmds |-> <<>>, built |-> FALSE]]
    /\ UNCHANGED <<policy, artifactHost, persistent, slot, call, want, left>>

BootResolve(i) ==
    /\ boot[i].st = "boot" /\ ~boot[i].built
    /\ boot' = [boot EXCEPT ![i].cmds = PlanFor(boot[i].pol), ![i].built = TRUE]
    /\ UNCHANGED <<policy, artifactHost, persistent, slot, net, call, want, left>>

BootStep(i) ==
    /\ boot[i].st = "boot" /\ boot[i].cmds # <<>>
    /\ net' = [net EXCEPT ![i].chain = Run(@, Head(boot[i].cmds))]
    /\ boot' = [boot EXCEPT ![i].cmds = Tail(@)]
    /\ UNCHANGED <<policy, artifactHost, persistent, slot, call, want, left>>

BootDone(i) ==
    /\ boot[i].st = "boot" /\ boot[i].built /\ boot[i].cmds = <<>>
    /\ slot' = [slot EXCEPT ![i] = [gen |-> net[i].gen, sig |-> boot[i].pol, lease |-> NoLease]]
    /\ boot' = [boot EXCEPT ![i] = NoBoot]
    /\ UNCHANGED <<policy, artifactHost, persistent, net, call, want, left>>

\* The slot stays busy for good.
BootFails(i) ==
    /\ boot[i].st = "boot"
    /\ boot' = [boot EXCEPT ![i] = [st |-> "failed"]]
    /\ UNCHANGED <<policy, artifactHost, persistent, slot, net, call, want, left>>

-----------------------------------------------------------------------------
\* init() has built every slot under the policy of the environment.
BuiltUnder(p) == [gen |-> 0, pols |-> {p}, odd |-> FALSE,
                  chain |-> IF p.enforce
                            THEN [default |-> "DROP", allow |-> p.allow, reject |-> TRUE]
                            ELSE EmptyChain]
Init ==
    /\ policy \in Policies
    /\ artifactHost = NoHost /\ persistent = {}
    /\ slot = [i \in Slots |-> [gen |-> 0, sig |-> policy, lease |-> NoLease]]
    /\ net = [i \in Slots |-> BuiltUnder(policy)]
    /\ boot = [i \in Slots |-> NoBoot]
    /\ call = [c \in Calls |-> Idle]
    /\ want = Nothing
    /\ left = [answers |-> MaxAnswers, boots |-> MaxBoots]

Next ==
    \/ \E c \in Calls :
         \/ \E p \in Policies, h \in Stores \union {NoHost} : Answer(c, p, h)
         \/ ResolvePlan(c) \/ StepPlan(c) \/ EndPlan(c) \/ PlanFails(c)
         \/ RememberHost(c) \/ SameHost(c) \/ AllowHost(c) \/ HostAllowed(c) \/ AllowHostFails(c)
    \/ \E hs \in SUBSET Hosts : Ask(hs)
    \/ Acquire \/ NoSlot
    \/ \E i \in Slots : \/ AllowEgress(i) \/ Close(i) \/ BootSlot(i)
                        \/ BootResolve(i) \/ BootStep(i) \/ BootDone(i) \/ BootFails(i)

Spec == Init /\ [][Next]_vars
-----------------------------------------------------------------------------
TypeOK ==
    /\ policy \in Policies /\ artifactHost \in Stores \union {NoHost} /\ persistent \subseteq Stores
    /\ \A i \in Slots :
         /\ slot[i].lease.st \in {"free", "taken", "running", "closing"}
         /\ slot[i].sig \in Policies
         /\ net[i].chain.default \in {"ACCEPT", "DROP"} /\ net[i].chain.allow \subseteq Hosts
         /\ boot[i] # NoBoot => slot[i].lease.st = "closing"
         /\ slot[i].gen = net[i].gen \/ slot[i].lease.st = "closing"
    /\ \A c \in Calls : call[c].st \in {"idle", "plan", "host"}

InUse(i) == slot[i].gen = net[i].gen

(* Whatever overlaps or fails, a slot in use reaches no more than the      *)
(* policies it was programmed with allow, the object store, and the        *)
(* targets of its own lease: nothing is left of an earlier lease           *)
(* (slot-pool.js release), and no moment of a half-written chain is open   *)
(* (netns.js buildEgressPlan).                                             *)
Contained ==
    \A i \in Slots : InUse(i) /\ (\A p \in net[i].pols : p.enforce) =>
        Reach(net[i]) \subseteq
            (UNION {p.allow : p \in net[i].pols}) \union persistent \union slot[i].lease.targets

(* Where nothing came between (odd), a slot that is not being programmed   *)
(* lets through exactly what its signature says, what its lease was given  *)
(* and the object store once the client takes it for open, also after      *)
(* changes of policy and rebuilds; and when every answer has been dealt    *)
(* with, a free slot has the policy of now (slot-pool.js applyPolicy,      *)
(* allowEgress, allowEgressAll).                                           *)
InForce ==
    \A i \in Slots : InUse(i) /\ ~net[i].odd /\ Programming(i) = {} =>
        LET p == slot[i].sig
            lease == slot[i].lease
            must == p.allow \union (IF lease.st = "running" THEN lease.targets ELSE {})
                      \union ({artifactHost} \ {NoHost})
        IN
        /\ must \subseteq Reach(net[i])
        /\ IF p.enforce THEN Reach(net[i]) \subseteq p.allow \union persistent \union lease.targets
           ELSE Reach(net[i]) = Hosts
        /\ (\A c \in Calls : call[c].st # "plan") /\ lease.st = "free" => p = policy

(* The two together: no more and, short of those cases, no less than the   *)
(* slot and its lease were given.                                          *)
RulesHold == Contained /\ InForce
=============================================================================
