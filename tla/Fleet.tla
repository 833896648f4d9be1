------------------------------- MODULE Fleet -------------------------------
(***************************************************************************)
(* The cluster of sandbox nodes as the sandbox manager sees it: workers    *)
(* register and send heartbeats, the registry keeps one expiring record    *)
(* per node beside a directory of node ids, a job reconciles the two, the  *)
(* scheduler picks nodes from a short-lived snapshot and signs tickets, and *)
(* a node exchanges each ticket for a lease once.  The operator's console  *)
(* drains and evicts nodes, kills leases and opens debug sandboxes.        *)
(*                                                                         *)
(* Every await between two calls of the store is a step of its own, and a  *)
(* call that the worker gave up is still carried out by the manager.  Time *)
(* is counted in ticks of one heartbeat interval: TTLs are what is left of *)
(* them, so that the model has no clock to bound.                          *)
(***************************************************************************)
EXTENDS Integers, FiniteSets, Functions

CONSTANTS Nodes, Users, Operator,
          Listers,     \* who lists nodes in an instance: "pick", "reconcile"
          Calls,       \* bound: calls of workers the manager has at a time
          Slots,       \* slots of a node (capacity.slots)
          StaleTtl,    \* life of a node record (SANDBOX_STALE_MS), in ticks
          CacheTtl,    \* life of the scheduler's snapshot, in ticks
          TicketTtl,   \* life of a ticket (SANDBOX_TICKET_TTL_MS), in ticks
          Limit,       \* candidates per schedule call
          PerUser,     \* SANDBOX_MAX_LEASES_PER_USER, 0 for none
          PurgeAbove,  \* size above which the table of used tickets is purged
          MaxTickets,  \* bound: tickets ever signed
          MaxFaults,   \* bound: lost calls, failed statements, delays, crashes
          MaxActs      \* bound: the operator's drains and evictions

ASSUME FleetAssumption ==
    /\ IsFiniteSet(Nodes) /\ Nodes # {}
    /\ Operator \notin Users
    /\ Listers \subseteq {"pick", "reconcile"}
    /\ Slots \in Nat \ {0} /\ Limit \in Nat \ {0}
    /\ StaleTtl \in Nat \ {0, 1} /\ CacheTtl \in Nat \ {0} /\ TicketTtl \in Nat \ {0}
    /\ PerUser \in Nat /\ PurgeAbove \in Nat
    /\ MaxTickets \in Nat /\ MaxFaults \in Nat /\ MaxActs \in Nat

VARIABLES
    worker,      \* each node's process: its flags and its two timers
    call,        \* the workers' calls in progress, at the manager or on the wire
    detail,      \* node key -> record, in the shared store
    directory,   \* ids in the directory hash
    drains,      \* ids the operator has marked
    lister,      \* a list() in progress, for the scheduler and for the job
    snapshot,    \* the scheduler's cached list
    ticket,      \* every ticket signed
    seen,        \* per node, the tickets in its one-time table
    leases,      \* per node, the leases (named by their tickets) it has
    uses,        \* per ticket, how often its node accepted it in this boot
    drainAge,    \* ticks since a node was marked, NotDrained if it is not
    faults, acts \* what is left of the bounds

vars == <<worker, call, detail, directory, drains, lister, snapshot, ticket, seen,
          leases, uses, drainAge, faults, acts>>

Tickets == 1..MaxTickets
NoRecord == [kind |-> "none"]
NoCall == [kind |-> "none"]
NoTicket == [scp |-> "none"]
NotDrained == -1

\* The record of a node; a fresh registration reports every slot as used.
Record(kind, held, draining) ==
    [kind |-> kind, held |-> held, draining |-> draining, life |-> StaleTtl]

Used(r) == IF r.kind = "register" THEN Slots ELSE Cardinality(r.held)

Timers == {"off", "armed", "due"}

Idle == [stage |-> "idle", ids |-> {}, recs |-> [n \in {} |-> NoRecord]]

Fresh == [up |-> FALSE, stopped |-> FALSE, registered |-> FALSE,
          regTimer |-> "off", hbTimer |-> "off"]

Init ==
    /\ worker = [n \in Nodes |-> Fresh]
    /\ call = [c \in Calls |-> NoCall]
    /\ detail = [n \in Nodes |-> NoRecord]
    /\ directory = {} /\ drains = {}
    /\ lister = [w \in {"pick", "reconcile"} |-> Idle]
    /\ snapshot = [nodes |-> Idle.recs, life |-> 0, blind |-> FALSE]
    /\ ticket = [j \in Tickets |-> NoTicket]
    /\ seen = [n \in Nodes |-> {}]
    /\ leases = [n \in Nodes |-> {}]
    /\ uses = [j \in Tickets |-> 0]
    /\ drainAge = [n \in Nodes |-> NotDrained]
    /\ faults = MaxFaults /\ acts = MaxActs

Signed == {j \in Tickets : ticket[j] # NoTicket}

registryVars == <<detail, directory, drains, drainAge>>
pickVars == <<lister, snapshot>>
nodeVars == <<seen, leases, uses>>

Fault == faults > 0 /\ faults' = faults - 1

-----------------------------------------------------------------------------
(* The worker's manager client *)

\* start(), on a new boot: the one-time table, the leases and the counts are empty.
Start(n) ==
    /\ ~worker[n].up
    /\ worker' = [worker EXCEPT ![n] = [Fresh EXCEPT !.up = TRUE, !.regTimer = "due"]]
    /\ seen' = [seen EXCEPT ![n] = {}]
    /\ leases' = [leases EXCEPT ![n] = {}]
    /\ uses' = [j \in Tickets |-> IF ticket[j] # NoTicket /\ ticket[j].nid = n
                                  THEN 0 ELSE uses[j]]
    /\ UNCHANGED <<call, registryVars, pickVars, ticket, faults, acts>>

\* A request of node n leaves the worker in a free place c.
Send(c, n, kind) ==
    /\ call[c] = NoCall
    /\ call' = [call EXCEPT ![c] = [kind |-> kind, node |-> n, stage |-> "sent",
                                    held |-> leases[n], draining |-> worker[n].stopped,
                                    waiting |-> TRUE]]

\* The register timer fires.
SendRegister(c, n) ==
    /\ worker[n].up /\ worker[n].regTimer = "due"
    /\ Send(c, n, "register")
    /\ worker' = [worker EXCEPT ![n].regTimer = "off"]
    /\ UNCHANGED <<registryVars, pickVars, ticket, nodeVars, faults, acts>>

\* The heartbeat timer fires and loadSnapshot() is taken.
SendHeartbeat(c, n) ==
    /\ worker[n].up /\ worker[n].hbTimer = "due"
    /\ Send(c, n, "heartbeat")
    /\ worker' = [worker EXCEPT ![n].hbTimer = "off"]
    /\ UNCHANGED <<registryVars, pickVars, ticket, nodeVars, faults, acts>>

\* scheduleHeartbeat() and scheduleRegister(): nothing is armed after stop().
HeartbeatAlways(w) == [w EXCEPT !.hbTimer = "armed"]
HeartbeatLater(w) == [w EXCEPT !.hbTimer = IF w.stopped THEN "off" ELSE "armed"]
RegisterNever(w) == [w EXCEPT !.regTimer = "off"]
RegisterNow(w) == [w EXCEPT !.regTimer = IF w.stopped THEN "off" ELSE "due"]
RegisterLater(w) == [w EXCEPT !.regTimer = IF w.stopped THEN "off" ELSE "armed"]

\* What the worker does with an answer, by the kind of the call and its outcome.
Answered(w, kind, outcome) ==
    CASE kind = "register" /\ outcome = "ok" ->
           HeartbeatLater([w EXCEPT !.registered = TRUE])
      [] kind = "register" /\ outcome # "ok" -> RegisterLater(w)
      [] kind = "heartbeat" /\ outcome = "conflict" ->
           HeartbeatLater(RegisterNow([w EXCEPT !.registered = FALSE]))
      [] kind = "heartbeat" /\ outcome # "conflict" -> HeartbeatLater(w)
      [] kind = "deregister" -> [w EXCEPT !.registered = FALSE]

\* The manager has answered; nobody may be waiting any more.
Answer(c) ==
    /\ call[c] # NoCall /\ call[c].stage \in {"ok", "conflict", "failed"}
    /\ LET n == call[c].node IN
         worker' = IF call[c].waiting
                   THEN [worker EXCEPT ![n] = Answered(@, call[c].kind, call[c].stage)]
                   ELSE worker
    /\ call' = [call EXCEPT ![c] = NoCall]
    /\ UNCHANGED <<registryVars, pickVars, ticket, nodeVars, faults, acts>>

\* postJson() fails: the request or its answer is lost, and in the second case
\* the manager carries the call out all the same.
CallLost(c) ==
    /\ Fault
    /\ call[c] # NoCall /\ call[c].waiting
    /\ LET n == call[c].node IN
         worker' = [worker EXCEPT ![n] = Answered(@, call[c].kind, "failed")]
    /\ \/ call' = [call EXCEPT ![c].waiting = FALSE]
       \/ call[c].stage = "sent" /\ call' = [call EXCEPT ![c] = NoCall]
    /\ UNCHANGED <<registryVars, pickVars, ticket, nodeVars, acts>>

\* stop(): the timers go first, and only a registered node says goodbye.
Stop(n) ==
    /\ worker[n].up /\ ~worker[n].stopped
    /\ worker' = [worker EXCEPT ![n].stopped = TRUE, ![n].hbTimer = "off",
                                ![n].regTimer = "off"]
    /\ IF worker[n].registered THEN \E c \in Calls : Send(c, n, "deregister")
       ELSE UNCHANGED call
    /\ UNCHANGED <<registryVars, pickVars, ticket, nodeVars, faults, acts>>

\* The process is gone: nobody waits for its calls.
Gone(n) ==
    /\ worker' = [worker EXCEPT ![n] = Fresh]
    /\ call' = [c \in Calls |-> IF call[c] # NoCall /\ call[c].node = n
                                THEN [call[c] EXCEPT !.waiting = FALSE] ELSE call[c]]
    /\ leases' = [leases EXCEPT ![n] = {}]

\* shutdown() in index.js: after stop() the leases are released and it exits.
Exit(n) ==
    /\ worker[n].up /\ worker[n].stopped
    /\ \A c \in Calls : ~(call[c] # NoCall /\ call[c].node = n /\ call[c].waiting
                          /\ call[c].kind = "deregister")
    /\ Gone(n)
    /\ UNCHANGED <<registryVars, pickVars, ticket, seen, uses, faults, acts>>

Crash(n) ==
    /\ Fault
    /\ worker[n].up
    /\ Gone(n)
    /\ UNCHANGED <<registryVars, pickVars, ticket, seen, uses, acts>>

-----------------------------------------------------------------------------
(* The manager's node routes; prev is only read for what never changes *)

Stage(c, s) == call' = [call EXCEPT ![c].stage = s]

At(c, kinds, s) == call[c] # NoCall /\ call[c].kind \in kinds /\ call[c].stage = s

\* A heartbeat of a node without record is refused with 409.
ReadPrev(c) ==
    /\ At(c, {"heartbeat"}, "sent")
    /\ Stage(c, IF detail[call[c].node] = NoRecord THEN "conflict" ELSE "read")
    /\ UNCHANGED <<worker, registryVars, pickVars, ticket, nodeVars, faults, acts>>

\* writeNode(), first statement: setex replaces the record and its TTL.
WriteDetail(c) ==
    /\ At(c, {"register"}, "sent") \/ At(c, {"heartbeat"}, "read")
    /\ detail' = [detail EXCEPT ![call[c].node] =
                    Record(call[c].kind,
                           IF call[c].kind = "register" THEN {} ELSE call[c].held,
                           call[c].kind = "heartbeat" /\ call[c].draining)]
    /\ Stage(c, "written")
    /\ UNCHANGED <<worker, directory, drains, drainAge, pickVars, ticket, nodeVars, faults, acts>>

\* writeNode(), second statement.
WriteDirectory(c) ==
    /\ At(c, {"register", "heartbeat"}, "written")
    /\ directory' = directory \union {call[c].node}
    /\ Stage(c, "ok")
    /\ UNCHANGED <<worker, detail, drains, drainAge, pickVars, ticket, nodeVars, faults, acts>>

\* remove(): the directory keeps the id.
Deregister(c) ==
    /\ At(c, {"deregister"}, "sent")
    /\ detail' = [detail EXCEPT ![call[c].node] = NoRecord]
    /\ Stage(c, "ok")
    /\ UNCHANGED <<worker, directory, drains, drainAge, pickVars, ticket, nodeVars, faults, acts>>

\* A statement fails: setex and del answer 503, a failed hset is only logged,
\* a failed get counts as no record.
StatementFails(c) ==
    /\ Fault
    /\ \/ (At(c, {"register", "deregister"}, "sent") \/ At(c, {"heartbeat"}, "read"))
          /\ Stage(c, "failed")
       \/ At(c, {"heartbeat"}, "sent") /\ Stage(c, "conflict")
       \/ At(c, {"register", "heartbeat"}, "written") /\ Stage(c, "ok")
    /\ UNCHANGED <<worker, registryVars, pickVars, ticket, nodeVars, acts>>

-----------------------------------------------------------------------------
(* list(), for the scheduler and for the reconcile job *)

SetLister(w, s, ids, recs) ==
    lister' = [lister EXCEPT ![w] = [stage |-> s, ids |-> ids, recs |-> recs]]

\* hgetall of the directory, for the job or for listCached() without a snapshot.
ListDirectory(w) ==
    /\ lister[w].stage = "idle"
    /\ w = "pick" => snapshot.life = 0 /\ Cardinality(Signed) < MaxTickets
    /\ SetLister(w, "ids", directory, Idle.recs)
    /\ UNCHANGED <<worker, call, registryVars, snapshot, ticket, nodeVars, faults, acts>>

\* mget of the records: expired and removed ones are skipped.
ListDetails(w) ==
    /\ lister[w].stage = "ids"
    /\ LET there == {n \in lister[w].ids : detail[n] # NoRecord} IN
         SetLister(w, "details", there, [n \in there |-> detail[n]])
    /\ UNCHANGED <<worker, call, registryVars, snapshot, ticket, nodeVars, faults, acts>>

\* The operator's marks laid over the records; unreadable marks count as none.
OverlaidIfHeard(recs, marks) ==
    [n \in DOMAIN recs |->
       [recs[n] EXCEPT !.draining = @ \/ (n \in marks /\ recs[n].kind = "register")]]
Overlaid(recs, marks) ==
    [n \in DOMAIN recs |-> [recs[n] EXCEPT !.draining = @ \/ n \in marks]]

ListFails(w) ==
    /\ Fault
    /\ lister[w].stage = "ids"
    /\ SetLister(w, "idle", {}, Idle.recs)
    /\ UNCHANGED <<worker, call, registryVars, snapshot, ticket, nodeVars, acts>>

\* reconcile(): the marks are read, then the directory is deleted.
ReconcileDelete ==
    /\ lister["reconcile"].stage = "details"
    /\ directory' = {}
    /\ SetLister("reconcile", "deleted", DOMAIN lister["reconcile"].recs, Idle.recs)
    /\ UNCHANGED <<worker, call, detail, drains, drainAge, snapshot, ticket, nodeVars, faults, acts>>

\* One hset per listed node; one that fails is skipped.
ReconcileRestore(n) ==
    /\ lister["reconcile"].stage = "deleted" /\ n \in lister["reconcile"].ids
    /\ directory' = directory \union {n}
    /\ SetLister("reconcile", "deleted", lister["reconcile"].ids \ {n}, Idle.recs)
    /\ UNCHANGED <<worker, call, detail, drains, drainAge, snapshot, ticket, nodeVars, faults, acts>>

ReconcileSkip(n) ==
    /\ Fault
    /\ lister["reconcile"].stage = "deleted" /\ n \in lister["reconcile"].ids
    /\ SetLister("reconcile", "deleted", lister["reconcile"].ids \ {n}, Idle.recs)
    /\ UNCHANGED <<worker, call, registryVars, snapshot, ticket, nodeVars, acts>>

ReconcileDone ==
    /\ lister["reconcile"].stage = "deleted" /\ lister["reconcile"].ids = {}
    /\ SetLister("reconcile", "idle", {}, Idle.recs)
    /\ UNCHANGED <<worker, call, registryVars, snapshot, ticket, nodeVars, faults, acts>>

-----------------------------------------------------------------------------
(* The scheduler and the tickets *)

\* issue(): the next unused id, alive for TicketTtl.
Ticket(n, u, scp) == [nid |-> n, user |-> u, scp |-> scp, life |-> TicketTtl]

\* schedulable() and the pool and capability tests of pick().
Schedulable(r) == ~r.draining /\ Used(r) < Slots

\* pick(): the most free nodes first, ties at random, at most Limit of them.
Picks(recs) ==
    LET fit == {n \in DOMAIN recs : Schedulable(recs[n])} IN
      {C \in SUBSET fit :
         /\ Cardinality(C) = IF Cardinality(fit) < Limit THEN Cardinality(fit) ELSE Limit
         /\ \A n \in C, m \in fit \ C : Used(recs[n]) <= Used(recs[m])}

\* leasesOf(): what the listed nodes report for a user.
LeasesOf(recs, u) ==
    Cardinality({p \in (DOMAIN recs) \X Tickets :
                   p[2] \in recs[p[1]].held /\ ticket[p[2]].user = u})

WithinQuota(recs, u) == PerUser = 0 \/ LeasesOf(recs, u) < PerUser

\* POST /schedule with a list: a ticket for every candidate.
IssueAll(recs, u) ==
    \E C \in Picks(recs) :
      LET k == Cardinality(Signed) IN
        IF ~WithinQuota(recs, u) \/ k + Cardinality(C) > MaxTickets THEN UNCHANGED ticket
        ELSE \E f \in Bijection(C, (k + 1)..(k + Cardinality(C))) :
               ticket' = [j \in Tickets |->
                            IF j \in Range(f)
                            THEN Ticket(CHOOSE n \in C : f[n] = j, u, "lease")
                            ELSE ticket[j]]

\* listCached() with a live snapshot.
ScheduleCached(u) ==
    /\ snapshot.life > 0
    /\ IssueAll(snapshot.nodes, u)
    /\ UNCHANGED <<worker, call, registryVars, pickVars, nodeVars, faults, acts>>

\* The list ends with the marks: it is cached and the candidates are signed.
ScheduleListed(u, marks, blind) ==
    LET recs == Overlaid(lister["pick"].recs, marks) IN
      /\ lister["pick"].stage = "details"
      /\ snapshot' = [nodes |-> recs, life |-> CacheTtl, blind |-> blind]
      /\ IssueAll(recs, u)
      /\ SetLister("pick", "idle", {}, Idle.recs)
      /\ UNCHANGED <<worker, call, registryVars, nodeVars, acts>>

ScheduleReadsMarks(u) == ScheduleListed(u, drains, FALSE) /\ UNCHANGED faults
ScheduleBlind(u) == Fault /\ ScheduleListed(u, {}, TRUE)

\* A console call signs one ticket for a node whose record is there: a lease
\* for a debug sandbox, or an admin ticket for occupancy or kill.
ConsoleTicket(n, scp) ==
    /\ detail[n] # NoRecord
    /\ Cardinality(Signed) < MaxTickets
    /\ ticket' = [ticket EXCEPT ![Cardinality(Signed) + 1] = Ticket(n, Operator, scp)]
    /\ UNCHANGED <<worker, call, registryVars, pickVars, nodeVars, faults, acts>>

\* verifyTicket(): a ticket is refused from its last millisecond on.
Valid(j) == ticket[j] # NoTicket /\ ticket[j].life > 0

\* createTicketGuard().claim(): expired ids are dropped when the table is large.
PurgedOldest(n) == IF Cardinality(seen[n]) > PurgeAbove THEN {} ELSE seen[n]
Purged(n) ==
    IF Cardinality(seen[n]) > PurgeAbove THEN {i \in seen[n] : ticket[i].life > 0} ELSE seen[n]

Claim(n, j) ==
    /\ worker[n].up /\ Valid(j) /\ ticket[j].nid = n
    /\ j \notin seen[n]
    /\ seen' = [seen EXCEPT ![n] = Purged(n) \union {j}]
    /\ uses' = [uses EXCEPT ![j] = @ + 1]

\* POST /v1/leases with a ticket: claimed first, then 429 if no slot is free.
\* The lease id is the worker's own, so a replay would be a second lease.
Exchange(n, j) ==
    /\ ticket[j].scp = "lease"
    /\ Claim(n, j)
    /\ leases' = IF Cardinality(leases[n]) < Slots
                 THEN [leases EXCEPT ![n] = @ \union {j}] ELSE leases
    /\ UNCHANGED <<worker, call, registryVars, pickVars, ticket, faults, acts>>

\* DELETE /v1/admin/leases/:id with an admin ticket; the lease may be gone.
Kill(n, j, victim) ==
    /\ ticket[j].scp = "admin"
    /\ Claim(n, j)
    /\ leases' = [leases EXCEPT ![n] = @ \ {victim}]
    /\ UNCHANGED <<worker, call, registryVars, pickVars, ticket, faults, acts>>

\* A lease is deleted, swept or preempted: see LeaseManager.
LeaseEnds(n, j) ==
    /\ j \in leases[n]
    /\ leases' = [leases EXCEPT ![n] = @ \ {j}]
    /\ UNCHANGED <<worker, call, registryVars, pickVars, ticket, seen, uses, faults, acts>>

-----------------------------------------------------------------------------
(* The operator, and time *)

Act == acts > 0 /\ acts' = acts - 1

\* POST /ui/drain: the mark is kept apart from the record.
SetDrain(n, drained) ==
    /\ Act
    /\ drained # (n \in drains)
    /\ drains' = IF drained THEN drains \union {n} ELSE drains \ {n}
    /\ drainAge' = [drainAge EXCEPT ![n] = IF drained THEN 0 ELSE NotDrained]
    /\ UNCHANGED <<worker, call, detail, directory, pickVars, ticket, nodeVars, faults>>

\* POST /ui/evict: the record goes, the mark stays.
Evict(n) ==
    /\ Act
    /\ detail' = [detail EXCEPT ![n] = NoRecord]
    /\ UNCHANGED <<worker, call, directory, drains, drainAge, pickVars, ticket, nodeVars, faults>>

Due(t) == IF t = "armed" THEN "due" ELSE t

\* Everything due in a heartbeat interval happens in it, a slow call costs a
\* fault; a list never takes as long as an interval.
Punctual ==
    /\ \A n \in Nodes : worker[n].hbTimer # "due" /\ worker[n].regTimer # "due"
    /\ \A c \in Calls : call[c] = NoCall

ExpiredLate(r) == IF r = NoRecord \/ r.life = 0 THEN NoRecord ELSE [r EXCEPT !.life = @ - 1]
Expired(r) == IF r = NoRecord \/ r.life = 1 THEN NoRecord ELSE [r EXCEPT !.life = @ - 1]

Tick ==
    /\ lister["pick"].stage = "idle"
    /\ IF Punctual THEN UNCHANGED faults ELSE Fault
    /\ worker' = [n \in Nodes |-> [worker[n] EXCEPT !.hbTimer = Due(@), !.regTimer = Due(@)]]
    /\ detail' = [n \in Nodes |-> Expired(detail[n])]
    /\ snapshot' = IF snapshot.life <= 1 THEN [nodes |-> Idle.recs, life |-> 0, blind |-> FALSE]
                   ELSE [snapshot EXCEPT !.life = @ - 1]
    /\ ticket' = [j \in Tickets |-> IF ticket[j] # NoTicket /\ ticket[j].life > 0
                                    THEN [ticket[j] EXCEPT !.life = @ - 1] ELSE ticket[j]]
    /\ drainAge' = [n \in Nodes |-> IF drainAge[n] \in 0..(CacheTtl - 1)
                                    THEN drainAge[n] + 1 ELSE drainAge[n]]
    /\ UNCHANGED <<call, directory, drains, lister, nodeVars, acts>>

-----------------------------------------------------------------------------
CallStep(c) == ReadPrev(c) \/ WriteDetail(c) \/ WriteDirectory(c) \/ Deregister(c) \/ Answer(c)

ListStep(w) == ListDirectory(w) \/ ListDetails(w)

ReconcileStep ==
    ReconcileDelete \/ ReconcileDone \/ \E n \in Nodes : ReconcileRestore(n)

Next ==
    \/ \E n \in Nodes :
         \/ Start(n) \/ Stop(n) \/ Exit(n) \/ Crash(n) \/ Evict(n)
         \/ \E c \in Calls : SendRegister(c, n) \/ SendHeartbeat(c, n)
         \/ \E b \in BOOLEAN : SetDrain(n, b)
         \/ \E scp \in {"lease", "admin"} : ConsoleTicket(n, scp)
         \/ \E j \in Tickets : \/ Exchange(n, j) \/ LeaseEnds(n, j)
                               \/ \E v \in Tickets : Kill(n, j, v)
         \/ ReconcileSkip(n)
    \/ \E c \in Calls : CallStep(c) \/ CallLost(c) \/ StatementFails(c)
    \/ \E w \in Listers : ListStep(w) \/ ListFails(w)
    \/ ReconcileStep
    \/ \E u \in Users : ScheduleCached(u) \/ ScheduleReadsMarks(u) \/ ScheduleBlind(u)
    \/ Tick

\* Timers fire and store calls come back; nobody is obliged to start a worker,
\* to schedule or to use a ticket.
Fairness ==
    /\ \A n \in Nodes : /\ WF_vars(\E c \in Calls : SendRegister(c, n))
                        /\ WF_vars(\E c \in Calls : SendHeartbeat(c, n))
    /\ \A c \in Calls : WF_vars(CallStep(c))
    /\ WF_vars(\E u \in Users : ScheduleReadsMarks(u))
    /\ \A w \in Listers : WF_vars(ListStep(w))
    /\ WF_vars(ReconcileStep) /\ WF_vars(Tick)

Spec == Init /\ [][Next]_vars /\ Fairness

-----------------------------------------------------------------------------
Records == [kind : {"register", "heartbeat"}, held : SUBSET Tickets, draining : BOOLEAN,
            life : 1..StaleTtl]

Lists == UNION {[D -> Records] : D \in SUBSET Nodes}

TypeOK ==
    /\ worker \in [Nodes -> [up : BOOLEAN, stopped : BOOLEAN, registered : BOOLEAN,
                             regTimer : Timers, hbTimer : Timers]]
    /\ call \in [Calls -> [kind : {"register", "heartbeat", "deregister"}, node : Nodes,
                           stage : {"sent", "read", "written", "ok", "conflict", "failed"},
                           held : SUBSET Tickets, draining : BOOLEAN, waiting : BOOLEAN]
                          \union {NoCall}]
    /\ detail \in [Nodes -> Records \union {NoRecord}]
    /\ directory \subseteq Nodes /\ drains \subseteq Nodes
    /\ lister \in [{"pick", "reconcile"} -> [stage : {"idle", "ids", "details", "deleted"},
                                            ids : SUBSET Nodes, recs : Lists]]
    /\ snapshot \in [nodes : Lists, life : 0..CacheTtl, blind : BOOLEAN]
    /\ ticket \in [Tickets -> [nid : Nodes, user : Users \union {Operator},
                               scp : {"lease", "admin"}, life : 0..TicketTtl]
                              \union {NoTicket}]
    /\ seen \in [Nodes -> SUBSET Signed] /\ leases \in [Nodes -> SUBSET Signed]
    /\ uses \in [Tickets -> Nat]
    /\ drainAge \in [Nodes -> NotDrained..CacheTtl]
    /\ faults \in 0..MaxFaults /\ acts \in 0..MaxActs

\* A node accepts a ticket once in a boot, for a lease or for the console,
\* although the table that remembers it is purged while tickets are alive
\* (createTicketGuard; only a restart may forget one, as its comment says).
TicketOnce == \A j \in Tickets : uses[j] <= 1

\* The operator's drain takes effect within one life of the snapshot
\* (effectiveInMs of /ui/drain), however the node registers again, is evicted
\* or sends heartbeats that say it is not draining meanwhile; only a list whose
\* marks could not be read is excepted, which list() says counts as undrained.
DrainTakesEffect ==
    [][\A j \in Tickets :
         ticket[j] = NoTicket /\ ticket'[j] # NoTicket /\ ticket'[j].user \in Users
           => drainAge[ticket'[j].nid] < CacheTtl \/ snapshot'.blind]_vars

\* A running worker comes (back) into the directory with a record of its own
\* heartbeat, after expiry, eviction, a lost call or the reconcile job deleting
\* the directory it had just been written to.
Relisted ==
    \A n \in Nodes :
      worker[n].up /\ ~worker[n].stopped
        ~> \/ (n \in directory /\ detail[n].kind = "heartbeat")
           \/ ~worker[n].up \/ worker[n].stopped

\* A worker that stops or dies leaves the registry, although a heartbeat still
\* under way may write its record again after the deregistration, and although
\* a register under way at stop() is never followed by one.
StoppedLeaves ==
    \A n \in Nodes :
      ~worker[n].up \/ worker[n].stopped
        ~> detail[n] = NoRecord \/ (worker[n].up /\ ~worker[n].stopped)
=============================================================================
