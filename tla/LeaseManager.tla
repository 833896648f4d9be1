--------------------------- MODULE LeaseManager ---------------------------
(***************************************************************************)
(* The lease table of a sandbox worker (sandbox-worker/src/leases.js) on   *)
(* top of its slot pool (namespace/slot-pool.js: acquire and release).     *)
(*                                                                         *)
(* JavaScript runs a function without interruption up to its next await,   *)
(* so one action is the code between two awaits.  The asynchronous         *)
(* functions are split there: releaseLease (delete, kill, rebuild),        *)
(* acquire (preempt, then retry), park (evict one by one, then park),      *)
(* sweep and releaseAll (collect, then release one by one), and the HTTP   *)
(* handlers that look the lease up before they read the request body.      *)
(*                                                                         *)
(* Time is a clock in arbitrary units.  A lease identifier is random and   *)
(* used once; "phase" follows it from creation to the rebuilt slot.        *)
(***************************************************************************)
EXTENDS Naturals, FiniteSets

CONSTANTS
    LeaseId,           \* identifiers acquire() may draw
    User,              \* usernames
    None,              \* no lease
    NumSlots,          \* config.slots
    Ttl,               \* config.lease.ttlMs
    IdleTimeout,       \* config.lease.idleTimeoutMs
    MaxLifetime,       \* config.lease.maxLifetimeMs
    ParkTtl,           \* config.lease.parkTtlMs
    ParkGrace,         \* config.lease.parkGraceMs
    MaxParkedPerUser,  \* config.lease.maxParkedPerUser
    Requested,         \* the ttlMs/extendMs callers send; 0 stands for none
    BodyTimeout,       \* Node's requestTimeout: how long a body may take
    MaxPending,        \* bound: handlers awaiting a body at one time
    SlowRebuild,       \* whether the clock advances during a slot rebuild
    Sweeper,           \* sweeps that may overlap (setInterval does not wait)
    LastBirth,         \* bound: no acquire starts after this time
    MaxNow             \* bound: the clock stops here

ASSUME NoneAssumption == None \notin LeaseId
ASSUME NatAssumption ==
    /\ NumSlots \in Nat /\ Ttl \in Nat /\ IdleTimeout \in Nat
    /\ MaxLifetime \in Nat /\ ParkTtl \in Nat /\ ParkGrace \in Nat
    /\ MaxParkedPerUser \in Nat /\ Requested \subseteq Nat
    /\ LastBirth \in Nat /\ MaxNow \in Nat
    /\ BodyTimeout \in Nat /\ BodyTimeout > 0 /\ MaxPending \in Nat
    /\ SlowRebuild \in BOOLEAN
(* releaseAll() is none of the timer's sweeps. *)
ASSUME SweeperAssumption == "shutdown" \notin Sweeper
(* loadConfig refuses to start the worker otherwise. *)
ASSUME ConfigAssumption ==
    /\ IdleTimeout <= Ttl /\ Ttl <= MaxLifetime
    /\ ParkTtl <= IdleTimeout /\ ParkGrace < ParkTtl

VARIABLES
    now,      \* Date.now()
    phase,    \* where each identifier is in its life, see Phase
    lease,    \* the lease objects
    slots,    \* the pool: slots[i] = [busy, leaseId]
    procs,    \* procs[i]: leases with a live process in slot i's namespace
    pending,  \* handlers waiting for the request body, lease already looked up
    victim,   \* the parked lease an acquire waits for
    parking,  \* park() calls waiting for their evictions
    sweeps,   \* sweep() and releaseAll() calls in progress
    why,      \* the reason given to the releaseLease call in progress
    down      \* shutdown has begun: no new request, no new sweep

vars == <<now, phase, lease, slots, procs, pending, victim, parking, sweeps,
          why, down>>

Slot == 0 .. NumSlots - 1

(***************************************************************************)
(* new      not drawn yet (or drawn by an acquire that answered 429)       *)
(* waiting  acquire() awaits the release of the lease it preempts          *)
(* live     in the Map "leases"                                            *)
(* ending   deleted from the Map; browser closing, kill grace running      *)
(* booting  sentinel killed, the slot is being rebuilt                     *)
(* gone     slot rebuilt and free again                                    *)
(* stuck    bootSlot failed: the slot stays busy for ever                  *)
(***************************************************************************)
Phase == {"new", "waiting", "live", "ending", "booting", "gone", "stuck"}
Holding == {"live", "ending", "booting", "stuck"}
Op == {"renew", "park", "attach", "exec"}
Reason == {"none", "client", "admin", "preempted", "park-quota", "swept",
           "shutdown"}
SeqRelease == Sweeper \cup {"shutdown"}

LeaseRecord == [user : User \cup {None}, slot : Slot \cup {None},
                hard : Nat, expires : Nat, parked : BOOLEAN, parkedAt : Nat]
Blank == [user |-> None, slot |-> None, hard |-> 0, expires |-> 0,
          parked |-> FALSE, parkedAt |-> 0]
(* A loop that releases leases one after the other: those still to do and  *)
(* the one awaited.  "on" is FALSE when there is no such call.             *)
NoLoop == [on |-> FALSE, todo |-> {}, cur |-> None]
NotParking == [on |-> FALSE, at |-> 0, todo |-> {}, cur |-> None]

Live(l) == phase[l] = "live"
LiveLeases == {l \in LeaseId : Live(l)}
(* "await releaseLease(v)" returns: the release ended, or it had not to be *)
(* awaited because v was no longer in the Map.                             *)
ReleasedRebuilt(v) == v \in LeaseId => phase[v] = "gone"
Released(v) == v \in LeaseId => phase[v] \in {"gone", "stuck"}

Min2(a, b) == IF a <= b THEN a ELSE b
Clamp(r, cap) == IF r > 0 THEN Min2(r, cap) ELSE cap
SlotOf(l) == lease[l].slot
Running(l) == l \in procs[SlotOf(l)]
---------------------------------------------------------------------------
Init ==
    /\ now = 0
    /\ phase = [l \in LeaseId |-> "new"]
    /\ lease = [l \in LeaseId |-> Blank]
    /\ slots = [i \in Slot |-> [busy |-> FALSE, leaseId |-> None]]
    /\ procs = [i \in Slot |-> {}]
    /\ pending = {}
    /\ victim = [l \in LeaseId |-> None]
    /\ parking = [l \in LeaseId |-> NotParking]
    /\ sweeps = [s \in SeqRelease |-> NoLoop]
    /\ why = [l \in LeaseId |-> "none"]
    /\ down = FALSE

(* extend(): never past the hard ceiling, never earlier than it was. *)
Extend(r, w) ==
    LET wanted == Min2(now + w, r.hard)
    IN  [r EXCEPT !.expires = IF wanted > @ THEN wanted ELSE @]

(* The lease after get(): a parked lease slides by the park window only. *)
Touched(l) == Extend(lease[l], IF lease[l].parked THEN ParkTtl ELSE IdleTimeout)
(* get() answers null for a lease that has expired but is not swept yet. *)
Gettable(l) == Live(l) /\ lease[l].expires > now

(* The synchronous part of releaseLease: the lease leaves the Map first,   *)
(* so that a second release of the same lease finds nothing.               *)
BeginRelease(l, reason) ==
    /\ phase' = [phase EXCEPT ![l] = "ending"]
    /\ why' = [why EXCEPT ![l] = reason]

(* browser.close(), the kill grace, then destroySlotResources: killing the *)
(* sentinel takes every process of the slot's namespaces with it.          *)
KillSlotLeavesProcs(l) ==
    /\ phase[l] = "ending"
    /\ phase' = [phase EXCEPT ![l] = "booting"]
    /\ UNCHANGED <<now, lease, slots, procs, pending, victim, parking, sweeps,
                   why, down>>
KillSlotFrees(l) ==
    /\ phase[l] = "ending"
    /\ phase' = [phase EXCEPT ![l] = "booting"]
    /\ procs' = [procs EXCEPT ![SlotOf(l)] = {}]
    /\ slots' = [slots EXCEPT ![SlotOf(l)] = [busy |-> FALSE, leaseId |-> None]]
    /\ UNCHANGED <<now, lease, pending, victim, parking, sweeps, why, down>>
KillSlot(l) ==
    /\ phase[l] = "ending"
    /\ phase' = [phase EXCEPT ![l] = "booting"]
    /\ procs' = [procs EXCEPT ![SlotOf(l)] = {}]
    /\ UNCHANGED <<now, lease, slots, pending, victim, parking, sweeps, why,
                   down>>

(* bootSlot succeeded: a new slot object replaces the old one, not busy. *)
BootSlot(l) ==
    /\ phase[l] = "booting"
    /\ phase' = [phase EXCEPT ![l] = "gone"]
    /\ slots' = [slots EXCEPT ![SlotOf(l)] = [busy |-> FALSE, leaseId |-> None]]
    /\ lease' = [lease EXCEPT ![l] = Blank]
    /\ why' = [why EXCEPT ![l] = "none"]
    /\ UNCHANGED <<now, procs, pending, victim, parking, sweeps, down>>

(* bootSlot threw: releaseLease logs it and the old entry stays busy. *)
BootSlotFails(l) ==
    /\ phase[l] = "booting"
    /\ phase' = [phase EXCEPT ![l] = "stuck"]
    /\ why' = [why EXCEPT ![l] = "none"]
    /\ UNCHANGED <<now, lease, slots, procs, pending, victim, parking, sweeps,
                   down>>
---------------------------------------------------------------------------
(* slots.find((s) => !s.busy): the first free slot. *)
FirstFree(i) == ~slots[i].busy /\ \A j \in Slot : j < i => slots[j].busy
PoolFull == \A i \in Slot : slots[i].busy

ParkedLeases == {l \in LiveLeases : lease[l].parked}
Preemptible == {l \in ParkedLeases : now - lease[l].parkedAt >= ParkGrace}
OldestAnyLease == LiveLeases
OldestParked ==
    {l \in Preemptible :
        \A m \in Preemptible : lease[l].parkedAt <= lease[m].parkedAt}

(* The rest of acquire() once it has slot i. *)
GiveSlotOneBased(l, u, i) ==
    /\ \E r \in Requested :
         lease' = [lease EXCEPT ![l] =
                     [user |-> u, slot |-> i + 1, hard |-> now + MaxLifetime,
                      expires |-> now + Min2(Clamp(r, Ttl), MaxLifetime),
                      parked |-> FALSE, parkedAt |-> 0]]
    /\ slots' = [slots EXCEPT ![i] = [busy |-> TRUE, leaseId |-> l]]
    /\ phase' = [phase EXCEPT ![l] = "live"]
GiveSlot(l, u, i) ==
    /\ \E r \in Requested :
         lease' = [lease EXCEPT ![l] =
                     [user |-> u, slot |-> i, hard |-> now + MaxLifetime,
                      expires |-> now + Min2(Clamp(r, Ttl), MaxLifetime),
                      parked |-> FALSE, parkedAt |-> 0]]
    /\ slots' = [slots EXCEPT ![i] = [busy |-> TRUE, leaseId |-> l]]
    /\ phase' = [phase EXCEPT ![l] = "live"]

(* acquire() up to its first await.  With no free slot and no victim it    *)
(* answers 429 and changes nothing, which is a stuttering step.            *)
Acquire(l, u) ==
    /\ ~down /\ now <= LastBirth /\ phase[l] = "new"
    /\ \/ /\ \E i \in Slot : FirstFree(i) /\ GiveSlot(l, u, i)
          /\ UNCHANGED <<victim, why>>
       \/ /\ PoolFull
          /\ \E v \in OldestParked :
               /\ phase' = [phase EXCEPT ![v] = "ending", ![l] = "waiting"]
               /\ why' = [why EXCEPT ![v] = "preempted"]
               /\ victim' = [victim EXCEPT ![l] = v]
          /\ lease' = [lease EXCEPT ![l].user = u]
          /\ UNCHANGED slots
    /\ UNCHANGED <<now, procs, pending, parking, sweeps, down>>

(* The victim's slot is rebuilt: try once more.  Someone else may have     *)
(* taken the slot by now; then the caller gets 429.                        *)
AcquireRetry(l) ==
    /\ phase[l] = "waiting"
    /\ Released(victim[l])
    /\ \/ \E i \in Slot : FirstFree(i) /\ GiveSlot(l, lease[l].user, i)
       \/ /\ PoolFull
          /\ phase' = [phase EXCEPT ![l] = "new"]
          /\ lease' = [lease EXCEPT ![l] = Blank]
          /\ UNCHANGED slots
    /\ victim' = [victim EXCEPT ![l] = None]
    /\ UNCHANGED <<now, procs, pending, parking, sweeps, why, down>>
---------------------------------------------------------------------------
(* Any request on the lease runs get() first, even one answered 401. *)
Touch(l) ==
    /\ ~down /\ Gettable(l)
    /\ lease' = [lease EXCEPT ![l] = Touched(l)]
    /\ UNCHANGED <<now, phase, slots, procs, pending, victim, parking, sweeps,
                   why, down>>

(* A handler that awaits readJsonBody keeps the lease object it looked up. *)
Request(l, op) ==
    /\ ~down /\ Gettable(l) /\ Cardinality(pending) < MaxPending
    /\ \A p \in pending : ~(p.lease = l /\ p.op = op)
    /\ lease' = [lease EXCEPT ![l] = Touched(l)]
    /\ pending' = pending \cup {[lease |-> l, op |-> op, at |-> now]}
    /\ UNCHANGED <<now, phase, slots, procs, victim, parking, sweeps, why, down>>

Handle(l, op) ==
    \E p \in pending :
        /\ p.lease = l /\ p.op = op
        /\ pending' = pending \ {p}

(* renew(); the object of a lease that left the Map is never read again. *)
Renew(l) ==
    /\ Handle(l, "renew")
    /\ \E r \in Requested :
         LET cap == IF lease[l].parked THEN ParkTtl ELSE Ttl
         IN  lease' = IF Live(l)
                      THEN [lease EXCEPT ![l] = Extend(@, Clamp(r, cap))]
                      ELSE lease
    /\ UNCHANGED <<now, phase, slots, procs, victim, parking, sweeps, why, down>>

(* attach(), or 409 when another run holds the lease. *)
Attach(l) ==
    /\ Handle(l, "attach")
    /\ lease' = IF Live(l) /\ lease[l].parked
                THEN [lease EXCEPT ![l] =
                        [Extend(@, IdleTimeout) EXCEPT !.parked = FALSE,
                                                       !.parkedAt = 0]]
                ELSE lease
    /\ UNCHANGED <<now, phase, slots, procs, victim, parking, sweeps, why, down>>

(* handleExec / execJobs.start: nsenter into the lease's own sentinel, so  *)
(* the command cannot start once that sentinel is dead.                    *)
Exec(l) ==
    /\ Handle(l, "exec")
    /\ procs' = IF phase[l] \in {"live", "ending"}
                THEN [procs EXCEPT ![SlotOf(l)] = @ \cup {l}]
                ELSE procs
    /\ UNCHANGED <<now, phase, lease, slots, victim, parking, sweeps, why, down>>

(* The last running command ended, by itself or because it was aborted. *)
ExecEnds(l) ==
    /\ phase[l] \in {"live", "ending"} /\ Running(l)
    /\ procs' = [procs EXCEPT ![SlotOf(l)] = @ \ {l}]
    /\ UNCHANGED <<now, phase, lease, slots, pending, victim, parking, sweeps,
                   why, down>>

(* DELETE /v1/leases/:id.  An expired lease is left to the sweeper. *)
Delete(l) ==
    /\ ~down /\ Gettable(l)
    /\ BeginRelease(l, "client")
    /\ UNCHANGED <<now, lease, slots, procs, pending, victim, parking, sweeps,
                   down>>

(* The operator's kill, and POST /v1/leases giving the lease back when its *)
(* egress rules could not be installed: released whatever its state.       *)
AdminKill(l) ==
    /\ ~down /\ Live(l)
    /\ BeginRelease(l, "admin")
    /\ UNCHANGED <<now, lease, slots, procs, pending, victim, parking, sweeps,
                   down>>
---------------------------------------------------------------------------
ParkedOf(u) == {l \in ParkedLeases : lease[l].user = u}

(* The last lines of park(): the window is counted from when park() began. *)
ParkedRecordExtends(l, at) ==
    [Extend(lease[l], ParkTtl) EXCEPT !.parked = TRUE, !.parkedAt = at]
ParkedRecord(l, at) ==
    [lease[l] EXCEPT !.parked = TRUE, !.parkedAt = at,
                     !.expires = Min2(at + ParkTtl, lease[l].hard)]
FinishPark(l, at) ==
    lease' = IF Live(l) THEN [lease EXCEPT ![l] = ParkedRecord(l, at)] ELSE lease

MayPark(l) == MaxParkedPerUser > 0 /\ lease[l].hard > now + ParkGrace

(* The oldest parked leases of the same user that park() has to evict. *)
Evictable(l) == ParkedOf(lease[l].user) \ {l}
Overflow(l, V) ==
    LET mine == Evictable(l)
    IN  /\ V \subseteq mine
        /\ Cardinality(V) =
             (IF Cardinality(mine) < MaxParkedPerUser THEN 0
              ELSE Cardinality(mine) - (MaxParkedPerUser - 1))
        /\ \A v \in V, m \in mine \ V : lease[v].parkedAt <= lease[m].parkedAt

(* park() up to its first await: refuse, or park at once, or start the     *)
(* first eviction.                                                         *)
Park(l) ==
    /\ Handle(l, "park")
    /\ IF ~Live(l) \/ ~MayPark(l)
       THEN UNCHANGED <<phase, lease, parking, why>>
       ELSE \E V \in SUBSET LeaseId :
              /\ Overflow(l, V)
              /\ IF V = {}
                 THEN /\ FinishPark(l, now)
                      /\ UNCHANGED <<phase, parking, why>>
                 ELSE \E v \in V :
                        /\ \A w \in V : lease[v].parkedAt <= lease[w].parkedAt
                        /\ BeginRelease(v, "park-quota")
                        /\ parking' = [parking EXCEPT ![l] =
                             [on |-> TRUE, at |-> now, todo |-> V \ {v}, cur |-> v]]
                        /\ UNCHANGED lease
    /\ UNCHANGED <<now, slots, procs, victim, sweeps, down>>

(* One turn of such a loop, for v: a lease still in the Map is released    *)
(* and awaited, for another one releaseLease returns false at once.        *)
Advance(p, v) ==
    [p EXCEPT !.todo = p.todo \ {v}, !.cur = IF Live(v) THEN v ELSE None]

(* The awaited eviction ended: evict the next one or park. *)
ParkNext(l) ==
    LET p == parking[l] IN
    /\ p.on /\ Released(p.cur)
    /\ \/ /\ p.todo = {}
          /\ FinishPark(l, p.at)
          /\ parking' = [parking EXCEPT ![l] = NotParking]
          /\ UNCHANGED <<phase, why>>
       \/ \E v \in p.todo :
            /\ IF Live(v) THEN BeginRelease(v, "park-quota")
                          ELSE UNCHANGED <<phase, why>>
            /\ parking' = [parking EXCEPT ![l] = Advance(parking[l], v)]
            /\ UNCHANGED lease
    /\ UNCHANGED <<now, slots, procs, pending, victim, sweeps, down>>
---------------------------------------------------------------------------
(* sweep(), first part: a running command counts as activity unless the    *)
(* lease is parked; then every expired lease goes on the list.             *)
SweptRecord(l) ==
    IF Running(l) /\ ~lease[l].parked THEN Extend(lease[l], IdleTimeout)
                                      ELSE lease[l]
DeadUnlessRunning ==
    {l \in LiveLeases : SweptRecord(l).expires <= now /\ ~Running(l)}
Dead == {l \in LiveLeases : SweptRecord(l).expires <= now}

(* A loop over "todo" begins: its first release starts in the same step. *)
StartLoop(s, todo, reason) ==
    IF todo = {}
    THEN UNCHANGED <<phase, why, sweeps>>
    ELSE \E v \in todo :
           /\ BeginRelease(v, reason)
           /\ sweeps' = [sweeps EXCEPT ![s] =
                [on |-> TRUE, todo |-> todo \ {v}, cur |-> v]]

Sweep(s) ==
    /\ ~down /\ ~sweeps[s].on
    /\ lease' = [l \in LeaseId |-> IF Live(l) THEN SweptRecord(l) ELSE lease[l]]
    /\ StartLoop(s, Dead, "swept")
    /\ UNCHANGED <<now, slots, procs, pending, victim, parking, down>>

LoopReason(s) == IF s = "shutdown" THEN "shutdown" ELSE "swept"
LoopNext(s) ==
    LET p == sweeps[s] IN
    /\ p.on /\ Released(p.cur)
    /\ \/ /\ p.todo = {}
          /\ sweeps' = [sweeps EXCEPT ![s] = NoLoop]
          /\ UNCHANGED <<phase, why>>
       \/ \E v \in p.todo :
            /\ IF Live(v) THEN BeginRelease(v, LoopReason(s))
                          ELSE UNCHANGED <<phase, why>>
            /\ sweeps' = [sweeps EXCEPT ![s] = Advance(sweeps[s], v)]
    /\ UNCHANGED <<now, lease, slots, procs, pending, victim, parking, down>>

(* SIGTERM: stopSweeper(), then app.close() which waits for the open       *)
(* requests, then releaseAll().                                            *)
Shutdown ==
    /\ ~down
    /\ down' = TRUE
    /\ UNCHANGED <<now, phase, lease, slots, procs, pending, victim, parking,
                   sweeps, why>>
Drained ==
    /\ pending = {}
    /\ \A l \in LeaseId : phase[l] # "waiting" /\ ~parking[l].on
ReleaseAll ==
    /\ down /\ Drained /\ ~sweeps["shutdown"].on
    /\ LiveLeases # {}
    /\ StartLoop("shutdown", LiveLeases, "shutdown")
    /\ UNCHANGED <<now, lease, slots, procs, pending, victim, parking, down>>

(* A request body arrives or times out within BodyTimeout; a slot rebuild  *)
(* takes seconds where the windows are minutes, or, with SlowRebuild, any  *)
(* time.  The two bounds leave every lease time to reach its hard ceiling. *)
Rebuilding ==
    \/ \E l \in LeaseId : phase[l] \in {"waiting", "ending", "booting"} \/ parking[l].on
    \/ \E s \in SeqRelease : sweeps[s].on
Tick ==
    /\ \A p \in pending : now < p.at + BodyTimeout
    /\ SlowRebuild \/ ~Rebuilding
    /\ now < IF \E l \in LeaseId : phase[l] = "waiting" THEN LastBirth ELSE MaxNow
    /\ now' = now + 1
    /\ UNCHANGED <<phase, lease, slots, procs, pending, victim, parking, sweeps,
                   why, down>>

ReleaseStep(l) == KillSlot(l) \/ BootSlot(l) \/ BootSlotFails(l)
HandlerStep(l) == Renew(l) \/ Attach(l) \/ Exec(l) \/ Park(l)

Next ==
    \/ \E l \in LeaseId :
         \/ ReleaseStep(l) \/ HandlerStep(l)
         \/ \E u \in User : Acquire(l, u)
         \/ AcquireRetry(l) \/ Touch(l) \/ ExecEnds(l)
         \/ Delete(l) \/ AdminKill(l) \/ ParkNext(l)
         \/ \E op \in Op : Request(l, op)
    \/ \E s \in Sweeper : Sweep(s)
    \/ \E s \in SeqRelease : LoopNext(s)
    \/ Shutdown \/ ReleaseAll \/ Tick

Spec == Init /\ [][Next]_vars

(* The event loop runs every ready continuation, timers fire, processes    *)
(* that were killed end, and request bodies arrive or time out.  Nothing   *)
(* is assumed of the callers.                                              *)
Fairness ==
    /\ WF_vars(Tick) /\ WF_vars(ReleaseAll)
    /\ \A l \in LeaseId :
         /\ WF_vars(ReleaseStep(l))
         /\ WF_vars(Renew(l)) /\ WF_vars(Attach(l))
         /\ WF_vars(Exec(l)) /\ WF_vars(Park(l))
         /\ WF_vars(AcquireRetry(l)) /\ WF_vars(ParkNext(l))
    /\ \A s \in Sweeper : WF_vars(Sweep(s))
    /\ \A s \in SeqRelease : WF_vars(LoopNext(s))

FairSpec == Spec /\ Fairness
---------------------------------------------------------------------------
SlotEntry == [busy : BOOLEAN, leaseId : LeaseId \cup {None}]
Loop == [on : BOOLEAN, todo : SUBSET LeaseId, cur : LeaseId \cup {None}]
ParkCall == [on : BOOLEAN, at : Nat, todo : SUBSET LeaseId,
             cur : LeaseId \cup {None}]
TypeOK ==
    /\ now \in Nat
    /\ phase \in [LeaseId -> Phase]
    /\ lease \in [LeaseId -> LeaseRecord]
    /\ slots \in [Slot -> SlotEntry]
    /\ procs \in [Slot -> SUBSET LeaseId]
    /\ pending \subseteq [lease : LeaseId, op : Op, at : Nat]
    /\ victim \in [LeaseId -> LeaseId \cup {None}]
    /\ parking \in [LeaseId -> ParkCall]
    /\ sweeps \in [SeqRelease -> Loop]
    /\ why \in [LeaseId -> Reason]
    /\ down \in BOOLEAN

(* A slot is busy exactly as long as one lease holds it, from acquire()    *)
(* until its rebuild is complete, and that lease is the one the pool       *)
(* entry names: no slot is handed out twice and none is lost but by a      *)
(* failed bootSlot, whatever releases, sweeps and preemptions overlap.     *)
SlotAccounting ==
    /\ \A l \in LeaseId : phase[l] \in Holding =>
         /\ SlotOf(l) \in Slot
         /\ slots[SlotOf(l)] = [busy |-> TRUE, leaseId |-> l]
    /\ \A i \in Slot : slots[i].busy =>
         /\ slots[i].leaseId \in LeaseId
         /\ phase[slots[i].leaseId] \in Holding
         /\ SlotOf(slots[i].leaseId) = i

(* No process of one lease is ever alive in a slot another lease holds, or *)
(* in a free one: releaseLease kills before it rebuilds, and a handler     *)
(* that kept a released lease across its await only reaches a dead         *)
(* sentinel.                                                               *)
Isolation ==
    \A i \in Slot : \A l \in procs[i] : slots[i] = [busy |-> TRUE, leaseId |-> l]

(* No mix of get, renew, attach, park and sweep carries a lease past       *)
(* createdAt + maxLifetimeMs, and a parked lease is never more than        *)
(* parkTtlMs from expiry: neither stray requests nor a renewal that was in *)
(* flight when it was parked, nor a command that still runs, buys it the   *)
(* idle window.                                                            *)
ExpiryBounded ==
    /\ \A l \in LiveLeases :
         lease[l].expires <= lease[l].hard /\ lease[l].hard <= now + MaxLifetime
    /\ \A l \in ParkedLeases : lease[l].expires <= now + ParkTtl

(* What may take a lease out of the Map.  Preemption takes a lease that is *)
(* parked at that very moment and past its protection window, and only     *)
(* when the pool is full; a sweep takes a lease that has expired at the    *)
(* moment of its release, though it was collected before earlier releases  *)
(* of the same sweep were awaited.  The last part needs rebuilds that are  *)
(* short against the windows (SlowRebuild = FALSE): park() computes the    *)
(* new expiry from the time before its evictions.                          *)
JustifiedRelease(l) ==
    CASE why'[l] = "preempted" ->
           lease[l].parked /\ now - lease[l].parkedAt >= ParkGrace /\ PoolFull
      [] why'[l] = "swept" -> lease'[l].expires <= now
      [] why'[l] = "shutdown" -> down
      [] OTHER -> TRUE
EvictionsJustified ==
    [][\A l \in LeaseId : Live(l) /\ phase'[l] = "ending" => JustifiedRelease(l)]_vars

(* A lease whose run has died leaves the Map, no matter what requests keep *)
(* arriving: the hard ceiling and the sweeper see to it.                   *)
Reclaimed == \A l \in LeaseId : Live(l) ~> ~Live(l)

(* Every acquire that preempts is answered, with a lease or with 429. *)
AcquireAnswered == \A l \in LeaseId : phase[l] = "waiting" ~> phase[l] # "waiting"
===========================================================================
