------------------------ MODULE LeaseManagerProofs ------------------------
(***************************************************************************)
(* Safety of LeaseManager for every number of leases, slots and users and  *)
(* every configuration the worker accepts.                                 *)
(***************************************************************************)
EXTENDS LeaseManager, TLAPS

(* What the invariants need besides each other: a slot being rebuilt has   *)
(* no process left, and a park() call in flight started in the past.       *)
KilledBeforeBoot ==
    \A l \in LeaseId : phase[l] = "booting" => procs[SlotOf(l)] = {}
ParkStartedBefore == \A l \in LeaseId : parking[l].at <= now


(* extend() changes nothing but the expiry, which it leaves at or after    *)
(* its old value and at or before the hard ceiling.                        *)
LEMMA ExtendFacts ==
    ASSUME NEW r \in LeaseRecord, NEW w \in Nat, now \in Nat
    PROVE  /\ Extend(r, w) \in LeaseRecord
           /\ Extend(r, w) = [r EXCEPT !.expires = Extend(r, w).expires]
           /\ Extend(r, w).user = r.user /\ Extend(r, w).slot = r.slot
           /\ Extend(r, w).hard = r.hard /\ Extend(r, w).parked = r.parked
           /\ Extend(r, w).parkedAt = r.parkedAt
           /\ r.expires <= r.hard => Extend(r, w).expires <= r.hard
           /\ Extend(r, w).expires = r.expires \/ Extend(r, w).expires <= now + w
BY DEF Extend, Min2, LeaseRecord

LEMMA ClampNat ==
    ASSUME NEW r \in Nat, NEW cap \in Nat
    PROVE  Clamp(r, cap) \in Nat /\ Clamp(r, cap) <= cap
BY DEF Clamp, Min2

(* get() on a lease keeps its identity and its slot. *)
LEMMA TouchedFacts ==
    ASSUME TypeOK, NEW l \in LeaseId
    PROVE  Touched(l) \in LeaseRecord /\ Touched(l).slot = lease[l].slot
<1>1. lease[l] \in LeaseRecord /\ now \in Nat BY DEF TypeOK
<1>2. (IF lease[l].parked THEN ParkTtl ELSE IdleTimeout) \in Nat
  BY NatAssumption
<1> QED BY <1>1, <1>2, ExtendFacts DEF Touched

---------------------------------------------------------------------------
(* Type correctness of the initial state and of every step.                *)
LEMMA NullRecords ==
    /\ Blank \in LeaseRecord /\ NotParking \in ParkCall /\ NoLoop \in Loop
    /\ \A b \in BOOLEAN, l \in LeaseId \cup {None} : [busy |-> b, leaseId |-> l] \in SlotEntry
BY DEF Blank, LeaseRecord, NotParking, ParkCall, NoLoop, Loop, SlotEntry

(* One turn of a release loop. *)
LEMMA AdvanceType ==
    ASSUME NEW p, NEW v \in LeaseId
    PROVE  /\ p \in Loop => Advance(p, v) \in Loop
           /\ p \in ParkCall => Advance(p, v) \in ParkCall
           /\ p \in ParkCall => Advance(p, v).at = p.at
<1> DEFINE c == IF Live(v) THEN v ELSE None
<1>1. c \in LeaseId \cup {None} OBVIOUS
<1>2. Advance(p, v) = [p EXCEPT !.todo = p.todo \ {v}, !.cur = c]
  BY DEF Advance
<1> HIDE DEF c
<1>3. p \in Loop => Advance(p, v) \in Loop
  BY <1>1, <1>2 DEF Loop
<1>4. p \in ParkCall => Advance(p, v) \in ParkCall /\ Advance(p, v).at = p.at
  BY <1>1, <1>2 DEF ParkCall
<1> QED BY <1>3, <1>4

LEMMA TypeInit == Init => TypeOK
<1> SUFFICES ASSUME Init PROVE TypeOK
  OBVIOUS
<1>1. now \in Nat /\ pending \subseteq [lease : LeaseId, op : Op, at : Nat]
  BY DEF Init
<1>2. phase \in [LeaseId -> Phase] /\ why \in [LeaseId -> Reason]
  BY DEF Init, Phase, Reason
<1>3. /\ lease \in [LeaseId -> LeaseRecord] /\ slots \in [Slot -> SlotEntry]
      /\ parking \in [LeaseId -> ParkCall] /\ sweeps \in [SeqRelease -> Loop]
  BY NullRecords DEF Init
<1>4. procs \in [Slot -> SUBSET LeaseId] /\ victim \in [LeaseId -> LeaseId \cup {None}]
      /\ down \in BOOLEAN
  BY DEF Init
<1> QED BY <1>1, <1>2, <1>3, <1>4 DEF TypeOK

LEMMA GiveSlotType ==
    ASSUME TypeOK, NEW l \in LeaseId, NEW u \in User \cup {None}, NEW i \in Slot,
           GiveSlot(l, u, i)
    PROVE  /\ lease' \in [LeaseId -> LeaseRecord]
           /\ slots' \in [Slot -> SlotEntry]
           /\ phase' \in [LeaseId -> Phase]
<1>1. PICK r \in Requested :
         lease' = [lease EXCEPT ![l] =
                     [user |-> u, slot |-> i, hard |-> now + MaxLifetime,
                      expires |-> now + Min2(Clamp(r, Ttl), MaxLifetime),
                      parked |-> FALSE, parkedAt |-> 0]]
  BY DEF GiveSlot
<1>2. Clamp(r, Ttl) \in Nat BY ClampNat, NatAssumption
<1>3. now + Min2(Clamp(r, Ttl), MaxLifetime) \in Nat /\ now + MaxLifetime \in Nat
  BY <1>2, NatAssumption DEF Min2, TypeOK
<1>4. lease' \in [LeaseId -> LeaseRecord]
  BY <1>1, <1>3 DEF TypeOK, LeaseRecord
<1> QED BY <1>4, NullRecords DEF GiveSlot, TypeOK, Phase

LEMMA TypeStep == TypeOK /\ [Next]_vars => TypeOK'
<1> SUFFICES ASSUME TypeOK, [Next]_vars PROVE TypeOK'
  OBVIOUS
<1> USE NatAssumption, NoneAssumption
<1>1. ASSUME NEW l \in LeaseId, ReleaseStep(l) PROVE TypeOK'
  <2>1. CASE KillSlot(l)
    BY <2>1 DEF KillSlot, TypeOK, Phase
  <2>2. CASE BootSlot(l)
    BY <2>2, NullRecords DEF BootSlot, TypeOK, Phase, Reason
  <2>3. CASE BootSlotFails(l)
    BY <2>3 DEF BootSlotFails, TypeOK, Phase, Reason
  <2> QED BY <1>1, <2>1, <2>2, <2>3 DEF ReleaseStep
<1>2. ASSUME NEW l \in LeaseId, NEW u \in User, Acquire(l, u) PROVE TypeOK'
  <2>1. CASE \E i \in Slot : FirstFree(i) /\ GiveSlot(l, u, i) /\ UNCHANGED <<victim, why>>
    BY <1>2, <2>1, GiveSlotType DEF Acquire, TypeOK
  <2>2. CASE ~ \E i \in Slot : FirstFree(i) /\ GiveSlot(l, u, i) /\ UNCHANGED <<victim, why>>
    <3>1. PICK v \in LeaseId :
            /\ phase' = [phase EXCEPT ![v] = "ending", ![l] = "waiting"]
            /\ why' = [why EXCEPT ![v] = "preempted"]
            /\ victim' = [victim EXCEPT ![l] = v]
            /\ lease' = [lease EXCEPT ![l].user = u]
            /\ UNCHANGED slots
      BY <1>2, <2>2 DEF Acquire, OldestParked, Preemptible, ParkedLeases, LiveLeases
    <3>2. lease' \in [LeaseId -> LeaseRecord]
      <4>1. [lease[l] EXCEPT !.user = u] \in LeaseRecord
        <5>1. lease[l] \in LeaseRecord BY DEF TypeOK
        <5> QED BY <5>1 DEF LeaseRecord
      <4> QED BY <3>1, <4>1 DEF TypeOK
    <3>3. phase' \in [LeaseId -> Phase] /\ why' \in [LeaseId -> Reason]
      BY <3>1 DEF TypeOK, Phase, Reason
    <3> QED BY <1>2, <3>1, <3>2, <3>3 DEF Acquire, TypeOK
  <2> QED BY <2>1, <2>2
<1>3. ASSUME NEW l \in LeaseId, AcquireRetry(l) PROVE TypeOK'
  <2>1. lease[l].user \in User \cup {None} BY DEF TypeOK, LeaseRecord
  <2>2. CASE \E i \in Slot : FirstFree(i) /\ GiveSlot(l, lease[l].user, i)
    BY <1>3, <2>1, <2>2, GiveSlotType DEF AcquireRetry, TypeOK
  <2>3. CASE PoolFull /\ phase' = [phase EXCEPT ![l] = "new"]
             /\ lease' = [lease EXCEPT ![l] = Blank] /\ UNCHANGED slots
    BY <1>3, <2>3, NullRecords DEF AcquireRetry, TypeOK, Phase
  <2> QED BY <1>3, <2>2, <2>3 DEF AcquireRetry
<1>4. ASSUME NEW l \in LeaseId, Touch(l) PROVE TypeOK'
  BY <1>4, TouchedFacts DEF Touch, TypeOK
<1>5. ASSUME NEW l \in LeaseId, NEW op \in Op, Request(l, op) PROVE TypeOK'
  BY <1>5, TouchedFacts DEF Request, TypeOK
<1>6. ASSUME NEW l \in LeaseId, Renew(l) PROVE TypeOK'
  <2>1. PICK r \in Requested :
          LET cap == IF lease[l].parked THEN ParkTtl ELSE Ttl
          IN  lease' = IF Live(l)
                       THEN [lease EXCEPT ![l] = Extend(@, Clamp(r, cap))]
                       ELSE lease
    BY <1>6 DEF Renew
  <2>2. Clamp(r, IF lease[l].parked THEN ParkTtl ELSE Ttl) \in Nat
    BY ClampNat
  <2>3. lease' \in [LeaseId -> LeaseRecord]
    BY <2>1, <2>2, ExtendFacts DEF TypeOK
  <2> QED BY <1>6, <2>3 DEF Renew, Handle, TypeOK
<1>7. ASSUME NEW l \in LeaseId, Attach(l) PROVE TypeOK'
  <2>1. Extend(lease[l], IdleTimeout) \in LeaseRecord
    BY ExtendFacts DEF TypeOK
  <2>2. lease' \in [LeaseId -> LeaseRecord]
    BY <1>7, <2>1 DEF Attach, TypeOK, LeaseRecord
  <2> QED BY <1>7, <2>2 DEF Attach, Handle, TypeOK
<1>8. ASSUME NEW l \in LeaseId, Exec(l) \/ ExecEnds(l) PROVE TypeOK'
  BY <1>8 DEF Exec, ExecEnds, Handle, TypeOK
<1>9. ASSUME NEW l \in LeaseId, Delete(l) \/ AdminKill(l) PROVE TypeOK'
  BY <1>9 DEF Delete, AdminKill, BeginRelease, TypeOK, Phase, Reason
<1>10. ASSUME NEW l \in LeaseId, NEW at \in Nat, FinishPark(l, at)
       PROVE  lease' \in [LeaseId -> LeaseRecord]
  <2>1. Min2(at + ParkTtl, lease[l].hard) \in Nat
    BY DEF Min2, TypeOK, LeaseRecord
  <2>a. lease[l] \in LeaseRecord BY DEF TypeOK
  <2>2. ParkedRecord(l, at) \in LeaseRecord
    BY <2>1, <2>a DEF ParkedRecord, LeaseRecord
  <2> QED BY <1>10, <2>2 DEF FinishPark, TypeOK
<1>11. ASSUME NEW l \in LeaseId, Park(l) PROVE TypeOK'
  <2>1. CASE UNCHANGED <<phase, lease, parking, why>>
    BY <1>11, <2>1 DEF Park, Handle, TypeOK
  <2>2. CASE FinishPark(l, now) /\ UNCHANGED <<phase, parking, why>>
    <3>1. lease' \in [LeaseId -> LeaseRecord] BY <1>10, <2>2 DEF TypeOK
    <3> QED BY <1>11, <2>2, <3>1 DEF Park, Handle, TypeOK
  <2>3. CASE \E V \in SUBSET LeaseId : \E v \in V :
               /\ BeginRelease(v, "park-quota")
               /\ parking' = [parking EXCEPT ![l] =
                    [on |-> TRUE, at |-> now, todo |-> V \ {v}, cur |-> v]]
               /\ UNCHANGED lease
    BY <1>11, <2>3 DEF Park, Handle, BeginRelease, TypeOK, Phase, Reason, ParkCall
  <2> QED BY <1>11, <2>1, <2>2, <2>3 DEF Park
<1>12. ASSUME NEW l \in LeaseId, ParkNext(l) PROVE TypeOK'
  <2>1. CASE FinishPark(l, parking[l].at) /\ UNCHANGED <<phase, why>>
             /\ parking' = [parking EXCEPT ![l] = NotParking]
    <3>a. parking[l].at \in Nat BY DEF TypeOK, ParkCall
    <3>1. lease' \in [LeaseId -> LeaseRecord] BY <1>10, <2>1, <3>a
    <3> QED BY <1>12, <2>1, <3>1, NullRecords DEF ParkNext, TypeOK
  <2>2. CASE \E v \in parking[l].todo :
            /\ IF Live(v) THEN BeginRelease(v, "park-quota")
                          ELSE UNCHANGED <<phase, why>>
            /\ parking' = [parking EXCEPT ![l] = Advance(parking[l], v)]
            /\ UNCHANGED lease
    <3>1. PICK v \in LeaseId :
            /\ IF Live(v) THEN BeginRelease(v, "park-quota")
                          ELSE UNCHANGED <<phase, why>>
            /\ parking' = [parking EXCEPT ![l] = Advance(parking[l], v)]
            /\ UNCHANGED lease
      BY <2>2 DEF TypeOK, ParkCall
    <3>2. phase' \in [LeaseId -> Phase] /\ why' \in [LeaseId -> Reason]
      BY <3>1 DEF BeginRelease, TypeOK, Phase, Reason
    <3>3. parking[l] \in ParkCall BY DEF TypeOK
    <3>4. Advance(parking[l], v) \in ParkCall
      BY <3>3, AdvanceType
    <3>5. parking' \in [LeaseId -> ParkCall]
      BY <3>1, <3>4 DEF TypeOK
    <3> QED BY <1>12, <3>1, <3>2, <3>5 DEF ParkNext, TypeOK
  <2> QED BY <1>12, <2>1, <2>2 DEF ParkNext
<1>13. ASSUME NEW s \in SeqRelease, NEW todo \in SUBSET LeaseId, NEW reason \in Reason,
              StartLoop(s, todo, reason)
       PROVE  /\ phase' \in [LeaseId -> Phase]
              /\ why' \in [LeaseId -> Reason]
              /\ sweeps' \in [SeqRelease -> Loop]
  <2>1. CASE todo = {}
    BY <1>13, <2>1 DEF StartLoop, TypeOK
  <2>2. CASE todo # {}
    <3>1. PICK v \in todo :
            /\ BeginRelease(v, reason)
            /\ sweeps' = [sweeps EXCEPT ![s] =
                 [on |-> TRUE, todo |-> todo \ {v}, cur |-> v]]
      BY <1>13, <2>2 DEF StartLoop
    <3>2. [on |-> TRUE, todo |-> todo \ {v}, cur |-> v] \in Loop
      BY DEF Loop
    <3> QED BY <3>1, <3>2 DEF BeginRelease, TypeOK, Phase
  <2> QED BY <2>1, <2>2
<1>14. ASSUME NEW s \in Sweeper, Sweep(s) PROVE TypeOK'
  <2>1. \A l \in LeaseId : SweptRecord(l) \in LeaseRecord
    BY ExtendFacts DEF SweptRecord, TypeOK
  <2>2. Dead \in SUBSET LeaseId /\ "swept" \in Reason /\ s \in SeqRelease
    BY DEF Dead, LiveLeases, Reason, SeqRelease
  <2>3. lease' \in [LeaseId -> LeaseRecord]
    BY <1>14, <2>1 DEF Sweep, TypeOK
  <2> QED BY <1>14, <2>2, <2>3, <1>13 DEF Sweep, TypeOK
<1>15. ASSUME NEW s \in SeqRelease, LoopNext(s) PROVE TypeOK'
  <2>1. CASE sweeps' = [sweeps EXCEPT ![s] = NoLoop] /\ UNCHANGED <<phase, why>>
    BY <1>15, <2>1, NullRecords DEF LoopNext, TypeOK
  <2>2. CASE \E v \in sweeps[s].todo :
            /\ IF Live(v) THEN BeginRelease(v, LoopReason(s))
                          ELSE UNCHANGED <<phase, why>>
            /\ sweeps' = [sweeps EXCEPT ![s] = Advance(sweeps[s], v)]
    <3>1. PICK v \in LeaseId :
            /\ IF Live(v) THEN BeginRelease(v, LoopReason(s))
                          ELSE UNCHANGED <<phase, why>>
            /\ sweeps' = [sweeps EXCEPT ![s] = Advance(sweeps[s], v)]
      BY <2>2 DEF TypeOK, Loop
    <3>2. phase' \in [LeaseId -> Phase] /\ why' \in [LeaseId -> Reason]
      BY <3>1 DEF BeginRelease, LoopReason, TypeOK, Phase, Reason
    <3>a. sweeps[s] \in Loop BY DEF TypeOK
    <3>b. Advance(sweeps[s], v) \in Loop
      BY <3>a, AdvanceType
    <3>3. sweeps' \in [SeqRelease -> Loop] BY <3>1, <3>b DEF TypeOK
    <3> QED BY <1>15, <3>2, <3>3 DEF LoopNext, TypeOK
  <2> QED BY <1>15, <2>1, <2>2 DEF LoopNext
<1>16. ASSUME ReleaseAll PROVE TypeOK'
  <2>1. LiveLeases \in SUBSET LeaseId /\ "shutdown" \in Reason
        /\ "shutdown" \in SeqRelease
    BY DEF LiveLeases, Reason, SeqRelease
  <2> QED BY <1>16, <2>1, <1>13 DEF ReleaseAll, TypeOK
<1>17. CASE Shutdown \/ Tick \/ UNCHANGED vars
  <2>1. CASE Shutdown BY <2>1 DEF Shutdown, TypeOK
  <2>2. CASE Tick BY <2>2 DEF Tick, TypeOK
  <2>3. CASE UNCHANGED vars BY <2>3 DEF vars, TypeOK
  <2> QED BY <1>17, <2>1, <2>2, <2>3
<1> QED
  BY <1>1, <1>2, <1>3, <1>4, <1>5, <1>6, <1>7, <1>8, <1>9, <1>11, <1>12, <1>14,
     <1>15, <1>16, <1>17 DEF Next, HandlerStep

(* Every reachable state of the lease table is well typed.                 *)
THEOREM TypeCorrect == Spec => []TypeOK
BY TypeInit, TypeStep, PTL DEF Spec

---------------------------------------------------------------------------
Accounting == SlotAccounting /\ Isolation /\ KilledBeforeBoot

(* A step that only moves leases out of the Map, or among the phases that  *)
(* hold no slot, keeps the accounting.                                     *)
LEMMA FrameStep ==
    ASSUME TypeOK, Accounting, slots' = slots, procs' = procs,
           \A l \in LeaseId : lease'[l].slot = lease[l].slot,
           \A l \in LeaseId :
              \/ phase'[l] = phase[l]
              \/ phase[l] = "live" /\ phase'[l] = "ending"
              \/ phase[l] \notin Holding /\ phase'[l] \notin Holding
    PROVE  Accounting'
<1>1. \A l \in LeaseId : phase'[l] \in Holding <=> phase[l] \in Holding
  BY DEF Holding
<1>2. SlotAccounting'
  BY <1>1 DEF Accounting, SlotAccounting, SlotOf
<1>3. Isolation' BY DEF Accounting, Isolation
<1>4. \A l \in LeaseId : phase'[l] = "booting" => phase[l] = "booting"
  BY DEF Holding
<1>5. KilledBeforeBoot' BY <1>4 DEF Accounting, KilledBeforeBoot, SlotOf
<1> QED BY <1>2, <1>3, <1>5 DEF Accounting

(* Taking the first free slot binds it to the new lease alone.             *)
LEMMA GiveSlotStep ==
    ASSUME TypeOK, Accounting, NEW l \in LeaseId, NEW u \in User \cup {None},
           NEW i \in Slot, FirstFree(i), GiveSlot(l, u, i), phase[l] \notin Holding,
           procs' = procs
    PROVE  Accounting'
<1>0. /\ slots \in [Slot -> SlotEntry] /\ phase \in [LeaseId -> Phase]
      /\ lease \in [LeaseId -> LeaseRecord] /\ procs \in [Slot -> SUBSET LeaseId]
  BY DEF TypeOK
<1>1. /\ slots' = [slots EXCEPT ![i] = [busy |-> TRUE, leaseId |-> l]]
      /\ phase' = [phase EXCEPT ![l] = "live"]
      /\ lease'[l].slot = i
      /\ \A m \in LeaseId \ {l} : lease'[m] = lease[m]
  BY <1>0 DEF GiveSlot
<1>2. ~slots[i].busy BY DEF FirstFree
<1>3. \A m \in LeaseId : phase[m] \in Holding =>
        /\ m # l /\ SlotOf(m) \in Slot /\ SlotOf(m) # i
        /\ slots[SlotOf(m)] = [busy |-> TRUE, leaseId |-> m]
  BY <1>2 DEF Accounting, SlotAccounting
<1>4. \A m \in LeaseId \ {l} : phase'[m] = phase[m]
  BY <1>0, <1>1
<1>5. phase'[l] = "live" /\ slots'[i] = [busy |-> TRUE, leaseId |-> l]
      /\ \A j \in Slot \ {i} : slots'[j] = slots[j]
  BY <1>0, <1>1
<1>6. \A m \in LeaseId : phase'[m] \in Holding =>
        /\ lease'[m].slot \in Slot
        /\ slots'[lease'[m].slot] = [busy |-> TRUE, leaseId |-> m]
  <2> SUFFICES ASSUME NEW m \in LeaseId, phase'[m] \in Holding
               PROVE  /\ lease'[m].slot \in Slot
                      /\ slots'[lease'[m].slot] = [busy |-> TRUE, leaseId |-> m]
    OBVIOUS
  <2>1. CASE m = l BY <1>1, <1>5, <2>1
  <2>2. CASE m # l
    <3>1. phase[m] \in Holding /\ lease'[m].slot = SlotOf(m)
      BY <1>1, <1>4, <2>2 DEF SlotOf
    <3> QED BY <1>3, <1>5, <3>1
  <2> QED BY <2>1, <2>2
<1>7. \A j \in Slot : slots'[j].busy =>
        /\ slots'[j].leaseId \in LeaseId
        /\ phase'[slots'[j].leaseId] \in Holding
        /\ lease'[slots'[j].leaseId].slot = j
  <2> SUFFICES ASSUME NEW j \in Slot, slots'[j].busy
               PROVE  /\ slots'[j].leaseId \in LeaseId
                      /\ phase'[slots'[j].leaseId] \in Holding
                      /\ lease'[slots'[j].leaseId].slot = j
    OBVIOUS
  <2>1. CASE j = i BY <1>1, <1>5, <2>1 DEF SlotOf, Holding
  <2>2. CASE j # i
    <3>1. slots'[j] = slots[j] BY <1>5, <2>2
    <3>2. /\ slots[j].leaseId \in LeaseId
          /\ phase[slots[j].leaseId] \in Holding
          /\ SlotOf(slots[j].leaseId) = j
      BY <3>1 DEF Accounting, SlotAccounting
    <3> QED BY <1>1, <1>3, <1>4, <3>1, <3>2 DEF SlotOf
  <2> QED BY <2>1, <2>2
<1>8. procs[i] = {}
  BY <1>0, <1>2 DEF Accounting, Isolation
<1>9. Isolation'
  <2> SUFFICES ASSUME NEW j \in Slot, NEW m \in procs'[j]
               PROVE  slots'[j] = [busy |-> TRUE, leaseId |-> m]
    BY DEF Isolation
  <2>1. j # i BY <1>8
  <2>2. slots[j] = [busy |-> TRUE, leaseId |-> m] BY DEF Accounting, Isolation
  <2> QED BY <1>5, <2>1, <2>2
<1>10. KilledBeforeBoot'
  BY <1>1, <1>4, <1>5 DEF Accounting, KilledBeforeBoot, SlotOf
<1> QED BY <1>6, <1>7, <1>9, <1>10 DEF Accounting, SlotAccounting, SlotOf

LEMMA ReleaseStepAccounting ==
    ASSUME TypeOK, Accounting, NEW l \in LeaseId, ReleaseStep(l)
    PROVE  Accounting'
<1>0. /\ slots \in [Slot -> SlotEntry] /\ phase \in [LeaseId -> Phase]
      /\ lease \in [LeaseId -> LeaseRecord] /\ procs \in [Slot -> SUBSET LeaseId]
  BY DEF TypeOK
<1>1. phase[l] \in Holding /\ SlotOf(l) \in Slot
      /\ slots[SlotOf(l)] = [busy |-> TRUE, leaseId |-> l]
  BY DEF ReleaseStep, KillSlot, BootSlot, BootSlotFails, Accounting,
         SlotAccounting, Holding
<1>2. \A m \in LeaseId \ {l} : phase'[m] = phase[m] /\ lease'[m] = lease[m]
  BY <1>0 DEF ReleaseStep, KillSlot, BootSlot, BootSlotFails
<1>3. \A m \in LeaseId \ {l} : phase[m] \in Holding => SlotOf(m) # SlotOf(l)
  <2> SUFFICES ASSUME NEW m \in LeaseId \ {l}, phase[m] \in Holding,
                      SlotOf(m) = SlotOf(l)
               PROVE  FALSE
    OBVIOUS
  <2>1. slots[SlotOf(m)] = [busy |-> TRUE, leaseId |-> m]
    BY DEF Accounting, SlotAccounting
  <2>2. slots[SlotOf(l)].leaseId = l /\ slots[SlotOf(m)].leaseId = m
    BY <1>1, <2>1
  <2> QED BY <2>2
<1>4. CASE KillSlot(l)
  <2>1. /\ slots' = slots /\ lease' = lease /\ phase'[l] = "booting"
        /\ procs' = [procs EXCEPT ![SlotOf(l)] = {}]
    BY <1>0, <1>4 DEF KillSlot
  <2>2. SlotAccounting'
    BY <1>1, <1>2, <2>1 DEF Accounting, SlotAccounting, SlotOf, Holding
  <2>3. Isolation' BY <1>0, <1>1, <2>1 DEF Accounting, Isolation
  <2>4. KilledBeforeBoot'
    <3> SUFFICES ASSUME NEW m \in LeaseId, phase'[m] = "booting"
                 PROVE  procs'[SlotOf(m)] = {}
      BY <2>1 DEF KilledBeforeBoot, SlotOf
    <3>1. CASE m = l BY <1>0, <1>1, <2>1, <3>1
    <3>2. CASE m # l
      BY <1>0, <1>2, <1>3, <2>1, <3>2 DEF Accounting, KilledBeforeBoot, Holding
    <3> QED BY <3>1, <3>2
  <2> QED BY <2>2, <2>3, <2>4 DEF Accounting
<1>5. CASE BootSlot(l)
  <2>1. /\ slots' = [slots EXCEPT ![SlotOf(l)] = [busy |-> FALSE, leaseId |-> None]]
        /\ procs' = procs /\ phase'[l] = "gone" /\ procs[SlotOf(l)] = {}
    BY <1>0, <1>5 DEF BootSlot, Accounting, KilledBeforeBoot
  <2>2. \A m \in LeaseId : phase'[m] \in Holding =>
          m # l /\ phase[m] \in Holding /\ lease'[m].slot = SlotOf(m)
    BY <1>2, <2>1 DEF Holding, SlotOf
  <2>3. ~slots'[SlotOf(l)].busy /\ \A j \in Slot \ {SlotOf(l)} : slots'[j] = slots[j]
    BY <1>0, <1>1, <2>1
  <2>4. \A m \in LeaseId : phase'[m] \in Holding =>
          /\ lease'[m].slot \in Slot
          /\ slots'[lease'[m].slot] = [busy |-> TRUE, leaseId |-> m]
    BY <1>3, <2>2, <2>3 DEF Accounting, SlotAccounting
  <2>5. \A j \in Slot : slots'[j].busy =>
          /\ slots'[j].leaseId \in LeaseId
          /\ phase'[slots'[j].leaseId] \in Holding
          /\ lease'[slots'[j].leaseId].slot = j
    <3> SUFFICES ASSUME NEW j \in Slot, slots'[j].busy
                 PROVE  /\ slots'[j].leaseId \in LeaseId
                        /\ phase'[slots'[j].leaseId] \in Holding
                        /\ lease'[slots'[j].leaseId].slot = j
      OBVIOUS
    <3>1. j # SlotOf(l) /\ slots'[j] = slots[j] BY <2>3
    <3>2. /\ slots[j].leaseId \in LeaseId /\ phase[slots[j].leaseId] \in Holding
          /\ SlotOf(slots[j].leaseId) = j
      BY <3>1 DEF Accounting, SlotAccounting
    <3>3. slots[j].leaseId # l BY <3>1, <3>2
    <3> QED BY <1>2, <3>1, <3>2, <3>3 DEF SlotOf
  <2>6. Isolation'
    BY <2>1, <2>3 DEF Accounting, Isolation
  <2>7. KilledBeforeBoot'
    BY <1>2, <2>1 DEF Accounting, KilledBeforeBoot, SlotOf
  <2> QED BY <2>4, <2>5, <2>6, <2>7 DEF Accounting, SlotAccounting, SlotOf
<1>6. CASE BootSlotFails(l)
  <2>1. /\ slots' = slots /\ lease' = lease /\ phase'[l] = "stuck" /\ procs' = procs
    BY <1>0, <1>6 DEF BootSlotFails
  <2>2. SlotAccounting'
    BY <1>1, <1>2, <2>1 DEF Accounting, SlotAccounting, SlotOf, Holding
  <2>3. Isolation' BY <2>1 DEF Accounting, Isolation
  <2>4. KilledBeforeBoot'
    BY <1>2, <2>1 DEF Accounting, KilledBeforeBoot, SlotOf
  <2> QED BY <2>2, <2>3, <2>4 DEF Accounting
<1> QED BY <1>4, <1>5, <1>6 DEF ReleaseStep

LEMMA AccountingStep == TypeOK /\ Accounting /\ [Next]_vars => Accounting'
<1> SUFFICES ASSUME TypeOK, Accounting, [Next]_vars PROVE Accounting'
  OBVIOUS
<1> USE NatAssumption, NoneAssumption
<1>0. /\ slots \in [Slot -> SlotEntry] /\ phase \in [LeaseId -> Phase]
      /\ lease \in [LeaseId -> LeaseRecord] /\ procs \in [Slot -> SUBSET LeaseId]
  BY DEF TypeOK
<1>1. ASSUME NEW l \in LeaseId, ReleaseStep(l) PROVE Accounting'
  BY <1>1, ReleaseStepAccounting
<1>2. ASSUME NEW l \in LeaseId, NEW u \in User, Acquire(l, u) PROVE Accounting'
  <2>0. phase[l] = "new" /\ procs' = procs BY <1>2 DEF Acquire
  <2>1. CASE \E i \in Slot : FirstFree(i) /\ GiveSlot(l, u, i)
    BY <1>2, <2>0, <2>1, GiveSlotStep DEF Holding
  <2>2. CASE ~ \E i \in Slot : FirstFree(i) /\ GiveSlot(l, u, i)
    <3>1. PICK v \in LiveLeases :
            /\ phase' = [phase EXCEPT ![v] = "ending", ![l] = "waiting"]
            /\ lease' = [lease EXCEPT ![l].user = u]
            /\ slots' = slots
      BY <1>2, <2>2 DEF Acquire, OldestParked, Preemptible, ParkedLeases
    <3>2. v \in LeaseId /\ phase[v] = "live" BY DEF LiveLeases, Live
    <3>3. \A m \in LeaseId :
              \/ phase'[m] = phase[m]
              \/ phase[m] = "live" /\ phase'[m] = "ending"
              \/ phase[m] \notin Holding /\ phase'[m] \notin Holding
      BY <1>0, <2>0, <3>1, <3>2 DEF Holding
    <3>4. \A m \in LeaseId : lease'[m].slot = lease[m].slot
      BY <1>0, <3>1 DEF LeaseRecord
    <3> QED BY <2>0, <3>1, <3>3, <3>4, FrameStep
  <2> QED BY <2>1, <2>2
<1>3. ASSUME NEW l \in LeaseId, AcquireRetry(l) PROVE Accounting'
  <2>0. phase[l] = "waiting" /\ procs' = procs BY <1>3 DEF AcquireRetry
  <2>1. CASE \E i \in Slot : FirstFree(i) /\ GiveSlot(l, lease[l].user, i)
    <3>1. lease[l].user \in User \cup {None} BY <1>0 DEF LeaseRecord
    <3> QED BY <2>0, <2>1, <3>1, GiveSlotStep DEF Holding
  <2>2. CASE /\ phase' = [phase EXCEPT ![l] = "new"]
             /\ lease' = [lease EXCEPT ![l] = Blank] /\ slots' = slots
    <3>2. \A m \in LeaseId \ {l} : lease'[m] = lease[m] /\ phase'[m] = phase[m]
      BY <1>0, <2>2
    <3>3. phase'[l] = "new" BY <1>0, <2>2
    <3>4. SlotAccounting'
      BY <2>0, <2>2, <3>2, <3>3 DEF Accounting, SlotAccounting, SlotOf, Holding
    <3>5. Isolation' BY <2>0, <2>2 DEF Accounting, Isolation
    <3>6. KilledBeforeBoot'
      BY <2>0, <3>2, <3>3 DEF Accounting, KilledBeforeBoot, SlotOf
    <3> QED BY <3>4, <3>5, <3>6 DEF Accounting
  <2> QED BY <1>3, <2>1, <2>2 DEF AcquireRetry
<1>4. ASSUME NEW l \in LeaseId, Touch(l) \/ \E op \in Op : Request(l, op)
      PROVE  Accounting'
  <2>1. /\ lease' = [lease EXCEPT ![l] = Touched(l)]
        /\ phase' = phase /\ slots' = slots /\ procs' = procs
    BY <1>4 DEF Touch, Request
  <2>2. \A m \in LeaseId : lease'[m].slot = lease[m].slot
    BY <1>0, <2>1, TouchedFacts
  <2> QED BY <2>1, <2>2, FrameStep
<1>5. ASSUME NEW l \in LeaseId, Renew(l) PROVE Accounting'
  <2>1. PICK r \in Requested :
          LET cap == IF lease[l].parked THEN ParkTtl ELSE Ttl
          IN  lease' = IF Live(l)
                       THEN [lease EXCEPT ![l] = Extend(@, Clamp(r, cap))]
                       ELSE lease
    BY <1>5 DEF Renew
  <2>2. Clamp(r, IF lease[l].parked THEN ParkTtl ELSE Ttl) \in Nat
    BY ClampNat
  <2>3. Extend(lease[l], Clamp(r, IF lease[l].parked THEN ParkTtl ELSE Ttl)).slot
          = lease[l].slot
    BY <1>0, <2>2, ExtendFacts DEF TypeOK
  <2>4. \A m \in LeaseId : lease'[m].slot = lease[m].slot
    BY <1>0, <2>1, <2>3
  <2> QED BY <1>5, <2>4, FrameStep DEF Renew
<1>6. ASSUME NEW l \in LeaseId, Attach(l) PROVE Accounting'
  <2>1. Extend(lease[l], IdleTimeout) \in LeaseRecord
        /\ Extend(lease[l], IdleTimeout).slot = lease[l].slot
    BY <1>0, ExtendFacts DEF TypeOK
  <2>2. \A m \in LeaseId : lease'[m].slot = lease[m].slot
    BY <1>0, <1>6, <2>1 DEF Attach, LeaseRecord
  <2> QED BY <1>6, <2>2, FrameStep DEF Attach
<1>7. ASSUME NEW l \in LeaseId, Exec(l) \/ ExecEnds(l) PROVE Accounting'
  <2>1. phase' = phase /\ lease' = lease /\ slots' = slots
    BY <1>7 DEF Exec, ExecEnds
  <2>2. SlotAccounting' BY <2>1 DEF Accounting, SlotAccounting, SlotOf
  <2>3. CASE procs' = procs
    BY <2>1, <2>3, FrameStep
  <2>4. CASE procs' # procs
    <3>1. /\ phase[l] \in {"live", "ending"}
          /\ \/ procs' = [procs EXCEPT ![SlotOf(l)] = @ \cup {l}]
             \/ procs' = [procs EXCEPT ![SlotOf(l)] = @ \ {l}]
      BY <1>7, <2>4 DEF Exec, ExecEnds
    <3>2. SlotOf(l) \in Slot /\ slots[SlotOf(l)] = [busy |-> TRUE, leaseId |-> l]
      BY <3>1 DEF Accounting, SlotAccounting, Holding
    <3>3. Isolation' BY <1>0, <2>1, <3>1, <3>2 DEF Accounting, Isolation
    <3>4. \A m \in LeaseId : phase[m] = "booting" => SlotOf(m) # SlotOf(l)
      <4> SUFFICES ASSUME NEW m \in LeaseId, phase[m] = "booting",
                          SlotOf(m) = SlotOf(l)
                   PROVE  FALSE
        OBVIOUS
      <4>1. slots[SlotOf(m)] = [busy |-> TRUE, leaseId |-> m]
        BY DEF Accounting, SlotAccounting, Holding
      <4>2. slots[SlotOf(l)].leaseId = l /\ slots[SlotOf(m)].leaseId = m
        BY <3>2, <4>1
      <4> QED BY <3>1, <4>2
    <3>5. KilledBeforeBoot'
      BY <1>0, <2>1, <3>1, <3>2, <3>4 DEF Accounting, KilledBeforeBoot, SlotOf, SlotAccounting, Holding
    <3> QED BY <2>2, <3>3, <3>5 DEF Accounting
  <2> QED BY <2>3, <2>4
<1>8. ASSUME NEW v \in LeaseId, NEW reason, Live(v), BeginRelease(v, reason),
             slots' = slots, procs' = procs,
             \A m \in LeaseId : lease'[m].slot = lease[m].slot
      PROVE  Accounting'
  <2>1. phase' = [phase EXCEPT ![v] = "ending"] /\ phase[v] = "live"
    BY <1>8 DEF BeginRelease, Live
  <2>2. \A m \in LeaseId :
           \/ phase'[m] = phase[m]
           \/ phase[m] = "live" /\ phase'[m] = "ending"
    BY <1>0, <2>1
  <2> QED BY <1>8, <2>2, FrameStep
<1>9. ASSUME NEW l \in LeaseId, Delete(l) \/ AdminKill(l) PROVE Accounting'
  BY <1>8, <1>9 DEF Delete, AdminKill, Gettable
<1>10. ASSUME NEW l \in LeaseId, NEW at \in Nat, FinishPark(l, at)
       PROVE  \A m \in LeaseId : lease'[m].slot = lease[m].slot
  <2>1. ParkedRecord(l, at).slot = lease[l].slot
    BY <1>0 DEF ParkedRecord, LeaseRecord
  <2> QED BY <1>0, <1>10, <2>1 DEF FinishPark
<1>11. ASSUME NEW l \in LeaseId, Park(l) PROVE Accounting'
  <2>0. slots' = slots /\ procs' = procs BY <1>11 DEF Park
  <2>1. CASE UNCHANGED <<phase, lease>>
    BY <2>0, <2>1, FrameStep
  <2>2. CASE FinishPark(l, now) /\ phase' = phase
    BY <2>0, <2>2, <1>10, FrameStep DEF TypeOK
  <2>3. CASE \E V \in SUBSET LeaseId : \E v \in V :
               /\ Overflow(l, V) /\ BeginRelease(v, "park-quota") /\ lease' = lease
    <3>1. PICK V \in SUBSET LeaseId : \E v \in V :
               /\ Overflow(l, V) /\ BeginRelease(v, "park-quota") /\ lease' = lease
      BY <2>3
    <3>2. PICK v \in V :
               /\ Overflow(l, V) /\ BeginRelease(v, "park-quota") /\ lease' = lease
      BY <3>1
    <3>3. v \in LeaseId /\ Live(v)
      BY <3>2 DEF Overflow, Evictable, ParkedOf, ParkedLeases, LiveLeases
    <3> QED BY <1>8, <2>0, <3>2, <3>3
  <2> QED BY <1>11, <2>1, <2>2, <2>3 DEF Park
<1>12. ASSUME NEW l \in LeaseId, ParkNext(l) PROVE Accounting'
  <2>0. slots' = slots /\ procs' = procs BY <1>12 DEF ParkNext
  <2>1. CASE FinishPark(l, parking[l].at) /\ phase' = phase
    <3>1. parking[l].at \in Nat BY DEF TypeOK, ParkCall
    <3> QED BY <2>0, <2>1, <3>1, <1>10, FrameStep
  <2>2. CASE \E v \in parking[l].todo :
               /\ IF Live(v) THEN BeginRelease(v, "park-quota") ELSE UNCHANGED <<phase, why>>
               /\ lease' = lease
    <3>1. PICK v \in parking[l].todo :
               /\ IF Live(v) THEN BeginRelease(v, "park-quota") ELSE UNCHANGED <<phase, why>>
               /\ lease' = lease
      BY <2>2
    <3>2. v \in LeaseId BY DEF TypeOK, ParkCall
    <3> QED BY <1>8, <2>0, <3>1, <3>2, FrameStep
  <2> QED BY <1>12, <2>1, <2>2 DEF ParkNext
<1>13. ASSUME NEW s, NEW todo \in SUBSET LiveLeases, NEW reason,
              StartLoop(s, todo, reason), slots' = slots, procs' = procs,
              \A m \in LeaseId : lease'[m].slot = lease[m].slot
       PROVE  Accounting'
  <2>1. CASE phase' = phase BY <1>13, <2>1, FrameStep
  <2>2. CASE \E v \in todo : BeginRelease(v, reason)
    <3>1. PICK v \in todo : BeginRelease(v, reason) BY <2>2
    <3>2. v \in LeaseId /\ Live(v) BY DEF LiveLeases
    <3> QED BY <1>8, <1>13, <3>1, <3>2
  <2> QED BY <1>13, <2>1, <2>2 DEF StartLoop
<1>14. ASSUME NEW s \in Sweeper, Sweep(s) PROVE Accounting'
  <2>1. \A m \in LeaseId : SweptRecord(m).slot = lease[m].slot
    BY <1>0, ExtendFacts DEF SweptRecord, TypeOK
  <2>2. \A m \in LeaseId : lease'[m].slot = lease[m].slot
    BY <1>14, <2>1 DEF Sweep
  <2>3. Dead \in SUBSET LiveLeases BY DEF Dead
  <2> QED BY <1>13, <1>14, <2>2, <2>3 DEF Sweep
<1>15. ASSUME NEW s \in SeqRelease, LoopNext(s) PROVE Accounting'
  <2>0. slots' = slots /\ procs' = procs /\ lease' = lease BY <1>15 DEF LoopNext
  <2>1. CASE phase' = phase BY <2>0, <2>1, FrameStep
  <2>2. CASE \E v \in sweeps[s].todo : Live(v) /\ BeginRelease(v, LoopReason(s))
    <3>1. PICK v \in sweeps[s].todo : Live(v) /\ BeginRelease(v, LoopReason(s))
      BY <2>2
    <3>2. v \in LeaseId BY DEF TypeOK, Loop
    <3> QED BY <1>8, <2>0, <3>1, <3>2
  <2> QED BY <1>15, <2>1, <2>2 DEF LoopNext
<1>16. ASSUME ReleaseAll PROVE Accounting'
  BY <1>13, <1>16 DEF ReleaseAll
<1>17. CASE Shutdown \/ Tick \/ UNCHANGED vars
  BY <1>17, FrameStep DEF Shutdown, Tick, vars
<1> QED
  BY <1>1, <1>2, <1>3, <1>4, <1>5, <1>6, <1>7, <1>9, <1>11, <1>12, <1>14, <1>15,
     <1>16, <1>17 DEF Next, HandlerStep

LEMMA AccountingInit == Init => Accounting
BY DEF Init, Accounting, SlotAccounting, Isolation, KilledBeforeBoot, Holding

(* No slot is ever handed to two leases or lost, however acquires, parks,  *)
(* sweeps, deletes and rebuilds interleave.                                *)
THEOREM SlotAccountingHolds == Spec => []SlotAccounting
<1>1. Init => TypeOK /\ Accounting BY TypeInit, AccountingInit
<1>2. TypeOK /\ Accounting /\ [Next]_vars => TypeOK' /\ Accounting'
  BY TypeStep, AccountingStep
<1>3. Accounting => SlotAccounting BY DEF Accounting
<1> QED BY <1>1, <1>2, <1>3, PTL DEF Spec

(* No process outlives its lease's hold on the slot: a slot never contains *)
(* a process of anyone but the lease that holds it.                        *)
THEOREM IsolationHolds == Spec => []Isolation
<1>1. Init => TypeOK /\ Accounting BY TypeInit, AccountingInit
<1>2. TypeOK /\ Accounting /\ [Next]_vars => TypeOK' /\ Accounting'
  BY TypeStep, AccountingStep
<1>3. Accounting => Isolation BY DEF Accounting
<1> QED BY <1>1, <1>2, <1>3, PTL DEF Spec

---------------------------------------------------------------------------
(* The two expiry invariants, per lease record.                            *)
Fine(r, t) ==
    /\ r.expires <= r.hard /\ r.hard <= t + MaxLifetime
    /\ r.parked => r.expires <= t + ParkTtl
ExpiryInv ==
    /\ \A l \in LeaseId : phase[l] = "live" => Fine(lease[l], now)
    /\ ParkStartedBefore

LEMMA FineExtend ==
    ASSUME NEW r \in LeaseRecord, NEW w \in Nat, now \in Nat, Fine(r, now),
           r.parked => w <= ParkTtl
    PROVE  Fine(Extend(r, w), now)
<1>1. /\ Extend(r, w) \in LeaseRecord
      /\ Extend(r, w).hard = r.hard /\ Extend(r, w).parked = r.parked
      /\ Extend(r, w).expires <= r.hard
      /\ Extend(r, w).expires = r.expires \/ Extend(r, w).expires <= now + w
  BY ExtendFacts DEF Fine
<1>2. r.parked => Extend(r, w).expires <= now + ParkTtl
  BY <1>1, NatAssumption DEF Fine, LeaseRecord
<1> QED BY <1>1, <1>2 DEF Fine

(* A step after which every live lease was live before and kept its record *)
(* or got a fine one.                                                      *)
LEMMA FineFrame ==
    ASSUME TypeOK, ExpiryInv, now' = now,
           \A l \in LeaseId : phase'[l] = "live" =>
              \/ phase[l] = "live" /\ lease'[l] = lease[l]
              \/ Fine(lease'[l], now),
           \A l \in LeaseId : parking'[l].at <= now
    PROVE  ExpiryInv'
BY DEF ExpiryInv, ParkStartedBefore

LEMMA GiveSlotFine ==
    ASSUME TypeOK, ExpiryInv, NEW l \in LeaseId, NEW u, NEW i, GiveSlot(l, u, i),
           now' = now, parking' = parking
    PROVE  ExpiryInv'
<1>0. /\ phase \in [LeaseId -> Phase] /\ lease \in [LeaseId -> LeaseRecord]
      /\ now \in Nat
  BY DEF TypeOK
<1>1. PICK r \in Requested :
         lease' = [lease EXCEPT ![l] =
                     [user |-> u, slot |-> i, hard |-> now + MaxLifetime,
                      expires |-> now + Min2(Clamp(r, Ttl), MaxLifetime),
                      parked |-> FALSE, parkedAt |-> 0]]
  BY DEF GiveSlot
<1>2. Min2(Clamp(r, Ttl), MaxLifetime) \in Nat
      /\ Min2(Clamp(r, Ttl), MaxLifetime) <= MaxLifetime
  BY ClampNat, NatAssumption DEF Min2
<1>3. /\ lease'[l].hard = now + MaxLifetime /\ ~lease'[l].parked
      /\ lease'[l].expires = now + Min2(Clamp(r, Ttl), MaxLifetime)
  BY <1>0, <1>1
<1>4. Fine(lease'[l], now)
  BY <1>0, <1>2, <1>3, NatAssumption DEF Fine
<1>5. \A m \in LeaseId \ {l} : lease'[m] = lease[m] /\ phase'[m] = phase[m]
  BY <1>0, <1>1 DEF GiveSlot
<1>6. \A m \in LeaseId : phase'[m] = "live" =>
         \/ phase[m] = "live" /\ lease'[m] = lease[m]
         \/ Fine(lease'[m], now)
  BY <1>4, <1>5
<1> QED BY <1>6, FineFrame DEF ExpiryInv, ParkStartedBefore

LEMMA ExpiryStep == TypeOK /\ ExpiryInv /\ [Next]_vars => ExpiryInv'
<1> SUFFICES ASSUME TypeOK, ExpiryInv, [Next]_vars PROVE ExpiryInv'
  OBVIOUS
<1> USE NatAssumption, NoneAssumption
<1>0. /\ phase \in [LeaseId -> Phase] /\ lease \in [LeaseId -> LeaseRecord]
      /\ now \in Nat /\ parking \in [LeaseId -> ParkCall]
      /\ \A l \in LeaseId : parking[l].at <= now
  BY DEF TypeOK, ExpiryInv, ParkStartedBefore
<1>1. ASSUME NEW l \in LeaseId, ReleaseStep(l) PROVE ExpiryInv'
  <2>1. /\ now' = now /\ parking' = parking /\ phase'[l] # "live"
        /\ \A m \in LeaseId \ {l} : phase'[m] = phase[m] /\ lease'[m] = lease[m]
    BY <1>0, <1>1 DEF ReleaseStep, KillSlot, BootSlot, BootSlotFails
  <2> QED BY <1>0, <2>1, FineFrame
<1>2. ASSUME NEW l \in LeaseId, NEW u \in User, Acquire(l, u) PROVE ExpiryInv'
  <2>0. now' = now /\ parking' = parking BY <1>2 DEF Acquire
  <2>1. CASE \E i \in Slot : FirstFree(i) /\ GiveSlot(l, u, i)
    BY <2>0, <2>1, GiveSlotFine
  <2>2. CASE ~ \E i \in Slot : FirstFree(i) /\ GiveSlot(l, u, i)
    <3>1. PICK v \in LeaseId :
            /\ phase' = [phase EXCEPT ![v] = "ending", ![l] = "waiting"]
            /\ lease' = [lease EXCEPT ![l].user = u]
      BY <1>2, <2>2 DEF Acquire, OldestParked, Preemptible, ParkedLeases, LiveLeases
    <3>2. \A m \in LeaseId : phase'[m] = "live" =>
             phase[m] = "live" /\ lease'[m] = lease[m]
      BY <1>0, <3>1
    <3> QED BY <1>0, <2>0, <3>2, FineFrame
  <2> QED BY <2>1, <2>2
<1>3. ASSUME NEW l \in LeaseId, AcquireRetry(l) PROVE ExpiryInv'
  <2>0. now' = now /\ parking' = parking BY <1>3 DEF AcquireRetry
  <2>1. CASE \E i \in Slot : FirstFree(i) /\ GiveSlot(l, lease[l].user, i)
    BY <2>0, <2>1, GiveSlotFine
  <2>2. CASE /\ phase' = [phase EXCEPT ![l] = "new"]
             /\ lease' = [lease EXCEPT ![l] = Blank]
    <3>1. \A m \in LeaseId : phase'[m] = "live" =>
             phase[m] = "live" /\ lease'[m] = lease[m]
      BY <1>0, <2>2
    <3> QED BY <1>0, <2>0, <3>1, FineFrame
  <2> QED BY <1>3, <2>1, <2>2 DEF AcquireRetry
<1>4. ASSUME NEW l \in LeaseId, NEW r \in LeaseRecord, Fine(r, now) \/ r = lease[l],
             lease' = [lease EXCEPT ![l] = r],
             phase' = phase, now' = now, parking' = parking
      PROVE  ExpiryInv'
  <2>1. lease'[l] = r /\ \A m \in LeaseId \ {l} : lease'[m] = lease[m]
    BY <1>0, <1>4
  <2>2. \A m \in LeaseId : phase'[m] = "live" =>
           \/ phase[m] = "live" /\ lease'[m] = lease[m]
           \/ Fine(lease'[m], now)
    BY <1>4, <2>1
  <2> QED BY <1>0, <1>4, <2>2, FineFrame
<1>5. ASSUME NEW l \in LeaseId, Touch(l) \/ \E op \in Op : Request(l, op)
      PROVE  ExpiryInv'
  <2>1. /\ lease' = [lease EXCEPT ![l] = Touched(l)] /\ Live(l)
        /\ phase' = phase /\ now' = now /\ parking' = parking
    BY <1>5 DEF Touch, Request, Gettable
  <2>2. Fine(lease[l], now) BY <2>1 DEF ExpiryInv, Live
  <2>3. Fine(Touched(l), now) BY <1>0, <2>2, FineExtend DEF Touched
  <2> QED BY <1>4, <2>1, <2>3, TouchedFacts
<1>6. ASSUME NEW l \in LeaseId, Renew(l) PROVE ExpiryInv'
  <2>0. phase' = phase /\ now' = now /\ parking' = parking BY <1>6 DEF Renew
  <2>1. CASE ~Live(l)
    BY <1>0, <1>6, <2>0, <2>1, FineFrame DEF Renew
  <2>2. CASE Live(l)
    <3> DEFINE cap == IF lease[l].parked THEN ParkTtl ELSE Ttl
    <3>1. PICK r \in Requested : lease' = [lease EXCEPT ![l] = Extend(lease[l], Clamp(r, cap))]
      BY <1>6, <2>2 DEF Renew
    <3>2. Clamp(r, cap) \in Nat /\ Clamp(r, cap) <= cap
      BY ClampNat
    <3>3. lease[l].parked => Clamp(r, cap) <= ParkTtl BY <3>2
    <3> HIDE DEF cap
    <3>4. Fine(lease[l], now) BY <2>2 DEF ExpiryInv, Live
    <3>5. Extend(lease[l], Clamp(r, cap)) \in LeaseRecord BY <1>0, <3>2, ExtendFacts
    <3>6. Fine(Extend(lease[l], Clamp(r, cap)), now)
      BY <1>0, <3>2, <3>3, <3>4, FineExtend
    <3> QED BY <1>4, <2>0, <3>1, <3>5, <3>6
  <2> QED BY <2>1, <2>2
<1>7. ASSUME NEW l \in LeaseId, Attach(l) PROVE ExpiryInv'
  <2>0. phase' = phase /\ now' = now /\ parking' = parking BY <1>7 DEF Attach
  <2>1. CASE lease' = lease
    BY <1>0, <2>0, <2>1, FineFrame
  <2>2. CASE Live(l) /\ lease' # lease
    <3> DEFINE e == Extend(lease[l], IdleTimeout)
               r == [e EXCEPT !.parked = FALSE, !.parkedAt = 0]
    <3>1. lease' = [lease EXCEPT ![l] = r] BY <1>7, <2>2 DEF Attach
    <3>2. Fine(lease[l], now) BY <2>2 DEF ExpiryInv, Live
    <3>3. e \in LeaseRecord /\ e.hard = lease[l].hard /\ e.expires <= e.hard
      BY <1>0, <3>2, ExtendFacts DEF Fine
    <3> HIDE DEF e
    <3>4. r \in LeaseRecord /\ ~r.parked /\ r.hard = e.hard /\ r.expires = e.expires
      BY <3>3 DEF LeaseRecord
    <3> HIDE DEF r
    <3>5. Fine(r, now) BY <3>2, <3>3, <3>4 DEF Fine
    <3> QED BY <1>4, <2>0, <3>1, <3>4, <3>5
  <2> QED BY <1>7, <2>1, <2>2 DEF Attach
<1>8. ASSUME NEW l \in LeaseId, Exec(l) \/ ExecEnds(l) PROVE ExpiryInv'
  <2>1. phase' = phase /\ lease' = lease /\ now' = now /\ parking' = parking
    BY <1>8 DEF Exec, ExecEnds
  <2> QED BY <1>0, <2>1, FineFrame
<1>9. ASSUME NEW v \in LeaseId, NEW reason, BeginRelease(v, reason), now' = now,
             \A m \in LeaseId : phase[m] = "live" =>
                lease'[m] = lease[m] \/ Fine(lease'[m], now),
             \A m \in LeaseId : parking'[m].at <= now
      PROVE  ExpiryInv'
  <2>1. phase' = [phase EXCEPT ![v] = "ending"] BY <1>9 DEF BeginRelease
  <2>2. \A m \in LeaseId : phase'[m] = "live" => phase[m] = "live"
    BY <1>0, <2>1
  <2> QED BY <1>9, <2>2, FineFrame
<1>10. ASSUME NEW l \in LeaseId, Delete(l) \/ AdminKill(l) PROVE ExpiryInv'
  BY <1>0, <1>9, <1>10 DEF Delete, AdminKill
<1>11. ASSUME NEW l \in LeaseId, NEW at \in Nat, at <= now, FinishPark(l, at),
              phase' = phase, now' = now, \A m \in LeaseId : parking'[m].at <= now
       PROVE  ExpiryInv'
  <2>1. CASE ~Live(l)
    BY <1>11, <2>1, FineFrame DEF FinishPark
  <2>2. CASE Live(l)
    <3>1. lease' = [lease EXCEPT ![l] = ParkedRecord(l, at)]
      BY <1>11, <2>2 DEF FinishPark
    <3>2. Fine(lease[l], now) /\ lease[l] \in LeaseRecord
      BY <1>0, <2>2 DEF ExpiryInv, Live
    <3>3. /\ ParkedRecord(l, at).hard = lease[l].hard
          /\ ParkedRecord(l, at).expires = Min2(at + ParkTtl, lease[l].hard)
      BY <3>2 DEF ParkedRecord, LeaseRecord
    <3>4. lease[l].hard \in Nat /\ lease[l].hard <= now + MaxLifetime
      BY <3>2 DEF LeaseRecord, Fine
    <3>5. /\ Min2(at + ParkTtl, lease[l].hard) <= now + ParkTtl
          /\ Min2(at + ParkTtl, lease[l].hard) <= lease[l].hard
      BY <1>0, <1>11, <3>4 DEF Min2
    <3>6. Fine(ParkedRecord(l, at), now) BY <3>3, <3>4, <3>5 DEF Fine
    <3>7. lease'[l] = ParkedRecord(l, at)
          /\ \A m \in LeaseId \ {l} : lease'[m] = lease[m]
      BY <1>0, <3>1
    <3>8. \A m \in LeaseId : phase'[m] = "live" =>
             \/ phase[m] = "live" /\ lease'[m] = lease[m]
             \/ Fine(lease'[m], now)
      BY <1>11, <3>6, <3>7
    <3> QED BY <1>11, <3>8, FineFrame
  <2> QED BY <2>1, <2>2
<1>12. ASSUME NEW l \in LeaseId, Park(l) PROVE ExpiryInv'
  <2>0. now' = now BY <1>12 DEF Park
  <2>1. CASE UNCHANGED <<phase, lease, parking>>
    BY <1>0, <2>0, <2>1, FineFrame
  <2>2. CASE FinishPark(l, now) /\ UNCHANGED <<phase, parking>>
    BY <1>0, <2>0, <2>2, <1>11
  <2>3. CASE \E V \in SUBSET LeaseId : \E v \in V :
               /\ BeginRelease(v, "park-quota") /\ lease' = lease
               /\ parking' = [parking EXCEPT ![l] =
                    [on |-> TRUE, at |-> now, todo |-> V \ {v}, cur |-> v]]
    <3>1. PICK V \in SUBSET LeaseId, v \in LeaseId :
               /\ BeginRelease(v, "park-quota") /\ lease' = lease
               /\ parking' = [parking EXCEPT ![l] =
                    [on |-> TRUE, at |-> now, todo |-> V \ {v}, cur |-> v]]
      BY <2>3
    <3>2. \A m \in LeaseId : parking'[m].at <= now BY <1>0, <3>1
    <3> QED BY <1>9, <2>0, <3>1, <3>2
  <2> QED BY <1>12, <2>1, <2>2, <2>3 DEF Park
<1>13. ASSUME NEW l \in LeaseId, ParkNext(l) PROVE ExpiryInv'
  <2>0. now' = now /\ parking[l] \in ParkCall /\ parking[l].at \in Nat
        /\ parking[l].at <= now
    BY <1>0, <1>13 DEF ParkNext, ParkCall
  <2>1. CASE /\ FinishPark(l, parking[l].at) /\ phase' = phase
             /\ parking' = [parking EXCEPT ![l] = NotParking]
    <3>1. NotParking.at = 0 BY DEF NotParking
    <3>2. \A m \in LeaseId : parking'[m].at <= now BY <1>0, <2>1, <3>1
    <3> QED BY <1>11, <2>0, <2>1, <3>2
  <2>2. CASE \E v \in parking[l].todo :
               /\ IF Live(v) THEN BeginRelease(v, "park-quota") ELSE UNCHANGED <<phase, why>>
               /\ parking' = [parking EXCEPT ![l] = Advance(parking[l], v)]
               /\ lease' = lease
    <3>1. PICK v \in parking[l].todo :
               /\ IF Live(v) THEN BeginRelease(v, "park-quota") ELSE UNCHANGED <<phase, why>>
               /\ parking' = [parking EXCEPT ![l] = Advance(parking[l], v)]
               /\ lease' = lease
      BY <2>2
    <3>2. v \in LeaseId BY <2>0 DEF ParkCall
    <3>3. Advance(parking[l], v).at <= now BY <2>0, <3>2, AdvanceType
    <3>4. \A m \in LeaseId : parking'[m].at <= now BY <1>0, <3>1, <3>3
    <3>5. CASE Live(v) BY <1>9, <2>0, <3>1, <3>2, <3>4, <3>5
    <3>6. CASE ~Live(v) BY <2>0, <3>1, <3>4, <3>6, FineFrame
    <3> QED BY <3>5, <3>6
  <2> QED BY <1>13, <2>1, <2>2 DEF ParkNext
<1>14. ASSUME NEW s, NEW todo \in SUBSET LeaseId, NEW reason,
              StartLoop(s, todo, reason), now' = now, parking' = parking,
              \A m \in LeaseId : phase[m] = "live" =>
                 lease'[m] = lease[m] \/ Fine(lease'[m], now)
       PROVE  ExpiryInv'
  <2>1. CASE phase' = phase BY <1>0, <1>14, <2>1, FineFrame
  <2>2. CASE \E v \in todo : BeginRelease(v, reason)
    BY <1>0, <1>9, <1>14, <2>2
  <2> QED BY <1>14, <2>1, <2>2 DEF StartLoop
<1>15. ASSUME NEW s \in Sweeper, Sweep(s) PROVE ExpiryInv'
  <2>1. \A m \in LeaseId : phase[m] = "live" =>
           lease'[m] = lease[m] \/ Fine(lease'[m], now)
    <3> SUFFICES ASSUME NEW m \in LeaseId, phase[m] = "live"
                 PROVE  lease'[m] = lease[m] \/ Fine(lease'[m], now)
      OBVIOUS
    <3>1. lease'[m] = SweptRecord(m) BY <1>15 DEF Sweep, Live
    <3>2. CASE Running(m) /\ ~lease[m].parked
      <4>1. Fine(Extend(lease[m], IdleTimeout), now)
        BY <1>0, <3>2, FineExtend DEF ExpiryInv
      <4> QED BY <3>1, <3>2, <4>1 DEF SweptRecord
    <3>3. CASE ~(Running(m) /\ ~lease[m].parked) BY <3>1, <3>3 DEF SweptRecord
    <3> QED BY <3>2, <3>3
  <2>2. Dead \in SUBSET LeaseId BY DEF Dead, LiveLeases
  <2> QED BY <1>14, <1>15, <2>1, <2>2 DEF Sweep
<1>16. ASSUME NEW s \in SeqRelease, LoopNext(s) PROVE ExpiryInv'
  <2>0. now' = now /\ parking' = parking /\ lease' = lease BY <1>16 DEF LoopNext
  <2>1. CASE phase' = phase BY <1>0, <2>0, <2>1, FineFrame
  <2>2. CASE \E v \in sweeps[s].todo : BeginRelease(v, LoopReason(s))
    <3>1. sweeps[s].todo \subseteq LeaseId BY DEF TypeOK, Loop
    <3> QED BY <1>0, <1>9, <2>0, <2>2, <3>1
  <2> QED BY <1>16, <2>1, <2>2 DEF LoopNext
<1>17. ASSUME ReleaseAll PROVE ExpiryInv'
  <2>1. LiveLeases \in SUBSET LeaseId BY DEF LiveLeases
  <2> QED BY <1>14, <1>17, <2>1 DEF ReleaseAll
<1>18. CASE Shutdown \/ UNCHANGED vars
  BY <1>0, <1>18, FineFrame DEF Shutdown, vars
<1>19. CASE Tick
  <2>1. now' = now + 1 /\ phase' = phase /\ lease' = lease /\ parking' = parking
    BY <1>19 DEF Tick
  <2>2. \A l \in LeaseId : phase[l] = "live" => Fine(lease[l], now + 1)
    <3> SUFFICES ASSUME NEW l \in LeaseId, phase[l] = "live" PROVE Fine(lease[l], now + 1)
      OBVIOUS
    <3>1. lease[l] \in LeaseRecord /\ Fine(lease[l], now) BY <1>0 DEF ExpiryInv
    <3> QED BY <1>0, <3>1 DEF Fine, LeaseRecord
  <2>3. \A l \in LeaseId : parking[l].at <= now + 1 BY <1>0 DEF ParkCall
  <2> QED BY <2>1, <2>2, <2>3 DEF ExpiryInv, ParkStartedBefore
<1> QED
  BY <1>1, <1>2, <1>3, <1>5, <1>6, <1>7, <1>8, <1>10, <1>12, <1>13, <1>15, <1>16,
     <1>17, <1>18, <1>19 DEF Next, HandlerStep

LEMMA ExpiryInit == Init => ExpiryInv
BY DEF Init, ExpiryInv, ParkStartedBefore, NotParking

(* No sequence of requests, parks, attaches, renewals and sweeps carries a *)
(* lease past its hard ceiling, nor a parked one past the park window.     *)
THEOREM ExpiryHolds == Spec => []ExpiryBounded
<1>1. Init => TypeOK /\ ExpiryInv BY TypeInit, ExpiryInit
<1>2. TypeOK /\ ExpiryInv /\ [Next]_vars => TypeOK' /\ ExpiryInv'
  BY TypeStep, ExpiryStep
<1>3. TypeOK /\ ExpiryInv => ExpiryBounded
  BY DEF ExpiryInv, Fine, ExpiryBounded, ParkedLeases, LiveLeases, Live
<1> QED BY <1>1, <1>2, <1>3, PTL DEF Spec

---------------------------------------------------------------------------
(* What makes every eviction justified.  A handler that waits for a body   *)
(* looked its lease up so recently that the lease still has the park       *)
(* window from then, or its hard ceiling (Fresh); a lease on the list of a *)
(* sweep is expired and nothing can extend it (Condemned); a lease whose   *)
(* park() waits for its evictions is neither (Secured), because the clock  *)
(* does not move during a rebuild.                                         *)
Unborn == {"new", "waiting"}
Expired(l) ==
    /\ lease[l].expires <= now
    /\ (Running(l) /\ ~lease[l].parked) => lease[l].hard <= now
Fresh(p) ==
    /\ p.at <= now /\ now <= p.at + BodyTimeout
    /\ phase[p.lease] \notin Unborn
    /\ Live(p.lease) =>
         Min2(p.at + ParkTtl, lease[p.lease].hard) <= lease[p.lease].expires
Condemned(l) ==
    /\ phase[l] \notin Unborn
    /\ Live(l) => Expired(l)
Secured(l) ==
    /\ phase[l] \notin Unborn
    /\ Live(l) => lease[l].expires > now /\ lease[l].hard > now

PendingFresh == \A p \in pending : Fresh(p)
TodoExpired ==
    \A s \in Sweeper : sweeps[s].on => \A l \in sweeps[s].todo : Condemned(l)
ParkingSecured ==
    \A l \in LeaseId : parking[l].on => parking[l].at = now /\ Secured(l)
ShutdownDown == sweeps["shutdown"].on => down
OnTime == PendingFresh /\ TodoExpired /\ ParkingSecured /\ ShutdownDown

(* How a step may change a lease that stays in the Map: its ceiling stays, *)
(* its expiry moves earlier only to a full park window from now, and what  *)
(* has expired for good stays expired.                                     *)
Carried(l) ==
    /\ Live(l)
    /\ lease'[l].hard = lease[l].hard /\ lease'[l].expires \in Nat
    /\ \/ lease'[l].expires >= lease[l].expires
       \/ lease'[l].expires = Min2(now + ParkTtl, lease[l].hard)
    /\ Expired(l) => Expired(l)'

LEMMA Windows == ParkTtl \in Nat /\ IdleTimeout \in Nat /\ Ttl \in Nat /\ ParkTtl > 0 /\ ParkTtl <= IdleTimeout
BY NatAssumption, ConfigAssumption

LEMMA LeaseTypes ==
    ASSUME TypeOK, NEW l \in LeaseId
    PROVE  /\ lease[l] \in LeaseRecord /\ now \in Nat
           /\ lease[l].hard \in Nat /\ lease[l].expires \in Nat
           /\ lease[l].parked \in BOOLEAN
BY DEF TypeOK, LeaseRecord

LEMMA CarriedSame ==
    ASSUME TypeOK, NEW l \in LeaseId, Live(l), lease'[l] = lease[l], now' = now,
           Running(l)' => Running(l)
    PROVE  Carried(l)
<1>1. lease'[l].expires \in Nat /\ lease'[l].expires >= lease[l].expires
  BY LeaseTypes
<1> QED BY <1>1 DEF Carried, Expired

(* A lease that was extended, where nothing that expired was extended.     *)
LEMMA CarriedExtend ==
    ASSUME TypeOK, NEW l \in LeaseId, Live(l), NEW w \in Nat,
           lease'[l] = Extend(lease[l], w), now' = now, Running(l)' => Running(l),
           Expired(l) => lease[l].hard <= now
    PROVE  Carried(l)
<1> DEFINE e == Extend(lease[l], w)
<1>1. /\ lease[l] \in LeaseRecord /\ now \in Nat
      /\ lease[l].hard \in Nat /\ lease[l].expires \in Nat
  BY LeaseTypes
<1>2. /\ e.hard = lease[l].hard /\ e.parked = lease[l].parked
      /\ e.expires \in Nat
      /\ e.expires >= lease[l].expires
      /\ e.expires = lease[l].expires \/ e.expires <= lease[l].hard
  BY <1>1 DEF Extend, Min2, LeaseRecord
<1> HIDE DEF e
<1>3. lease'[l] = e BY DEF e
<1>4. Expired(l) => Expired(l)'
  <2> SUFFICES ASSUME Expired(l) PROVE Expired(l)'
    OBVIOUS
  <2>1. lease[l].expires <= now /\ lease[l].hard <= now
    BY DEF Expired
  <2>2. e.expires <= now /\ e.hard <= now BY <1>1, <1>2, <2>1
  <2> QED BY <1>3, <2>2 DEF Expired
<1> QED BY <1>2, <1>3, <1>4 DEF Carried

(* A handler still holds the lease: once expired, it is at its ceiling.    *)
LEMMA FreshExpired ==
    ASSUME TypeOK, BodyTimeout < ParkTtl, NEW p \in pending, Fresh(p),
           Live(p.lease), lease[p.lease].expires <= now
    PROVE  lease[p.lease].hard <= now
<1>1. p.lease \in LeaseId /\ p.at \in Nat BY DEF TypeOK
<1>2. lease[p.lease].hard \in Nat /\ lease[p.lease].expires \in Nat /\ now \in Nat
  BY <1>1, LeaseTypes
<1>3. Min2(p.at + ParkTtl, lease[p.lease].hard) <= now
  BY <1>1, <1>2, Windows DEF Fresh, Min2
<1>4. p.at + ParkTtl > now BY <1>1, <1>2, Windows, NatAssumption DEF Fresh
<1> QED BY <1>1, <1>2, <1>3, <1>4, Windows DEF Min2

(* A step that moves no lease into the phases before its life, carries the *)
(* live ones, and adds only what the invariant allows, keeps it.           *)
LEMMA OnTimeFrame ==
    ASSUME TypeOK, OnTime, now' = now,
           \A l \in LeaseId : phase'[l] \in Unborn => phase[l] \in Unborn,
           \A l \in LeaseId :
              phase'[l] = "live" /\ phase[l] \notin Unborn => Carried(l),
           \A p \in pending' : p \in pending \/ Fresh(p)',
           \A l \in LeaseId : parking'[l].on =>
              \/ parking[l].on /\ parking'[l].at = parking[l].at
              \/ parking'[l].at = now /\ Secured(l)',
           \A s \in Sweeper : sweeps'[s].on => \A l \in sweeps'[s].todo :
              \/ sweeps[s].on /\ l \in sweeps[s].todo
              \/ Condemned(l)',
           sweeps'["shutdown"].on => down'
    PROVE  OnTime'
<1>1. ASSUME NEW p \in pending, Fresh(p) PROVE Fresh(p)'
  <2>1. p.lease \in LeaseId /\ p.at \in Nat /\ p.at <= now BY <1>1 DEF TypeOK, Fresh
  <2>2. phase[p.lease] \notin Unborn /\ phase'[p.lease] \notin Unborn
    BY <1>1, <2>1 DEF Fresh
  <2>3. ASSUME phase'[p.lease] = "live"
        PROVE  Min2(p.at + ParkTtl, lease'[p.lease].hard) <= lease'[p.lease].expires
    <3>1. Carried(p.lease) BY <2>1, <2>2, <2>3
    <3>2. /\ lease[p.lease].hard \in Nat /\ lease[p.lease].expires \in Nat
          /\ now \in Nat /\ lease'[p.lease].expires \in Nat
      BY <2>1, <3>1, LeaseTypes DEF Carried
    <3>3. Min2(p.at + ParkTtl, lease[p.lease].hard) <= lease[p.lease].expires
      BY <1>1, <3>1 DEF Fresh, Carried
    <3>4. CASE lease'[p.lease].expires >= lease[p.lease].expires
      <4>1. lease'[p.lease].hard = lease[p.lease].hard BY <3>1 DEF Carried
      <4>2. PICK e : e = lease'[p.lease].expires OBVIOUS
      <4>3. PICK m : m = Min2(p.at + ParkTtl, lease[p.lease].hard) OBVIOUS
      <4>4. m \in Nat BY <2>1, <3>2, <4>3, Windows DEF Min2
      <4> QED BY <3>2, <3>3, <3>4, <4>1, <4>3, <4>4
    <3>5. CASE lease'[p.lease].expires = Min2(now + ParkTtl, lease[p.lease].hard)
      BY <2>1, <3>1, <3>2, <3>5, Windows DEF Carried, Min2
    <3> QED BY <3>1, <3>4, <3>5 DEF Carried
  <2> QED BY <1>1, <2>2, <2>3 DEF Fresh, Live
<1>2. PendingFresh' BY <1>1 DEF OnTime, PendingFresh
<1>3. ASSUME NEW l \in LeaseId, Condemned(l) PROVE Condemned(l)'
  BY <1>3 DEF Condemned, Carried, Live
<1>4. TodoExpired'
  <2> SUFFICES ASSUME NEW s \in Sweeper, sweeps'[s].on, NEW l \in sweeps'[s].todo
               PROVE  Condemned(l)'
    BY DEF TodoExpired
  <2>1. CASE sweeps[s].on /\ l \in sweeps[s].todo
    <3>1. l \in LeaseId BY <2>1 DEF TypeOK, Loop, SeqRelease
    <3> QED BY <1>3, <2>1, <3>1 DEF OnTime, TodoExpired
  <2> QED BY <2>1
<1>5. ASSUME NEW l \in LeaseId, Secured(l) PROVE Secured(l)'
  <2>1. phase'[l] \notin Unborn BY <1>5 DEF Secured
  <2>2. ASSUME phase'[l] = "live"
        PROVE  lease'[l].expires > now /\ lease'[l].hard > now
    <3>1. Carried(l) BY <1>5, <2>2 DEF Secured
    <3>2. /\ lease[l].hard \in Nat /\ lease[l].expires \in Nat /\ now \in Nat
          /\ lease'[l].expires \in Nat
      BY <3>1, LeaseTypes DEF Carried
    <3>3. lease[l].expires > now /\ lease[l].hard > now
      BY <1>5, <3>1 DEF Secured, Carried
    <3>4. lease'[l].hard > now BY <3>1, <3>3 DEF Carried
    <3>5. CASE lease'[l].expires >= lease[l].expires
      BY <3>2, <3>3, <3>4, <3>5
    <3>6. CASE lease'[l].expires = Min2(now + ParkTtl, lease[l].hard)
      BY <3>2, <3>3, <3>4, <3>6, Windows DEF Min2
    <3> QED BY <3>1, <3>5, <3>6 DEF Carried
  <2> QED BY <2>1, <2>2 DEF Secured, Live
<1>6. ParkingSecured'
  <2> SUFFICES ASSUME NEW l \in LeaseId, parking'[l].on
               PROVE  parking'[l].at = now' /\ Secured(l)'
    BY DEF ParkingSecured
  <2>1. CASE parking[l].on /\ parking'[l].at = parking[l].at
    BY <1>5, <2>1 DEF OnTime, ParkingSecured
  <2> QED BY <2>1
<1>7. ShutdownDown' BY DEF ShutdownDown
<1> QED BY <1>2, <1>4, <1>6, <1>7 DEF OnTime

(* Likewise, for a step that touches no record of a lease in the Map.      *)
Quiet ==
    /\ now' = now /\ pending' \subseteq pending
    /\ \A l \in LeaseId : phase'[l] \in Unborn => phase[l] \in Unborn
    /\ \A l \in LeaseId : phase'[l] = "live" /\ phase[l] \notin Unborn =>
         Live(l) /\ lease'[l] = lease[l] /\ (Running(l)' => Running(l))

LEMMA QuietCarries ==
    ASSUME TypeOK, Quiet, NEW l \in LeaseId, phase'[l] = "live", phase[l] \notin Unborn
    PROVE  Carried(l)
BY CarriedSame DEF Quiet

LEMMA QuietFrame ==
    ASSUME TypeOK, OnTime, Quiet, parking' = parking, sweeps' = sweeps, down' = down
    PROVE  OnTime'
<1>1. \A p \in pending' : p \in pending \/ Fresh(p)' BY DEF Quiet
<1>2. \A l \in LeaseId : parking'[l].on =>
              \/ parking[l].on /\ parking'[l].at = parking[l].at
              \/ parking'[l].at = now /\ Secured(l)'
  OBVIOUS
<1>3. \A s \in Sweeper : sweeps'[s].on => \A l \in sweeps'[s].todo :
              \/ sweeps[s].on /\ l \in sweeps[s].todo
              \/ Condemned(l)'
  OBVIOUS
<1>4. sweeps'["shutdown"].on => down' BY DEF OnTime, ShutdownDown
<1>5. \A l \in LeaseId :
              phase'[l] = "live" /\ phase[l] \notin Unborn => Carried(l)
  BY QuietCarries
<1> QED BY <1>1, <1>2, <1>3, <1>4, <1>5, OnTimeFrame DEF Quiet

(* A release that begins leaves the other leases alone.                    *)
LEMMA ReleaseQuiet ==
    ASSUME TypeOK, NEW v \in LeaseId, NEW reason, Live(v), BeginRelease(v, reason),
           lease' = lease, procs' = procs, now' = now, pending' \subseteq pending
    PROVE  Quiet
<1>1. phase \in [LeaseId -> Phase] BY DEF TypeOK
<1>2. phase' = [phase EXCEPT ![v] = "ending"] BY DEF BeginRelease
<1>3. \A l \in LeaseId : phase'[l] \in Unborn => phase[l] \in Unborn
  BY <1>1, <1>2 DEF Unborn
<1>4. \A l \in LeaseId : phase'[l] = "live" => phase[l] = "live"
  BY <1>1, <1>2
<1> QED BY <1>3, <1>4 DEF Quiet, Live, Running, SlotOf, Unborn

LEMMA StillQuiet ==
    ASSUME TypeOK, phase' = phase, lease' = lease, procs' = procs, now' = now,
           pending' \subseteq pending
    PROVE  Quiet
<1>1. \A l \in LeaseId : phase[l] \in Phase BY DEF TypeOK
<1>2. \A l \in LeaseId : (Running(l)' <=> Running(l)) BY DEF Running, SlotOf
<1> QED BY <1>1, <1>2 DEF Quiet, Live

LEMMA OnTimeRelease ==
    ASSUME TypeOK, OnTime, NEW l \in LeaseId, ReleaseStep(l)
    PROVE  OnTime'
<1>1. phase \in [LeaseId -> Phase] /\ lease \in [LeaseId -> LeaseRecord]
      /\ procs \in [Slot -> SUBSET LeaseId]
  BY DEF TypeOK
<1>2. /\ phase[l] # "live" /\ phase[l] \notin Unborn
      /\ phase'[l] \notin Unborn /\ phase'[l] # "live"
      /\ \A m \in LeaseId \ {l} : phase'[m] = phase[m] /\ lease'[m] = lease[m]
      /\ now' = now /\ pending' = pending /\ parking' = parking /\ sweeps' = sweeps
      /\ down' = down
  BY <1>1 DEF ReleaseStep, KillSlot, BootSlot, BootSlotFails, Unborn
<1>3. \A m \in LeaseId \ {l} : Running(m)' => Running(m)
  <2>1. CASE procs' = procs BY <1>2, <2>1 DEF Running, SlotOf
  <2>2. CASE procs' = [procs EXCEPT ![SlotOf(l)] = {}]
    BY <1>1, <1>2, <2>2 DEF Running, SlotOf
  <2> QED BY <2>1, <2>2 DEF ReleaseStep, KillSlot, BootSlot, BootSlotFails
<1>4. Quiet BY <1>1, <1>2, <1>3 DEF Quiet, Live, Unborn
<1> QED BY <1>2, <1>4, QuietFrame

LEMMA OnTimeGive ==
    ASSUME TypeOK, OnTime, NEW l \in LeaseId, NEW u, NEW i \in Slot, GiveSlot(l, u, i),
           phase[l] \in Unborn, procs' = procs, now' = now, pending' = pending,
           parking' = parking, sweeps' = sweeps, down' = down
    PROVE  OnTime'
<1>1. phase \in [LeaseId -> Phase] /\ lease \in [LeaseId -> LeaseRecord]
  BY DEF TypeOK
<1>2. /\ phase'[l] = "live"
      /\ \A m \in LeaseId \ {l} : phase'[m] = phase[m] /\ lease'[m] = lease[m]
  BY <1>1 DEF GiveSlot
<1>3. \A m \in LeaseId \ {l} : Running(m)' => Running(m)
  BY <1>2 DEF Running, SlotOf
<1>4. Quiet BY <1>1, <1>2, <1>3 DEF Quiet, Live, Unborn
<1> QED BY <1>4, QuietFrame

LEMMA OnTimeAcquire ==
    ASSUME TypeOK, OnTime, NEW l \in LeaseId, NEW u,
           Acquire(l, u) \/ AcquireRetry(l)
    PROVE  OnTime'
<1>1. phase \in [LeaseId -> Phase] /\ lease \in [LeaseId -> LeaseRecord]
  BY DEF TypeOK
<1>2. /\ phase[l] \in Unborn /\ procs' = procs /\ now' = now /\ pending' = pending
      /\ parking' = parking /\ sweeps' = sweeps /\ down' = down
  BY DEF Acquire, AcquireRetry, Unborn
<1>3. CASE \E w \in {u, lease[l].user}, i \in Slot : GiveSlot(l, w, i)
  BY <1>2, <1>3, OnTimeGive
<1>4. CASE /\ phase'[l] \in Unborn
           /\ \A m \in LeaseId \ {l} :
                /\ lease'[m] = lease[m]
                /\ phase'[m] = phase[m] \/ (phase[m] = "live" /\ phase'[m] = "ending")
  <2>1. \A m \in LeaseId \ {l} : Running(m)' => Running(m)
    BY <1>2, <1>4 DEF Running, SlotOf
  <2>2. \A m \in LeaseId : phase'[m] \in Unborn => phase[m] \in Unborn
    BY <1>1, <1>2, <1>4 DEF Unborn
  <2>3. Quiet BY <1>1, <1>2, <1>4, <2>1, <2>2 DEF Quiet, Live, Unborn
  <2> QED BY <1>2, <2>3, QuietFrame
<1>5. CASE Acquire(l, u) /\ ~ \E i \in Slot : GiveSlot(l, u, i)
  <2>1. PICK v \in LeaseId :
           /\ phase[v] = "live"
           /\ phase' = [phase EXCEPT ![v] = "ending", ![l] = "waiting"]
           /\ lease' = [lease EXCEPT ![l].user = u]
    BY <1>5 DEF Acquire, OldestParked, Preemptible, ParkedLeases, LiveLeases, Live
  <2> QED BY <1>1, <1>2, <1>4, <2>1 DEF Unborn
<1>6. CASE AcquireRetry(l) /\ ~ \E i \in Slot : GiveSlot(l, lease[l].user, i)
  <2>1. /\ phase' = [phase EXCEPT ![l] = "new"]
        /\ lease' = [lease EXCEPT ![l] = Blank]
    BY <1>6 DEF AcquireRetry
  <2> QED BY <1>1, <1>2, <1>4, <2>1 DEF Unborn
<1> QED BY <1>3, <1>5, <1>6

(* A step that changes the record of one lease, or what runs in its slot.  *)
LEMMA OnTimeRecord ==
    ASSUME TypeOK, OnTime, NEW l \in LeaseId, Live(l) => Carried(l),
           now' = now, phase' = phase, parking' = parking, sweeps' = sweeps, down' = down,
           \A m \in LeaseId \ {l} :
              lease'[m] = lease[m] /\ (Running(m)' => Running(m)),
           \A p \in pending' : p \in pending \/ Fresh(p)'
    PROVE  OnTime'
<1>1. \A m \in LeaseId : phase'[m] \in Unborn => phase[m] \in Unborn
  OBVIOUS
<1>2. \A m \in LeaseId : phase'[m] = "live" /\ phase[m] \notin Unborn => Carried(m)
  <2> SUFFICES ASSUME NEW m \in LeaseId, phase[m] = "live" PROVE Carried(m)
    OBVIOUS
  <2>1. Live(m) BY DEF Live
  <2>2. CASE m = l BY <2>1, <2>2
  <2>3. CASE m # l BY <2>1, <2>3, CarriedSame
  <2> QED BY <2>2, <2>3
<1>3. \A m \in LeaseId : parking'[m].on =>
              \/ parking[m].on /\ parking'[m].at = parking[m].at
              \/ parking'[m].at = now /\ Secured(m)'
  OBVIOUS
<1>4. \A s \in Sweeper : sweeps'[s].on => \A m \in sweeps'[s].todo :
              \/ sweeps[s].on /\ m \in sweeps[s].todo
              \/ Condemned(m)'
  OBVIOUS
<1>5. sweeps'["shutdown"].on => down' BY DEF OnTime, ShutdownDown
<1> QED BY <1>1, <1>2, <1>3, <1>4, <1>5, OnTimeFrame

LEMMA SameSlotRunning ==
    ASSUME TypeOK, NEW l \in LeaseId, procs' = procs, lease'[l].slot = lease[l].slot
    PROVE  Running(l)' <=> Running(l)
BY DEF Running, SlotOf

(* extend() reaches at least the end of its window, or the hard ceiling.   *)
LEMMA ExtendReaches ==
    ASSUME NEW r \in LeaseRecord, NEW w \in Nat, now \in Nat
    PROVE  Extend(r, w).expires >= Min2(now + w, r.hard)
BY DEF Extend, Min2, LeaseRecord

LEMMA OnTimeTouch ==
    ASSUME TypeOK, OnTime, NEW l \in LeaseId, Touch(l) \/ \E op \in Op : Request(l, op)
    PROVE  OnTime'
<1>1. phase \in [LeaseId -> Phase] /\ lease \in [LeaseId -> LeaseRecord] /\ now \in Nat
  BY DEF TypeOK
<1>2. /\ Live(l) /\ lease[l].expires > now
      /\ lease' = [lease EXCEPT ![l] = Touched(l)]
      /\ now' = now /\ phase' = phase /\ procs' = procs /\ parking' = parking
      /\ sweeps' = sweeps /\ down' = down
  BY DEF Touch, Request, Gettable
<1> DEFINE w == IF lease[l].parked THEN ParkTtl ELSE IdleTimeout
<1>3. w \in Nat /\ w >= ParkTtl BY Windows
<1>4. lease'[l] = Extend(lease[l], w) BY <1>1, <1>2 DEF Touched
<1> HIDE DEF w
<1>5. Extend(lease[l], w) \in LeaseRecord /\ Extend(lease[l], w).slot = lease[l].slot
  BY <1>1, <1>3, ExtendFacts
<1>6. \A m \in LeaseId : Running(m)' <=> Running(m)
  BY <1>1, <1>2, <1>4, <1>5 DEF Running, SlotOf
<1>7. ~Expired(l) BY <1>1, <1>2, LeaseTypes DEF Expired
<1>8. Carried(l) BY <1>2, <1>3, <1>4, <1>6, <1>7, CarriedExtend
<1>9. ASSUME NEW op \in Op, Request(l, op), NEW p \in pending', p \notin pending
      PROVE  Fresh(p)'
  <2>1. p.lease = l /\ p.at = now BY <1>9 DEF Request
  <2>2. lease'[l].expires >= Min2(now + w, lease[l].hard)
    BY <1>1, <1>3, <1>4, ExtendReaches
  <2>3. lease'[l].hard = lease[l].hard /\ lease'[l].expires \in Nat BY <1>8 DEF Carried
  <2>4. lease[l].hard \in Nat BY LeaseTypes
  <2>5. Min2(now + ParkTtl, lease'[l].hard) <= lease'[l].expires
    BY <1>1, <1>3, <2>2, <2>3, <2>4, Windows DEF Min2
  <2>6. phase[l] \notin Unborn BY <1>2 DEF Live, Unborn
  <2>7. p.at <= now' /\ now' <= p.at + BodyTimeout
    BY <1>1, <1>2, <2>1, NatAssumption
  <2> QED BY <1>2, <2>1, <2>5, <2>6, <2>7 DEF Fresh
<1>10. \A p \in pending' : p \in pending \/ Fresh(p)'
  BY <1>9 DEF Touch
<1>11. \A m \in LeaseId \ {l} : lease'[m] = lease[m] /\ (Running(m)' => Running(m))
  BY <1>1, <1>2, <1>6
<1> QED BY <1>2, <1>8, <1>10, <1>11, OnTimeRecord

(* A handler that runs has a fresh look at its lease.                      *)
LEMMA HandlerFresh ==
    ASSUME TypeOK, OnTime, BodyTimeout < ParkTtl, NEW l \in LeaseId, NEW op, Handle(l, op)
    PROVE  /\ pending' \subseteq pending
           /\ phase[l] \notin Unborn
           /\ Live(l) /\ lease[l].expires <= now => lease[l].hard <= now
<1>1. PICK p \in pending : p.lease = l /\ pending' = pending \ {p}
  BY DEF Handle
<1>2. Fresh(p) BY DEF OnTime, PendingFresh
<1>3. Live(l) /\ lease[l].expires <= now => lease[l].hard <= now
  BY <1>1, <1>2, FreshExpired
<1> QED BY <1>1, <1>2, <1>3 DEF Fresh

LEMMA OnTimeRenew ==
    ASSUME TypeOK, OnTime, BodyTimeout < ParkTtl, NEW l \in LeaseId, Renew(l)
    PROVE  OnTime'
<1>1. phase \in [LeaseId -> Phase] /\ lease \in [LeaseId -> LeaseRecord] /\ now \in Nat
  BY DEF TypeOK
<1>2. /\ pending' \subseteq pending
      /\ Live(l) /\ lease[l].expires <= now => lease[l].hard <= now
  BY HandlerFresh DEF Renew
<1>3. /\ now' = now /\ phase' = phase /\ procs' = procs /\ parking' = parking
      /\ sweeps' = sweeps /\ down' = down
  BY DEF Renew
<1> DEFINE cap == IF lease[l].parked THEN ParkTtl ELSE Ttl
<1>4. PICK r \in Requested :
         lease' = IF Live(l) THEN [lease EXCEPT ![l] = Extend(@, Clamp(r, cap))]
                             ELSE lease
  BY DEF Renew
<1>5. r \in Nat /\ cap \in Nat BY NatAssumption
<1> HIDE DEF cap
<1>6. Clamp(r, cap) \in Nat BY <1>5, ClampNat
<1>7. PICK w \in Nat : w = Clamp(r, cap) BY <1>6
<1>8. CASE ~Live(l)
  <2>1. lease' = lease BY <1>4, <1>8
  <2> QED BY <1>2, <1>3, <2>1, StillQuiet, QuietFrame
<1>9. CASE Live(l)
  <2>1. lease' = [lease EXCEPT ![l] = Extend(lease[l], w)] BY <1>4, <1>7, <1>9
  <2>2. lease'[l] = Extend(lease[l], w) BY <1>1, <2>1
  <2>3. Extend(lease[l], w).slot = lease[l].slot BY <1>1, ExtendFacts
  <2>4. \A m \in LeaseId : Running(m)' <=> Running(m)
    BY <1>1, <1>3, <2>1, <2>2, <2>3 DEF Running, SlotOf
  <2>5. Expired(l) => lease[l].hard <= now BY <1>2, <1>9 DEF Expired
  <2>6. Carried(l) BY <1>3, <1>9, <2>2, <2>4, <2>5, CarriedExtend
  <2>7. \A m \in LeaseId \ {l} : lease'[m] = lease[m] /\ (Running(m)' => Running(m))
    BY <1>1, <2>1, <2>4
  <2> QED BY <1>2, <1>3, <2>6, <2>7, OnTimeRecord
<1> QED BY <1>8, <1>9

LEMMA OnTimeAttach ==
    ASSUME TypeOK, OnTime, BodyTimeout < ParkTtl, NEW l \in LeaseId, Attach(l)
    PROVE  OnTime'
<1>1. phase \in [LeaseId -> Phase] /\ lease \in [LeaseId -> LeaseRecord] /\ now \in Nat
  BY DEF TypeOK
<1>2. /\ pending' \subseteq pending
      /\ Live(l) /\ lease[l].expires <= now => lease[l].hard <= now
  BY HandlerFresh DEF Attach
<1>3. /\ now' = now /\ phase' = phase /\ procs' = procs /\ parking' = parking
      /\ sweeps' = sweeps /\ down' = down
  BY DEF Attach
<1>4. CASE lease' = lease
  BY <1>2, <1>3, <1>4, StillQuiet, QuietFrame
<1>5. CASE lease' # lease
  <2> DEFINE e == Extend(lease[l], IdleTimeout)
  <2>1. Live(l) /\ lease' = [lease EXCEPT ![l] = [e EXCEPT !.parked = FALSE, !.parkedAt = 0]]
    BY <1>5 DEF Attach
  <2>2. /\ lease[l].hard \in Nat /\ lease[l].expires \in Nat
        /\ e \in LeaseRecord /\ e.hard = lease[l].hard /\ e.slot = lease[l].slot
        /\ e.expires >= lease[l].expires
        /\ e.expires = lease[l].expires \/ e.expires <= lease[l].hard
    BY <1>1, LeaseTypes, Windows DEF Extend, Min2, LeaseRecord
  <2> HIDE DEF e
  <2>3. /\ lease'[l].hard = lease[l].hard /\ lease'[l].slot = lease[l].slot
        /\ lease'[l].expires = e.expires /\ e.expires \in Nat
    BY <1>1, <2>1, <2>2 DEF LeaseRecord
  <2>4. \A m \in LeaseId : Running(m)' <=> Running(m)
    BY <1>1, <1>3, <2>1, <2>3 DEF Running, SlotOf
  <2>5. Expired(l) => Expired(l)'
    <3> SUFFICES ASSUME Expired(l) PROVE Expired(l)'
      OBVIOUS
    <3>1. lease[l].expires <= now /\ lease[l].hard <= now
      BY <1>2, <2>1 DEF Expired
    <3>2. e.expires <= now BY <1>1, <2>2, <2>3, <3>1
    <3> QED BY <1>3, <2>3, <3>1, <3>2 DEF Expired
  <2>6. Carried(l) BY <2>1, <2>2, <2>3, <2>5 DEF Carried
  <2>7. \A m \in LeaseId \ {l} : lease'[m] = lease[m] /\ (Running(m)' => Running(m))
    BY <1>1, <2>1, <2>4
  <2> QED BY <1>2, <1>3, <2>6, <2>7, OnTimeRecord
<1> QED BY <1>4, <1>5

LEMMA OnTimeExec ==
    ASSUME TypeOK, Accounting, OnTime, BodyTimeout < ParkTtl, NEW l \in LeaseId,
           Exec(l) \/ ExecEnds(l)
    PROVE  OnTime'
<1>1. procs \in [Slot -> SUBSET LeaseId] BY DEF TypeOK
<1>2. /\ now' = now /\ phase' = phase /\ lease' = lease /\ parking' = parking
      /\ sweeps' = sweeps /\ down' = down
  BY DEF Exec, ExecEnds
<1>3. \A m \in LeaseId \ {l} : lease'[m] = lease[m] /\ (Running(m)' => Running(m))
  <2>1. CASE procs' = procs BY <1>2, <2>1 DEF Running, SlotOf
  <2>2. CASE procs' # procs
    <3>1. phase[l] \in Holding BY <2>2 DEF Exec, ExecEnds, Holding
    <3>2. SlotOf(l) \in Slot BY <3>1 DEF Accounting, SlotAccounting
    <3>3. PICK P : procs' = [procs EXCEPT ![SlotOf(l)] = P] /\ P \ {l} = procs[SlotOf(l)] \ {l}
      BY <2>2 DEF Exec, ExecEnds
    <3> QED BY <1>1, <1>2, <3>2, <3>3 DEF Running, SlotOf
  <2> QED BY <2>1, <2>2
<1>4. CASE ExecEnds(l)
  <2>1. Running(l)' => Running(l)
    BY <1>1, <1>2, <1>4 DEF ExecEnds, Running, SlotOf
  <2>2. Live(l) => Carried(l) BY <1>2, <2>1, CarriedSame
  <2>3. \A p \in pending' : p \in pending BY <1>4 DEF ExecEnds
  <2> QED BY <1>2, <1>3, <2>2, <2>3, OnTimeRecord
<1>5. CASE Exec(l)
  <2>1. /\ pending' \subseteq pending
        /\ Live(l) /\ lease[l].expires <= now => lease[l].hard <= now
    BY <1>5, HandlerFresh DEF Exec
  <2>2. Live(l) => Carried(l)
    <3> SUFFICES ASSUME Live(l) PROVE Carried(l)
      OBVIOUS
    <3>1. lease[l].expires \in Nat /\ lease[l].expires >= lease[l].expires
      BY LeaseTypes
    <3>2. Expired(l) => Expired(l)' BY <1>2, <2>1 DEF Expired
    <3> QED BY <1>2, <3>1, <3>2 DEF Carried
  <2> QED BY <1>2, <1>3, <2>1, <2>2, OnTimeRecord
<1> QED BY <1>4, <1>5

LEMMA OnTimeEnd ==
    ASSUME TypeOK, OnTime, NEW l \in LeaseId, Delete(l) \/ AdminKill(l)
    PROVE  OnTime'
<1>1. \/ Live(l) /\ BeginRelease(l, "client")
      \/ Live(l) /\ BeginRelease(l, "admin")
  BY DEF Delete, AdminKill, Gettable
<1>2. /\ lease' = lease /\ procs' = procs /\ now' = now /\ pending' = pending
      /\ parking' = parking /\ sweeps' = sweeps /\ down' = down
  BY DEF Delete, AdminKill
<1>3. Quiet BY <1>1, <1>2, ReleaseQuiet
<1> QED BY <1>2, <1>3, QuietFrame

(* park() gives its lease a full window, at a moment when it has not       *)
(* reached its ceiling.                                                    *)
LEMMA FinishCarries ==
    ASSUME TypeOK, NEW l \in LeaseId, FinishPark(l, now), now' = now, phase' = phase,
           Live(l), lease[l].hard > now, lease[l].expires > now
    PROVE  Carried(l)
<1>1. lease \in [LeaseId -> LeaseRecord] /\ lease[l].hard \in Nat /\ now \in Nat
  BY LeaseTypes DEF TypeOK
<1>2. lease'[l] = ParkedRecord(l, now) BY <1>1 DEF FinishPark
<1>3. /\ lease'[l].hard = lease[l].hard
      /\ lease'[l].expires = Min2(now + ParkTtl, lease[l].hard)
  BY <1>1, <1>2 DEF ParkedRecord, LeaseRecord
<1>4. Min2(now + ParkTtl, lease[l].hard) \in Nat BY <1>1, Windows DEF Min2
<1>5. ~Expired(l) BY <1>1, LeaseTypes DEF Expired
<1> QED BY <1>3, <1>4, <1>5 DEF Carried

LEMMA FinishOthers ==
    ASSUME TypeOK, NEW l \in LeaseId, NEW at, FinishPark(l, at), procs' = procs
    PROVE  \A m \in LeaseId \ {l} :
              lease'[m] = lease[m] /\ (Running(m)' => Running(m))
<1>1. lease \in [LeaseId -> LeaseRecord] BY DEF TypeOK
<1>2. \A m \in LeaseId \ {l} : lease'[m] = lease[m] BY <1>1 DEF FinishPark
<1> QED BY <1>2 DEF Running, SlotOf

LEMMA OnTimePark ==
    ASSUME TypeOK, OnTime, BodyTimeout < ParkTtl, NEW l \in LeaseId, Park(l)
    PROVE  OnTime'
<1>1. /\ pending' \subseteq pending /\ phase[l] \notin Unborn
      /\ Live(l) /\ lease[l].expires <= now => lease[l].hard <= now
  BY HandlerFresh DEF Park
<1>2. /\ now' = now /\ procs' = procs /\ sweeps' = sweeps /\ down' = down
  BY DEF Park
<1>3. CASE ~Live(l) \/ ~MayPark(l)
  <2>1. phase' = phase /\ lease' = lease /\ parking' = parking BY <1>3 DEF Park
  <2> QED BY <1>1, <1>2, <2>1, StillQuiet, QuietFrame
<1>4. CASE Live(l) /\ MayPark(l)
  <2>1. /\ lease[l].hard \in Nat /\ lease[l].expires \in Nat /\ now \in Nat
        /\ ParkGrace \in Nat
    BY LeaseTypes, NatAssumption
  <2>2. lease[l].hard > now /\ lease[l].expires > now
    BY <1>1, <1>4, <2>1 DEF MayPark
  <2>3. CASE FinishPark(l, now) /\ phase' = phase /\ parking' = parking
    <3>1. Carried(l) BY <1>2, <1>4, <2>2, <2>3, FinishCarries
    <3>2. \A m \in LeaseId \ {l} :
             lease'[m] = lease[m] /\ (Running(m)' => Running(m))
      BY <1>2, <2>3, FinishOthers
    <3> QED BY <1>1, <1>2, <2>3, <3>1, <3>2, OnTimeRecord
  <2>4. CASE \E V \in SUBSET LeaseId : \E v \in V :
               /\ Overflow(l, V) /\ BeginRelease(v, "park-quota") /\ lease' = lease
               /\ parking' = [parking EXCEPT ![l] =
                    [on |-> TRUE, at |-> now, todo |-> V \ {v}, cur |-> v]]
    <3>1. PICK V \in SUBSET LeaseId : \E v \in V :
               /\ Overflow(l, V) /\ BeginRelease(v, "park-quota") /\ lease' = lease
               /\ parking' = [parking EXCEPT ![l] =
                    [on |-> TRUE, at |-> now, todo |-> V \ {v}, cur |-> v]]
      BY <2>4
    <3>2. PICK v \in V :
               /\ Overflow(l, V) /\ BeginRelease(v, "park-quota") /\ lease' = lease
               /\ parking' = [parking EXCEPT ![l] =
                    [on |-> TRUE, at |-> now, todo |-> V \ {v}, cur |-> v]]
      BY <3>1
    <3>3. v \in LeaseId /\ Live(v) /\ v # l
      BY <3>2 DEF Overflow, Evictable, ParkedOf, ParkedLeases, LiveLeases
    <3>4. Quiet BY <1>1, <1>2, <3>2, <3>3, ReleaseQuiet
    <3>5. \A m \in LeaseId : phase'[m] = "live" /\ phase[m] \notin Unborn => Carried(m)
      BY <3>4, QuietCarries
    <3>6. phase'[l] = phase[l] /\ lease'[l] = lease[l]
      BY <3>2, <3>3 DEF BeginRelease, TypeOK
    <3>7. Secured(l)' BY <1>1, <1>2, <2>2, <3>6 DEF Secured
    <3>8. parking \in [LeaseId -> ParkCall] BY DEF TypeOK
    <3>9. \A m \in LeaseId : parking'[m].on =>
              \/ parking[m].on /\ parking'[m].at = parking[m].at
              \/ parking'[m].at = now /\ Secured(m)'
      BY <3>2, <3>7, <3>8
    <3>10. \A s \in Sweeper : sweeps'[s].on => \A m \in sweeps'[s].todo :
              \/ sweeps[s].on /\ m \in sweeps[s].todo
              \/ Condemned(m)'
      BY <1>2
    <3>11. sweeps'["shutdown"].on => down' BY <1>2 DEF OnTime, ShutdownDown
    <3> QED BY <1>1, <1>2, <3>4, <3>5, <3>9, <3>10, <3>11, OnTimeFrame DEF Quiet
  <2> QED BY <1>4, <2>3, <2>4 DEF Park
<1> QED BY <1>3, <1>4

LEMMA OnTimeParkNext ==
    ASSUME TypeOK, OnTime, NEW l \in LeaseId, ParkNext(l)
    PROVE  OnTime'
<1>1. /\ parking \in [LeaseId -> ParkCall] /\ parking[l] \in ParkCall
      /\ parking[l].on /\ parking[l].at = now
      /\ Secured(l)
  BY DEF TypeOK, ParkNext, OnTime, ParkingSecured
<1>2. /\ now' = now /\ procs' = procs /\ sweeps' = sweeps /\ down' = down
      /\ pending' = pending
  BY DEF ParkNext
<1>3. \A s \in Sweeper : sweeps'[s].on => \A m \in sweeps'[s].todo :
          \/ sweeps[s].on /\ m \in sweeps[s].todo
          \/ Condemned(m)'
  BY <1>2
<1>4. sweeps'["shutdown"].on => down' BY <1>2 DEF OnTime, ShutdownDown
<1>5. \A p \in pending' : p \in pending \/ Fresh(p)' BY <1>2
<1>6. CASE /\ FinishPark(l, parking[l].at) /\ phase' = phase
           /\ parking' = [parking EXCEPT ![l] = NotParking]
  <2>1. FinishPark(l, now) BY <1>1, <1>6
  <2>2. Live(l) => Carried(l) BY <1>2, <1>6, <1>1, <2>1, FinishCarries DEF Secured
  <2>3. \A m \in LeaseId \ {l} :
           lease'[m] = lease[m] /\ (Running(m)' => Running(m))
    BY <1>2, <2>1, FinishOthers
  <2>4. \A m \in LeaseId : phase'[m] = "live" /\ phase[m] \notin Unborn => Carried(m)
    <3> SUFFICES ASSUME NEW m \in LeaseId, phase[m] = "live" PROVE Carried(m)
      BY <1>6
    <3>1. Live(m) BY DEF Live
    <3>2. CASE m = l BY <2>2, <3>1, <3>2
    <3>3. CASE m # l BY <1>2, <2>3, <3>1, <3>3, CarriedSame
    <3> QED BY <3>2, <3>3
  <2>5. NotParking.on = FALSE BY DEF NotParking
  <2>6. \A m \in LeaseId : parking'[m].on =>
            \/ parking[m].on /\ parking'[m].at = parking[m].at
            \/ parking'[m].at = now /\ Secured(m)'
    BY <1>1, <1>6, <2>5
  <2> QED BY <1>2, <1>3, <1>4, <1>5, <1>6, <2>4, <2>6, OnTimeFrame
<1>7. CASE \E v \in parking[l].todo :
               /\ IF Live(v) THEN BeginRelease(v, "park-quota") ELSE UNCHANGED <<phase, why>>
               /\ parking' = [parking EXCEPT ![l] = Advance(parking[l], v)]
               /\ lease' = lease
  <2>1. PICK v \in parking[l].todo :
               /\ IF Live(v) THEN BeginRelease(v, "park-quota") ELSE UNCHANGED <<phase, why>>
               /\ parking' = [parking EXCEPT ![l] = Advance(parking[l], v)]
               /\ lease' = lease
    BY <1>7
  <2>2. v \in LeaseId BY <1>1 DEF ParkCall
  <2>3. Quiet
    <3>1. CASE Live(v) BY <1>2, <2>1, <2>2, <3>1, ReleaseQuiet
    <3>2. CASE ~Live(v) BY <1>2, <2>1, <3>2, StillQuiet
    <3> QED BY <3>1, <3>2
  <2>4. \A m \in LeaseId : phase'[m] = "live" /\ phase[m] \notin Unborn => Carried(m)
    BY <2>3, QuietCarries
  <2>5. Advance(parking[l], v).at = parking[l].at
    BY <1>1, <2>2, AdvanceType
  <2>6. \A m \in LeaseId : parking'[m].on =>
            \/ parking[m].on /\ parking'[m].at = parking[m].at
            \/ parking'[m].at = now /\ Secured(m)'
    BY <1>1, <2>1, <2>5
  <2> QED BY <1>3, <1>4, <1>5, <2>3, <2>4, <2>6, OnTimeFrame DEF Quiet
<1> QED BY <1>6, <1>7 DEF ParkNext

(* A loop that begins has on its list what it was given, less the lease    *)
(* whose release begins with it.                                           *)
LEMMA StartLoopLists ==
    ASSUME TypeOK, NEW s \in SeqRelease, NEW todo \in SUBSET LiveLeases, NEW reason,
           StartLoop(s, todo, reason)
    PROVE  /\ \A r \in SeqRelease \ {s} : sweeps'[r] = sweeps[r]
           /\ \/ sweeps' = sweeps
              \/ /\ sweeps'[s].on = TRUE
                 /\ sweeps'[s].todo \subseteq todo
           /\ \A m \in LeaseId : phase'[m] = phase[m] \/ phase'[m] = "ending"
           /\ \A m \in LeaseId : phase'[m] = "live" => phase[m] = "live"
<1>1. sweeps \in [SeqRelease -> Loop] /\ phase \in [LeaseId -> Phase]
  BY DEF TypeOK
<1>2. CASE todo = {}
  BY <1>2 DEF StartLoop
<1>3. CASE todo # {}
  <2>1. PICK v \in todo :
           /\ BeginRelease(v, reason)
           /\ sweeps' = [sweeps EXCEPT ![s] =
                [on |-> TRUE, todo |-> todo \ {v}, cur |-> v]]
    BY <1>3 DEF StartLoop
  <2>2. phase' = [phase EXCEPT ![v] = "ending"] BY <2>1 DEF BeginRelease
  <2>3. sweeps'[s] = [on |-> TRUE, todo |-> todo \ {v}, cur |-> v]
        /\ \A r \in SeqRelease \ {s} : sweeps'[r] = sweeps[r]
    BY <1>1, <2>1
  <2> QED BY <1>1, <2>2, <2>3
<1> QED BY <1>2, <1>3

LEMMA OnTimeSweep ==
    ASSUME TypeOK, OnTime, NEW s \in Sweeper, Sweep(s)
    PROVE  OnTime'
<1>1. /\ phase \in [LeaseId -> Phase] /\ lease \in [LeaseId -> LeaseRecord]
      /\ now \in Nat
  BY DEF TypeOK
<1>2. /\ now' = now /\ procs' = procs /\ pending' = pending /\ parking' = parking
      /\ down' = down
      /\ lease' = [l \in LeaseId |-> IF Live(l) THEN SweptRecord(l) ELSE lease[l]]
      /\ StartLoop(s, Dead, "swept") /\ ~sweeps[s].on
  BY DEF Sweep
<1>3. Dead \in SUBSET LiveLeases /\ s \in SeqRelease /\ s # "shutdown"
      /\ "shutdown" \in SeqRelease
  BY SweeperAssumption DEF Dead, SeqRelease
<1>4. /\ \A r \in SeqRelease \ {s} : sweeps'[r] = sweeps[r]
      /\ sweeps' = sweeps \/ (sweeps'[s].on = TRUE /\ sweeps'[s].todo \subseteq Dead)
      /\ \A m \in LeaseId : phase'[m] = phase[m] \/ phase'[m] = "ending"
      /\ \A m \in LeaseId : phase'[m] = "live" => phase[m] = "live"
  BY <1>2, <1>3, StartLoopLists
<1>5. ASSUME NEW m \in LeaseId, Live(m), Running(m), ~lease[m].parked
      PROVE  /\ lease'[m] = Extend(lease[m], IdleTimeout)
             /\ Running(m)' <=> Running(m)
  <2>1. lease'[m] = Extend(lease[m], IdleTimeout) BY <1>2, <1>5 DEF SweptRecord
  <2>a. lease[m] \in LeaseRecord /\ IdleTimeout \in Nat BY <1>1, Windows
  <2>2. lease'[m].slot = lease[m].slot BY <1>1, <2>1, <2>a, ExtendFacts
  <2> QED BY <1>2, <2>1, <2>2, SameSlotRunning
<1>6. ASSUME NEW m \in LeaseId, Live(m), ~(Running(m) /\ ~lease[m].parked)
      PROVE  lease'[m] = lease[m] /\ (Running(m)' <=> Running(m))
  BY <1>2, <1>6 DEF SweptRecord, Running, SlotOf
<1>7. ASSUME NEW m \in LeaseId, Live(m) PROVE Carried(m)
  <2>1. CASE Running(m) /\ ~lease[m].parked
    <3>1. Expired(m) => lease[m].hard <= now BY <2>1 DEF Expired
    <3> QED BY <1>2, <1>5, <1>7, <2>1, <3>1, Windows, CarriedExtend
  <2>2. CASE ~(Running(m) /\ ~lease[m].parked)
    BY <1>2, <1>6, <1>7, <2>2, CarriedSame
  <2> QED BY <2>1, <2>2
<1>8. ASSUME NEW m \in Dead PROVE Condemned(m)'
  <2>1. m \in LeaseId /\ Live(m) /\ SweptRecord(m).expires <= now
    BY DEF Dead, LiveLeases
  <2>2. phase'[m] \notin Unborn BY <1>4, <2>1 DEF Live, Unborn
  <2>3. Expired(m)'
    <3>1. CASE Running(m) /\ ~lease[m].parked
      <4>1. lease'[m] = Extend(lease[m], IdleTimeout) BY <1>5, <2>1, <3>1
      <4>2. lease'[m].expires <= now BY <2>1, <3>1, <4>1 DEF SweptRecord
      <4>3. /\ lease'[m].hard = lease[m].hard /\ lease[m].hard \in Nat
            /\ lease'[m].expires \in Nat
            /\ lease'[m].expires >= Min2(now + IdleTimeout, lease[m].hard)
        BY <1>1, <2>1, <4>1, LeaseTypes, Windows, ExtendReaches, ExtendFacts
           DEF LeaseRecord
      <4>4. lease'[m].hard <= now BY <1>1, <4>2, <4>3, Windows DEF Min2
      <4> QED BY <1>2, <4>2, <4>4 DEF Expired
    <3>2. CASE ~(Running(m) /\ ~lease[m].parked)
      <4>1. lease'[m] = lease[m] /\ (Running(m)' <=> Running(m))
        BY <1>6, <2>1, <3>2
      <4>2. lease[m].expires <= now BY <2>1, <3>2 DEF SweptRecord
      <4> QED BY <1>2, <3>2, <4>1, <4>2 DEF Expired
    <3> QED BY <3>1, <3>2
  <2> QED BY <2>2, <2>3 DEF Condemned
<1>9. \A r \in Sweeper : sweeps'[r].on => \A m \in sweeps'[r].todo :
          \/ sweeps[r].on /\ m \in sweeps[r].todo
          \/ Condemned(m)'
  <2> SUFFICES ASSUME NEW r \in Sweeper, sweeps'[r].on, NEW m \in sweeps'[r].todo
               PROVE  \/ sweeps[r].on /\ m \in sweeps[r].todo
                      \/ Condemned(m)'
    OBVIOUS
  <2>1. CASE r # s BY <1>4, <2>1 DEF SeqRelease
  <2>2. CASE r = s BY <1>4, <1>8, <2>2
  <2> QED BY <2>1, <2>2
<1>10. sweeps'["shutdown"].on => down'
  BY <1>2, <1>3, <1>4 DEF OnTime, ShutdownDown
<1>11. \A m \in LeaseId : phase'[m] \in Unborn => phase[m] \in Unborn
  BY <1>4 DEF Unborn
<1>12. \A m \in LeaseId : phase'[m] = "live" /\ phase[m] \notin Unborn => Carried(m)
  BY <1>4, <1>7 DEF Live
<1>13. \A m \in LeaseId : parking'[m].on =>
          \/ parking[m].on /\ parking'[m].at = parking[m].at
          \/ parking'[m].at = now /\ Secured(m)'
  BY <1>2
<1> QED BY <1>2, <1>9, <1>10, <1>11, <1>12, <1>13, OnTimeFrame

LEMMA OnTimeLoopNext ==
    ASSUME TypeOK, OnTime, NEW s \in SeqRelease, LoopNext(s)
    PROVE  OnTime'
<1>1. /\ sweeps \in [SeqRelease -> Loop] /\ sweeps[s] \in Loop /\ sweeps[s].on
  BY DEF TypeOK, LoopNext
<1>2. /\ now' = now /\ procs' = procs /\ lease' = lease /\ parking' = parking
      /\ down' = down /\ pending' = pending
  BY DEF LoopNext
<1>3. \A m \in LeaseId : parking'[m].on =>
          \/ parking[m].on /\ parking'[m].at = parking[m].at
          \/ parking'[m].at = now /\ Secured(m)'
  BY <1>2
<1>4. \A p \in pending' : p \in pending \/ Fresh(p)' BY <1>2
<1>5. PICK x : /\ sweeps' = [sweeps EXCEPT ![s] = x]
               /\ x.on => x.todo \subseteq sweeps[s].todo
               /\ Quiet
  <2>1. CASE sweeps' = [sweeps EXCEPT ![s] = NoLoop] /\ UNCHANGED <<phase, why>>
    <3>1. NoLoop.on = FALSE BY DEF NoLoop
    <3>2. Quiet BY <1>2, <2>1, StillQuiet
    <3> QED BY <2>1, <3>1, <3>2
  <2>2. CASE \E v \in sweeps[s].todo :
               /\ IF Live(v) THEN BeginRelease(v, LoopReason(s)) ELSE UNCHANGED <<phase, why>>
               /\ sweeps' = [sweeps EXCEPT ![s] = Advance(sweeps[s], v)]
    <3>1. PICK v \in sweeps[s].todo :
               /\ IF Live(v) THEN BeginRelease(v, LoopReason(s)) ELSE UNCHANGED <<phase, why>>
               /\ sweeps' = [sweeps EXCEPT ![s] = Advance(sweeps[s], v)]
      BY <2>2
    <3>2. v \in LeaseId BY <1>1 DEF Loop
    <3>3. Quiet
      <4>1. CASE Live(v) BY <1>2, <3>1, <3>2, <4>1, ReleaseQuiet
      <4>2. CASE ~Live(v) BY <1>2, <3>1, <4>2, StillQuiet
      <4> QED BY <4>1, <4>2
    <3>4. Advance(sweeps[s], v).todo \subseteq sweeps[s].todo
      BY <1>1 DEF Advance, Loop
    <3> QED BY <3>1, <3>3, <3>4
  <2> QED BY <2>1, <2>2 DEF LoopNext
<1>6. \A r \in Sweeper : sweeps'[r].on => \A m \in sweeps'[r].todo :
          \/ sweeps[r].on /\ m \in sweeps[r].todo
          \/ Condemned(m)'
  BY <1>1, <1>5 DEF SeqRelease
<1>7. sweeps'["shutdown"].on => down'
  BY <1>1, <1>2, <1>5 DEF OnTime, ShutdownDown, SeqRelease
<1>8. \A m \in LeaseId : phase'[m] = "live" /\ phase[m] \notin Unborn => Carried(m)
  BY <1>5, QuietCarries
<1> QED BY <1>3, <1>4, <1>5, <1>6, <1>7, <1>8, OnTimeFrame DEF Quiet

LEMMA OnTimeReleaseAll ==
    ASSUME TypeOK, OnTime, ReleaseAll
    PROVE  OnTime'
<1>1. /\ now' = now /\ procs' = procs /\ lease' = lease /\ parking' = parking
      /\ down' = down /\ pending' = pending /\ down
      /\ StartLoop("shutdown", LiveLeases, "shutdown")
  BY DEF ReleaseAll
<1>2. "shutdown" \in SeqRelease /\ "shutdown" \notin Sweeper
  BY SweeperAssumption DEF SeqRelease
<1>3. /\ \A r \in SeqRelease \ {"shutdown"} : sweeps'[r] = sweeps[r]
      /\ \A m \in LeaseId : phase'[m] = phase[m] \/ phase'[m] = "ending"
      /\ \A m \in LeaseId : phase'[m] = "live" => phase[m] = "live"
  BY <1>1, <1>2, StartLoopLists
<1>4. \A m \in LeaseId : phase'[m] \in Unborn => phase[m] \in Unborn
  BY <1>3 DEF Unborn
<1>5. \A m \in LeaseId : phase'[m] = "live" /\ phase[m] \notin Unborn => Carried(m)
  <2> SUFFICES ASSUME NEW m \in LeaseId, phase'[m] = "live" PROVE Carried(m)
    OBVIOUS
  <2>1. Live(m) BY <1>3 DEF Live
  <2>2. Running(m)' <=> Running(m) BY <1>1, SameSlotRunning
  <2> QED BY <1>1, <2>1, <2>2, CarriedSame
<1>6. \A r \in Sweeper : sweeps'[r].on => \A m \in sweeps'[r].todo :
          \/ sweeps[r].on /\ m \in sweeps[r].todo
          \/ Condemned(m)'
  BY <1>2, <1>3 DEF SeqRelease
<1>7. \A m \in LeaseId : parking'[m].on =>
          \/ parking[m].on /\ parking'[m].at = parking[m].at
          \/ parking'[m].at = now /\ Secured(m)'
  BY <1>1
<1>8. \A p \in pending' : p \in pending \/ Fresh(p)' BY <1>1
<1>9. sweeps'["shutdown"].on => down' BY <1>1
<1> QED BY <1>1, <1>4, <1>5, <1>6, <1>7, <1>8, <1>9, OnTimeFrame

(* The clock stands still while a slot is rebuilt: no sweep and no park()  *)
(* is under way, and every body is still within its time.                  *)
LEMMA OnTimeTick ==
    ASSUME TypeOK, OnTime, SlowRebuild = FALSE, Tick
    PROVE  OnTime'
<1>1. /\ now' = now + 1 /\ phase' = phase /\ lease' = lease /\ procs' = procs
      /\ pending' = pending /\ parking' = parking /\ sweeps' = sweeps /\ down' = down
      /\ \A p \in pending : now < p.at + BodyTimeout
      /\ ~Rebuilding
  BY DEF Tick
<1>2. now \in Nat /\ \A p \in pending : p.at \in Nat BY DEF TypeOK
<1>3. PendingFresh'
  <2> SUFFICES ASSUME NEW p \in pending PROVE Fresh(p)'
    BY <1>1 DEF PendingFresh
  <2>1. Fresh(p) BY DEF OnTime, PendingFresh
  <2>2. p.at <= now' /\ now' <= p.at + BodyTimeout
    BY <1>1, <1>2, <2>1, NatAssumption DEF Fresh
  <2> QED BY <1>1, <2>1, <2>2 DEF Fresh, Live
<1>4. TodoExpired' BY <1>1 DEF TodoExpired, Rebuilding, SeqRelease
<1>5. ParkingSecured' BY <1>1 DEF ParkingSecured, Rebuilding
<1>6. ShutdownDown' BY <1>1 DEF OnTime, ShutdownDown
<1> QED BY <1>3, <1>4, <1>5, <1>6 DEF OnTime

LEMMA OnTimeStep ==
    ASSUME SlowRebuild = FALSE, BodyTimeout < ParkTtl,
           TypeOK, Accounting, OnTime, [Next]_vars
    PROVE  OnTime'
<1>1. ASSUME NEW l \in LeaseId, HandlerStep(l) PROVE OnTime'
  BY <1>1, OnTimeRenew, OnTimeAttach, OnTimeExec, OnTimePark DEF HandlerStep
<1>2. CASE Shutdown
  <2>1. /\ phase' = phase /\ lease' = lease /\ procs' = procs /\ now' = now
        /\ pending' = pending /\ parking' = parking /\ sweeps' = sweeps /\ down' = TRUE
    BY <1>2 DEF Shutdown
  <2>2. Quiet BY <2>1, StillQuiet
  <2>3. \A m \in LeaseId : phase'[m] = "live" /\ phase[m] \notin Unborn => Carried(m)
    BY <2>2, QuietCarries
  <2>4. \A p \in pending' : p \in pending \/ Fresh(p)' BY <2>1
  <2>5. \A m \in LeaseId : parking'[m].on =>
            \/ parking[m].on /\ parking'[m].at = parking[m].at
            \/ parking'[m].at = now /\ Secured(m)'
    BY <2>1
  <2>6. \A r \in Sweeper : sweeps'[r].on => \A m \in sweeps'[r].todo :
            \/ sweeps[r].on /\ m \in sweeps[r].todo
            \/ Condemned(m)'
    BY <2>1
  <2>7. sweeps'["shutdown"].on => down' BY <2>1
  <2> QED BY <2>2, <2>3, <2>4, <2>5, <2>6, <2>7, OnTimeFrame DEF Quiet
<1>3. CASE UNCHANGED vars
  <2>1. Quiet BY <1>3, StillQuiet DEF vars
  <2> QED BY <1>3, <2>1, QuietFrame DEF vars
<1>4. ASSUME NEW l \in LeaseId, AcquireRetry(l) \/ \E u \in User : Acquire(l, u)
      PROVE  OnTime'
  BY <1>4, OnTimeAcquire
<1>5. ASSUME NEW l \in LeaseId, Touch(l) \/ \E op \in Op : Request(l, op)
      PROVE  OnTime'
  BY <1>5, OnTimeTouch
<1>6. ASSUME NEW l \in LeaseId,
             ReleaseStep(l) \/ ExecEnds(l) \/ Delete(l) \/ AdminKill(l) \/ ParkNext(l)
      PROVE  OnTime'
  BY <1>6, OnTimeRelease, OnTimeExec, OnTimeEnd, OnTimeParkNext
<1>7. ASSUME NEW s \in SeqRelease, LoopNext(s) PROVE OnTime'
  BY <1>7, OnTimeLoopNext
<1>8. ASSUME NEW s \in Sweeper, Sweep(s) PROVE OnTime'
  BY <1>8, OnTimeSweep
<1>9. CASE ReleaseAll \/ Tick BY <1>9, OnTimeReleaseAll, OnTimeTick
<1> QED
  BY <1>1, <1>2, <1>3, <1>4, <1>5, <1>6, <1>7, <1>8, <1>9 DEF Next

LEMMA OnTimeInit == Init => OnTime
<1> SUFFICES ASSUME Init PROVE OnTime
  OBVIOUS
<1>1. pending = {} BY DEF Init
<1>2. \A l \in LeaseId : parking[l].on = FALSE BY DEF Init, NotParking
<1>3. \A s \in SeqRelease : sweeps[s].on = FALSE BY DEF Init, NoLoop
<1> QED BY <1>1, <1>2, <1>3
        DEF OnTime, PendingFresh, TodoExpired, ParkingSecured, ShutdownDown, SeqRelease

---------------------------------------------------------------------------
(* Which lease a step takes out of the Map, and for which reason.          *)
Taken(l) == Live(l) /\ phase'[l] = "ending"

LEMMA TakenByRelease ==
    ASSUME TypeOK, NEW v \in LeaseId, NEW reason, BeginRelease(v, reason),
           NEW l \in LeaseId, Taken(l)
    PROVE  l = v /\ why'[l] = reason
BY DEF TypeOK, BeginRelease, Taken, Live

LEMMA TakenByAcquire ==
    ASSUME TypeOK, NEW n \in LeaseId, NEW u \in User, Acquire(n, u),
           NEW l \in LeaseId, Taken(l)
    PROVE  JustifiedRelease(l)
<1>1. phase \in [LeaseId -> Phase] /\ why \in [LeaseId -> Reason] BY DEF TypeOK
<1>2. ~ \E i \in Slot : GiveSlot(n, u, i)
  BY <1>1 DEF GiveSlot, Taken, Live
<1>3. PICK v \in OldestParked :
        /\ phase' = [phase EXCEPT ![v] = "ending", ![n] = "waiting"]
        /\ why' = [why EXCEPT ![v] = "preempted"]
        /\ PoolFull
  BY <1>2 DEF Acquire
<1>4. v \in LeaseId /\ lease[v].parked /\ now - lease[v].parkedAt >= ParkGrace
  BY DEF OldestParked, Preemptible, ParkedLeases, LiveLeases
<1>5. l = v /\ why'[l] = "preempted" BY <1>1, <1>3, <1>4 DEF Taken, Live
<1> QED BY <1>3, <1>4, <1>5 DEF JustifiedRelease

LEMMA TakenForNoCondition ==
    ASSUME NEW l, why'[l] \in {"client", "admin", "park-quota"}
    PROVE  JustifiedRelease(l)
BY DEF JustifiedRelease

LEMMA TakenByLoop ==
    ASSUME TypeOK, OnTime, NEW s \in SeqRelease, LoopNext(s), NEW l \in LeaseId, Taken(l)
    PROVE  JustifiedRelease(l)
<1>1. sweeps[s] \in Loop /\ sweeps[s].on /\ lease' = lease BY DEF TypeOK, LoopNext
<1>2. PICK v \in sweeps[s].todo : BeginRelease(v, LoopReason(s))
  BY DEF LoopNext, Taken, Live
<1>3. v \in LeaseId BY <1>1 DEF Loop
<1>4. l = v /\ why'[l] = LoopReason(s) BY <1>2, <1>3, TakenByRelease
<1>5. CASE s = "shutdown"
  <2>1. down BY <1>1, <1>5 DEF OnTime, ShutdownDown
  <2>2. why'[l] = "shutdown" BY <1>4, <1>5 DEF LoopReason
  <2> QED BY <2>1, <2>2 DEF JustifiedRelease
<1>6. CASE s # "shutdown"
  <2>1. s \in Sweeper BY <1>6 DEF SeqRelease
  <2>2. Condemned(l) BY <1>1, <1>2, <1>4, <2>1 DEF OnTime, TodoExpired
  <2>3. lease'[l].expires <= now BY <1>1, <2>2 DEF Condemned, Expired, Taken
  <2>4. why'[l] = "swept" BY <1>4, <1>6 DEF LoopReason
  <2> QED BY <2>3, <2>4 DEF JustifiedRelease
<1> QED BY <1>5, <1>6

LEMMA TakenByStart ==
    ASSUME TypeOK, NEW s \in SeqRelease, NEW todo \in SUBSET LeaseId, NEW reason,
           StartLoop(s, todo, reason), NEW l \in LeaseId, Taken(l)
    PROVE  l \in todo /\ why'[l] = reason
<1>1. PICK v \in todo : BeginRelease(v, reason) BY DEF StartLoop, Taken, Live
<1> QED BY <1>1, TakenByRelease

LEMMA EvictionStep ==
    ASSUME TypeOK, OnTime, [Next]_vars, NEW l \in LeaseId, Taken(l)
    PROVE  JustifiedRelease(l)
<1>0. phase \in [LeaseId -> Phase] BY DEF TypeOK
<1>1. phase' # phase BY DEF Taken, Live
<1>2. ASSUME NEW m \in LeaseId, ReleaseStep(m) PROVE JustifiedRelease(l)
  BY <1>0, <1>2 DEF ReleaseStep, KillSlot, BootSlot, BootSlotFails, Taken, Live
<1>3. ASSUME NEW m \in LeaseId, AcquireRetry(m) PROVE JustifiedRelease(l)
  BY <1>0, <1>3 DEF AcquireRetry, GiveSlot, Taken, Live
<1>4. ASSUME NEW m \in LeaseId, Delete(m) \/ AdminKill(m) PROVE JustifiedRelease(l)
  <2>1. BeginRelease(m, "client") \/ BeginRelease(m, "admin")
    BY <1>4 DEF Delete, AdminKill
  <2> QED BY <2>1, TakenByRelease, TakenForNoCondition
<1>5. ASSUME NEW m \in LeaseId, HandlerStep(m) PROVE JustifiedRelease(l)
  <2>1. Park(m) BY <1>1, <1>5 DEF HandlerStep, Renew, Attach, Exec
  <2>2. PICK V \in SUBSET LeaseId : \E v \in V : BeginRelease(v, "park-quota")
    BY <1>1, <2>1 DEF Park
  <2>3. PICK v \in V : BeginRelease(v, "park-quota") BY <2>2
  <2> QED BY <2>3, TakenByRelease, TakenForNoCondition
<1>6. ASSUME NEW m \in LeaseId, ParkNext(m) PROVE JustifiedRelease(l)
  <2>1. parking[m] \in ParkCall BY DEF TypeOK
  <2>2. PICK v \in parking[m].todo : BeginRelease(v, "park-quota")
    BY <1>1, <1>6 DEF ParkNext
  <2>3. v \in LeaseId BY <2>1 DEF ParkCall
  <2> QED BY <2>2, <2>3, TakenByRelease, TakenForNoCondition
<1>7. ASSUME NEW s \in Sweeper, Sweep(s) PROVE JustifiedRelease(l)
  <2>1. s \in SeqRelease /\ Dead \in SUBSET LeaseId BY DEF SeqRelease, Dead, LiveLeases
  <2>2. l \in Dead /\ why'[l] = "swept" BY <1>7, <2>1, TakenByStart DEF Sweep
  <2>3. lease'[l] = SweptRecord(l) BY <1>7 DEF Sweep, Taken
  <2>4. lease'[l].expires <= now BY <2>2, <2>3 DEF Dead
  <2> QED BY <2>2, <2>4 DEF JustifiedRelease
<1>8. CASE ReleaseAll
  <2>1. "shutdown" \in SeqRelease /\ LiveLeases \in SUBSET LeaseId
    BY DEF SeqRelease, LiveLeases
  <2>2. why'[l] = "shutdown" /\ down BY <1>8, <2>1, TakenByStart DEF ReleaseAll
  <2> QED BY <2>2 DEF JustifiedRelease
<1>9. ~Shutdown /\ ~Tick /\ ~UNCHANGED vars BY <1>1 DEF Shutdown, Tick, vars
<1>10. \A m \in LeaseId : ~Touch(m) /\ ~ExecEnds(m) /\ \A op \in Op : ~Request(m, op)
  BY <1>1 DEF Touch, ExecEnds, Request
<1>11. ASSUME NEW m \in LeaseId, NEW u \in User, Acquire(m, u) PROVE JustifiedRelease(l)
  BY <1>11, TakenByAcquire
<1>12. ASSUME NEW s \in SeqRelease, LoopNext(s) PROVE JustifiedRelease(l)
  BY <1>12, TakenByLoop
<1> QED
  BY <1>2, <1>3, <1>4, <1>5, <1>6, <1>7, <1>8, <1>9, <1>10, <1>11, <1>12 DEF Next

(* When rebuilds are short against the windows and a request body may take *)
(* less time than the park window, a lease leaves the Map only with cause: *)
(* a preempted one is parked past its protection with the pool full, and a *)
(* swept one has expired at the moment of its release, whatever handlers   *)
(* held it while earlier releases of the same sweep were awaited.          *)
THEOREM EvictionsAreJustified ==
    ASSUME SlowRebuild = FALSE, BodyTimeout < ParkTtl
    PROVE  Spec => EvictionsJustified
<1>1. Init => TypeOK /\ Accounting /\ OnTime
  BY TypeInit, AccountingInit, OnTimeInit
<1>2. TypeOK /\ Accounting /\ OnTime /\ [Next]_vars => TypeOK' /\ Accounting' /\ OnTime'
  BY TypeStep, AccountingStep, OnTimeStep
<1>3. TypeOK /\ Accounting /\ OnTime /\ [Next]_vars =>
        [\A l \in LeaseId : Live(l) /\ phase'[l] = "ending" => JustifiedRelease(l)]_vars
  BY EvictionStep DEF Taken
<1> QED BY <1>1, <1>2, <1>3, PTL DEF Spec, EvictionsJustified
===========================================================================
