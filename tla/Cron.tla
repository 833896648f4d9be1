-------------------------------- MODULE Cron --------------------------------
(***************************************************************************)
(* Scheduled tasks: the store (cron/store.js), the arithmetic of schedules *)
(* (cron/schedule.js) and the schedulers of several agent replicas that    *)
(* share one database (cron/scheduler.js).  An update of a row is one      *)
(* transaction with the row locked (persistence/mysql-map.js, mutate), so  *)
(* it is one action; a request or a scheduler awaits between transactions. *)
(***************************************************************************)
EXTENDS Naturals, Sequences, FiniteSets

CONSTANTS
    Cron, Replica, None,
    Slots,      \* instants at which the calendar expression matches
    Horizon,    \* SEARCH_DAYS
    Every,      \* everyMs of interval schedules
    Firsts,     \* values of firstFireAt that requests bring
    MaxFires,   \* MAX_FIRES_PER_TICK
    MaxFails,   \* MAX_CONSECUTIVE_FAILURES
    LogMax,     \* FIRE_LOG_MAX
    MaxTime,    \* bound: the clock
    MaxOthers,  \* bound: edits and manual runs
    MaxFaults   \* bound: faults

ASSUME SettingsAssumption ==
    /\ Slots \subseteq Nat /\ Firsts \subseteq Nat
    /\ {Horizon, Every, MaxFires, MaxFails} \subseteq Nat \ {0}
    /\ LogMax \in Nat /\ LogMax >= MaxFails
    /\ None \notin Nat
ASSUME ReplicasFinite == IsFiniteSet(Replica)

VARIABLES
    now,
    rec,      \* the row of each task
    tick,     \* the tick of each replica
    edit,     \* a PATCH between its computation and its transaction
    claims,   \* history: the last two claims since nextFireAt was edited
    misses,   \* history: scheduled runs recorded as failed since the last
              \* success or since the task was enabled
    others, faults   \* how many edits and manual runs, how many faults

vars == <<now, rec, tick, edit, claims, misses, others, faults>>

Schedule == {"calendar", "interval"}
NoRow == [row |-> "new", enabled |-> FALSE, archived |-> FALSE, schedule |-> "calendar",
          firstFireAt |-> None, createdAt |-> 0, lastFiredAt |-> None,
          nextFireAt |-> None, log |-> <<>>]
NoTick == [pc |-> "idle", at |-> 0, due |-> {}, left |-> 0, cron |-> None]

Init ==
    /\ now = 0
    /\ rec = [c \in Cron |-> NoRow]
    /\ tick = [r \in Replica |-> NoTick]
    /\ edit = None
    /\ claims = [c \in Cron |-> <<>>]
    /\ misses = [c \in Cron |-> 0]
    /\ others = 0 /\ faults = 0
---------------------------------------------------------------------------
(* nextFireAfter(): the first match strictly later, if it is near enough. *)
NextFireAfter(t) ==
    LET near == {s \in Slots : t < s /\ s <= t + Horizon}
        first == {s \in near : \A u \in near : s <= u}
    IN  IF first = {} THEN None ELSE CHOOSE s \in first : TRUE

AdvanceNextFireAt(schedule, t) ==
    IF schedule = "calendar" THEN NextFireAfter(t) ELSE t + Every

(* normalizeSchedule(): the first slot; a calendar that never matches is   *)
(* refused.                                                                *)
NormalizedNexts(schedule, t) ==
    IF schedule = "calendar" THEN {NextFireAfter(t)} \ {None} ELSE {t + Every} \cup Firsts

FirstFireAt(schedule, next) == IF schedule = "calendar" THEN None ELSE next

RecoverNextFireAt(x) ==
    IF x.nextFireAt # None THEN x.nextFireAt
    ELSE IF x.lastFiredAt # None THEN AdvanceNextFireAt(x.schedule, x.lastFiredAt)
    ELSE IF x.schedule = "calendar" THEN NextFireAfter(x.createdAt) ELSE x.firstFireAt

Runnable(c) == rec[c].row = "stored" /\ rec[c].enabled /\ ~rec[c].archived
---------------------------------------------------------------------------
Create(c) ==
    \E s \in Schedule, on \in BOOLEAN : \E next \in NormalizedNexts(s, now) :
    /\ rec[c].row = "new"
    /\ rec' = [rec EXCEPT ![c] =
         [NoRow EXCEPT !.row = "stored", !.enabled = on, !.schedule = s,
                       !.createdAt = now, !.nextFireAt = next,
                       !.firstFireAt = FirstFireAt(s, next)]]
    /\ UNCHANGED <<now, tick, edit, claims, misses, others, faults>>

(* update(): the fields are put together first.  Enabling reads the stored *)
(* schedule and sets the next slot, also when the request brings a new     *)
(* schedule.                                                               *)
Option(S) == {{}} \cup {{x} : x \in S}
Fields(c, schedule, next, on, archived) ==
    [schedule |-> schedule,
     firstFireAt |-> {FirstFireAt(s, n) : s \in schedule, n \in next},
     nextFireAt |-> IF on = {TRUE} THEN {AdvanceNextFireAt(rec[c].schedule, now)} ELSE next,
     enabled |-> IF archived = {TRUE} THEN {FALSE} ELSE on,
     archived |-> archived]
Update(c) ==
    \E schedule \in Option(Schedule), on, archived \in Option(BOOLEAN) :
    \E next \in IF schedule = {} THEN {{}}
               ELSE {{n} : n \in UNION {NormalizedNexts(s, now) : s \in schedule}} :
    /\ <<schedule, on, archived>> # <<{}, {}, {}>>
    /\ edit = None /\ others < MaxOthers /\ rec[c].row = "stored"
    /\ edit' = [cron |-> c, fields |-> Fields(c, schedule, next, on, archived)]
    /\ others' = others + 1
    /\ UNCHANGED <<now, rec, tick, claims, misses, faults>>

(* merge() of the fields, or the statement fails. *)
Patched(field, old) == IF field = {} THEN old ELSE CHOOSE x \in field : TRUE
ApplyPatch(x, fields) ==
    [row |-> x.row, createdAt |-> x.createdAt, lastFiredAt |-> x.lastFiredAt, log |-> x.log,
     schedule |-> Patched(fields.schedule, x.schedule),
     firstFireAt |-> Patched(fields.firstFireAt, x.firstFireAt),
     nextFireAt |-> Patched(fields.nextFireAt, x.nextFireAt),
     enabled |-> Patched(fields.enabled, x.enabled),
     archived |-> Patched(fields.archived, x.archived)]
Merge ==
    /\ edit # None
    /\ LET c == edit.cron IN
       \/ /\ rec[c].row = "stored"
          /\ rec' = [rec EXCEPT ![c] = ApplyPatch(@, edit.fields)]
          /\ claims' = [claims EXCEPT ![c] = IF edit.fields.nextFireAt # {} THEN <<>> ELSE @]
          /\ misses' = [misses EXCEPT ![c] = IF rec'[c].enabled /\ ~rec[c].enabled THEN 0 ELSE @]
       \/ UNCHANGED <<rec, claims, misses>>
    /\ edit' = None
    /\ UNCHANGED <<now, tick, others, faults>>

Remove(c) ==
    /\ rec[c].row = "stored"
    /\ rec' = [rec EXCEPT ![c].row = "deleted"]
    /\ UNCHANGED <<now, tick, edit, claims, misses, others, faults>>

(* recordFire(): the latest entries stay.  Only "ok" is told from the      *)
(* other statuses (error, needs_reauth, disabled).                         *)
LoggedAll(log, status) == Append(log, status)
Logged(log, status) ==
    LET all == Append(log, status)
    IN  IF Len(all) > LogMax THEN Tail(all) ELSE all
RecordFire(c, status) ==
    rec' = IF rec[c].row = "stored" THEN [rec EXCEPT ![c].log = Logged(@, status)] ELSE rec

(* runNow(): a run beside the schedule. *)
RunNow(c) ==
    \E status \in {"ok", "failed"} :
    /\ rec[c].row = "stored" /\ others < MaxOthers
    /\ RecordFire(c, status)
    /\ misses' = [misses EXCEPT ![c] = IF status = "ok" THEN 0 ELSE @]
    /\ others' = others + 1
    /\ UNCHANGED <<now, tick, edit, claims, faults>>
---------------------------------------------------------------------------
SetTick(r, x) == tick' = [tick EXCEPT ![r] = x]
Go(r, pc) ==
    SetTick(r, [tick[r] EXCEPT !.pc = pc, !.cron = IF pc = "claim" THEN None ELSE @])

StartTick(r) ==
    /\ tick[r].pc = "idle"
    /\ SetTick(r, [NoTick EXCEPT !.pc = "due", !.at = now])
    /\ UNCHANGED <<now, rec, edit, claims, misses, others, faults>>

(* due(): the tasks of one user, one query. *)
IsDue(c, t) ==
    /\ Runnable(c) /\ RecoverNextFireAt(rec[c]) # None
    /\ t >= RecoverNextFireAt(rec[c])
Due(r) ==
    /\ tick[r].pc = "due"
    /\ SetTick(r, [tick[r] EXCEPT !.pc = "claim", !.left = MaxFires,
         !.due = {[cron |-> c, slot |-> RecoverNextFireAt(rec[c])] :
                    c \in {d \in Cron : IsDue(d, tick[r].at)}}])
    /\ UNCHANGED <<now, rec, edit, claims, misses, others, faults>>

(* claimSlot(): only if the slot is still the next one; the next one is    *)
(* then counted from the time the tick began.                              *)
ClaimableUnchecked(c, slot) == Runnable(c)
Claimable(c, slot) == Runnable(c) /\ RecoverNextFireAt(rec[c]) = slot
AdvanceFrom(schedule, slot, at) ==
    IF schedule = "calendar" /\ slot > at THEN slot ELSE at
Claimed(x, slot, at) ==
    [x EXCEPT !.lastFiredAt = at,
              !.nextFireAt = AdvanceNextFireAt(x.schedule, AdvanceFrom(x.schedule, slot, at))]
LastTwo(s) == IF Len(s) > 2 THEN <<s[Len(s) - 1], s[Len(s)]>> ELSE s
ClaimSlot(r) ==
    \E e \in tick[r].due :
    /\ tick[r].pc = "claim" /\ tick[r].left > 0
    /\ \A f \in tick[r].due : e.slot <= f.slot
    /\ LET next == [tick[r] EXCEPT !.due = @ \ {e}, !.left = @ - 1] IN
       IF Claimable(e.cron, e.slot)
       THEN /\ rec' = [rec EXCEPT ![e.cron] = Claimed(@, e.slot, tick[r].at)]
            /\ claims' = [claims EXCEPT ![e.cron] =
                 LastTwo(Append(@, [slot |-> e.slot, at |-> tick[r].at]))]
            /\ SetTick(r, [next EXCEPT !.pc = "run", !.cron = e.cron])
       ELSE SetTick(r, next) /\ UNCHANGED <<rec, claims>>
    /\ UNCHANGED <<now, edit, misses, others, faults>>

(* fire(): the run, then its record. *)
RunEnds(r) ==
    \E status \in {"ok", "failed"} :
    LET c == tick[r].cron IN
    /\ tick[r].pc = "run"
    /\ RecordFire(c, status)
    /\ misses' = [misses EXCEPT ![c] = IF status = "ok" THEN 0 ELSE @ + 1]
    /\ Go(r, IF status = "ok" THEN "claim" ELSE "check")
    /\ UNCHANGED <<now, edit, claims, others, faults>>

(* disableIfHopeless(): read, decide, disable, leave a note. *)
HopelessLater(log) ==
    Len(log) > MaxFails /\ \A i \in Len(log) - MaxFails + 1 .. Len(log) : log[i] # "ok"
Hopeless(log) ==
    Len(log) >= MaxFails /\ \A i \in Len(log) - MaxFails + 1 .. Len(log) : log[i] # "ok"
Check(r) ==
    LET x == rec[tick[r].cron] IN
    /\ tick[r].pc = "check"
    /\ Go(r, IF x.row = "stored" /\ Hopeless(x.log) THEN "disable" ELSE "claim")
    /\ UNCHANGED <<now, rec, edit, claims, misses, others, faults>>
Disable(r) ==
    LET c == tick[r].cron IN
    /\ tick[r].pc = "disable"
    /\ rec' = IF rec[c].row = "stored" THEN [rec EXCEPT ![c].enabled = FALSE] ELSE rec
    /\ Go(r, "note")
    /\ UNCHANGED <<now, edit, claims, misses, others, faults>>
Note(r) ==
    /\ tick[r].pc = "note"
    /\ RecordFire(tick[r].cron, "failed")
    /\ Go(r, "claim")
    /\ UNCHANGED <<now, edit, claims, misses, others, faults>>
TickDone(r) ==
    /\ tick[r].pc = "claim" /\ (tick[r].due = {} \/ tick[r].left = 0)
    /\ SetTick(r, NoTick)
    /\ UNCHANGED <<now, rec, edit, claims, misses, others, faults>>

(* The database fails a statement, or the replica restarts.  A failure     *)
(* while a task is being disabled is ignored, any other ends the tick.     *)
Fault(r) ==
    /\ tick[r].pc # "idle" /\ faults < MaxFaults
    /\ \/ SetTick(r, NoTick)
       \/ /\ tick[r].pc \in {"check", "disable", "note"}
          /\ Go(r, "claim")
    /\ faults' = faults + 1
    /\ UNCHANGED <<now, rec, edit, claims, misses, others>>

Clock ==
    /\ now < MaxTime
    /\ now' = now + 1
    /\ UNCHANGED <<rec, tick, edit, claims, misses, others, faults>>

Scheduler(r) ==
    StartTick(r) \/ Due(r) \/ ClaimSlot(r) \/ RunEnds(r) \/ Check(r) \/ Disable(r)
    \/ Note(r) \/ TickDone(r)
Next ==
    \/ \E c \in Cron : Create(c) \/ Update(c) \/ Remove(c) \/ RunNow(c)
    \/ Merge
    \/ \E r \in Replica : Scheduler(r) \/ Fault(r)
    \/ Clock

Spec == Init /\ [][Next]_vars
---------------------------------------------------------------------------
Time == Nat
Row == [row : {"new", "stored", "deleted"}, enabled : BOOLEAN, archived : BOOLEAN,
        schedule : Schedule, firstFireAt : Time \cup {None}, createdAt : Time, lastFiredAt : Time \cup {None},
        nextFireAt : Time \cup {None}, log : Seq({"ok", "failed"})]
Patch == [schedule : SUBSET Schedule, firstFireAt : SUBSET (Time \cup {None}),
          nextFireAt : SUBSET (Time \cup {None}), enabled : SUBSET BOOLEAN,
          archived : SUBSET BOOLEAN]
TickState == [pc : {"idle", "due", "claim", "run", "check", "disable", "note"},
              at : Time, due : SUBSET [cron : Cron, slot : Time],
              left : 0 .. MaxFires, cron : Cron \cup {None}]
Claim == [slot : Time, at : Time]
TypeOK ==
    /\ {now, others, faults} \subseteq Nat
    /\ rec \in [Cron -> Row]
    /\ tick \in [Replica -> TickState]
    /\ \A r \in Replica : tick[r].pc \in {"run", "check", "disable", "note"} => tick[r].cron \in Cron
    /\ edit \in [cron : Cron, fields : Patch] \cup {None}
    /\ claims \in [Cron -> Seq(Claim)] /\ misses \in [Cron -> Nat]
    /\ \A c \in Cron : Len(rec[c].log) <= LogMax /\ Len(claims[c]) \in 0 .. 2

(* Between two edits of a task's next slot, however many replicas look at  *)
(* it: no slot is run twice, none before its time, and one run makes up    *)
(* for all the slots missed before it.                                     *)
ClaimsInOrder ==
    \A c \in Cron : \A i \in 1 .. Len(claims[c]) :
        /\ claims[c][i].slot <= claims[c][i].at
        /\ i > 1 => claims[c][i - 1].at < claims[c][i].slot

(* A task that keeps failing is disabled after MaxFails runs, give or take *)
(* the replicas that are about to and the faults that kept one from it.    *)
GivesUp ==
    \A c \in Cron : Runnable(c) =>
        misses[c] < MaxFails + faults
            + Cardinality({r \in Replica : tick[r].cron = c /\ tick[r].pc \in {"check", "disable"}})
===========================================================================
