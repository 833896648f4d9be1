----------------------------- MODULE CronProofs -----------------------------
(* Proofs about Cron, for any sets of tasks and replicas and any schedule. *)
EXTENDS Cron, FiniteSetTheorems, TLAPS

(* The next match of a calendar is later than the instant it is counted    *)
(* from.                                                                   *)
LEMMA NextFireAfterLater ==
    ASSUME NEW t \in Nat
    PROVE  /\ NextFireAfter(t) \in Nat \cup {None}
           /\ NextFireAfter(t) # None => NextFireAfter(t) > t
<1> DEFINE near == {s \in Slots : t < s /\ s <= t + Horizon}
           first == {s \in near : \A u \in near : s <= u}
<1>1. CASE first = {}
  BY <1>1, SettingsAssumption DEF NextFireAfter
<1>2. CASE first # {}
  <2>1. NextFireAfter(t) \in first BY <1>2 DEF NextFireAfter
  <2>2. \A s \in first : s \in Nat /\ s > t BY SettingsAssumption
  <2> QED BY <2>1, <2>2
<1> QED BY <1>1, <1>2

LEMMA AdvanceLater ==
    ASSUME NEW s \in Schedule, NEW t \in Nat
    PROVE  /\ AdvanceNextFireAt(s, t) \in Nat \cup {None}
           /\ AdvanceNextFireAt(s, t) # None => AdvanceNextFireAt(s, t) > t
<1>1. CASE s = "calendar" BY <1>1, NextFireAfterLater DEF AdvanceNextFireAt
<1>2. CASE s # "calendar" BY <1>2, SettingsAssumption DEF AdvanceNextFireAt
<1> QED BY <1>1, <1>2

LEMMA NormalizedType ==
    ASSUME NEW s \in Schedule, NEW t \in Nat
    PROVE  NormalizedNexts(s, t) \subseteq Nat
<1>1. CASE s = "calendar"
  <2>1. NextFireAfter(t) \in Nat \cup {None} BY NextFireAfterLater
  <2>2. {NextFireAfter(t)} \ {None} \subseteq Nat BY <2>1
  <2> QED BY <1>1, <2>2 DEF NormalizedNexts
<1>2. CASE s # "calendar"
  <2>1. t + Every \in Nat /\ Firsts \subseteq Nat BY SettingsAssumption
  <2>2. {t + Every} \cup Firsts \subseteq Nat BY <2>1
  <2> QED BY <1>2, <2>2 DEF NormalizedNexts
<1> QED BY <1>1, <1>2

LEMMA FirstType ==
    ASSUME NEW s, NEW n \in Nat \cup {None}
    PROVE  FirstFireAt(s, n) \in Nat \cup {None}
BY DEF FirstFireAt

LEMMA RecoverType ==
    ASSUME NEW x \in Row
    PROVE  RecoverNextFireAt(x) \in Nat \cup {None}
<1>1. /\ x.schedule \in Schedule /\ x.createdAt \in Nat
      /\ x.nextFireAt \in Nat \cup {None} /\ x.lastFiredAt \in Nat \cup {None}
      /\ x.firstFireAt \in Nat \cup {None}
  BY DEF Row, Time
<1> QED BY <1>1, AdvanceLater, NextFireAfterLater DEF RecoverNextFireAt
---------------------------------------------------------------------------
(* Types of what the actions put into the rows and into the ticks. *)
Status == {"ok", "failed"}

LEMMA LoggedType ==
    ASSUME NEW log \in Seq(Status), NEW st \in Status, Len(log) <= LogMax
    PROVE  Logged(log, st) \in Seq(Status) /\ Len(Logged(log, st)) <= LogMax
<1> DEFINE all == Append(log, st)
<1>1. all \in Seq(Status) /\ Len(all) = Len(log) + 1 OBVIOUS
<1>2. CASE Len(all) > LogMax
  <2>1. all # <<>> BY <1>1
  <2>2. Tail(all) \in Seq(Status) /\ Len(Tail(all)) = Len(log) BY <1>1, <2>1
  <2> QED BY <1>2, <2>2 DEF Logged
<1>3. CASE ~(Len(all) > LogMax) BY <1>1, <1>3, SettingsAssumption DEF Logged
<1> QED BY <1>2, <1>3

(* recordFire() touches nothing but the log of one task. *)
LEMMA RecordFireFacts ==
    ASSUME TypeOK, NEW c \in Cron, NEW st \in Status, RecordFire(c, st)
    PROVE  /\ rec' \in [Cron -> Row]
           /\ \A d \in Cron : Len(rec'[d].log) <= LogMax
           /\ \A d \in Cron : rec'[d] = [rec[d] EXCEPT !.log = rec'[d].log]
<1> DEFINE l == Logged(rec[c].log, st)
<1>0. rec \in [Cron -> Row] /\ \A d \in Cron : Len(rec[d].log) <= LogMax BY DEF TypeOK
<1>1. \A d \in Cron : rec[d] = [rec[d] EXCEPT !.log = rec[d].log] BY <1>0 DEF Row
<1>2. rec[c].log \in Seq(Status) BY <1>0 DEF Row, Status
<1>3. l \in Seq(Status) /\ Len(l) <= LogMax BY <1>0, <1>2, LoggedType
<1> HIDE DEF l
<1>4. CASE rec[c].row = "stored"
  <2>1. rec' = [rec EXCEPT ![c].log = l] BY <1>4 DEF RecordFire, l
  <2>2. rec'[c] = [rec[c] EXCEPT !.log = l] BY <1>0, <2>1
  <2>3. rec'[c] \in Row /\ rec'[c].log = l BY <1>0, <1>3, <2>2 DEF Row, Status
  <2>4. \A d \in Cron : d # c => rec'[d] = rec[d] BY <1>0, <2>1
  <2>5. rec' \in [Cron -> Row] BY <1>0, <2>1, <2>3, <2>4
  <2> QED BY <1>0, <1>1, <1>3, <2>2, <2>3, <2>4, <2>5
<1>5. CASE rec[c].row # "stored" BY <1>0, <1>1, <1>5 DEF RecordFire
<1> QED BY <1>4, <1>5

(* One tick changes; the others keep their types. *)
LEMMA SetTickType ==
    ASSUME TypeOK, NEW r \in Replica, NEW x \in TickState, SetTick(r, x),
           x.pc \in {"run", "check", "disable", "note"} => x.cron \in Cron
    PROVE  /\ tick' \in [Replica -> TickState]
           /\ \A q \in Replica : tick'[q].pc \in {"run", "check", "disable", "note"}
                                    => tick'[q].cron \in Cron
BY DEF TypeOK, SetTick

LEMMA NullTypes == NoRow \in Row /\ NoTick \in TickState
<1>1. 0 \in 0 .. MaxFires BY SettingsAssumption
<1>2. NoTick \in TickState BY <1>1 DEF NoTick, TickState, Time
<1>3. <<>> \in Seq(Status) OBVIOUS
<1>4. NoRow \in Row BY <1>3 DEF NoRow, Row, Schedule, Time, Status
<1> QED BY <1>2, <1>4

LEMMA GoType ==
    ASSUME TypeOK, NEW r \in Replica, Go(r, "claim") \/ (tick[r].cron \in Cron
             /\ \E pc \in {"claim", "check", "disable", "note"} : Go(r, pc))
    PROVE  /\ tick' \in [Replica -> TickState]
           /\ \A q \in Replica : tick'[q].pc \in {"run", "check", "disable", "note"}
                                    => tick'[q].cron \in Cron
<1>0. tick[r] \in TickState BY DEF TypeOK
<1>1. PICK pc \in {"claim", "check", "disable", "note"} :
         Go(r, pc) /\ (pc # "claim" => tick[r].cron \in Cron)
  OBVIOUS
<1> DEFINE x == [tick[r] EXCEPT !.pc = pc, !.cron = IF pc = "claim" THEN None ELSE tick[r].cron]
<1>2. x \in TickState /\ x.pc = pc /\ (pc # "claim" => x.cron \in Cron)
  BY <1>0, <1>1 DEF TickState
<1>3. SetTick(r, x) BY <1>0, <1>1 DEF Go, TickState
<1> HIDE DEF x
<1> QED BY <1>1, <1>2, <1>3, SetTickType
---------------------------------------------------------------------------
LEMMA PatchedType ==
    ASSUME NEW S, NEW field \in SUBSET S, NEW old \in S
    PROVE  Patched(field, old) \in S
BY DEF Patched

LEMMA ApplyPatchFacts ==
    ASSUME NEW x \in Row, NEW p \in Patch
    PROVE  /\ ApplyPatch(x, p) \in Row
           /\ ApplyPatch(x, p).log = x.log /\ ApplyPatch(x, p).lastFiredAt = x.lastFiredAt
           /\ ApplyPatch(x, p).createdAt = x.createdAt
           /\ ApplyPatch(x, p).schedule = Patched(p.schedule, x.schedule)
           /\ ApplyPatch(x, p).firstFireAt = Patched(p.firstFireAt, x.firstFireAt)
           /\ ApplyPatch(x, p).nextFireAt = Patched(p.nextFireAt, x.nextFireAt)
<1> DEFINE s == Patched(p.schedule, x.schedule)
           f == Patched(p.firstFireAt, x.firstFireAt)
           n == Patched(p.nextFireAt, x.nextFireAt)
           e == Patched(p.enabled, x.enabled)
           a == Patched(p.archived, x.archived)
<1>1. s \in Schedule BY PatchedType DEF Row, Patch
<1>2. f \in Time \cup {None} BY PatchedType DEF Row, Patch
<1>3. n \in Time \cup {None} BY PatchedType DEF Row, Patch
<1>4. e \in BOOLEAN BY PatchedType DEF Row, Patch
<1>5. a \in BOOLEAN BY PatchedType DEF Row, Patch
<1>6. ApplyPatch(x, p)
      = [row |-> x.row, enabled |-> e, archived |-> a, schedule |-> s, firstFireAt |-> f,
         createdAt |-> x.createdAt, lastFiredAt |-> x.lastFiredAt, nextFireAt |-> n,
         log |-> x.log]
  BY DEF ApplyPatch, Row
<1> HIDE DEF s, f, n, e, a
<1>8. /\ x.row \in {"new", "stored", "deleted"} /\ x.createdAt \in Time
      /\ x.lastFiredAt \in Time \cup {None} /\ x.log \in Seq(Status)
  BY DEF Row, Status
<1>9. ApplyPatch(x, p) \in Row
  BY <1>1, <1>2, <1>3, <1>4, <1>5, <1>6, <1>8 DEF Row, Status
<1> QED BY <1>6, <1>9 DEF s, f, n

(* The patch that update() puts together: with a schedule comes a next     *)
(* slot.                                                                   *)
LEMMA FieldsType ==
    ASSUME TypeOK, NEW c \in Cron, NEW schedule \in Option(Schedule),
           NEW on \in Option(BOOLEAN), NEW archived \in Option(BOOLEAN),
           NEW next \in SUBSET Nat, schedule = {} <=> next = {}
    PROVE  LET p == Fields(c, schedule, next, on, archived) IN
           /\ p \in Patch
           /\ p.nextFireAt = {} => p.schedule = {} /\ p.firstFireAt = {}
<1> DEFINE f == {FirstFireAt(s, n) : s \in schedule, n \in next}
           n == IF on = {TRUE} THEN {AdvanceNextFireAt(rec[c].schedule, now)} ELSE next
           e == IF archived = {TRUE} THEN {FALSE} ELSE on
<1>1. rec[c].schedule \in Schedule /\ now \in Nat BY DEF TypeOK, Row
<1>2. AdvanceNextFireAt(rec[c].schedule, now) \in Time \cup {None}
  BY <1>1, AdvanceLater DEF Time
<1>3. n \in SUBSET (Time \cup {None}) BY <1>2 DEF Time
<1>4. f \in SUBSET (Time \cup {None}) BY FirstType DEF Time
<1>5. schedule \in SUBSET Schedule /\ on \in SUBSET BOOLEAN /\ archived \in SUBSET BOOLEAN
  BY DEF Option
<1>6. e \in SUBSET BOOLEAN BY <1>5
<1>7. n = {} => schedule = {} /\ f = {}
  <2>1. n = {} => next = {} OBVIOUS
  <2>2. ASSUME schedule = {} PROVE f = {}
    <3>1. f \subseteq {} BY <2>2
    <3> QED BY <3>1
  <2>3. n = {} => schedule = {} BY <2>1
  <2> HIDE DEF f, n
  <2> QED BY <2>2, <2>3
<1>8. Fields(c, schedule, next, on, archived) =
        [schedule |-> schedule, firstFireAt |-> f, nextFireAt |-> n,
         enabled |-> e, archived |-> archived]
  BY DEF Fields
<1> HIDE DEF f, n, e
<1> QED BY <1>3, <1>4, <1>5, <1>6, <1>7, <1>8 DEF Patch
---------------------------------------------------------------------------
(* The history of claims: at most two, appending keeps the last. *)
LEMMA LastTwoFacts ==
    ASSUME NEW q \in Seq(Claim), NEW x \in Claim, Len(q) \in 0 .. 2
    PROVE  LET s == LastTwo(Append(q, x)) IN
           /\ s \in Seq(Claim) /\ Len(s) \in 1 .. 2 /\ s[Len(s)] = x
           /\ Len(s) = 2 => Len(q) > 0 /\ s[1] = q[Len(q)]
<1> DEFINE a == Append(q, x)
<1>1. a \in Seq(Claim) /\ Len(a) = Len(q) + 1 /\ a[Len(q) + 1] = x OBVIOUS
<1>2. Len(q) > 0 => a[Len(q)] = q[Len(q)] OBVIOUS
<1>3. LastTwo(Append(q, x)) = IF Len(a) > 2 THEN <<a[Len(a) - 1], a[Len(a)]>> ELSE a
  BY DEF LastTwo
<1> HIDE DEF a
<1>4. CASE Len(a) > 2
  <2>1. Len(q) = 2 /\ Len(a) = 3 BY <1>1, <1>2, <1>4
  <2>2. a[2] \in Claim /\ a[3] \in Claim
    <3>1. \A i \in 1 .. Len(a) : a[i] \in Claim BY <1>1
    <3>2. 2 \in 1 .. Len(a) /\ 3 \in 1 .. Len(a) BY <2>1
    <3> QED BY <3>1, <3>2
  <2>3. LastTwo(Append(q, x)) = <<a[2], a[3]>> BY <1>3, <2>1
  <2> QED BY <1>1, <1>2, <2>1, <2>2, <2>3
<1>5. CASE ~(Len(a) > 2)
  <2>1. Len(a) \in 1 .. 2 BY <1>1, <1>2, <1>5
  <2>2. LastTwo(Append(q, x)) = a BY <1>3, <1>5
  <2>3. ASSUME Len(a) = 2 PROVE Len(q) = 1
    <3>1. Len(q) + 1 = 2 BY <1>1, <2>3
    <3>2. \A k \in 0 .. 2 : k + 1 = 2 => k = 1 OBVIOUS
    <3> QED BY <3>1, <3>2
  <2>4. ASSUME Len(a) = 2 PROVE Len(q) > 0 /\ a[1] = q[Len(q)]
    <3>1. Len(q) = 1 BY <2>3, <2>4
    <3> QED BY <1>2, <3>1
  <2>5. a[Len(a)] = x BY <1>1
  <2> QED BY <1>1, <2>1, <2>2, <2>4, <2>5
<1> QED BY <1>4, <1>5

LEMMA ClaimedFacts ==
    ASSUME NEW x \in Row, NEW slot \in Nat, NEW at \in Nat
    PROVE  LET y == Claimed(x, slot, at) IN
           /\ y \in Row /\ y.log = x.log /\ y.lastFiredAt = at
           /\ RecoverNextFireAt(y) # None => RecoverNextFireAt(y) > at
<1> DEFINE from == AdvanceFrom(x.schedule, slot, at)
           n == AdvanceNextFireAt(x.schedule, from)
<1>1. x.schedule \in Schedule BY DEF Row
<1>2. from \in Nat /\ from >= at BY DEF AdvanceFrom
<1>3. n \in Nat \cup {None} /\ (n # None => n > at) BY <1>1, <1>2, AdvanceLater
<1>4. Claimed(x, slot, at) = [x EXCEPT !.lastFiredAt = at, !.nextFireAt = n]
  BY DEF Claimed
<1>5. AdvanceNextFireAt(x.schedule, at) # None => AdvanceNextFireAt(x.schedule, at) > at
  BY <1>1, AdvanceLater
<1> HIDE DEF n
<1>6. LET y == Claimed(x, slot, at) IN
      /\ y \in Row /\ y.log = x.log /\ y.lastFiredAt = at
      /\ y.nextFireAt = n /\ y.schedule = x.schedule
  BY <1>3, <1>4 DEF Row, Time
<1> QED BY <1>3, <1>5, <1>6, SettingsAssumption DEF RecoverNextFireAt
---------------------------------------------------------------------------
(* TypeOK by the parts that the actions change. *)
RecOK == rec \in [Cron -> Row] /\ \A c \in Cron : Len(rec[c].log) <= LogMax
TickOK ==
    /\ tick \in [Replica -> TickState]
    /\ \A r \in Replica : tick[r].pc \in {"run", "check", "disable", "note"} => tick[r].cron \in Cron
EditOK == edit \in [cron : Cron, fields : Patch] \cup {None}
HistoryOK ==
    /\ claims \in [Cron -> Seq(Claim)] /\ misses \in [Cron -> Nat]
    /\ \A c \in Cron : Len(claims[c]) \in 0 .. 2
CountsOK == now \in Nat /\ others \in Nat /\ faults \in Nat

LEMMA TypeParts == TypeOK <=> RecOK /\ TickOK /\ EditOK /\ HistoryOK /\ CountsOK
BY DEF TypeOK, RecOK, TickOK, EditOK, HistoryOK, CountsOK

LEMMA TypeInit == Init => TypeOK
<1> SUFFICES ASSUME Init PROVE TypeOK OBVIOUS
<1>1. RecOK
  <2>1. Len(NoRow.log) <= LogMax BY SettingsAssumption DEF NoRow
  <2> QED BY <2>1, NullTypes DEF Init, RecOK
<1>2. TickOK
  <2>1. NoTick.pc = "idle" BY DEF NoTick
  <2> QED BY <2>1, NullTypes DEF Init, TickOK
<1>3. EditOK /\ HistoryOK /\ CountsOK BY DEF Init, EditOK, HistoryOK, CountsOK
<1> QED BY <1>1, <1>2, <1>3, TypeParts

(* A row replaced by another. *)
LEMMA RowType ==
    ASSUME RecOK, NEW c \in Cron, NEW x \in Row, Len(x.log) <= LogMax,
           rec' = [rec EXCEPT ![c] = x]
    PROVE  RecOK'
BY DEF RecOK

(* What an edit in flight holds. *)
LEMMA UpdateFacts ==
    ASSUME TypeOK, NEW c \in Cron, Update(c)
    PROVE  /\ edit' \in [cron : Cron, fields : Patch]
           /\ edit'.fields.nextFireAt = {}
                 => edit'.fields.schedule = {} /\ edit'.fields.firstFireAt = {}
<1>1. PICK schedule \in Option(Schedule), on \in Option(BOOLEAN), archived \in Option(BOOLEAN) :
        \E next \in IF schedule = {} THEN {{}}
               ELSE {{n} : n \in UNION {NormalizedNexts(s, now) : s \in schedule}} :
          edit' = [cron |-> c, fields |-> Fields(c, schedule, next, on, archived)]
  BY DEF Update
<1>2. PICK next \in IF schedule = {} THEN {{}}
               ELSE {{n} : n \in UNION {NormalizedNexts(s, now) : s \in schedule}} :
          edit' = [cron |-> c, fields |-> Fields(c, schedule, next, on, archived)]
  BY <1>1
<1>3. next \in SUBSET Nat /\ (schedule = {} <=> next = {})
  <2>1. now \in Nat BY DEF TypeOK
  <2>2. \A s \in schedule : NormalizedNexts(s, now) \subseteq Nat
    BY <2>1, NormalizedType DEF Option
  <2> QED BY <1>2, <2>2
<1>4. LET p == Fields(c, schedule, next, on, archived) IN
      p \in Patch /\ (p.nextFireAt = {} => p.schedule = {} /\ p.firstFireAt = {})
  BY <1>3, FieldsType
<1> QED BY <1>2, <1>4

LEMMA TypeStep == TypeOK /\ [Next]_vars => TypeOK'
<1> SUFFICES ASSUME TypeOK, [Next]_vars PROVE TypeOK' OBVIOUS
<1>0. RecOK /\ TickOK /\ EditOK /\ HistoryOK /\ CountsOK BY TypeParts
<1>a. \A r \in Replica : tick[r] \in TickState BY <1>0 DEF TickOK
<1>b. \A c \in Cron : rec[c] \in Row /\ Len(rec[c].log) <= LogMax BY <1>0 DEF RecOK
<1>1. ASSUME NEW c \in Cron, Create(c) PROVE TypeOK'
  <2>0. PICK s \in Schedule, on \in BOOLEAN : \E next \in NormalizedNexts(s, now) :
          rec' = [rec EXCEPT ![c] =
            [NoRow EXCEPT !.row = "stored", !.enabled = on, !.schedule = s,
                          !.createdAt = now, !.nextFireAt = next,
                          !.firstFireAt = FirstFireAt(s, next)]]
    BY <1>1 DEF Create
  <2>1. PICK next \in NormalizedNexts(s, now) :
          rec' = [rec EXCEPT ![c] =
            [NoRow EXCEPT !.row = "stored", !.enabled = on, !.schedule = s,
                          !.createdAt = now, !.nextFireAt = next,
                          !.firstFireAt = FirstFireAt(s, next)]]
    BY <2>0
  <2> DEFINE first == FirstFireAt(s, next)
             x == [NoRow EXCEPT !.row = "stored", !.enabled = on, !.schedule = s,
                          !.createdAt = now, !.nextFireAt = next, !.firstFireAt = first]
  <2>2. now \in Nat /\ next \in Nat BY <1>0, NormalizedType DEF CountsOK
  <2>3. first \in Nat \cup {None} BY <2>2, FirstType
  <2>4. NoRow \in Row /\ NoRow.log = <<>> BY NullTypes DEF NoRow
  <2>5. rec' = [rec EXCEPT ![c] = x] BY <2>1
  <2> HIDE DEF first
  <2>6. x \in Row /\ x.log = <<>> BY <2>2, <2>3, <2>4 DEF Row, Time
  <2>7. Len(x.log) <= LogMax BY <2>6, SettingsAssumption
  <2> HIDE DEF x
  <2>8. RecOK' BY <1>0, <2>5, <2>6, <2>7, RowType
  <2>9. TickOK' /\ EditOK' /\ HistoryOK' /\ CountsOK'
    BY <1>0, <1>1 DEF Create, TickOK, EditOK, HistoryOK, CountsOK
  <2> QED BY <2>8, <2>9 DEF TypeOK, RecOK, TickOK, EditOK, HistoryOK, CountsOK
<1>2. ASSUME NEW c \in Cron, Update(c) PROVE TypeOK'
  <2>1. EditOK' BY <1>2, UpdateFacts DEF EditOK
  <2>2. RecOK' /\ TickOK' /\ HistoryOK' /\ CountsOK'
    BY <1>0, <1>2 DEF Update, RecOK, TickOK, HistoryOK, CountsOK
  <2> QED BY <2>1, <2>2 DEF TypeOK, RecOK, TickOK, EditOK, HistoryOK, CountsOK
<1>3. ASSUME Merge PROVE TypeOK'
  <2> DEFINE c == edit.cron
             x == ApplyPatch(rec[c], edit.fields)
  <2>1. c \in Cron /\ edit.fields \in Patch BY <1>0, <1>3 DEF EditOK, Merge
  <2>2. x \in Row /\ x.log = rec[c].log BY <1>b, <2>1, ApplyPatchFacts
  <2>3. Len(x.log) <= LogMax BY <1>b, <2>1, <2>2
  <2>4. RecOK'
    <3>1. rec' = rec \/ rec' = [rec EXCEPT ![c] = x] BY <1>3 DEF Merge
    <3> HIDE DEF c, x
    <3>2. CASE rec' = rec BY <1>0, <3>2 DEF RecOK
    <3>3. CASE rec' = [rec EXCEPT ![c] = x] BY <1>0, <2>1, <2>2, <2>3, <3>3, RowType
    <3> QED BY <3>1, <3>2, <3>3
  <2> HIDE DEF x
  <2>5. HistoryOK'
    <3>1. CASE UNCHANGED <<claims, misses>> BY <1>0, <3>1 DEF HistoryOK
    <3>2. CASE \E q \in {claims[c], <<>>}, m \in {misses[c], 0} :
               claims' = [claims EXCEPT ![c] = q] /\ misses' = [misses EXCEPT ![c] = m]
      <4>1. /\ claims[c] \in Seq(Claim) /\ <<>> \in Seq(Claim) /\ misses[c] \in Nat
            /\ Len(claims[c]) \in 0 .. 2 /\ Len(<<>>) \in 0 .. 2
        BY <1>0, <2>1 DEF HistoryOK
      <4>2. PICK q \in Seq(Claim), m \in Nat :
               /\ claims' = [claims EXCEPT ![c] = q] /\ misses' = [misses EXCEPT ![c] = m]
               /\ Len(q) \in 0 .. 2
        BY <3>2, <4>1
      <4> HIDE DEF c
      <4> QED BY <1>0, <4>2 DEF HistoryOK
    <3> QED BY <1>3, <3>1, <3>2 DEF Merge
  <2>6. EditOK' /\ TickOK' /\ CountsOK' BY <1>0, <1>3 DEF Merge, EditOK, TickOK, CountsOK
  <2> QED BY <2>4, <2>5, <2>6 DEF TypeOK, RecOK, TickOK, EditOK, HistoryOK, CountsOK
<1>4. ASSUME NEW c \in Cron, Remove(c) PROVE TypeOK'
  <2> DEFINE x == [rec[c] EXCEPT !.row = "deleted"]
  <2>1. x \in Row /\ x.log = rec[c].log BY <1>b DEF Row
  <2>2. rec' = [rec EXCEPT ![c] = x] BY <1>0, <1>4 DEF Remove, RecOK
  <2>3. Len(x.log) <= LogMax BY <1>b, <2>1
  <2> HIDE DEF x
  <2>4. RecOK' BY <1>0, <2>1, <2>2, <2>3, RowType
  <2>5. TickOK' /\ EditOK' /\ HistoryOK' /\ CountsOK'
    BY <1>0, <1>4 DEF Remove, TickOK, EditOK, HistoryOK, CountsOK
  <2> QED BY <2>4, <2>5 DEF TypeOK, RecOK, TickOK, EditOK, HistoryOK, CountsOK
<1>c. ASSUME NEW c \in Cron, NEW st \in Status, RecordFire(c, st) PROVE RecOK'
  BY <1>c, RecordFireFacts DEF RecOK
<1>5. ASSUME NEW c \in Cron, RunNow(c) PROVE TypeOK'
  <2>1. RecOK' BY <1>c, <1>5 DEF RunNow, Status
  <2>2. HistoryOK' BY <1>0, <1>5 DEF RunNow, HistoryOK
  <2>3. TickOK' /\ EditOK' /\ CountsOK' BY <1>0, <1>5 DEF RunNow, TickOK, EditOK, CountsOK
  <2> QED BY <2>1, <2>2, <2>3 DEF TypeOK, RecOK, TickOK, EditOK, HistoryOK, CountsOK
<1>d. ASSUME NEW r \in Replica, NEW x \in TickState, SetTick(r, x),
             x.pc \in {"run", "check", "disable", "note"} => x.cron \in Cron
      PROVE  TickOK'
  BY <1>d, SetTickType DEF TickOK
<1>e. ASSUME NEW r \in Replica, Go(r, "claim") \/ (tick[r].cron \in Cron
             /\ \E pc \in {"claim", "check", "disable", "note"} : Go(r, pc))
      PROVE  TickOK'
  BY <1>e, GoType DEF TickOK
<1>f. \A r \in Replica : tick[r].pc \in {"run", "check", "disable", "note"} => tick[r].cron \in Cron
  BY <1>0 DEF TickOK
<1>6. ASSUME NEW r \in Replica, StartTick(r) PROVE TypeOK'
  <2> DEFINE x == [NoTick EXCEPT !.pc = "due", !.at = now]
  <2>1. x \in TickState /\ x.pc = "due"
    <3>1. now \in Nat BY <1>0 DEF CountsOK
    <3> QED BY <3>1, NullTypes DEF TickState, Time
  <2>2. SetTick(r, x) BY <1>6 DEF StartTick
  <2> HIDE DEF x
  <2>3. TickOK' BY <1>d, <2>1, <2>2
  <2>4. RecOK' /\ EditOK' /\ HistoryOK' /\ CountsOK'
    BY <1>0, <1>6 DEF StartTick, RecOK, EditOK, HistoryOK, CountsOK
  <2> QED BY <2>3, <2>4 DEF TypeOK, RecOK, TickOK, EditOK, HistoryOK, CountsOK
<1>7. ASSUME NEW r \in Replica, Due(r) PROVE TypeOK'
  <2> DEFINE due == {[cron |-> c, slot |-> RecoverNextFireAt(rec[c])] :
                        c \in {d \in Cron : IsDue(d, tick[r].at)}}
             x == [tick[r] EXCEPT !.pc = "claim", !.left = MaxFires, !.due = due]
  <2>1. due \in SUBSET [cron : Cron, slot : Time]
    <3>1. \A c \in Cron : IsDue(c, tick[r].at) => RecoverNextFireAt(rec[c]) \in Time
      BY <1>b, RecoverType DEF IsDue, Time
    <3> QED BY <3>1
  <2>2. SetTick(r, x) BY <1>7 DEF Due
  <2>3. MaxFires \in 0 .. MaxFires BY SettingsAssumption
  <2> HIDE DEF due
  <2>4. x \in TickState /\ x.pc = "claim" BY <1>a, <2>1, <2>3 DEF TickState
  <2> HIDE DEF x
  <2>5. TickOK' BY <1>d, <2>2, <2>4
  <2>6. RecOK' /\ EditOK' /\ HistoryOK' /\ CountsOK'
    BY <1>0, <1>7 DEF Due, RecOK, EditOK, HistoryOK, CountsOK
  <2> QED BY <2>5, <2>6 DEF TypeOK, RecOK, TickOK, EditOK, HistoryOK, CountsOK
<1>8. ASSUME NEW r \in Replica, ClaimSlot(r) PROVE TypeOK'
  <2> DEFINE t == tick[r]
  <2>0. PICK e \in t.due : /\ t.left > 0
           /\ LET next == [t EXCEPT !.due = t.due \ {e}, !.left = t.left - 1] IN
              \/ /\ rec' = [rec EXCEPT ![e.cron] = Claimed(rec[e.cron], e.slot, t.at)]
                 /\ claims' = [claims EXCEPT ![e.cron] =
                      LastTwo(Append(claims[e.cron], [slot |-> e.slot, at |-> t.at]))]
                 /\ SetTick(r, [next EXCEPT !.pc = "run", !.cron = e.cron])
              \/ t.pc = "claim" /\ SetTick(r, next) /\ UNCHANGED <<rec, claims>>
    BY <1>8 DEF ClaimSlot
  <2> DEFINE d == t.due \ {e}
             next == [t EXCEPT !.due = d, !.left = t.left - 1]
             hit == [next EXCEPT !.pc = "run", !.cron = e.cron]
  <2>1. t \in TickState /\ e.cron \in Cron /\ e.slot \in Nat /\ t.at \in Nat
    BY <1>a DEF TickState, Time
  <2>2. t.left - 1 \in 0 .. MaxFires BY <2>0, <2>1, SettingsAssumption DEF TickState
  <2>3. d \in SUBSET [cron : Cron, slot : Time] BY <2>1 DEF TickState
  <2> HIDE DEF t, d
  <2>4. next \in TickState /\ next.pc = t.pc BY <2>1, <2>2, <2>3 DEF TickState
  <2>5. hit \in TickState /\ hit.cron = e.cron BY <2>1, <2>4 DEF TickState
  <2>6. CASE /\ rec' = [rec EXCEPT ![e.cron] = Claimed(rec[e.cron], e.slot, t.at)]
             /\ claims' = [claims EXCEPT ![e.cron] =
                  LastTwo(Append(claims[e.cron], [slot |-> e.slot, at |-> t.at]))]
             /\ SetTick(r, hit)
    <3> DEFINE x == Claimed(rec[e.cron], e.slot, t.at)
               y == [slot |-> e.slot, at |-> t.at]
               q == LastTwo(Append(claims[e.cron], y))
    <3>1. x \in Row /\ x.log = rec[e.cron].log BY <1>b, <2>1, ClaimedFacts
    <3>2. Len(x.log) <= LogMax BY <1>b, <2>1, <3>1
    <3>3. y \in Claim BY <2>1 DEF Claim, Time
    <3>4. claims[e.cron] \in Seq(Claim) /\ Len(claims[e.cron]) \in 0 .. 2
      BY <1>0, <2>1 DEF HistoryOK
    <3> HIDE DEF x, y
    <3>5. q \in Seq(Claim) /\ Len(q) \in 1 .. 2 BY <3>3, <3>4, LastTwoFacts
    <3>6. rec' = [rec EXCEPT ![e.cron] = x] /\ claims' = [claims EXCEPT ![e.cron] = q]
      BY <2>6 DEF x, y
    <3> HIDE DEF q
    <3>7. RecOK' BY <1>0, <2>1, <3>1, <3>2, <3>6, RowType
    <3>8. HistoryOK' BY <1>0, <1>8, <2>1, <3>5, <3>6 DEF ClaimSlot, HistoryOK
    <3> HIDE DEF hit
    <3>9. TickOK' BY <1>d, <2>1, <2>5, <2>6
    <3>10. EditOK' /\ CountsOK' BY <1>0, <1>8 DEF ClaimSlot, EditOK, CountsOK
    <3> QED BY <3>7, <3>8, <3>9, <3>10 DEF TypeOK, RecOK, TickOK, EditOK, HistoryOK, CountsOK
  <2>7. CASE t.pc = "claim" /\ SetTick(r, next) /\ UNCHANGED <<rec, claims>>
    <3> HIDE DEF next
    <3>1. TickOK' BY <1>d, <2>4, <2>7
    <3>2. RecOK' /\ EditOK' /\ HistoryOK' /\ CountsOK'
      BY <1>0, <1>8, <2>7 DEF ClaimSlot, RecOK, EditOK, HistoryOK, CountsOK
    <3> QED BY <3>1, <3>2 DEF TypeOK, RecOK, TickOK, EditOK, HistoryOK, CountsOK
  <2> QED BY <2>0, <2>6, <2>7 DEF d
<1>9. ASSUME NEW r \in Replica, RunEnds(r) PROVE TypeOK'
  <2>1. tick[r].cron \in Cron BY <1>9, <1>f DEF RunEnds
  <2>2. RecOK' BY <1>c, <1>9, <2>1 DEF RunEnds, Status
  <2>3. TickOK' BY <1>e, <1>9, <2>1 DEF RunEnds
  <2>4. HistoryOK' BY <1>0, <1>9, <2>1 DEF RunEnds, HistoryOK
  <2>5. EditOK' /\ CountsOK' BY <1>0, <1>9 DEF RunEnds, EditOK, CountsOK
  <2> QED BY <2>2, <2>3, <2>4, <2>5 DEF TypeOK, RecOK, TickOK, EditOK, HistoryOK, CountsOK
<1>10. ASSUME NEW r \in Replica, Check(r) PROVE TypeOK'
  <2>1. TickOK' BY <1>e, <1>f, <1>10 DEF Check
  <2>2. RecOK' /\ EditOK' /\ HistoryOK' /\ CountsOK'
    BY <1>0, <1>10 DEF Check, RecOK, EditOK, HistoryOK, CountsOK
  <2> QED BY <2>1, <2>2 DEF TypeOK, RecOK, TickOK, EditOK, HistoryOK, CountsOK
<1>11. ASSUME NEW r \in Replica, Disable(r) PROVE TypeOK'
  <2> DEFINE c == tick[r].cron
             x == [rec[c] EXCEPT !.enabled = FALSE]
  <2>1. c \in Cron BY <1>11, <1>f DEF Disable
  <2>2. x \in Row /\ x.log = rec[c].log BY <1>b, <2>1 DEF Row
  <2>3. Len(x.log) <= LogMax BY <1>b, <2>1, <2>2
  <2>4. rec' = rec \/ rec' = [rec EXCEPT ![c] = x] BY <1>11 DEF Disable
  <2>5. TickOK' BY <1>e, <1>11, <2>1 DEF Disable
  <2>6. EditOK' /\ HistoryOK' /\ CountsOK'
    BY <1>0, <1>11 DEF Disable, EditOK, HistoryOK, CountsOK
  <2> HIDE DEF c, x
  <2>7. RecOK'
    <3>1. CASE rec' = rec BY <1>0, <3>1 DEF RecOK
    <3>2. CASE rec' = [rec EXCEPT ![c] = x] BY <1>0, <2>1, <2>2, <2>3, <3>2, RowType
    <3> QED BY <2>4, <3>1, <3>2
  <2> QED BY <2>5, <2>6, <2>7 DEF TypeOK, RecOK, TickOK, EditOK, HistoryOK, CountsOK
<1>12. ASSUME NEW r \in Replica, Note(r) PROVE TypeOK'
  <2>1. RecOK' BY <1>c, <1>f, <1>12 DEF Note, Status
  <2>2. TickOK' BY <1>e, <1>12 DEF Note
  <2>3. EditOK' /\ HistoryOK' /\ CountsOK'
    BY <1>0, <1>12 DEF Note, EditOK, HistoryOK, CountsOK
  <2> QED BY <2>1, <2>2, <2>3 DEF TypeOK, RecOK, TickOK, EditOK, HistoryOK, CountsOK
<1>13. ASSUME NEW r \in Replica, TickDone(r) \/ Fault(r) PROVE TypeOK'
  <2>1. NoTick.pc = "idle" BY DEF NoTick
  <2>2. TickOK' BY <1>d, <1>e, <1>13, <2>1, NullTypes DEF TickDone, Fault
  <2>3. RecOK' /\ EditOK' /\ HistoryOK' /\ CountsOK'
    BY <1>0, <1>13 DEF TickDone, Fault, RecOK, EditOK, HistoryOK, CountsOK
  <2> QED BY <2>2, <2>3 DEF TypeOK, RecOK, TickOK, EditOK, HistoryOK, CountsOK
<1>14. CASE Clock \/ UNCHANGED vars
  BY <1>14 DEF Clock, vars, TypeOK
<1> QED
  BY <1>1, <1>2, <1>3, <1>4, <1>5, <1>6, <1>7, <1>8, <1>9, <1>10, <1>11, <1>12, <1>13,
     <1>14 DEF Next, Scheduler

(* Type correctness of the rows, the ticks, the edits in flight and the    *)
(* histories; the log of a task never outgrows FIRE_LOG_MAX.               *)
THEOREM CronTypeCorrect == Spec => []TypeOK
BY TypeInit, TypeStep, PTL DEF Spec
---------------------------------------------------------------------------
(* Why claims are in order.  The next slot of a task lies after the time   *)
(* of its last claim; a replica holds only slots that were due when its    *)
(* tick began; and an edit that leaves the next slot alone also leaves     *)
(* alone what a missing next slot is recovered from.                       *)
Sound(x, q) ==
    /\ \A i \in 1 .. Len(q) : q[i].slot <= q[i].at /\ (i > 1 => q[i - 1].at < q[i].slot)
    /\ Len(q) > 0 /\ RecoverNextFireAt(x) # None => RecoverNextFireAt(x) > q[Len(q)].at
    /\ x.row = "new" => q = <<>>
ClaimsSound == \A c \in Cron : Sound(rec[c], claims[c])
DueByStart == \A r \in Replica : \A e \in tick[r].due : e.slot <= tick[r].at
WholeEdit ==
    edit # None /\ edit.fields.nextFireAt = {}
        => edit.fields.schedule = {} /\ edit.fields.firstFireAt = {}
ClaimInv == ClaimsSound /\ DueByStart /\ WholeEdit

LEMMA ClaimInit == Init => ClaimInv
BY DEF Init, ClaimInv, ClaimsSound, Sound, DueByStart, WholeEdit, NoTick

(* What keeps a history sound: the fields of the next slot stay the same. *)
LEMMA SoundFrame ==
    ASSUME NEW x, NEW y, NEW q, Sound(x, q), y.row = "new" => x.row = "new",
           y.nextFireAt = x.nextFireAt, y.lastFiredAt = x.lastFiredAt,
           y.schedule = x.schedule, y.createdAt = x.createdAt, y.firstFireAt = x.firstFireAt
    PROVE  Sound(y, q)
<1>1. RecoverNextFireAt(y) = RecoverNextFireAt(x) BY DEF RecoverNextFireAt
<1> QED BY <1>1 DEF Sound

(* A claim of the next slot, once it is due, keeps the history sound. *)
LEMMA SoundClaim ==
    ASSUME NEW x \in Row, NEW q \in Seq(Claim), Len(q) \in 0 .. 2, Sound(x, q),
           NEW slot \in Nat, NEW at \in Nat, slot <= at, slot = RecoverNextFireAt(x),
           x.row = "stored"
    PROVE  Sound(Claimed(x, slot, at), LastTwo(Append(q, [slot |-> slot, at |-> at])))
<1> DEFINE e == [slot |-> slot, at |-> at]
           y == Claimed(x, slot, at)
           s == LastTwo(Append(q, e))
<1>1. e \in Claim /\ e.slot = slot /\ e.at = at BY DEF Claim, Time
<1>2. y.row = "stored" BY DEF Claimed, Row
<1>3. RecoverNextFireAt(y) # None => RecoverNextFireAt(y) > at BY ClaimedFacts
<1>4. slot # None BY SettingsAssumption
<1>5. Len(q) > 0 => q[Len(q)].at < slot
  <2>1. Len(q) > 0 => q[Len(q)] \in Claim OBVIOUS
  <2> QED BY <1>4, <2>1 DEF Sound, Claim, Time
<1>6. Len(q) > 0 => q[Len(q)].slot <= q[Len(q)].at
  <2>1. Len(q) > 0 => Len(q) \in 1 .. Len(q) OBVIOUS
  <2> QED BY <2>1 DEF Sound
<1> HIDE DEF e
<1>7. /\ s \in Seq(Claim) /\ Len(s) \in 1 .. 2 /\ s[Len(s)] = e
      /\ Len(s) = 2 => Len(q) > 0 /\ s[1] = q[Len(q)]
  BY <1>1, LastTwoFacts
<1> HIDE DEF y, s
<1>8. Sound(y, s)
  <2>1. Len(s) = 1 \/ Len(s) = 2 BY <1>7
  <2>2. CASE Len(s) = 1 BY <1>1, <1>2, <1>3, <1>7, <2>2 DEF Sound
  <2>3. CASE Len(s) = 2
    <3>1. s[2] = e /\ s[1].slot <= s[1].at /\ s[1].at < e.slot
      BY <1>1, <1>5, <1>6, <1>7, <2>3
    <3>2. \A i \in 1 .. 2 : s[i].slot <= s[i].at /\ (i > 1 => s[i - 1].at < s[i].slot)
      BY <1>1, <3>1
    <3> QED BY <1>1, <1>2, <1>3, <2>3, <3>1, <3>2 DEF Sound
  <2> QED BY <2>1, <2>2, <2>3
<1> QED BY <1>8 DEF e, y, s

LEMMA ClaimStep == TypeOK /\ ClaimInv /\ [Next]_vars => ClaimInv'
<1> SUFFICES ASSUME TypeOK, ClaimInv, [Next]_vars PROVE ClaimInv' OBVIOUS
<1>0. ClaimsSound /\ DueByStart /\ WholeEdit BY DEF ClaimInv
<1>a. \A c \in Cron : rec[c] \in Row BY DEF TypeOK
<1>b. \A r \in Replica : tick[r] \in TickState BY DEF TypeOK
<1>c. ASSUME NEW c \in Cron, NEW st \in Status, RecordFire(c, st), claims' = claims
      PROVE  ClaimsSound'
  <2>1. \A d \in Cron : rec'[d] = [rec[d] EXCEPT !.log = rec'[d].log]
    BY <1>c, RecordFireFacts
  <2>2. \A d \in Cron : Sound(rec'[d], claims[d])
    <3> SUFFICES ASSUME NEW d \in Cron PROVE Sound(rec'[d], claims[d]) OBVIOUS
    <3>1. /\ rec'[d].row = rec[d].row /\ rec'[d].nextFireAt = rec[d].nextFireAt
          /\ rec'[d].lastFiredAt = rec[d].lastFiredAt /\ rec'[d].schedule = rec[d].schedule
          /\ rec'[d].createdAt = rec[d].createdAt /\ rec'[d].firstFireAt = rec[d].firstFireAt
      BY <1>a, <2>1 DEF Row
    <3>2. Sound(rec[d], claims[d]) BY <1>0 DEF ClaimsSound
    <3> QED BY <3>1, <3>2, SoundFrame
  <2> QED BY <1>c, <2>2 DEF ClaimsSound
<1>d. ASSUME NEW r \in Replica, NEW x, SetTick(r, x), \A e \in x.due : e.slot <= x.at
      PROVE  DueByStart'
  BY <1>0, <1>d DEF TypeOK, SetTick, DueByStart
<1>e. ASSUME NEW r \in Replica, NEW pc, Go(r, pc) PROVE DueByStart'
  <2> DEFINE x == [tick[r] EXCEPT !.pc = pc, !.cron = IF pc = "claim" THEN None ELSE @]
  <2>1. x.due = tick[r].due /\ x.at = tick[r].at BY <1>b DEF TickState
  <2>2. SetTick(r, x) BY <1>e DEF Go
  <2> HIDE DEF x
  <2> QED BY <1>0, <1>d, <2>1, <2>2 DEF DueByStart
<1>f. ASSUME NEW c \in Cron, NEW x, rec' = [rec EXCEPT ![c] = x], claims' = claims,
             Sound(x, claims[c])
      PROVE  ClaimsSound'
  BY <1>0, <1>f DEF TypeOK, ClaimsSound
<1>1. ASSUME NEW c \in Cron, Create(c) PROVE ClaimInv'
  <2>1. PICK x : rec' = [rec EXCEPT ![c] = x] BY <1>1 DEF Create
  <2>2. claims[c] = <<>> BY <1>0, <1>1 DEF Create, ClaimsSound, Sound
  <2>3. Sound(x, claims[c]) BY <2>2 DEF Sound
  <2>4. ClaimsSound' BY <1>1, <1>f, <2>1, <2>3 DEF Create
  <2>5. DueByStart' /\ WholeEdit' BY <1>0, <1>1 DEF Create, DueByStart, WholeEdit
  <2> QED BY <2>4, <2>5 DEF ClaimInv
<1>2. ASSUME NEW c \in Cron, Update(c) PROVE ClaimInv'
  <2>1. WholeEdit' BY <1>2, UpdateFacts DEF WholeEdit
  <2>2. ClaimsSound' /\ DueByStart' BY <1>0, <1>2 DEF Update, ClaimsSound, DueByStart
  <2> QED BY <2>1, <2>2 DEF ClaimInv
<1>3. ASSUME Merge PROVE ClaimInv'
  <2> DEFINE c == edit.cron
             f == edit.fields
             x == ApplyPatch(rec[c], f)
  <2>1. c \in Cron /\ f \in Patch BY <1>3 DEF TypeOK, Merge
  <2>2. rec[c] \in Row BY <1>a, <2>1
  <2>3. DueByStart' /\ WholeEdit' BY <1>0, <1>3 DEF Merge, DueByStart, WholeEdit
  <2>4. CASE UNCHANGED <<rec, claims>> BY <1>0, <2>3, <2>4 DEF ClaimInv, ClaimsSound
  <2>5. CASE rec[c].row = "stored" /\ rec' = [rec EXCEPT ![c] = x] /\ f.nextFireAt # {}
             /\ claims' = [claims EXCEPT ![c] = <<>>]
    <3>1. Sound(x, <<>>) BY DEF Sound
    <3> HIDE DEF x, c
    <3>2. ClaimsSound' BY <1>0, <2>1, <2>5, <3>1 DEF TypeOK, ClaimsSound
    <3> QED BY <2>3, <3>2 DEF ClaimInv
  <2>6. CASE rec[c].row = "stored" /\ rec' = [rec EXCEPT ![c] = x] /\ f.nextFireAt = {}
             /\ claims' = [claims EXCEPT ![c] = claims[c]]
    <3>1. f.schedule = {} /\ f.firstFireAt = {} BY <1>0, <1>3, <2>6 DEF Merge, WholeEdit
    <3>2. /\ x.row = rec[c].row /\ x.nextFireAt = rec[c].nextFireAt
          /\ x.lastFiredAt = rec[c].lastFiredAt /\ x.schedule = rec[c].schedule
          /\ x.createdAt = rec[c].createdAt /\ x.firstFireAt = rec[c].firstFireAt
      BY <2>6, <3>1 DEF ApplyPatch, Patched
    <3>3. Sound(rec[c], claims[c]) BY <1>0, <2>1 DEF ClaimsSound
    <3>4. claims' = claims BY <2>1, <2>6 DEF TypeOK
    <3> HIDE DEF x, c
    <3>5. Sound(x, claims[c]) BY <3>2, <3>3, SoundFrame
    <3>6. ClaimsSound' BY <1>f, <2>1, <2>6, <3>4, <3>5
    <3> QED BY <2>3, <3>6 DEF ClaimInv
  <2> QED BY <1>3, <2>4, <2>5, <2>6 DEF Merge
<1>4. ASSUME NEW c \in Cron, Remove(c) PROVE ClaimInv'
  <2> DEFINE x == [rec[c] EXCEPT !.row = "deleted"]
  <2>1. /\ x.row = "deleted" /\ x.nextFireAt = rec[c].nextFireAt
        /\ x.lastFiredAt = rec[c].lastFiredAt /\ x.schedule = rec[c].schedule
        /\ x.createdAt = rec[c].createdAt /\ x.firstFireAt = rec[c].firstFireAt
    BY <1>a DEF Row
  <2>2. rec' = [rec EXCEPT ![c] = x] /\ claims' = claims BY <1>4 DEF Remove, TypeOK
  <2>3. Sound(rec[c], claims[c]) BY <1>0 DEF ClaimsSound
  <2> HIDE DEF x
  <2>4. ClaimsSound' BY <1>f, <2>1, <2>2, <2>3, SoundFrame
  <2>5. DueByStart' /\ WholeEdit' BY <1>0, <1>4 DEF Remove, DueByStart, WholeEdit
  <2> QED BY <2>4, <2>5 DEF ClaimInv
<1>5. ASSUME NEW c \in Cron, RunNow(c) PROVE ClaimInv'
  <2>1. ClaimsSound' BY <1>c, <1>5 DEF RunNow, Status
  <2>2. DueByStart' /\ WholeEdit' BY <1>0, <1>5 DEF RunNow, DueByStart, WholeEdit
  <2> QED BY <2>1, <2>2 DEF ClaimInv
<1>g. \A r \in Replica : tick[r].pc \in {"run", "check", "disable", "note"} => tick[r].cron \in Cron
  BY DEF TypeOK
<1>6. ASSUME NEW r \in Replica, StartTick(r) PROVE ClaimInv'
  <2> DEFINE x == [NoTick EXCEPT !.pc = "due", !.at = now]
  <2>1. x.due = {} BY DEF NoTick
  <2>2. SetTick(r, x) BY <1>6 DEF StartTick
  <2> HIDE DEF x
  <2>3. DueByStart' BY <1>d, <2>1, <2>2
  <2>4. ClaimsSound' /\ WholeEdit' BY <1>0, <1>6 DEF StartTick, ClaimsSound, WholeEdit
  <2> QED BY <2>3, <2>4 DEF ClaimInv
<1>7. ASSUME NEW r \in Replica, Due(r) PROVE ClaimInv'
  <2> DEFINE due == {[cron |-> c, slot |-> RecoverNextFireAt(rec[c])] :
                        c \in {d \in Cron : IsDue(d, tick[r].at)}}
             x == [tick[r] EXCEPT !.pc = "claim", !.left = MaxFires, !.due = due]
  <2>1. \A e \in due : e.slot <= tick[r].at
    <3>1. \A c \in Cron : IsDue(c, tick[r].at) => RecoverNextFireAt(rec[c]) <= tick[r].at
      <4> SUFFICES ASSUME NEW c \in Cron, IsDue(c, tick[r].at)
                   PROVE  RecoverNextFireAt(rec[c]) <= tick[r].at
        OBVIOUS
      <4>1. RecoverNextFireAt(rec[c]) \in Nat BY <1>a, RecoverType DEF IsDue
      <4>2. tick[r].at \in Nat BY <1>b DEF TickState, Time
      <4> QED BY <4>1, <4>2 DEF IsDue
    <3> QED BY <3>1
  <2>2. SetTick(r, x) BY <1>7 DEF Due
  <2> HIDE DEF due
  <2>3. x.due = due /\ x.at = tick[r].at BY <1>b DEF TickState
  <2> HIDE DEF x
  <2>4. DueByStart' BY <1>d, <2>1, <2>2, <2>3
  <2>5. ClaimsSound' /\ WholeEdit' BY <1>0, <1>7 DEF Due, ClaimsSound, WholeEdit
  <2> QED BY <2>4, <2>5 DEF ClaimInv
<1>8. ASSUME NEW r \in Replica, ClaimSlot(r) PROVE ClaimInv'
  <2> DEFINE t == tick[r]
  <2>0. PICK e \in t.due :
           LET next == [t EXCEPT !.due = t.due \ {e}, !.left = t.left - 1] IN
           \/ /\ Claimable(e.cron, e.slot)
              /\ rec' = [rec EXCEPT ![e.cron] = Claimed(rec[e.cron], e.slot, t.at)]
              /\ claims' = [claims EXCEPT ![e.cron] =
                   LastTwo(Append(claims[e.cron], [slot |-> e.slot, at |-> t.at]))]
              /\ SetTick(r, [next EXCEPT !.pc = "run", !.cron = e.cron])
           \/ SetTick(r, next) /\ UNCHANGED <<rec, claims>>
    BY <1>8 DEF ClaimSlot
  <2> DEFINE d == t.due \ {e}
             next == [t EXCEPT !.due = d, !.left = t.left - 1]
             hit == [next EXCEPT !.pc = "run", !.cron = e.cron]
  <2>1. t \in TickState /\ e.cron \in Cron /\ e.slot \in Nat /\ t.at \in Nat
    BY <1>b DEF TickState, Time
  <2>2. e.slot <= t.at /\ \A f \in d : f.slot <= t.at BY <1>0 DEF DueByStart
  <2>3. WholeEdit' BY <1>0, <1>8 DEF ClaimSlot, WholeEdit
  <2> HIDE DEF t, d
  <2>4. next.due = d /\ next.at = t.at /\ hit.due = d /\ hit.at = t.at
    BY <2>1 DEF TickState
  <2>5. CASE /\ Claimable(e.cron, e.slot)
             /\ rec' = [rec EXCEPT ![e.cron] = Claimed(rec[e.cron], e.slot, t.at)]
             /\ claims' = [claims EXCEPT ![e.cron] =
                  LastTwo(Append(claims[e.cron], [slot |-> e.slot, at |-> t.at]))]
             /\ SetTick(r, hit)
    <3> DEFINE x == Claimed(rec[e.cron], e.slot, t.at)
               q == LastTwo(Append(claims[e.cron], [slot |-> e.slot, at |-> t.at]))
    <3>1. rec[e.cron].row = "stored" /\ e.slot = RecoverNextFireAt(rec[e.cron])
      BY <2>5 DEF Claimable, Runnable
    <3>2. /\ claims[e.cron] \in Seq(Claim) /\ Len(claims[e.cron]) \in 0 .. 2
          /\ rec[e.cron] \in Row /\ Sound(rec[e.cron], claims[e.cron])
      BY <1>0, <2>1 DEF TypeOK, ClaimsSound
    <3>3. Sound(x, q) BY <2>1, <2>2, <3>1, <3>2, SoundClaim
    <3> HIDE DEF x, q
    <3>4. rec' = [rec EXCEPT ![e.cron] = x] /\ claims' = [claims EXCEPT ![e.cron] = q]
      BY <2>5 DEF x, q
    <3>5. ClaimsSound' BY <1>0, <2>1, <3>3, <3>4 DEF TypeOK, ClaimsSound
    <3> HIDE DEF hit
    <3>6. DueByStart' BY <1>d, <2>2, <2>4, <2>5
    <3> QED BY <2>3, <3>5, <3>6 DEF ClaimInv
  <2>6. CASE SetTick(r, next) /\ UNCHANGED <<rec, claims>>
    <3>1. ClaimsSound' BY <1>0, <2>6 DEF ClaimsSound
    <3> HIDE DEF next
    <3>2. DueByStart' BY <1>d, <2>2, <2>4, <2>6
    <3> QED BY <2>3, <3>1, <3>2 DEF ClaimInv
  <2> QED BY <2>0, <2>5, <2>6 DEF d
<1>9. ASSUME NEW r \in Replica, RunEnds(r) PROVE ClaimInv'
  <2>1. ClaimsSound' BY <1>c, <1>g, <1>9 DEF RunEnds, Status
  <2>2. DueByStart' BY <1>e, <1>9 DEF RunEnds
  <2>3. WholeEdit' BY <1>0, <1>9 DEF RunEnds, WholeEdit
  <2> QED BY <2>1, <2>2, <2>3 DEF ClaimInv
<1>10. ASSUME NEW r \in Replica, Check(r) PROVE ClaimInv'
  <2>1. DueByStart' BY <1>e, <1>10 DEF Check
  <2>2. ClaimsSound' /\ WholeEdit' BY <1>0, <1>10 DEF Check, ClaimsSound, WholeEdit
  <2> QED BY <2>1, <2>2 DEF ClaimInv
<1>11. ASSUME NEW r \in Replica, Disable(r) PROVE ClaimInv'
  <2> DEFINE c == tick[r].cron
             x == [rec[c] EXCEPT !.enabled = FALSE]
  <2>1. c \in Cron BY <1>g, <1>11 DEF Disable
  <2>2. /\ x.row = rec[c].row /\ x.nextFireAt = rec[c].nextFireAt
        /\ x.lastFiredAt = rec[c].lastFiredAt /\ x.schedule = rec[c].schedule
        /\ x.createdAt = rec[c].createdAt /\ x.firstFireAt = rec[c].firstFireAt
    BY <1>a, <2>1 DEF Row
  <2>3. (rec' = rec \/ rec' = [rec EXCEPT ![c] = x]) /\ claims' = claims
    BY <1>11 DEF Disable
  <2>4. DueByStart' BY <1>e, <1>11 DEF Disable
  <2>5. WholeEdit' BY <1>0, <1>11 DEF Disable, WholeEdit
  <2>6. Sound(rec[c], claims[c]) BY <1>0, <2>1 DEF ClaimsSound
  <2> HIDE DEF c, x
  <2>7. Sound(x, claims[c]) BY <2>2, <2>6, SoundFrame
  <2>8. ClaimsSound'
    <3>1. CASE rec' = rec BY <1>0, <2>3, <3>1 DEF ClaimsSound
    <3>2. CASE rec' = [rec EXCEPT ![c] = x] BY <1>f, <2>1, <2>3, <2>7, <3>2
    <3> QED BY <2>3, <3>1, <3>2
  <2> QED BY <2>4, <2>5, <2>8 DEF ClaimInv
<1>12. ASSUME NEW r \in Replica, Note(r) PROVE ClaimInv'
  <2>1. ClaimsSound' BY <1>c, <1>g, <1>12 DEF Note, Status
  <2>2. DueByStart' BY <1>e, <1>12 DEF Note
  <2>3. WholeEdit' BY <1>0, <1>12 DEF Note, WholeEdit
  <2> QED BY <2>1, <2>2, <2>3 DEF ClaimInv
<1>13. ASSUME NEW r \in Replica, TickDone(r) \/ Fault(r) PROVE ClaimInv'
  <2>1. NoTick.due = {} BY DEF NoTick
  <2>2. DueByStart' BY <1>d, <1>e, <1>13, <2>1 DEF TickDone, Fault
  <2>3. ClaimsSound' /\ WholeEdit'
    BY <1>0, <1>13 DEF TickDone, Fault, ClaimsSound, WholeEdit
  <2> QED BY <2>2, <2>3 DEF ClaimInv
<1>14. CASE Clock \/ UNCHANGED vars
  BY <1>0, <1>14 DEF Clock, vars, ClaimInv, ClaimsSound, DueByStart, WholeEdit
<1> QED
  BY <1>1, <1>2, <1>3, <1>4, <1>5, <1>6, <1>7, <1>8, <1>9, <1>10, <1>11, <1>12, <1>13,
     <1>14 DEF Next, Scheduler

(* Whatever the replicas, their crashes and the edits of users: between    *)
(* two edits of a task's next slot, claimSlot() hands out no slot twice or *)
(* early, and one run makes up for all the slots missed before it.         *)
THEOREM ClaimsHold == Spec => []ClaimsInOrder
<1>1. Init => TypeOK /\ ClaimInv BY TypeInit, ClaimInit
<1>2. TypeOK /\ ClaimInv /\ [Next]_vars => TypeOK' /\ ClaimInv' BY TypeStep, ClaimStep
<1>3. ClaimInv => ClaimsInOrder BY DEF ClaimInv, ClaimsSound, Sound, ClaimsInOrder
<1> QED BY <1>1, <1>2, <1>3, PTL DEF Spec
---------------------------------------------------------------------------
(* Why a failing task gives up.  The log of a stored task ends with as     *)
(* many failures as were counted, as far as it reaches back, so that       *)
(* disableIfHopeless finds it hopeless in time; and whoever recorded the   *)
(* last failure is still about to look, or a fault kept it from it.        *)
Working == {"run", "check", "disable", "note"}
Trail(log, n) ==
    /\ Len(log) >= n \/ Len(log) >= LogMax
    /\ \A i \in 1 .. Len(log) : i + n > Len(log) => log[i] # "ok"
About(c) == {r \in Replica : tick[r].cron = c /\ tick[r].pc \in {"check", "disable"}}
Count(c) == Cardinality(About(c))
Trails == \A c \in Cron : rec[c].row = "stored" => Trail(rec[c].log, misses[c])
NewQuiet == \A c \in Cron : rec[c].row = "new" => misses[c] = 0
TicksKnown == \A r \in Replica : tick[r].pc \in Working => rec[tick[r].cron].row # "new"
Enabled(c) == rec[c].row = "stored" /\ rec[c].enabled = TRUE
NotLate == \A c \in Cron : Enabled(c) => misses[c] < MaxFails + faults + Count(c)
FailInv == Trails /\ NewQuiet /\ TicksKnown /\ NotLate

LEMMA FailNumbers ==
    /\ MaxFails \in Nat /\ MaxFails > 0 /\ LogMax \in Nat /\ LogMax >= MaxFails
BY SettingsAssumption

(* Failures make the trail longer, as far as the log reaches.              *)
LEMMA TrailGrows ==
    ASSUME NEW log \in Seq(Status), Len(log) <= LogMax, NEW n \in Nat, Trail(log, n)
    PROVE  Trail(Logged(log, "failed"), n + 1) /\ Trail(Logged(log, "failed"), n)
<1>1. PICK all : all = Append(log, "failed") OBVIOUS
<1>2. all \in Seq(Status) /\ Len(all) = Len(log) + 1 /\ all[Len(all)] = "failed"
      /\ \A i \in 1 .. Len(log) : all[i] = log[i]
  BY <1>1 DEF Status
<1>3. Len(log) \in Nat /\ LogMax \in Nat BY FailNumbers
<1>4. CASE Len(all) > LogMax
  <2>1. Logged(log, "failed") = Tail(all) BY <1>1, <1>4 DEF Logged
  <2>2. PICK q : q = Tail(all) OBVIOUS
  <2>3. Len(q) = Len(log) /\ \A i \in 1 .. Len(q) : q[i] = all[i + 1]
    BY <1>2, <1>3, <2>2
  <2>4. Len(q) = LogMax BY <1>2, <1>3, <1>4, <2>3
  <2>5. ASSUME NEW i \in 1 .. Len(q), i + (n + 1) > Len(q) PROVE q[i] # "ok"
    <3>1. CASE i = Len(q) BY <1>2, <1>3, <2>3, <3>1
    <3>2. CASE i < Len(q)
      <4>1. i + 1 \in 1 .. Len(log) /\ (i + 1) + n > Len(log) BY <1>3, <2>3, <2>5, <3>2
      <4>2. log[i + 1] # "ok" BY <4>1 DEF Trail
      <4> QED BY <1>2, <2>3, <4>1, <4>2
    <3> QED BY <2>5, <1>3, <2>3, <3>1, <3>2
  <2>6. \A i \in 1 .. Len(q) : i + n > Len(q) => q[i] # "ok" BY <1>3, <2>3, <2>5
  <2>7. Trail(q, n + 1) BY <1>3, <2>4, <2>5 DEF Trail
  <2>8. Trail(q, n) BY <1>3, <2>4, <2>6 DEF Trail
  <2> QED BY <2>1, <2>2, <2>7, <2>8
<1>5. CASE ~(Len(all) > LogMax)
  <2>1. Logged(log, "failed") = all BY <1>1, <1>5 DEF Logged
  <2>2. Len(log) >= n BY <1>2, <1>3, <1>5 DEF Trail
  <2>3. ASSUME NEW i \in 1 .. Len(all), i + (n + 1) > Len(all) PROVE all[i] # "ok"
    <3>1. CASE i = Len(all) BY <1>2, <3>1
    <3>2. CASE i < Len(all)
      <4>1. i \in 1 .. Len(log) /\ i + n > Len(log) BY <1>2, <1>3, <2>3, <3>2
      <4>2. log[i] # "ok" BY <4>1 DEF Trail
      <4> QED BY <1>2, <4>1, <4>2
    <3> QED BY <1>2, <1>3, <2>3, <3>1, <3>2
  <2>4. \A i \in 1 .. Len(all) : i + n > Len(all) => all[i] # "ok" BY <1>2, <1>3, <2>3
  <2> QED BY <1>2, <1>3, <2>1, <2>2, <2>3, <2>4 DEF Trail
<1> QED BY <1>4, <1>5

LEMMA NoTrail == ASSUME NEW log, Len(log) \in Nat PROVE Trail(log, 0)
BY DEF Trail

LEMMA TrailTells ==
    ASSUME NEW log \in Seq(Status), NEW n \in Nat, Trail(log, n), n >= MaxFails
    PROVE  Hopeless(log)
<1>1. Len(log) \in Nat /\ Len(log) >= MaxFails BY FailNumbers DEF Trail
<1>2. ASSUME NEW i \in Len(log) - MaxFails + 1 .. Len(log) PROVE log[i] # "ok"
  <2>1. i \in 1 .. Len(log) /\ i + n > Len(log) BY <1>1, <1>2, FailNumbers
  <2> QED BY <2>1 DEF Trail
<1> QED BY <1>1, <1>2 DEF Hopeless

(* Who is about to look, when one replica moves.                           *)
Alone(r) == \A o \in Replica : o # r => tick'[o] = tick[o]
LEMMA CountType == ASSUME NEW c PROVE Count(c) \in Nat
<1>1. About(c) \in SUBSET Replica BY DEF About
<1>2. IsFiniteSet(About(c)) BY <1>1, ReplicasFinite, FS_Subset
<1> QED BY <1>2, FS_CardinalityType DEF Count

LEMMA CountMoves ==
    ASSUME NEW r \in Replica, Alone(r), NEW c
    PROVE  /\ Count(c) \in Nat /\ Count(c)' \in Nat /\ Count(c)' >= Count(c) - 1
           /\ r \notin About(c) => Count(c)' >= Count(c)
           /\ r \in About(c)' => Count(c)' >= Count(c)
           /\ r \notin About(c) /\ r \in About(c)' => Count(c)' = Count(c) + 1
<1>1. PICK a, b : a = About(c) /\ b = About(c)' OBVIOUS
<1>2. a \in SUBSET Replica /\ b \in SUBSET Replica BY <1>1 DEF About
<1>3. IsFiniteSet(a) /\ IsFiniteSet(b) BY <1>2, ReplicasFinite, FS_Subset
<1>4. a \ {r} = b \ {r} BY <1>1 DEF About, Alone
<1>5. Cardinality(a) \in Nat /\ Cardinality(b) \in Nat BY <1>3, FS_CardinalityType
<1>6. Cardinality(a \ {r}) = IF r \in a THEN Cardinality(a) - 1 ELSE Cardinality(a)
  BY <1>3, FS_RemoveElement
<1>7. Cardinality(b \ {r}) = IF r \in b THEN Cardinality(b) - 1 ELSE Cardinality(b)
  BY <1>3, FS_RemoveElement
<1>8. Count(c) = Cardinality(a) /\ Count(c)' = Cardinality(b) BY <1>1 DEF Count
<1>m. Cardinality(a \ {r}) = Cardinality(b \ {r}) BY <1>4
<1>9. /\ Cardinality(b) >= Cardinality(a) - 1
      /\ r \notin a => Cardinality(b) >= Cardinality(a)
      /\ r \in b => Cardinality(b) >= Cardinality(a)
      /\ r \notin a /\ r \in b => Cardinality(b) = Cardinality(a) + 1
  BY <1>5, <1>6, <1>7, <1>m
<1> QED BY <1>1, <1>5, <1>8, <1>9

(* What a step must do to each task.                                       *)
Settled(c) ==
    /\ rec'[c].row = "new" => misses'[c] = 0
    /\ rec'[c].row = "stored" => Trail(rec'[c].log, misses'[c])
    /\ Enabled(c)' => misses'[c] < MaxFails + faults' + Count(c)'
LEMMA Assemble ==
    ASSUME \A c \in Cron : Settled(c), TicksKnown' PROVE FailInv'
<1>1. Trails' BY DEF Trails, Settled
<1>2. NewQuiet' BY DEF NewQuiet, Settled
<1>3. NotLate' BY DEF NotLate, Settled
<1> QED BY <1>1, <1>2, <1>3 DEF FailInv

SameRow(c) ==
    /\ rec'[c].row = rec[c].row /\ rec'[c].enabled = rec[c].enabled
    /\ rec'[c].log = rec[c].log /\ misses'[c] = misses[c]
LEMMA SameSettled ==
    ASSUME TypeOK, TypeOK', FailInv, NEW c \in Cron, SameRow(c), Count(c)' \in Nat,
           faults' + Count(c)' >= faults + Count(c) \/ misses[c] < MaxFails \/ ~Enabled(c)
    PROVE  Settled(c)
<1>1. faults \in Nat /\ faults' \in Nat /\ misses[c] \in Nat BY DEF TypeOK
<1>2. Count(c) \in Nat BY CountType
<1>3. /\ rec[c].row = "new" => misses[c] = 0
      /\ rec[c].row = "stored" => Trail(rec[c].log, misses[c])
      /\ Enabled(c) => misses[c] < MaxFails + faults + Count(c)
  BY DEF FailInv, Trails, NewQuiet, NotLate
<1>4. Enabled(c)' => Enabled(c) BY DEF Enabled, SameRow
<1>5. misses'[c] = misses[c] BY DEF SameRow
<1>6. Enabled(c)' => misses'[c] < MaxFails + faults' + Count(c)'
  BY <1>1, <1>2, <1>3, <1>4, <1>5, FailNumbers
<1>7. rec'[c].row = "new" => misses'[c] = 0 BY <1>3 DEF SameRow
<1>8. rec'[c].row = "stored" => Trail(rec'[c].log, misses'[c]) BY <1>3 DEF SameRow
<1> QED BY <1>6, <1>7, <1>8 DEF Settled

(* A step of one replica that changes nothing of the tasks.                *)
LEMMA TickStep ==
    ASSUME TypeOK, TypeOK', FailInv, NEW r \in Replica, Alone(r), \A c \in Cron : SameRow(c),
           tick'[r].pc \in Working => rec[tick'[r].cron].row # "new",
           faults' = faults \/ faults' = faults + 1,
           \A c \in Cron : r \in About(c) =>
               r \in About(c)' \/ faults' = faults + 1 \/ misses[c] < MaxFails \/ ~Enabled(c)
    PROVE  FailInv'
<1>1. faults \in Nat /\ faults' \in Nat BY DEF TypeOK
<1>2. ASSUME NEW c \in Cron PROVE Settled(c)
  <2>1. Count(c) \in Nat /\ Count(c)' \in Nat BY CountMoves
  <2>2. faults' + Count(c)' >= faults + Count(c) \/ misses[c] < MaxFails \/ ~Enabled(c)
    <3>1. CASE r \notin About(c) \/ r \in About(c)'
      <4>1. Count(c)' >= Count(c) BY <3>1, CountMoves
      <4> QED BY <1>1, <2>1, <4>1
    <3>2. CASE r \in About(c) /\ r \notin About(c)'
      <4>1. Count(c)' >= Count(c) - 1 BY CountMoves
      <4>2. faults' = faults + 1 \/ misses[c] < MaxFails \/ ~Enabled(c) BY <3>2
      <4> QED BY <1>1, <2>1, <4>1, <4>2
    <3> QED BY <3>1, <3>2
  <2> QED BY <2>1, <2>2, SameSettled
<1>3. TicksKnown'
  <2> SUFFICES ASSUME NEW o \in Replica, tick'[o].pc \in Working
               PROVE  rec'[tick'[o].cron].row # "new"
    BY DEF TicksKnown
  <2>1. tick'[o].cron \in Cron BY DEF TypeOK, Working
  <2>2. rec[tick'[o].cron].row # "new"
    BY DEF FailInv, TicksKnown, Alone
  <2> QED BY <2>1, <2>2 DEF SameRow
<1> QED BY <1>2, <1>3, Assemble

(* A step on one task, and perhaps on one replica.                         *)
LEMMA TaskStep ==
    ASSUME TypeOK, TypeOK', FailInv, NEW c \in Cron, \A d \in Cron : d # c => SameRow(d),
           rec'[c].row # "new", Settled(c), faults' = faults,
           tick' = tick \/ \E r \in Replica :
             /\ Alone(r)
             /\ tick'[r].pc \in Working => tick'[r].cron = c
             /\ \A d \in Cron : d # c => r \notin About(d)
    PROVE  FailInv'
<1>1. faults \in Nat BY DEF TypeOK
<1>2. ASSUME NEW d \in Cron, d # c PROVE Settled(d)
  <2>1. Count(d) \in Nat /\ Count(d)' \in Nat /\ Count(d)' >= Count(d)
    <3>1. CASE tick' = tick
      <4>1. Count(d)' = Count(d) BY <3>1 DEF Count, About
      <4>2. Count(d) \in Nat BY CountType
      <4> QED BY <4>1, <4>2
    <3>2. CASE \E r \in Replica : Alone(r) /\ r \notin About(d) BY <3>2, CountMoves
    <3> QED BY <1>2, <3>1, <3>2
  <2>2. faults' + Count(d)' >= faults + Count(d) BY <1>1, <2>1
  <2> QED BY <1>2, <2>1, <2>2, SameSettled
<1>3. TicksKnown'
  <2> SUFFICES ASSUME NEW o \in Replica, tick'[o].pc \in Working
               PROVE  rec'[tick'[o].cron].row # "new"
    BY DEF TicksKnown
  <2>1. tick'[o].cron \in Cron BY DEF TypeOK, Working
  <2>2. tick'[o].cron = c \/ rec[tick'[o].cron].row # "new"
    BY DEF FailInv, TicksKnown, Alone
  <2> QED BY <2>1, <2>2 DEF SameRow
<1> QED BY <1>2, <1>3, Assemble

(* A step that leaves the replicas alone, and the task but for its log.    *)
LEMMA StillStep ==
    ASSUME TypeOK, TypeOK', FailInv, tick' = tick, \A c \in Cron : SameRow(c),
           faults' = faults
    PROVE  FailInv'
<1>1. faults \in Nat BY DEF TypeOK
<1>2. ASSUME NEW c \in Cron PROVE Settled(c)
  <2>1. Count(c)' = Count(c) BY DEF Count, About
  <2>2. Count(c) \in Nat BY CountType
  <2>3. Count(c)' \in Nat /\ faults' + Count(c)' >= faults + Count(c) BY <1>1, <2>1, <2>2
  <2> QED BY <2>3, SameSettled
<1>3. TicksKnown'
  <2> SUFFICES ASSUME NEW o \in Replica, tick'[o].pc \in Working
               PROVE  rec'[tick'[o].cron].row # "new"
    BY DEF TicksKnown
  <2>1. tick'[o].cron \in Cron BY DEF TypeOK, Working
  <2>2. rec[tick'[o].cron].row # "new" BY DEF FailInv, TicksKnown
  <2> QED BY <2>1, <2>2 DEF SameRow
<1> QED BY <1>2, <1>3, Assemble

(* What FailInv says of one task, and of a replica at work.                *)
LEMMA TaskFacts ==
    ASSUME TypeOK, FailInv, NEW c \in Cron
    PROVE  /\ rec[c].row = "new" => misses[c] = 0
           /\ rec[c].row = "stored" => Trail(rec[c].log, misses[c])
           /\ Enabled(c) => misses[c] < MaxFails + faults + Count(c)
           /\ rec[c] \in Row /\ misses[c] \in Nat /\ faults \in Nat /\ Count(c) \in Nat
           /\ rec[c].log \in Seq(Status) /\ Len(rec[c].log) <= LogMax
<1>1. Count(c) \in Nat BY CountType
<1>2. rec[c] \in Row /\ misses[c] \in Nat /\ faults \in Nat /\ Len(rec[c].log) <= LogMax
  BY DEF TypeOK
<1>3. rec[c].log \in Seq(Status) BY <1>2 DEF Row, Status
<1>4. rec[c].row = "new" => misses[c] = 0 BY DEF FailInv, NewQuiet
<1>5. rec[c].row = "stored" => Trail(rec[c].log, misses[c]) BY DEF FailInv, Trails
<1>6. Enabled(c) => misses[c] < MaxFails + faults + Count(c) BY DEF FailInv, NotLate
<1> QED BY <1>1, <1>2, <1>3, <1>4, <1>5, <1>6

(* A reset count is settled.                                               *)
LEMMA ResetSettled ==
    ASSUME TypeOK', NEW c \in Cron, misses'[c] = 0
    PROVE  Settled(c)
<1>1. rec'[c] \in Row /\ faults' \in Nat BY DEF TypeOK
<1>2. Len(rec'[c].log) \in Nat BY <1>1 DEF Row
<1>3. Trail(rec'[c].log, misses'[c]) BY <1>2, NoTrail
<1>4. PICK n : n = Count(c)' OBVIOUS
<1>5. n \in Nat
  <2>1. PICK b : b = About(c)' OBVIOUS
  <2>2. b \in SUBSET Replica BY <2>1 DEF About
  <2>3. Cardinality(b) \in Nat BY <2>2, ReplicasFinite, FS_Subset, FS_CardinalityType
  <2> QED BY <1>4, <2>1, <2>3 DEF Count
<1>6. misses'[c] < MaxFails + faults' + Count(c)' BY <1>1, <1>4, <1>5, FailNumbers
<1> QED BY <1>3, <1>6 DEF Settled

LEMMA FailInit == Init => FailInv
<1> SUFFICES ASSUME Init PROVE FailInv OBVIOUS
<1>1. \A c \in Cron : rec[c] = NoRow /\ misses[c] = 0 BY DEF Init
<1>2. NoRow.row = "new" BY DEF NoRow
<1>3. \A r \in Replica : tick[r].pc = "idle" BY DEF Init, NoTick
<1>4. Trails BY <1>1, <1>2 DEF Trails
<1>5. NewQuiet BY <1>1 DEF NewQuiet
<1>6. TicksKnown BY <1>3 DEF TicksKnown, Working
<1>7. NotLate BY <1>1, <1>2 DEF NotLate, Enabled
<1> QED BY <1>4, <1>5, <1>6, <1>7 DEF FailInv

(* recordFire(), for the task and for the others.                          *)
FireRecorded(c, st) ==
    /\ \A d \in Cron : d # c => rec'[d] = rec[d]
    /\ rec'[c].row = rec[c].row /\ rec'[c].enabled = rec[c].enabled
    /\ rec[c].row = "stored" => rec'[c].log = Logged(rec[c].log, st)
LEMMA RecordFireOutcome ==
    ASSUME TypeOK, NEW c \in Cron, NEW st \in Status, RecordFire(c, st)
    PROVE  FireRecorded(c, st)
<1>1. rec \in [Cron -> Row] BY DEF TypeOK
<1>2. PICK l : l = Logged(rec[c].log, st) OBVIOUS
<1>3. CASE rec[c].row = "stored"
  <2>1. rec' = [rec EXCEPT ![c].log = l] BY <1>2, <1>3 DEF RecordFire
  <2>2. rec'[c] = [rec[c] EXCEPT !.log = l] BY <1>1, <2>1
  <2>3. rec'[c].row = rec[c].row /\ rec'[c].enabled = rec[c].enabled /\ rec'[c].log = l
    BY <1>1, <2>2 DEF Row
  <2> QED BY <1>1, <1>2, <2>1, <2>3 DEF FireRecorded
<1>4. CASE rec[c].row # "stored" BY <1>4 DEF RecordFire, FireRecorded
<1> QED BY <1>3, <1>4

(* A failure written down keeps the task settled, counted or not, if       *)
(* whoever counted it is about to look.                                    *)
LEMMA FailureSettled ==
    ASSUME TypeOK, TypeOK', FailInv, NEW c \in Cron, FireRecorded(c, "failed"),
           NEW k \in {0, 1}, misses'[c] = misses[c] + k, rec[c].row # "new",
           faults' = faults, Count(c)' \in Nat, Count(c)' >= Count(c) + k
    PROVE  Settled(c)
<1>1. /\ rec[c].row = "stored" => Trail(rec[c].log, misses[c])
      /\ Enabled(c) => misses[c] < MaxFails + faults + Count(c)
      /\ misses[c] \in Nat /\ faults \in Nat /\ Count(c) \in Nat
      /\ rec[c].log \in Seq(Status) /\ Len(rec[c].log) <= LogMax
  BY TaskFacts
<1>2. rec'[c].row = rec[c].row /\ rec'[c].enabled = rec[c].enabled BY DEF FireRecorded
<1>3. ASSUME rec'[c].row = "stored" PROVE Trail(rec'[c].log, misses'[c])
  <2>1. rec'[c].log = Logged(rec[c].log, "failed") BY <1>2, <1>3 DEF FireRecorded
  <2>2. Trail(rec[c].log, misses[c]) BY <1>1, <1>2, <1>3
  <2>3. /\ Trail(Logged(rec[c].log, "failed"), misses[c] + 1)
        /\ Trail(Logged(rec[c].log, "failed"), misses[c])
    BY <1>1, <2>2, TrailGrows
  <2>4. misses'[c] = misses[c] \/ misses'[c] = misses[c] + 1 BY <1>1
  <2> QED BY <2>1, <2>3, <2>4
<1>4. Enabled(c)' => Enabled(c) BY <1>2 DEF Enabled
<1>5. Enabled(c)' => misses'[c] < MaxFails + faults' + Count(c)'
  BY <1>1, <1>4, FailNumbers
<1>6. rec'[c].row # "new" BY <1>2
<1> QED BY <1>3, <1>5, <1>6 DEF Settled

LEMMA StillCount ==
    ASSUME NEW c, tick' = tick
    PROVE  Count(c)' \in Nat /\ Count(c)' = Count(c)
<1>1. Count(c)' = Count(c) BY DEF Count, About
<1>2. Count(c) \in Nat BY CountType
<1> QED BY <1>1, <1>2
---------------------------------------------------------------------------
(* What users do.                                                          *)
LEMMA FailCreate ==
    ASSUME TypeOK, TypeOK', FailInv, NEW c \in Cron, Create(c) PROVE FailInv'
<1>1. rec \in [Cron -> Row] BY DEF TypeOK
<1>2. PICK x : rec' = [rec EXCEPT ![c] = x] /\ x.row = "stored"
  <2>1. PICK s \in Schedule, on \in BOOLEAN : \E next \in NormalizedNexts(s, now) :
          rec' = [rec EXCEPT ![c] =
            [NoRow EXCEPT !.row = "stored", !.enabled = on, !.schedule = s,
                          !.createdAt = now, !.nextFireAt = next,
                          !.firstFireAt = FirstFireAt(s, next)]]
    BY DEF Create
  <2>2. PICK next : rec' = [rec EXCEPT ![c] =
            [NoRow EXCEPT !.row = "stored", !.enabled = on, !.schedule = s,
                          !.createdAt = now, !.nextFireAt = next,
                          !.firstFireAt = FirstFireAt(s, next)]]
    BY <2>1
  <2>3. PICK x : x = [NoRow EXCEPT !.row = "stored", !.enabled = on, !.schedule = s,
                          !.createdAt = now, !.nextFireAt = next,
                          !.firstFireAt = FirstFireAt(s, next)]
    OBVIOUS
  <2>4. x.row = "stored" BY <2>3 DEF NoRow
  <2>5. rec' = [rec EXCEPT ![c] = x] BY <2>2, <2>3
  <2> QED BY <2>4, <2>5
<1>3. tick' = tick /\ misses' = misses /\ faults' = faults /\ rec[c].row = "new"
  BY DEF Create
<1>4. misses'[c] = 0 BY <1>3, TaskFacts
<1>5. Settled(c) BY <1>4, ResetSettled
<1>6. \A d \in Cron : d # c => SameRow(d) BY <1>1, <1>2, <1>3 DEF SameRow
<1>7. rec'[c].row # "new" BY <1>1, <1>2
<1> QED BY <1>3, <1>5, <1>6, <1>7, TaskStep

LEMMA FailRemove ==
    ASSUME TypeOK, TypeOK', FailInv, NEW c \in Cron, Remove(c) PROVE FailInv'
<1>1. rec \in [Cron -> Row] BY DEF TypeOK
<1>2. rec' = [rec EXCEPT ![c].row = "deleted"] /\ tick' = tick /\ misses' = misses
      /\ faults' = faults
  BY DEF Remove
<1>3. rec'[c].row = "deleted" BY <1>1, <1>2 DEF Row
<1>4. Settled(c) BY <1>3 DEF Settled, Enabled
<1>5. \A d \in Cron : d # c => SameRow(d) BY <1>1, <1>2 DEF SameRow
<1>6. rec'[c].row # "new" BY <1>3
<1> QED BY <1>2, <1>4, <1>5, <1>6, TaskStep

LEMMA FailRunNow ==
    ASSUME TypeOK, TypeOK', FailInv, NEW c \in Cron, RunNow(c) PROVE FailInv'
<1>1. PICK st \in Status :
        /\ RecordFire(c, st)
        /\ misses' = [misses EXCEPT ![c] = IF st = "ok" THEN 0 ELSE misses[c]]
  BY DEF RunNow, Status
<1>2. rec[c].row = "stored" /\ tick' = tick /\ faults' = faults BY DEF RunNow
<1>3. FireRecorded(c, st) BY <1>1, RecordFireOutcome
<1>4. misses \in [Cron -> Nat] BY DEF TypeOK
<1>5. \A d \in Cron : d # c => SameRow(d) BY <1>1, <1>3, <1>4 DEF SameRow, FireRecorded
<1>6. rec'[c].row # "new" BY <1>2, <1>3 DEF FireRecorded
<1>7. Settled(c)
  <2>1. CASE st = "ok"
    <3>1. misses'[c] = 0 BY <1>1, <1>4, <2>1
    <3> QED BY <3>1, ResetSettled
  <2>2. CASE st = "failed"
    <3>1. misses'[c] = misses[c] + 0 BY <1>1, <1>4, <2>2
    <3>2. Count(c)' \in Nat /\ Count(c)' >= Count(c) + 0
      <4>1. Count(c)' = Count(c) /\ Count(c)' \in Nat BY <1>2, StillCount
      <4> QED BY <4>1
    <3> QED BY <1>2, <1>3, <2>2, <3>1, <3>2, FailureSettled
  <2> QED BY <2>1, <2>2 DEF Status
<1> QED BY <1>2, <1>5, <1>6, <1>7, TaskStep

LEMMA FailMerge ==
    ASSUME TypeOK, TypeOK', FailInv, Merge PROVE FailInv'
<1>1. PICK c : c = edit.cron OBVIOUS
<1>2. PICK p : p = edit.fields OBVIOUS
<1>3. c \in Cron /\ p \in Patch BY <1>1, <1>2 DEF Merge, TypeOK
<1>4. tick' = tick /\ faults' = faults BY DEF Merge
<1>5. rec \in [Cron -> Row] /\ misses \in [Cron -> Nat] BY DEF TypeOK
<1>6. CASE UNCHANGED <<rec, misses>>
  <2>1. \A d \in Cron : SameRow(d) BY <1>6 DEF SameRow
  <2> QED BY <1>4, <2>1, StillStep
<1>7. CASE ~UNCHANGED <<rec, misses>>
  <2>1. /\ rec[c].row = "stored"
        /\ rec' = [rec EXCEPT ![c] = ApplyPatch(rec[c], p)]
        /\ misses' = [misses EXCEPT ![c] =
              IF rec'[c].enabled /\ ~rec[c].enabled THEN 0 ELSE misses[c]]
    BY <1>1, <1>2, <1>7 DEF Merge
  <2>2. PICK x : x = ApplyPatch(rec[c], p) OBVIOUS
  <2>3. x.log = rec[c].log /\ x.row = "stored"
    <3>1. x.log = rec[c].log BY <1>3, <1>5, <2>2, ApplyPatchFacts
    <3>2. x.row = rec[c].row BY <2>2 DEF ApplyPatch
    <3> QED BY <2>1, <3>1, <3>2
  <2>4. rec'[c] = x BY <1>3, <1>5, <2>1, <2>2
  <2>5. \A d \in Cron : d # c => SameRow(d) BY <1>5, <2>1 DEF SameRow
  <2>6. rec[c].enabled \in BOOLEAN /\ rec'[c].enabled \in BOOLEAN
    BY <1>3 DEF TypeOK, Row
  <2>7. misses'[c] = 0 \/ (misses'[c] = misses[c] /\ (rec'[c].enabled = TRUE => rec[c].enabled = TRUE))
    BY <1>3, <1>5, <2>1, <2>6
  <2>8. Settled(c)
    <3>1. CASE misses'[c] = 0 BY <1>3, <3>1, ResetSettled
    <3>2. CASE misses'[c] = misses[c] /\ (rec'[c].enabled = TRUE => rec[c].enabled = TRUE)
      <4>1. /\ Trail(rec[c].log, misses[c])
            /\ Enabled(c) => misses[c] < MaxFails + faults + Count(c)
        BY <1>3, <2>1, TaskFacts
      <4>2. Enabled(c)' => Enabled(c) BY <2>1, <3>2 DEF Enabled
      <4>3. Count(c)' = Count(c) BY <1>4, StillCount
      <4>4. Enabled(c)' => misses'[c] < MaxFails + faults' + Count(c)'
        BY <1>4, <3>2, <4>1, <4>2, <4>3
      <4>5. Trail(rec'[c].log, misses'[c]) BY <2>3, <2>4, <3>2, <4>1
      <4> QED BY <2>3, <2>4, <4>4, <4>5 DEF Settled
    <3> QED BY <2>7, <3>1, <3>2
  <2>9. rec'[c].row # "new" BY <2>3, <2>4
  <2> QED BY <1>3, <1>4, <2>5, <2>8, <2>9, TaskStep
<1> QED BY <1>6, <1>7
---------------------------------------------------------------------------
(* What a replica does.                                                    *)
LEMMA TickSet ==
    ASSUME TypeOK, NEW r \in Replica, NEW x, SetTick(r, x)
    PROVE  Alone(r) /\ tick'[r] = x
BY DEF TypeOK, SetTick, Alone

LEMMA TickGoes ==
    ASSUME TypeOK, NEW r \in Replica, NEW pc, Go(r, pc)
    PROVE  Alone(r) /\ tick'[r].pc = pc /\ (pc # "claim" => tick'[r].cron = tick[r].cron)
<1>1. tick[r] \in TickState BY DEF TypeOK
<1>2. PICK x : x = [tick[r] EXCEPT !.pc = pc, !.cron = IF pc = "claim" THEN None ELSE tick[r].cron]
  OBVIOUS
<1>3. SetTick(r, x) BY <1>1, <1>2 DEF Go, TickState
<1>4. x.pc = pc /\ (pc # "claim" => x.cron = tick[r].cron) BY <1>1, <1>2 DEF TickState
<1>5. Alone(r) /\ tick'[r] = x BY <1>3, TickSet
<1> QED BY <1>4, <1>5

LEMMA FailQuietTick ==
    ASSUME TypeOK, TypeOK', FailInv, NEW r \in Replica, StartTick(r) \/ Due(r) \/ TickDone(r)
    PROVE  FailInv'
<1>1. PICK x : SetTick(r, x) /\ x.pc \notin Working
  <2>1. CASE StartTick(r)
    <3>1. PICK x : x = [NoTick EXCEPT !.pc = "due", !.at = now] OBVIOUS
    <3>2. x.pc = "due" BY <3>1 DEF NoTick
    <3> QED BY <2>1, <3>1, <3>2 DEF StartTick, Working
  <2>2. CASE Due(r)
    <3>1. PICK x : x = [tick[r] EXCEPT !.pc = "claim", !.left = MaxFires,
                  !.due = {[cron |-> c, slot |-> RecoverNextFireAt(rec[c])] :
                     c \in {d \in Cron : IsDue(d, tick[r].at)}}]
      OBVIOUS
    <3>2. tick[r] \in TickState BY DEF TypeOK
    <3>3. x.pc = "claim" BY <3>1, <3>2 DEF TickState
    <3> QED BY <2>2, <3>1, <3>3 DEF Due, Working
  <2>3. CASE TickDone(r) BY <2>3 DEF TickDone, NoTick, Working
  <2> QED BY <2>1, <2>2, <2>3
<1>2. Alone(r) /\ tick'[r] = x BY <1>1, TickSet
<1>3. rec' = rec /\ misses' = misses /\ faults' = faults BY DEF StartTick, Due, TickDone
<1>4. tick[r].pc \notin Working BY DEF StartTick, Due, TickDone, Working
<1>5. \A c \in Cron : r \notin About(c) BY <1>4 DEF About, Working
<1>6. \A c \in Cron : SameRow(c) BY <1>3 DEF SameRow
<1> QED BY <1>1, <1>2, <1>3, <1>5, <1>6, TickStep

LEMMA FailClaim ==
    ASSUME TypeOK, TypeOK', FailInv, NEW r \in Replica, ClaimSlot(r) PROVE FailInv'
<1>1. PICK t : t = tick[r] OBVIOUS
<1>2. t \in TickState /\ rec \in [Cron -> Row] BY <1>1 DEF TypeOK
<1>3. PICK e \in t.due :
        LET next == [t EXCEPT !.due = t.due \ {e}, !.left = t.left - 1] IN
           \/ /\ Claimable(e.cron, e.slot)
              /\ rec' = [rec EXCEPT ![e.cron] = Claimed(rec[e.cron], e.slot, t.at)]
              /\ SetTick(r, [next EXCEPT !.pc = "run", !.cron = e.cron])
           \/ SetTick(r, next) /\ UNCHANGED rec
  BY <1>1 DEF ClaimSlot
<1>4. e.cron \in Cron /\ e.slot \in Nat /\ t.at \in Nat BY <1>2 DEF TickState, Time
<1>5. misses' = misses /\ faults' = faults /\ t.pc = "claim" BY <1>1 DEF ClaimSlot
<1>6. \A c \in Cron : r \notin About(c) BY <1>1, <1>5 DEF About
<1>7. PICK next : next = [t EXCEPT !.due = t.due \ {e}, !.left = t.left - 1] OBVIOUS
<1>8. PICK hit : hit = [next EXCEPT !.pc = "run", !.cron = e.cron] OBVIOUS
<1>9. next.pc = "claim" /\ hit.cron = e.cron
  BY <1>2, <1>5, <1>7, <1>8 DEF TickState
<1>10. CASE SetTick(r, next) /\ UNCHANGED rec
  <2>1. Alone(r) /\ tick'[r] = next BY <1>10, TickSet
  <2>2. \A c \in Cron : SameRow(c) BY <1>5, <1>10 DEF SameRow
  <2>3. tick'[r].pc \notin Working BY <1>9, <2>1 DEF Working
  <2> QED BY <1>5, <1>6, <2>1, <2>2, <2>3, TickStep
<1>11. CASE /\ Claimable(e.cron, e.slot)
            /\ rec' = [rec EXCEPT ![e.cron] = Claimed(rec[e.cron], e.slot, t.at)]
            /\ SetTick(r, hit)
  <2>1. Alone(r) /\ tick'[r] = hit BY <1>11, TickSet
  <2>2. PICK y : y = Claimed(rec[e.cron], e.slot, t.at) OBVIOUS
  <2>3. y.log = rec[e.cron].log BY <1>2, <1>4, <2>2, ClaimedFacts
  <2>4. y.row = rec[e.cron].row /\ y.enabled = rec[e.cron].enabled
    BY <1>2, <1>4, <2>2 DEF Claimed, Row
  <2>5. rec' = [rec EXCEPT ![e.cron] = y] BY <1>11, <2>2
  <2>6. \A c \in Cron : SameRow(c) BY <1>2, <1>4, <1>5, <2>3, <2>4, <2>5 DEF SameRow
  <2>7. rec[e.cron].row # "new" BY <1>11 DEF Claimable, Runnable
  <2>8. rec[tick'[r].cron].row # "new" BY <1>9, <2>1, <2>7
  <2> QED BY <1>5, <1>6, <2>1, <2>6, <2>8, TickStep
<1> QED BY <1>3, <1>7, <1>8, <1>10, <1>11

LEMMA FailRunEnds ==
    ASSUME TypeOK, TypeOK', FailInv, NEW r \in Replica, RunEnds(r) PROVE FailInv'
<1>1. PICK c : c = tick[r].cron OBVIOUS
<1>2. tick[r].pc = "run" /\ faults' = faults BY DEF RunEnds
<1>3. c \in Cron /\ rec[c].row # "new"
  BY <1>1, <1>2 DEF TypeOK, FailInv, TicksKnown, Working
<1>4. PICK st \in Status :
        /\ RecordFire(c, st)
        /\ misses' = [misses EXCEPT ![c] = IF st = "ok" THEN 0 ELSE misses[c] + 1]
        /\ Go(r, IF st = "ok" THEN "claim" ELSE "check")
  BY <1>1 DEF RunEnds, Status
<1>5. FireRecorded(c, st) BY <1>3, <1>4, RecordFireOutcome
<1>6. misses \in [Cron -> Nat] BY DEF TypeOK
<1>7. \A d \in Cron : d # c => SameRow(d) BY <1>4, <1>5, <1>6 DEF SameRow, FireRecorded
<1>8. rec'[c].row # "new" BY <1>3, <1>5 DEF FireRecorded
<1>9. \A d \in Cron : r \notin About(d) BY <1>2 DEF About
<1>10. CASE st = "ok"
  <2>1. misses'[c] = 0 BY <1>3, <1>4, <1>6, <1>10
  <2>2. Settled(c) BY <1>3, <2>1, ResetSettled
  <2>3. Go(r, "claim") BY <1>4, <1>10
  <2>4. Alone(r) /\ tick'[r].pc \notin Working BY <2>3, TickGoes DEF Working
  <2> QED BY <1>2, <1>3, <1>7, <1>8, <1>9, <2>2, <2>4, TaskStep
<1>11. CASE st = "failed"
  <2>1. misses'[c] = misses[c] + 1 BY <1>3, <1>4, <1>6, <1>11
  <2>2. Go(r, "check") BY <1>4, <1>11
  <2>3. Alone(r) /\ tick'[r].pc = "check" /\ tick'[r].cron = c BY <1>1, <2>2, TickGoes
  <2>4. r \in About(c)' BY <2>3 DEF About
  <2>5. Count(c)' = Count(c) + 1 /\ Count(c)' \in Nat BY <1>3, <1>9, <2>3, <2>4, CountMoves
  <2>6. Count(c)' >= Count(c) + 1 BY <2>5, CountType
  <2>7. FireRecorded(c, "failed") BY <1>5, <1>11
  <2>8. Settled(c)
    <3>1. 1 \in {0, 1} OBVIOUS
    <3> QED BY <1>2, <1>3, <2>1, <2>5, <2>6, <2>7, <3>1, FailureSettled
  <2> QED BY <1>2, <1>3, <1>7, <1>8, <1>9, <2>3, <2>8, TaskStep
<1> QED BY <1>10, <1>11 DEF Status

(* A replica leaves a task alone only if the task may go on.               *)
LEMMA FailCheck ==
    ASSUME TypeOK, TypeOK', FailInv, NEW r \in Replica, Check(r) PROVE FailInv'
<1>1. PICK c : c = tick[r].cron OBVIOUS
<1>2. /\ tick[r].pc = "check" /\ faults' = faults /\ rec' = rec /\ misses' = misses
      /\ Go(r, IF rec[c].row = "stored" /\ Hopeless(rec[c].log) THEN "disable" ELSE "claim")
  BY <1>1 DEF Check
<1>3. c \in Cron /\ rec[c].row # "new"
  BY <1>1, <1>2 DEF TypeOK, FailInv, TicksKnown, Working
<1>4. \A d \in Cron : SameRow(d) BY <1>2 DEF SameRow
<1>5. \A d \in Cron : r \in About(d) => d = c BY <1>1 DEF About
<1>6. CASE rec[c].row = "stored" /\ Hopeless(rec[c].log)
  <2>1. Go(r, "disable") BY <1>2, <1>6
  <2>2. Alone(r) /\ tick'[r].pc = "disable" /\ tick'[r].cron = c BY <1>1, <2>1, TickGoes
  <2>3. r \in About(c)' BY <2>2 DEF About
  <2>4. \A d \in Cron : r \in About(d) => r \in About(d)' BY <1>5, <2>3
  <2>5. rec[tick'[r].cron].row # "new" BY <1>3, <2>2
  <2> QED BY <1>2, <1>4, <2>2, <2>4, <2>5, TickStep
<1>7. CASE ~(rec[c].row = "stored" /\ Hopeless(rec[c].log))
  <2>1. Go(r, "claim") BY <1>2, <1>7
  <2>2. Alone(r) /\ tick'[r].pc \notin Working BY <2>1, TickGoes DEF Working
  <2>3. misses[c] < MaxFails \/ ~Enabled(c)
    <3>1. CASE rec[c].row # "stored" BY <3>1 DEF Enabled
    <3>2. CASE rec[c].row = "stored" /\ ~Hopeless(rec[c].log)
      <4>1. Trail(rec[c].log, misses[c]) /\ misses[c] \in Nat /\ rec[c].log \in Seq(Status)
        BY <1>3, <3>2, TaskFacts
      <4>2. ~(misses[c] >= MaxFails) BY <3>2, <4>1, TrailTells
      <4> QED BY <4>1, <4>2, FailNumbers
    <3> QED BY <1>7, <3>1, <3>2
  <2>4. \A d \in Cron : r \in About(d) => misses[d] < MaxFails \/ ~Enabled(d)
    BY <1>5, <2>3
  <2> QED BY <1>2, <1>4, <2>2, <2>4, TickStep
<1> QED BY <1>6, <1>7

LEMMA FailDisable ==
    ASSUME TypeOK, TypeOK', FailInv, NEW r \in Replica, Disable(r) PROVE FailInv'
<1>1. PICK c : c = tick[r].cron OBVIOUS
<1>2. /\ tick[r].pc = "disable" /\ faults' = faults /\ misses' = misses /\ Go(r, "note")
      /\ rec' = IF rec[c].row = "stored" THEN [rec EXCEPT ![c].enabled = FALSE] ELSE rec
  BY <1>1 DEF Disable
<1>3. c \in Cron /\ rec[c].row # "new"
  BY <1>1, <1>2 DEF TypeOK, FailInv, TicksKnown, Working
<1>4. rec \in [Cron -> Row] BY DEF TypeOK
<1>5. \A d \in Cron : d # c => SameRow(d) BY <1>2, <1>4 DEF SameRow
<1>6. \A d \in Cron : d # c => r \notin About(d) BY <1>1 DEF About
<1>7. Alone(r) /\ tick'[r].cron = c BY <1>1, <1>2, TickGoes
<1>8. /\ rec'[c].row = rec[c].row /\ rec'[c].log = rec[c].log
      /\ ~(rec'[c].row = "stored" /\ rec'[c].enabled = TRUE)
  <2>1. CASE rec[c].row = "stored"
    <3>1. rec'[c] = [rec[c] EXCEPT !.enabled = FALSE] BY <1>2, <1>3, <1>4, <2>1
    <3>2. rec[c] \in Row BY <1>3, <1>4
    <3> QED BY <3>1, <3>2 DEF Row
  <2>2. CASE rec[c].row # "stored" BY <1>2, <2>2
  <2> QED BY <2>1, <2>2
<1>9. Settled(c)
  <2>1. rec[c].row = "stored" => Trail(rec[c].log, misses[c]) BY <1>3, TaskFacts
  <2>2. ~Enabled(c)' BY <1>8 DEF Enabled
  <2>3. rec'[c].row = "stored" => Trail(rec'[c].log, misses'[c]) BY <1>2, <1>8, <2>1
  <2> QED BY <1>3, <1>8, <2>2, <2>3 DEF Settled
<1>10. rec'[c].row # "new" BY <1>3, <1>8
<1> QED BY <1>2, <1>3, <1>5, <1>6, <1>7, <1>9, <1>10, TaskStep

LEMMA FailNote ==
    ASSUME TypeOK, TypeOK', FailInv, NEW r \in Replica, Note(r) PROVE FailInv'
<1>1. PICK c : c = tick[r].cron OBVIOUS
<1>2. /\ tick[r].pc = "note" /\ faults' = faults /\ misses' = misses /\ Go(r, "claim")
      /\ RecordFire(c, "failed")
  BY <1>1 DEF Note
<1>3. c \in Cron /\ rec[c].row # "new"
  BY <1>1, <1>2 DEF TypeOK, FailInv, TicksKnown, Working
<1>4. FireRecorded(c, "failed") BY <1>2, <1>3, RecordFireOutcome DEF Status
<1>5. misses \in [Cron -> Nat] BY DEF TypeOK
<1>6. \A d \in Cron : d # c => SameRow(d) BY <1>2, <1>4 DEF SameRow, FireRecorded
<1>7. rec'[c].row # "new" BY <1>3, <1>4 DEF FireRecorded
<1>8. \A d \in Cron : r \notin About(d) BY <1>2 DEF About
<1>9. Alone(r) /\ tick'[r].pc \notin Working BY <1>2, TickGoes DEF Working
<1>10. Settled(c)
  <2>1. misses[c] \in Nat BY <1>3, <1>5
  <2>2. misses'[c] = misses[c] + 0 BY <1>2, <2>1
  <2>3. Count(c)' \in Nat /\ Count(c)' >= Count(c) BY <1>3, <1>8, <1>9, CountMoves
  <2>4. Count(c)' >= Count(c) + 0 BY <2>3, CountType
  <2>5. 0 \in {0, 1} OBVIOUS
  <2> QED BY <1>2, <1>3, <1>4, <2>2, <2>3, <2>4, <2>5, FailureSettled
<1> QED BY <1>2, <1>3, <1>6, <1>7, <1>8, <1>9, <1>10, TaskStep

LEMMA FailFault ==
    ASSUME TypeOK, TypeOK', FailInv, NEW r \in Replica, Fault(r) PROVE FailInv'
<1>1. rec' = rec /\ misses' = misses /\ faults' = faults + 1 BY DEF Fault
<1>2. \A c \in Cron : SameRow(c) BY <1>1 DEF SameRow
<1>3. Alone(r) /\ tick'[r].pc \notin Working
  <2>1. CASE SetTick(r, NoTick)
    <3>1. Alone(r) /\ tick'[r] = NoTick BY <2>1, TickSet
    <3> QED BY <3>1 DEF NoTick, Working
  <2>2. CASE Go(r, "claim") BY <2>2, TickGoes DEF Working
  <2> QED BY <2>1, <2>2 DEF Fault
<1> QED BY <1>1, <1>2, <1>3, TickStep

LEMMA FailStep == TypeOK /\ FailInv /\ [Next]_vars => FailInv'
<1> SUFFICES ASSUME TypeOK, FailInv, [Next]_vars PROVE FailInv' OBVIOUS
<1>0. TypeOK' BY TypeStep
<1>1. ASSUME NEW c \in Cron, Create(c) \/ Update(c) \/ Remove(c) \/ RunNow(c)
      PROVE  FailInv'
  <2>1. CASE Update(c)
    <3>1. rec' = rec /\ tick' = tick /\ misses' = misses /\ faults' = faults
      BY <2>1 DEF Update
    <3>2. \A d \in Cron : SameRow(d) BY <3>1 DEF SameRow
    <3> QED BY <1>0, <3>1, <3>2, StillStep
  <2> QED BY <1>0, <1>1, <2>1, FailCreate, FailRemove, FailRunNow
<1>2. CASE Merge BY <1>0, <1>2, FailMerge
<1>3. ASSUME NEW r \in Replica, Scheduler(r) \/ Fault(r) PROVE FailInv'
  <2>1. CASE StartTick(r) \/ Due(r) \/ TickDone(r) BY <1>0, <2>1, FailQuietTick
  <2>2. CASE ClaimSlot(r) BY <1>0, <2>2, FailClaim
  <2>3. CASE RunEnds(r) BY <1>0, <2>3, FailRunEnds
  <2>4. CASE Check(r) BY <1>0, <2>4, FailCheck
  <2>5. CASE Disable(r) BY <1>0, <2>5, FailDisable
  <2>6. CASE Note(r) BY <1>0, <2>6, FailNote
  <2>7. CASE Fault(r) BY <1>0, <2>7, FailFault
  <2> QED BY <1>3, <2>1, <2>2, <2>3, <2>4, <2>5, <2>6, <2>7 DEF Scheduler
<1>4. CASE Clock \/ UNCHANGED vars
  <2>1. rec' = rec /\ tick' = tick /\ misses' = misses /\ faults' = faults
    BY <1>4 DEF Clock, vars
  <2>2. \A d \in Cron : SameRow(d) BY <2>1 DEF SameRow
  <2> QED BY <1>0, <2>1, <2>2, StillStep
<1> QED BY <1>1, <1>2, <1>3, <1>4 DEF Next

(* A task that keeps failing is disabled: at any moment it has failed      *)
(* fewer than MAX_CONSECUTIVE_FAILURES times in a row, not counting the    *)
(* replicas whose disableIfHopeless() is still to come and the faults that *)
(* kept one from it.                                                       *)
THEOREM GivesUpInTime == Spec => []GivesUp
<1>1. Init => TypeOK /\ FailInv BY TypeInit, FailInit
<1>2. TypeOK /\ FailInv /\ [Next]_vars => TypeOK' /\ FailInv' BY TypeStep, FailStep
<1>3. TypeOK /\ FailInv => GivesUp
  <2> SUFFICES ASSUME TypeOK, FailInv, NEW c \in Cron, Runnable(c)
               PROVE  misses[c] < MaxFails + faults + Count(c)
    BY DEF GivesUp, Count, About
  <2>1. rec[c].enabled \in BOOLEAN BY DEF TypeOK, Row
  <2>2. Enabled(c) BY <2>1 DEF Runnable, Enabled
  <2> QED BY <2>2, TaskFacts
<1> QED BY <1>1, <1>2, <1>3, PTL DEF Spec
===========================================================================
