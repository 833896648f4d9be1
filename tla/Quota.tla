------------------------------- MODULE Quota -------------------------------
(***************************************************************************)
(* The gate that a turn passes before it starts.  A group sets a total and *)
(* a daily limit of tokens, counted per person; what a turn has spent is   *)
(* known when it has ended, and the row that says so is written while      *)
(* nobody waits for it.  Every query is a step of its own, so that rows,   *)
(* other turns and an administrator's changes come between the gate's      *)
(* reads.  Of a person's rows only the sums matter: all, and today's.      *)
(***************************************************************************)
EXTENDS Integers, FiniteSets

CONSTANTS People,
          Turns,       \* bound: turns of all people together
          MaxTokens,   \* bound: input and output tokens of a turn
          Limits,      \* values that the limits of the group may have, 0 for none
          MaxChanges,  \* bound: changes of limits and of membership, midnights
          PerUser      \* MAX_RUNS_PER_USER

VARIABLES
    limit,    \* the group's tokenQuota and dailyTokenQuota
    members,  \* people in the group; the others have no limit
    ledger,   \* username -> the sums of its rows
    turn,     \* the turns
    changes   \* what is left of MaxChanges

vars == <<limit, members, ledger, turn, changes>>

Idle == [st |-> "idle"]
Done == [st |-> "done"]
NoLimit == [total |-> 0, daily |-> 0]

\* What check() reads of the account and its group.
LimitOf(u) == IF u \in members THEN limit ELSE NoLimit

\* check: a limit of 0 is none, and one that is reached refuses.
Exhausted(sums, lim) ==
    (lim.total > 0 /\ sums.total >= lim.total) \/ (lim.daily > 0 /\ sums.today >= lim.daily)
ExhaustedPast(sums, lim) ==
    (lim.total > 0 /\ sums.total > lim.total) \/ (lim.daily > 0 /\ sums.today > lim.daily)
Refuses(sums, lim) == Exhausted(sums, lim)

Busy(u) == Cardinality({t \in Turns : turn[t].st = "running" /\ turn[t].user = u})
Go(t, q) == turn' = [turn EXCEPT ![t] = q]

-----------------------------------------------------------------------------
(* A turn.  spent: whether the limits were reached when it was asked for;  *)
(* free: whether something has set the person free since, or a read has    *)
(* failed, which opens the gate; before: what a turn that was asked for    *)
(* before midnight still counts of that day.                               *)

At(st, q) == [st |-> st, user |-> q.user, spent |-> q.spent, free |-> q.free]

\* The account, then its group.
Ask(t, u) ==
    /\ turn[t] = Idle
    /\ \E failed \in BOOLEAN :
         Go(t, [st |-> "asked", user |-> u, lim |-> IF failed THEN NoLimit ELSE LimitOf(u),
                spent |-> Exhausted(ledger[u], LimitOf(u)), free |-> failed, before |-> 0])
    /\ UNCHANGED <<limit, members, ledger, changes>>

\* totalsForUser, which is not asked when there is no limit.
Check(t) ==
    LET q == turn[t]
        sums == [ledger[q.user] EXCEPT !.today = @ + q.before] IN
    /\ q.st = "asked"
    /\ Go(t, IF Refuses(sums, q.lim) THEN Done ELSE At("passed", q))
    /\ UNCHANGED <<limit, members, ledger, changes>>

CheckFails(t) ==
    /\ turn[t].st = "asked" /\ turn[t].lim # NoLimit
    /\ Go(t, At("passed", [turn[t] EXCEPT !.free = TRUE]))
    /\ UNCHANGED <<limit, members, ledger, changes>>

\* The person may have too many turns already, or the replica.
Acquire(t) ==
    LET q == turn[t] IN
    /\ q.st = "passed"
    /\ \/ Busy(q.user) < PerUser /\ Go(t, At("running", q))
       \/ Go(t, Done)
    /\ UNCHANGED <<limit, members, ledger, changes>>

\* A turn that fails or spends nothing leaves no row, and neither does a
\* compaction.
End(t) ==
    /\ turn[t].st = "running"
    /\ \/ Go(t, Done)
       \/ \E n \in 0..MaxTokens : Go(t, [st |-> "insert", user |-> turn[t].user, tokens |-> n])
    /\ UNCHANGED <<limit, members, ledger, changes>>

Record(t) ==
    LET q == turn[t] IN
    /\ q.st = "insert"
    /\ ledger' = [ledger EXCEPT ![q.user] =
                    [total |-> @.total + q.tokens, today |-> @.today + q.tokens]]
    /\ Go(t, Done)
    /\ UNCHANGED <<limit, members, changes>>

\* The insert fails, or the process ends before it.
RecordLost(t) ==
    /\ turn[t].st = "insert"
    /\ Go(t, Done)
    /\ UNCHANGED <<limit, members, ledger, changes>>

-----------------------------------------------------------------------------
(* What changes around them.                                               *)

Freed(us) == turn' = [t \in Turns |-> IF turn[t].st = "asked" /\ turn[t].user \in us
                                      THEN [turn[t] EXCEPT !.free = TRUE] ELSE turn[t]]
Change == changes > 0 /\ changes' = changes - 1

SetLimits(lim) ==
    /\ lim # limit /\ limit' = lim
    /\ Change /\ Freed(People)
    /\ UNCHANGED <<members, ledger>>

SetGroup(u) ==
    /\ \/ u \in members /\ members' = members \ {u}
       \/ u \notin members /\ members' = members \union {u}
    /\ Change /\ Freed({u})
    /\ UNCHANGED <<limit, ledger>>

Midnight ==
    /\ ledger' = [u \in People |-> [total |-> ledger[u].total, today |-> 0]]
    /\ turn' = [t \in Turns |->
                  IF turn[t].st # "asked" THEN turn[t]
                  ELSE [turn[t] EXCEPT !.free = TRUE,
                                       !.before = @ + ledger[turn[t].user].today]]
    /\ Change
    /\ UNCHANGED <<limit, members>>

Init ==
    /\ limit \in [total : Limits, daily : Limits]
    /\ members = People
    /\ ledger = [u \in People |-> [total |-> 0, today |-> 0]]
    /\ turn = [t \in Turns |-> Idle]
    /\ changes = MaxChanges

Next ==
    \/ \E t \in Turns : \/ \E u \in People : Ask(t, u)
                        \/ Check(t) \/ CheckFails(t) \/ Acquire(t)
                        \/ End(t) \/ Record(t) \/ RecordLost(t)
    \/ \E a, b \in Limits : SetLimits([total |-> a, daily |-> b])
    \/ Midnight \/ \E u \in People : SetGroup(u)

Spec == Init /\ [][Next]_vars
-----------------------------------------------------------------------------
TypeOK ==
    /\ limit \in [total : Limits, daily : Limits]
    /\ members \subseteq People
    /\ \A u \in People : ledger[u].today \in 0..ledger[u].total /\ Busy(u) <= PerUser
    /\ \A t \in Turns : turn[t].st \in {"idle", "asked", "passed", "running", "insert", "done"}

(* Once the rows that were written have reached a limit, a person's next   *)
(* turn is refused, however rows, turns and limits change meanwhile, until *)
(* midnight or an administrator sets the person free; a gate that could    *)
(* not be read is open.  (quota.js: what is too much is held against the   *)
(* next turn.)                                                             *)
Gated == \A t \in Turns : turn[t].st \in {"passed", "running"} /\ turn[t].spent => turn[t].free
=============================================================================
