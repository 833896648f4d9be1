----------------------------- MODULE AgentRuns -----------------------------
(***************************************************************************)
(* The runs of one agent process: the budgets of the run service           *)
(* (agent/run-service.js), the life of a turn (agent/run-turn.js), its     *)
(* sandbox session (sandbox/client.js) and the table of sticky handles     *)
(* through which the next turn finds the sandbox that was parked           *)
(* (sandbox/sticky.js).                                                    *)
(*                                                                         *)
(* A step is the code between two awaits.  The sandbox worker is reduced   *)
(* to what its answers depend on: whether a lease is held, parked or gone, *)
(* and which token it accepts.  Every request to it may get lost, before   *)
(* the worker acts or after.                                               *)
(***************************************************************************)
EXTENDS Naturals, Sequences, FiniteSets

CONSTANTS
    Run,           \* run identifiers execute() and compact() may draw
    User,          \* usernames
    Lease,         \* lease identifiers the worker may draw
    None,
    MaxRuns,       \* config.limits.maxConcurrentRuns
    MaxPerUser,    \* config.limits.maxRunsPerUser
    MaxEntries,    \* size of the table of sticky handles
    MaxOps,        \* bound: requests of one run on one lease in flight
    MaxToken       \* bound: how often a lease's token is rotated

(* What attach() needs to find a parked sandbox again, an entry of the     *)
(* table that holds such a handle for the run that claimed it, and who     *)
(* started a run.                                                          *)
Handle == [lease : Lease \cup {None}, token : Nat]
StickyEntry == [busy : Run \cup {None}, handle : Handle, stale : BOOLEAN]
Caller == [user : User, compact : BOOLEAN]

ASSUME NoneAssumption ==
    None \notin Run \cup User \cup Lease \cup StickyEntry \cup Caller
ASSUME NatAssumption ==
    /\ MaxRuns \in Nat /\ MaxPerUser \in Nat /\ MaxOps \in Nat
    /\ MaxToken \in Nat /\ MaxEntries \in Nat /\ MaxEntries > 0
ASSUME RunsFinite == IsFiniteSet(Run)

VARIABLES
    pc,       \* where each run is, see Stage
    who,      \* its user and whether it is a compaction
    active,   \* run-service: the Map "active"
    perUser,  \* run-service: the Map "perUser"
    entries,  \* sticky: the Map of handles, None for a key it does not have
    order,    \* sticky: its keys in insertion order
    claim,    \* what claim() returned: [owner, handle]
    sess,     \* the sandbox session's [lease, token]
    opening,  \* ensureLease() has a request for a new lease in flight
    ops,      \* ops[r][l]: tool requests of r on lease l in flight
    wl        \* the worker's leases

vars == <<pc, who, active, perUser, entries, order, claim, sess, opening, ops,
          wl>>

(***************************************************************************)
(* new      not started              setup   buildContext .. mkdtemp       *)
(* quota    awaits quota.assert      load    in runTurn's try: store.load  *)
(* broker   awaits the model access  attach  POST /attach in flight        *)
(* work     prompt, save, syncBack   close   finish() is called            *)
(* park     POST /park in flight     free    DELETE in flight              *)
(* after    sandbox given back       done                                  *)
(***************************************************************************)
Stage == {"new", "quota", "broker", "setup", "load", "attach", "work", "close",
          "park", "free", "after", "done"}
InProgress == Stage \ {"new", "quota", "done"}

NoSess == [lease |-> None, token |-> 0]
NoClaim == [owner |-> FALSE, handle |-> NoSess]
Unused == [st |-> "unused", token |-> 0, user |-> None, lost |-> FALSE]
(* An entry of the table; a placeholder has no lease.  "stale" is whether  *)
(* expiresAt has passed, which placeholders never do.                      *)
Placeholder(r) == [busy |-> r, handle |-> NoSess, stale |-> FALSE]
Kept(h) == [busy |-> None, handle |-> h, stale |-> FALSE]

(* keyOf(username, sessionKey).  execute() creates the sandbox session     *)
(* without a sessionKey, so that createSession's default applies to every  *)
(* session of the user.                                                    *)
Key(r) == who[r].user
Entry(r) == entries[Key(r)]
Mine(r) == Entry(r) # None /\ Entry(r).busy = r

Init ==
    /\ pc = [r \in Run |-> "new"]
    /\ who = [r \in Run |-> None]
    /\ active = {}
    /\ perUser = [u \in User |-> 0]
    /\ entries = [u \in User |-> None]
    /\ order = <<>>
    /\ claim = [r \in Run |-> NoClaim]
    /\ sess = [r \in Run |-> NoSess]
    /\ opening = [r \in Run |-> FALSE]
    /\ ops = [r \in Run |-> [l \in Lease |-> 0]]
    /\ wl = [l \in Lease |-> Unused]

Goto(r, stage) == pc' = [pc EXCEPT ![r] = stage]
---------------------------------------------------------------------------
(* POST /v1/chat and the like; compact() passes the same gates. *)
Execute(r, u) ==
    /\ pc[r] = "new"
    /\ \E c \in BOOLEAN :
         who' = [who EXCEPT ![r] = [user |-> u, compact |-> c]]
    /\ Goto(r, "quota")
    /\ UNCHANGED <<active, perUser, entries, order, claim, sess, opening, ops, wl>>

(* acquire(): both limits, tested and taken without an await in between. *)
HasRoom(r) ==
    /\ Cardinality(active) < MaxRuns
    /\ perUser[who[r].user] < MaxPerUser
Begin(r) ==
    /\ pc[r] = "quota" /\ HasRoom(r)
    /\ perUser' = [perUser EXCEPT ![who[r].user] = @ + 1]
    /\ active' = active \cup {r}
    /\ Goto(r, "broker")
    /\ UNCHANGED <<who, entries, order, claim, sess, opening, ops, wl>>

(* quota.assert rejected, or a limit is reached: nothing was taken. *)
Refuse(r) ==
    /\ pc[r] = "quota"
    /\ Goto(r, "done")
    /\ who' = [who EXCEPT ![r] = None]
    /\ UNCHANGED <<active, perUser, entries, order, claim, sess, opening, ops, wl>>

(* release(), in the finally of execute() and compact(). *)
ReleaseKeepsCount(r) ==
    /\ active' = active \ {r}
    /\ UNCHANGED perUser
Release(r) ==
    /\ active' = active \ {r}
    /\ perUser' = [perUser EXCEPT ![who[r].user] = IF @ > 0 THEN @ - 1 ELSE 0]

(* The run ends: no model access, a failed setup before runTurn's try, a   *)
(* compaction that is over, or a turn whose sandbox session is closed.     *)
(* A setup that fails (tool assembly, mkdtemp) leaves its claim in the     *)
(* table.                                                                  *)
Finish(r) ==
    /\ pc[r] \in {"broker", "setup", "after"}
    /\ Release(r)
    /\ Goto(r, "done")
    /\ who' = [who EXCEPT ![r] = None]
    /\ claim' = [claim EXCEPT ![r] = NoClaim]
    /\ UNCHANGED <<entries, order, sess, opening, ops, wl>>
---------------------------------------------------------------------------
(* Map.delete(): the key is once in the order, if at all. *)
Positions(seq, k) == {i \in 1 .. Len(seq) : seq[i] = k}
Without(seq, k) ==
    IF Positions(seq, k) = {} THEN seq
    ELSE LET i == CHOOSE p \in Positions(seq, k) : TRUE
         IN  SubSeq(seq, 1, i - 1) \o SubSeq(seq, i + 1, Len(seq))

(* Setting a key that is not in the Map puts it last; beyond maxEntries    *)
(* the oldest key goes, in use or not.                                     *)
AddPlaceholderNoEviction(r) ==
    /\ order' = Append(order, Key(r))
    /\ entries' = [entries EXCEPT ![Key(r)] = Placeholder(r)]
AddPlaceholder(r) ==
    LET k == Key(r)
        evict == Len(order) >= MaxEntries
    IN  /\ order' = IF evict THEN Append(Tail(order), k) ELSE Append(order, k)
        /\ entries' = [u \in User |->
             IF u = k THEN Placeholder(r)
             ELSE IF evict /\ u = Head(order) THEN None ELSE entries[u]]

(* sticky.claim(), in createSession. *)
ClaimIgnoresBusy(r) ==
    LET e == Entry(r) IN
    \/ /\ e = None
       /\ claim' = [claim EXCEPT ![r] = [owner |-> TRUE, handle |-> NoSess]]
       /\ AddPlaceholder(r)
    \/ /\ e # None
       /\ claim' = [claim EXCEPT ![r] = [owner |-> TRUE, handle |-> e.handle]]
       /\ entries' = [entries EXCEPT ![Key(r)].busy = r]
       /\ UNCHANGED order
Claim(r) ==
    LET e == Entry(r) IN
    \/ /\ e = None
       /\ claim' = [claim EXCEPT ![r] = [owner |-> TRUE, handle |-> NoSess]]
       /\ AddPlaceholder(r)
    \/ /\ e # None /\ e.busy \notin {None, r}
       /\ UNCHANGED <<claim, entries, order>>
    \/ /\ e # None /\ e.busy \in {None, r} /\ e.stale
       /\ claim' = [claim EXCEPT ![r] = [owner |-> TRUE, handle |-> NoSess]]
       /\ entries' = [entries EXCEPT ![Key(r)] = None]
       /\ order' = Without(order, Key(r))
    \/ /\ e # None /\ e.busy \in {None, r} /\ ~e.stale
       /\ claim' = [claim EXCEPT ![r] = [owner |-> TRUE, handle |-> e.handle]]
       /\ entries' = [entries EXCEPT ![Key(r)].busy = r]
       /\ UNCHANGED order

(* keep(), drop() and forget() do nothing unless the claim is still there. *)
Keep(r, h) ==
    /\ entries' = IF Mine(r) THEN [entries EXCEPT ![Key(r)] = Kept(h)] ELSE entries
    /\ UNCHANGED order
Drop(r) ==
    /\ entries' = IF Mine(r) THEN [entries EXCEPT ![Key(r)] = None] ELSE entries
    /\ order' = IF Mine(r) THEN Without(order, Key(r)) ELSE order
Forget(r) ==
    /\ entries' = IF Mine(r) THEN [entries EXCEPT ![Key(r)] = Placeholder(r)]
                             ELSE entries
    /\ UNCHANGED order

(* The park window of a handle that waits in the table ends. *)
HandleExpires(u) ==
    /\ entries[u] # None /\ entries[u].handle # NoSess /\ ~entries[u].stale
    /\ entries' = [entries EXCEPT ![u].stale = TRUE]
    /\ UNCHANGED <<pc, who, active, perUser, order, claim, sess, opening, ops, wl>>
---------------------------------------------------------------------------
(* The model access has arrived: createSession claims the handle. *)
CreateSession(r) ==
    /\ pc[r] = "broker" /\ ~who[r].compact
    /\ Claim(r)
    /\ Goto(r, "setup")
    /\ UNCHANGED <<who, active, perUser, sess, opening, ops, wl>>

(* runTurn has its directories and enters the try whose finally closes     *)
(* the sandbox session.                                                    *)
EnterTurn(r) ==
    /\ pc[r] = "setup"
    /\ Goto(r, "load")
    /\ UNCHANGED <<who, active, perUser, entries, order, claim, sess, opening,
                   ops, wl>>

(* The transcript is loaded (or loading failed); with a handle, resume()   *)
(* tries to attach.                                                        *)
Loaded(r) ==
    /\ pc[r] = "load"
    /\ \/ Goto(r, IF claim[r].handle # NoSess THEN "attach" ELSE "work")
       \/ Goto(r, "close")
    /\ UNCHANGED <<who, active, perUser, entries, order, claim, sess, opening,
                   ops, wl>>

(* The worker's side of POST /attach: parked, the token fits, the user     *)
(* fits; the token is rotated.                                             *)
Attachable(l, t, u) ==
    wl[l].st = "parked" /\ wl[l].token = t /\ wl[l].user = u
RotatedToken(l) == wl[l].token + 1

AttachOk(r) ==
    LET h == claim[r].handle IN
    /\ pc[r] = "attach"
    /\ Attachable(h.lease, h.token, who[r].user)
    /\ RotatedToken(h.lease) <= MaxToken
    /\ wl' = [wl EXCEPT ![h.lease].st = "held", ![h.lease].token = RotatedToken(h.lease)]
    /\ sess' = [sess EXCEPT ![r] = [lease |-> h.lease, token |-> RotatedToken(h.lease)]]
    /\ Goto(r, "work")
    /\ UNCHANGED <<who, active, perUser, entries, order, claim, opening, ops>>

(* Refused, or no answer: the worker may have attached all the same. *)
AttachFails(r) ==
    LET h == claim[r].handle IN
    /\ pc[r] = "attach"
    /\ \/ UNCHANGED wl
       \/ /\ Attachable(h.lease, h.token, who[r].user)
          /\ RotatedToken(h.lease) <= MaxToken
          /\ wl' = [wl EXCEPT ![h.lease] =
               [@ EXCEPT !.st = "held", !.token = RotatedToken(h.lease), !.lost = TRUE]]
    /\ Forget(r)
    /\ claim' = [claim EXCEPT ![r].handle = NoSess]
    /\ Goto(r, "work")
    /\ UNCHANGED <<who, active, perUser, sess, opening, ops>>
---------------------------------------------------------------------------
(* ensureLease() of the first tool that needs the sandbox; further ones    *)
(* join the request in flight.                                             *)
OpenLease(r) ==
    /\ pc[r] = "work" /\ sess[r] = NoSess /\ ~opening[r]
    /\ opening' = [opening EXCEPT ![r] = TRUE]
    /\ UNCHANGED <<pc, who, active, perUser, entries, order, claim, sess, ops, wl>>

Fresh(l, r, lost) ==
    [st |-> "held", token |-> 1, user |-> who[r].user, lost |-> lost]
LeaseOpened(r, l) ==
    /\ opening[r] /\ wl[l] = Unused
    /\ wl' = [wl EXCEPT ![l] = Fresh(l, r, FALSE)]
    /\ sess' = [sess EXCEPT ![r] = [lease |-> l, token |-> 1]]
    /\ opening' = [opening EXCEPT ![r] = FALSE]
    /\ UNCHANGED <<pc, who, active, perUser, entries, order, claim, ops>>
(* An answer is lost: the loop asks again, the lease has no owner. *)
LeaseAnswerLost(r, l) ==
    /\ opening[r] /\ wl[l] = Unused
    /\ wl' = [wl EXCEPT ![l] = Fresh(l, r, TRUE)]
    /\ UNCHANGED <<pc, who, active, perUser, entries, order, claim, sess, opening,
                   ops>>
OpenFails(r) ==
    /\ opening[r]
    /\ opening' = [opening EXCEPT ![r] = FALSE]
    /\ UNCHANGED <<pc, who, active, perUser, entries, order, claim, sess, ops, wl>>

(* exec, browserAction and the file operations. *)
OpsOf(r) == {l \in Lease : ops[r][l] > 0}
Operate(r) ==
    /\ pc[r] = "work" /\ sess[r] # NoSess
    /\ ops[r][sess[r].lease] < MaxOps
    /\ ops' = [ops EXCEPT ![r][sess[r].lease] = @ + 1]
    /\ UNCHANGED <<pc, who, active, perUser, entries, order, claim, sess, opening,
                   wl>>
OperationEnds(r, l) ==
    /\ ops[r][l] > 0
    /\ ops' = [ops EXCEPT ![r][l] = @ - 1]
    /\ UNCHANGED <<pc, who, active, perUser, entries, order, claim, sess, opening,
                   wl>>
(* 404: forgetLease(session), whichever lease the session has by now.  A   *)
(* late one makes the session lose a lease that is alive.                  *)
OperationFindsNoLease(r, l) ==
    /\ ops[r][l] > 0 /\ wl[l].st = "gone"
    /\ ops' = [ops EXCEPT ![r][l] = @ - 1]
    /\ sess' = [sess EXCEPT ![r] = NoSess]
    /\ wl' = IF sess[r] = NoSess THEN wl
             ELSE [wl EXCEPT ![sess[r].lease].lost = TRUE]
    /\ UNCHANGED <<pc, who, active, perUser, entries, order, claim, opening>>

(* session.prompt returns or throws once every tool call has ended (an     *)
(* abort or the run's timeout ends them too); then the write-back.         *)
TurnEnds(r) ==
    /\ pc[r] = "work" /\ ~opening[r] /\ OpsOf(r) = {}
    /\ Goto(r, "close")
    /\ UNCHANGED <<who, active, perUser, entries, order, claim, sess, opening,
                   ops, wl>>
---------------------------------------------------------------------------
(* finish({ park }) up to its first await.  Whether to park depends on the *)
(* policy and on whether the turn had a browser open.                      *)
CloseUntouched(r) ==
    /\ pc[r] = "close" /\ sess[r] = NoSess
    /\ CASE ~claim[r].owner -> UNCHANGED <<entries, order>>
         [] claim[r].owner /\ claim[r].handle # NoSess -> Keep(r, claim[r].handle)
         [] OTHER -> Drop(r)
    /\ Goto(r, "after")
    /\ UNCHANGED <<who, active, perUser, claim, sess, opening, ops, wl>>
CloseLeased(r) ==
    /\ pc[r] = "close" /\ sess[r] # NoSess
    /\ \/ Goto(r, "free")
       \/ claim[r].owner /\ Goto(r, "park")
    /\ UNCHANGED <<who, active, perUser, entries, order, claim, sess, opening,
                   ops, wl>>

(* The worker parks the lease and says so: the handle is kept. *)
Accepted(r) ==
    /\ wl[sess[r].lease].st = "held"
    /\ wl[sess[r].lease].token = sess[r].token
ParkOk(r) ==
    LET l == sess[r].lease IN
    /\ pc[r] = "park" /\ Accepted(r)
    /\ wl' = [wl EXCEPT ![l].st = "parked"]
    /\ Keep(r, sess[r])
    /\ sess' = [sess EXCEPT ![r] = NoSess]
    /\ Goto(r, "after")
    /\ UNCHANGED <<who, active, perUser, claim, opening, ops>>
(* Refused, or no answer (the worker may have parked it): release instead. *)
ParkFailsForgets(r) ==
    /\ pc[r] = "park"
    /\ Drop(r)
    /\ sess' = [sess EXCEPT ![r] = NoSess]
    /\ Goto(r, "after")
    /\ UNCHANGED <<who, active, perUser, claim, opening, ops, wl>>
ParkFails(r) ==
    LET l == sess[r].lease IN
    /\ pc[r] = "park"
    /\ \/ UNCHANGED wl
       \/ Accepted(r) /\ wl' = [wl EXCEPT ![l].st = "parked"]
    /\ Goto(r, "free")
    /\ UNCHANGED <<who, active, perUser, entries, order, claim, sess, opening, ops>>

(* DELETE answered, or lost: then the worker's sweep is left to reclaim. *)
Freed(r) ==
    LET l == sess[r].lease IN
    /\ pc[r] = "free"
    /\ \/ wl[l].token = sess[r].token /\ wl' = [wl EXCEPT ![l].st = "gone"]
       \/ wl' = [wl EXCEPT ![l].lost = TRUE]
    /\ IF claim[r].owner THEN Drop(r) ELSE UNCHANGED <<entries, order>>
    /\ sess' = [sess EXCEPT ![r] = NoSess]
    /\ Goto(r, "after")
    /\ UNCHANGED <<who, active, perUser, claim, opening, ops>>

(* The worker takes a lease away: expiry, preemption, a restart. *)
LeaseGone(l) ==
    /\ wl[l].st \in {"held", "parked"}
    /\ wl' = [wl EXCEPT ![l].st = "gone"]
    /\ UNCHANGED <<pc, who, active, perUser, entries, order, claim, sess, opening,
                   ops>>

RunStep(r) ==
    \/ \E u \in User : Execute(r, u)
    \/ Begin(r) \/ Refuse(r) \/ Finish(r) \/ CreateSession(r) \/ EnterTurn(r)
    \/ Loaded(r) \/ AttachOk(r) \/ AttachFails(r)
    \/ OpenLease(r) \/ OpenFails(r) \/ Operate(r)
    \/ TurnEnds(r) \/ CloseUntouched(r) \/ CloseLeased(r)
    \/ ParkOk(r) \/ ParkFails(r) \/ Freed(r)
LeaseStep(r, l) ==
    \/ LeaseOpened(r, l) \/ LeaseAnswerLost(r, l)
    \/ OperationEnds(r, l) \/ OperationFindsNoLease(r, l)

Next ==
    \/ \E r \in Run : RunStep(r) \/ \E l \in Lease : LeaseStep(r, l)
    \/ \E u \in User : HandleExpires(u)
    \/ \E l \in Lease : LeaseGone(l)

Spec == Init /\ [][Next]_vars
---------------------------------------------------------------------------
DataOK ==
    /\ pc \in [Run -> Stage]
    /\ who \in [Run -> Caller \cup {None}]
    /\ active \subseteq Run
    /\ perUser \in [User -> Nat]
    /\ claim \in [Run -> [owner : BOOLEAN, handle : Handle]]
    /\ sess \in [Run -> Handle]
    /\ opening \in [Run -> BOOLEAN]
    /\ ops \in [Run -> [Lease -> Nat]]
    /\ wl \in [Lease -> [st : {"unused", "held", "parked", "gone"}, token : Nat,
                         user : User \cup {None}, lost : BOOLEAN]]
    /\ entries \in [User -> StickyEntry \cup {None}]

(* The table of handles: every key once in the order, and never too many.  *)
TableOK ==
    /\ order \in Seq(User)
    /\ Len(order) <= MaxEntries
    /\ \A u \in User : entries[u] # None <=> \E i \in 1 .. Len(order) : order[i] = u
    /\ \A i, j \in 1 .. Len(order) : order[i] = order[j] => i = j

TypeOK == DataOK /\ TableOK

(* The two budgets count exactly the runs and compactions between acquire  *)
(* and the last finally: nothing leaks on an error path, nothing is given  *)
(* back twice, and the limits hold although quota.assert is awaited first. *)
BudgetExact ==
    /\ active = {r \in Run : pc[r] \in InProgress}
    /\ \A u \in User : perUser[u] = Cardinality({r \in active : who[r].user = u})
    /\ Cardinality(active) <= MaxRuns
    /\ \A u \in User : perUser[u] <= MaxPerUser

(* A run is never handed the handle of another user's sandbox, whose token *)
(* is the right to execute in it, and two runs never work with a handle of *)
(* one parked sandbox, even after the table dropped an entry in use.       *)
WithSandbox == InProgress \ {"broker", "after"}
ClaimExclusive ==
    \A r \in Run : claim[r].handle # NoSess =>
        /\ wl[claim[r].handle.lease].user = who[r].user
        /\ \A q \in Run \ {r} :
             pc[r] \in WithSandbox /\ pc[q] \in WithSandbox =>
                 claim[r].handle.lease # claim[q].handle.lease

(* A lease the worker still counts as in use belongs to a run in progress, *)
(* unless a message about it was lost or a late 404 made its run forget    *)
(* it: a refused park, a failed turn or an attach never leave a slot       *)
(* occupied.                                                               *)
HeldLeaseHasRun ==
    \A l \in Lease : wl[l].st = "held" /\ ~wl[l].lost =>
        \E r \in Run : pc[r] \in InProgress /\ sess[r].lease = l

(* Who has a sandbox: one run of its user at most, and one at least.       *)
SandboxesOwned == ClaimExclusive /\ HeldLeaseHasRun
===========================================================================
