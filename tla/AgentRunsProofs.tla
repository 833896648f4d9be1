-------------------------- MODULE AgentRunsProofs --------------------------
(* Proofs about AgentRuns, for any runs, users, leases and limits. *)
EXTENDS AgentRuns, FiniteSetTheorems, TLAPS

(* What the stage of a run says of it: without a user before it starts and *)
(* after it ended, without a claim before it has a session, and without a  *)
(* sandbox before it works and after it closed.                            *)
Staged ==
    \A r \in Run :
      /\ pc[r] \notin {"new", "done"} => who[r] # None
      /\ pc[r] \in {"new", "quota", "broker", "done"} => claim[r] = NoClaim
      /\ pc[r] = "attach" => claim[r].handle # NoSess
      /\ pc[r] \notin {"work", "close", "park", "free"} => sess[r] = NoSess
      /\ pc[r] \in {"park", "free"} => sess[r] # NoSess
      /\ opening[r] => pc[r] = "work" /\ sess[r] = NoSess
      /\ \A l \in Lease : ops[r][l] > 0 => pc[r] = "work"

(* A handle names a lease the worker once gave to the user.                *)
Names(w, h, u) ==
    h # NoSess => h.lease \in Lease /\ w[h.lease].st # "unused" /\ w[h.lease].user = u
HandlesKnown ==
    /\ \A r \in Run : /\ Names(wl, claim[r].handle, who[r].user)
                     /\ Names(wl, sess[r], who[r].user)
    /\ \A u \in User : entries[u] # None => Names(wl, entries[u].handle, u)

(* The runs that may speak to a lease: at most one, and while one may, an  *)
(* entry of the table with the lease's handle is marked with its claim.    *)
Holds(r, l) ==
    \/ sess[r].lease = l
    \/ pc[r] \in WithSandbox /\ claim[r].handle.lease = l
OneHolder ==
    \A l \in Lease : \A r, q \in Run : Holds(r, l) /\ Holds(q, l) => r = q
HolderBusy ==
    \A u \in User : \A r \in Run : \A l \in Lease :
      entries[u] # None /\ entries[u].handle.lease = l /\ Holds(r, l)
        => entries[u].busy = r

Inv == /\ DataOK /\ TableOK /\ BudgetExact /\ Staged /\ HandlesKnown
       /\ OneHolder /\ HolderBusy /\ HeldLeaseHasRun
---------------------------------------------------------------------------
(* Records and constants have their types.                                 *)
Leases == [st : {"unused", "held", "parked", "gone"}, token : Nat,
           user : User \cup {None}, lost : BOOLEAN]

LEMMA RecordTypes ==
    /\ NoSess \in Handle /\ NoSess.lease = None
    /\ NoClaim \in [owner : BOOLEAN, handle : Handle] /\ NoClaim.handle = NoSess
    /\ Unused \in Leases /\ Unused.st = "unused"
    /\ \A r \in Run : Placeholder(r) \in StickyEntry
    /\ \A h \in Handle : Kept(h) \in StickyEntry
BY DEF NoSess, NoClaim, Unused, Placeholder, Kept, Handle, StickyEntry, Leases

LEMMA LeaseUpdates ==
    ASSUME DataOK, NEW l \in Lease
    PROVE  /\ \A s \in {"held", "parked", "gone"} :
                [wl EXCEPT ![l].st = s] \in [Lease -> Leases]
           /\ [wl EXCEPT ![l].lost = TRUE] \in [Lease -> Leases]
           /\ \A t \in Nat :
                [wl EXCEPT ![l] = [@ EXCEPT !.st = "held", !.token = t, !.lost = TRUE]]
                  \in [Lease -> Leases]
<1>0. wl \in [Lease -> Leases] /\ wl[l] \in Leases BY DEF DataOK, Leases
<1>1. \A s \in {"held", "parked", "gone"} : [wl[l] EXCEPT !.st = s] \in Leases
  BY <1>0 DEF Leases
<1>2. [wl[l] EXCEPT !.lost = TRUE] \in Leases BY <1>0 DEF Leases
<1>3. \A t \in Nat : [wl[l] EXCEPT !.st = "held", !.token = t, !.lost = TRUE] \in Leases
  BY <1>0 DEF Leases
<1> QED BY <1>0, <1>1, <1>2, <1>3

(* A run that is neither new nor done has a user.                          *)
LEMMA HasUser ==
    ASSUME DataOK, Staged, NEW r \in Run, pc[r] \notin {"new", "done"}
    PROVE  /\ who[r] \in Caller
           /\ who[r].user \in User /\ Key(r) \in User
BY DEF DataOK, Staged, Key, Caller
---------------------------------------------------------------------------
(* The operations on the table change one entry; others may be evicted.    *)
OnlyKey(r) ==
    /\ entries' \in [User -> StickyEntry \cup {None}]
    /\ \A u \in User : u # Key(r) => entries'[u] \in {entries[u], None}

LEMMA EntryType ==
    ASSUME DataOK, NEW u \in User, entries[u] # None
    PROVE  /\ entries[u] \in StickyEntry /\ entries[u].busy \in Run \cup {None}
           /\ entries[u].handle \in Handle /\ entries[u].stale \in BOOLEAN
BY DEF DataOK, StickyEntry

Taken(r, h) == [owner |-> TRUE, handle |-> h]
LEMMA ClaimOutcome ==
    ASSUME DataOK, NEW r \in Run, Key(r) \in User, Claim(r)
    PROVE  /\ OnlyKey(r)
           /\ \/ claim' = claim /\ entries' = entries
              \/ /\ claim' = [claim EXCEPT ![r] = Taken(r, NoSess)]
                 /\ entries'[Key(r)] \in {None, Placeholder(r)}
              \/ /\ claim' = [claim EXCEPT ![r] = Taken(r, Entry(r).handle)]
                 /\ Entry(r) # None /\ Entry(r).busy \in {None, r}
                 /\ entries'[Key(r)] = [Entry(r) EXCEPT !.busy = r]
                 /\ \A u \in User : u # Key(r) => entries'[u] = entries[u]
<1> DEFINE e == Entry(r)
<1>0. entries \in [User -> StickyEntry \cup {None}] /\ Placeholder(r) \in StickyEntry
  BY RecordTypes DEF DataOK, StickyEntry
<1>1. CASE e = None
  <2>1. /\ claim' = [claim EXCEPT ![r] = Taken(r, NoSess)]
        /\ AddPlaceholder(r)
    BY <1>1 DEF Claim, Taken
  <2> QED BY <1>0, <2>1 DEF AddPlaceholder, OnlyKey
<1>2. CASE e # None /\ e.busy \notin {None, r}
  BY <1>0, <1>2 DEF Claim, OnlyKey
<1>3. CASE e # None /\ e.busy \in {None, r} /\ e.stale
  <2>1. /\ claim' = [claim EXCEPT ![r] = Taken(r, NoSess)]
        /\ entries' = [entries EXCEPT ![Key(r)] = None]
    BY <1>3 DEF Claim, Taken
  <2> QED BY <1>0, <2>1 DEF OnlyKey
<1>4. CASE e # None /\ e.busy \in {None, r} /\ ~e.stale
  <2>1. /\ claim' = [claim EXCEPT ![r] = Taken(r, e.handle)]
        /\ entries' = [entries EXCEPT ![Key(r)].busy = r]
    BY <1>4 DEF Claim, Taken
  <2>2. e \in StickyEntry BY <1>4, EntryType DEF Entry
  <2>3. [e EXCEPT !.busy = r] \in StickyEntry BY <2>2 DEF StickyEntry
  <2>4. entries'[Key(r)] = [e EXCEPT !.busy = r] BY <1>0, <2>1 DEF Entry
  <2>5. OnlyKey(r) BY <1>0, <2>1, <2>3, <2>4 DEF OnlyKey
  <2>6. \A u \in User : u # Key(r) => entries'[u] = entries[u] BY <1>0, <2>1
  <2> QED BY <1>4, <2>1, <2>4, <2>5, <2>6
<1> QED BY <1>1, <1>2, <1>3, <1>4

LEMMA KeepOutcome ==
    ASSUME DataOK, NEW r \in Run, Key(r) \in User, NEW h \in Handle, Keep(r, h)
    PROVE  OnlyKey(r) /\ entries'[Key(r)] \in {Entry(r), Kept(h)}
BY RecordTypes DEF Keep, DataOK, OnlyKey, StickyEntry, Entry

LEMMA DropOutcome ==
    ASSUME DataOK, NEW r \in Run, Key(r) \in User, Drop(r)
    PROVE  OnlyKey(r) /\ entries'[Key(r)] \in {Entry(r), None}
BY RecordTypes DEF Drop, DataOK, OnlyKey, StickyEntry, Entry

LEMMA ForgetOutcome ==
    ASSUME DataOK, NEW r \in Run, Key(r) \in User, Forget(r)
    PROVE  OnlyKey(r) /\ entries'[Key(r)] \in {Entry(r), Placeholder(r)}
BY RecordTypes DEF Forget, DataOK, OnlyKey, StickyEntry, Entry

(* CloseUntouched keeps the handle it never used, or drops its claim.      *)
LEMMA CloseOutcome ==
    ASSUME DataOK, Staged, NEW r \in Run, CloseUntouched(r)
    PROVE  /\ OnlyKey(r)
           /\ entries'[Key(r)] \in {Entry(r), None, Kept(claim[r].handle)}
<1>1. Key(r) \in User BY HasUser DEF CloseUntouched
<1>2. claim[r].handle \in Handle /\ claim[r].owner \in BOOLEAN BY DEF DataOK
<1>3. CASE ~claim[r].owner
  BY <1>1, <1>3 DEF CloseUntouched, OnlyKey, Entry, DataOK, StickyEntry
<1>4. CASE claim[r].owner /\ claim[r].handle # NoSess
  <2>1. Keep(r, claim[r].handle) BY <1>4 DEF CloseUntouched
  <2> QED BY <1>1, <1>2, <2>1, KeepOutcome
<1>5. CASE claim[r].owner /\ claim[r].handle = NoSess
  <2>1. Drop(r) BY <1>5 DEF CloseUntouched
  <2> QED BY <1>1, <2>1, DropOutcome
<1> QED BY <1>2, <1>3, <1>4, <1>5

LEMMA FreedOutcome ==
    ASSUME DataOK, Staged, NEW r \in Run, Freed(r)
    PROVE  OnlyKey(r) /\ entries'[Key(r)] \in {Entry(r), None}
<1>1. Key(r) \in User BY HasUser DEF Freed
<1>2. CASE claim[r].owner BY <1>1, <1>2, DropOutcome DEF Freed
<1>3. CASE ~claim[r].owner
  BY <1>1, <1>3 DEF Freed, OnlyKey, Entry, DataOK, StickyEntry
<1> QED BY <1>2, <1>3
---------------------------------------------------------------------------
(* Types, action by action.                                                *)
LEMMA RunStepData ==
    ASSUME Inv, NEW r \in Run, RunStep(r)
    PROVE  DataOK'
<1> USE RecordTypes
<1>0. DataOK /\ Staged /\ HandlesKnown BY DEF Inv
<1>1. ASSUME NEW u \in User, Execute(r, u) PROVE DataOK'
  BY <1>0, <1>1 DEF Execute, DataOK, Goto, Stage, Caller
<1>2. CASE Begin(r)
  <2>1. who[r].user \in User BY <1>0, <1>2, HasUser DEF Begin
  <2> QED BY <1>0, <1>2, <2>1 DEF Begin, DataOK, Goto, Stage
<1>3. CASE Refuse(r) BY <1>0, <1>3 DEF Refuse, DataOK, Goto, Stage
<1>4. CASE Finish(r)
  <2>1. who[r].user \in User BY <1>0, <1>4, HasUser DEF Finish
  <2> QED BY <1>0, <1>4, <2>1 DEF Finish, Release, DataOK, Goto, Stage
<1>5. CASE EnterTurn(r) \/ Loaded(r) \/ TurnEnds(r) \/ CloseLeased(r)
  BY <1>0, <1>5 DEF EnterTurn, Loaded, TurnEnds, CloseLeased, DataOK, Goto, Stage
<1>6. CASE CreateSession(r)
  <2>1. Key(r) \in User /\ Claim(r) BY <1>0, <1>6, HasUser DEF CreateSession
  <2>2. OnlyKey(r) BY <1>0, <2>1, ClaimOutcome
  <2>3. \/ claim' = claim
        \/ \E h \in Handle : claim' = [claim EXCEPT ![r] = Taken(r, h)]
    <3>1. Entry(r) # None => Entry(r).handle \in Handle BY <1>0, <2>1, EntryType DEF Entry
    <3> QED BY <1>0, <2>1, <3>1, ClaimOutcome
  <2>4. claim' \in [Run -> [owner : BOOLEAN, handle : Handle]]
    <3>1. \A h \in Handle : Taken(r, h) \in [owner : BOOLEAN, handle : Handle] BY DEF Taken
    <3>2. claim \in [Run -> [owner : BOOLEAN, handle : Handle]] BY <1>0 DEF DataOK
    <3>3. ASSUME NEW h \in Handle, claim' = [claim EXCEPT ![r] = Taken(r, h)]
          PROVE  claim' \in [Run -> [owner : BOOLEAN, handle : Handle]]
      BY <3>1, <3>2, <3>3
    <3> QED BY <2>3, <3>2, <3>3
  <2> QED BY <1>0, <1>6, <2>2, <2>4 DEF CreateSession, DataOK, Goto, Stage, OnlyKey, StickyEntry
<1>7. CASE AttachOk(r)
  <2> DEFINE h == claim[r].handle
  <2>1. h \in Handle /\ h.lease \in Lease
    BY <1>0, <1>7 DEF AttachOk, Staged, DataOK, HandlesKnown, Names
  <2>2. RotatedToken(h.lease) \in Nat BY <1>0, <2>1 DEF RotatedToken, DataOK
  <2>3. wl' \in [Lease -> Leases]
    <3>1. wl \in [Lease -> Leases] /\ wl[h.lease] \in Leases BY <1>0, <2>1 DEF DataOK, Leases
    <3>2. PICK w : w = [wl[h.lease] EXCEPT !.st = "held", !.token = RotatedToken(h.lease)] OBVIOUS
    <3>3. w \in Leases BY <2>2, <3>1, <3>2 DEF Leases
    <3>4. wl' = [wl EXCEPT ![h.lease] = w] BY <1>7, <2>1, <3>1, <3>2 DEF AttachOk
    <3> QED BY <3>1, <3>3, <3>4
  <2>4. sess' \in [Run -> Handle]
    BY <1>0, <1>7, <2>1, <2>2 DEF AttachOk, DataOK, Handle
  <2> QED BY <1>0, <1>7, <2>3, <2>4 DEF AttachOk, DataOK, Goto, Stage, Leases
<1>8. CASE AttachFails(r)
  <2> DEFINE h == claim[r].handle
  <2>1. h \in Handle /\ h.lease \in Lease
    BY <1>0, <1>8 DEF AttachFails, Staged, DataOK, HandlesKnown, Names
  <2>2. RotatedToken(h.lease) \in Nat BY <1>0, <2>1 DEF RotatedToken, DataOK
  <2>3. wl' \in [Lease -> Leases]
    <3>1. CASE UNCHANGED wl BY <1>0, <3>1 DEF DataOK, Leases
    <3>2. CASE wl' = [wl EXCEPT ![h.lease] = [@ EXCEPT !.st = "held",
                        !.token = RotatedToken(h.lease), !.lost = TRUE]]
      BY <1>0, <2>1, <2>2, <3>2, LeaseUpdates
    <3> QED BY <1>8, <3>1, <3>2 DEF AttachFails
  <2>4. claim' \in [Run -> [owner : BOOLEAN, handle : Handle]]
    BY <1>0, <1>8 DEF AttachFails, DataOK
  <2>5. Key(r) \in User /\ Forget(r) BY <1>0, <1>8, HasUser DEF AttachFails
  <2>6. OnlyKey(r) BY <1>0, <2>5, ForgetOutcome
  <2> QED BY <1>0, <1>8, <2>3, <2>4, <2>6
          DEF AttachFails, DataOK, Goto, Stage, Leases, OnlyKey, StickyEntry
<1>9. CASE OpenLease(r) \/ OpenFails(r)
  BY <1>0, <1>9 DEF OpenLease, OpenFails, DataOK
<1>10. CASE Operate(r)
  <2>1. sess[r].lease \in Lease BY <1>0, <1>10 DEF Operate, HandlesKnown, Names
  <2> QED BY <1>0, <1>10, <2>1 DEF Operate, DataOK
<1>11. CASE CloseUntouched(r)
  <2>1. OnlyKey(r) BY <1>0, <1>11, CloseOutcome
  <2> QED BY <1>0, <1>11, <2>1
          DEF CloseUntouched, DataOK, Goto, Stage, OnlyKey, StickyEntry
<1>12. CASE ParkOk(r)
  <2>1. sess[r] \in Handle /\ sess[r].lease \in Lease
    BY <1>0, <1>12 DEF ParkOk, Staged, HandlesKnown, Names, DataOK
  <2>2. Key(r) \in User /\ Keep(r, sess[r]) BY <1>0, <1>12, HasUser DEF ParkOk
  <2>3. OnlyKey(r) BY <1>0, <2>1, <2>2, KeepOutcome
  <2>4. wl' \in [Lease -> Leases] BY <1>0, <1>12, <2>1, LeaseUpdates DEF ParkOk
  <2> QED BY <1>0, <1>12, <2>3, <2>4
          DEF ParkOk, DataOK, Goto, Stage, OnlyKey, StickyEntry, Leases
<1>13. CASE ParkFails(r)
  <2>1. sess[r].lease \in Lease BY <1>0, <1>13 DEF ParkFails, Staged, HandlesKnown, Names
  <2>2. wl' \in [Lease -> Leases]
    <3>1. wl' = wl \/ wl' = [wl EXCEPT ![sess[r].lease].st = "parked"]
      BY <1>13 DEF ParkFails
    <3>2. wl \in [Lease -> Leases] BY <1>0 DEF DataOK, Leases
    <3>3. [wl EXCEPT ![sess[r].lease].st = "parked"] \in [Lease -> Leases]
      BY <1>0, <2>1, LeaseUpdates
    <3> QED BY <3>1, <3>2, <3>3
  <2> QED BY <1>0, <1>13, <2>2 DEF ParkFails, DataOK, Goto, Stage, Leases
<1>14. CASE Freed(r)
  <2>1. OnlyKey(r) BY <1>0, <1>14, FreedOutcome
  <2>2. sess[r].lease \in Lease BY <1>0, <1>14 DEF Freed, Staged, HandlesKnown, Names
  <2>3. wl' \in [Lease -> Leases]
    <3>1. PICK l \in Lease : l = sess[r].lease BY <2>2
    <3>2. wl' = [wl EXCEPT ![l].st = "gone"] \/ wl' = [wl EXCEPT ![l].lost = TRUE]
      BY <1>14, <3>1 DEF Freed
    <3>3. [wl EXCEPT ![l].st = "gone"] \in [Lease -> Leases] /\ [wl EXCEPT ![l].lost = TRUE] \in [Lease -> Leases]
      BY <1>0, LeaseUpdates
    <3> QED BY <3>2, <3>3
  <2> QED BY <1>0, <1>14, <2>1, <2>3
          DEF Freed, DataOK, Goto, Stage, OnlyKey, StickyEntry, Leases
<1> QED BY <1>1, <1>2, <1>3, <1>4, <1>5, <1>6, <1>7, <1>8, <1>9, <1>10, <1>11,
           <1>12, <1>13, <1>14 DEF RunStep

LEMMA LeaseStepData ==
    ASSUME Inv, NEW r \in Run, NEW l \in Lease, LeaseStep(r, l)
    PROVE  DataOK'
<1> USE RecordTypes
<1>0. DataOK /\ Staged /\ HandlesKnown BY DEF Inv
<1>1. CASE LeaseOpened(r, l) \/ LeaseAnswerLost(r, l)
  <2>1. who[r].user \in User
    BY <1>0, <1>1, HasUser DEF LeaseOpened, LeaseAnswerLost, Staged
  <2>2. \A b \in BOOLEAN : Fresh(l, r, b) \in Leases BY <2>1 DEF Fresh, Leases
  <2>3. wl' \in [Lease -> Leases]
    <3>1. PICK f \in Leases : wl' = [wl EXCEPT ![l] = f]
      BY <1>1, <2>2 DEF LeaseOpened, LeaseAnswerLost
    <3>2. wl \in [Lease -> Leases] BY <1>0 DEF DataOK, Leases
    <3> QED BY <3>1, <3>2
  <2>4. [lease |-> l, token |-> 1] \in Handle BY DEF Handle
  <2>5. sess' \in [Run -> Handle] /\ opening' \in [Run -> BOOLEAN]
    <3>1. CASE LeaseOpened(r, l) BY <1>0, <2>4, <3>1 DEF LeaseOpened, DataOK
    <3>2. CASE LeaseAnswerLost(r, l) BY <1>0, <3>2 DEF LeaseAnswerLost, DataOK
    <3> QED BY <1>1, <3>1, <3>2
  <2> QED BY <1>0, <1>1, <2>3, <2>5 DEF LeaseOpened, LeaseAnswerLost, DataOK, Leases
<1>2. CASE OperationEnds(r, l) \/ OperationFindsNoLease(r, l)
  <2>1. ops' \in [Run -> [Lease -> Nat]]
    <3>1. ops[r] \in [Lease -> Nat] /\ ops[r][l] > 0
      BY <1>0, <1>2 DEF OperationEnds, OperationFindsNoLease, DataOK
    <3>2. ops[r][l] - 1 \in Nat BY <3>1
    <3>3. ops' = [ops EXCEPT ![r][l] = ops[r][l] - 1]
      BY <1>2 DEF OperationEnds, OperationFindsNoLease
    <3> HIDE <1>2
    <3> QED BY <1>0, <3>1, <3>2, <3>3 DEF DataOK
  <2>2. sess[r] # NoSess => sess[r].lease \in Lease BY <1>0 DEF HandlesKnown, Names
  <2>3. sess' \in [Run -> Handle] /\ wl' \in [Lease -> Leases]
    <3>1. CASE OperationEnds(r, l) BY <1>0, <3>1 DEF OperationEnds, DataOK, Leases
    <3>2. CASE OperationFindsNoLease(r, l)
      BY <1>0, <2>2, <3>2, LeaseUpdates DEF OperationFindsNoLease, DataOK, Leases
    <3> QED BY <1>2, <3>1, <3>2
  <2> QED BY <1>0, <1>2, <2>1, <2>3
          DEF OperationEnds, OperationFindsNoLease, DataOK, Leases
<1> QED BY <1>1, <1>2 DEF LeaseStep

LEMMA DataStep ==
    ASSUME Inv, [Next]_vars
    PROVE  DataOK'
<1>1. ASSUME NEW u \in User, HandleExpires(u) PROVE DataOK'
  <2>1. entries[u] # None /\ entries' = [entries EXCEPT ![u].stale = TRUE]
    BY <1>1 DEF HandleExpires
  <2>2. [entries[u] EXCEPT !.stale = TRUE] \in StickyEntry
    BY <2>1, EntryType DEF Inv, StickyEntry
  <2> QED BY <1>1, <2>1, <2>2 DEF HandleExpires, Inv, DataOK, StickyEntry
<1>2. ASSUME NEW l \in Lease, LeaseGone(l) PROVE DataOK'
  <2>1. DataOK BY DEF Inv
  <2>2. wl' \in [Lease -> Leases] BY <1>2, <2>1, LeaseUpdates DEF LeaseGone
  <2> QED BY <1>2, <2>1, <2>2 DEF LeaseGone, DataOK, Leases
<1>3. CASE UNCHANGED vars BY <1>3 DEF vars, Inv, DataOK
<1> QED BY <1>1, <1>2, <1>3, RunStepData, LeaseStepData DEF Next
---------------------------------------------------------------------------
(* The table of handles: its keys and their order.                         *)
LEMMA Appended ==
    ASSUME NEW S, NEW s \in Seq(S), NEW x \in S
    PROVE  /\ Append(s, x) \in Seq(S) /\ Len(Append(s, x)) = Len(s) + 1
           /\ \A i \in 1 .. Len(s) : Append(s, x)[i] = s[i]
           /\ Append(s, x)[Len(s) + 1] = x
OBVIOUS

(* Shifted drops the element at place i.                                   *)
LEMMA Shifted ==
    ASSUME NEW S, NEW s \in Seq(S), NEW i \in 1 .. Len(s)
    PROVE  LET t == SubSeq(s, 1, i - 1) \o SubSeq(s, i + 1, Len(s)) IN
           /\ t \in Seq(S) /\ Len(t) = Len(s) - 1
           /\ \A j \in 1 .. Len(t) : t[j] = IF j < i THEN s[j] ELSE s[j + 1]
<1> DEFINE a == SubSeq(s, 1, i - 1)
           b == SubSeq(s, i + 1, Len(s))
<1>1. a \in Seq(S) /\ Len(a) = i - 1 /\ \A j \in 1 .. i - 1 : a[j] = s[j] OBVIOUS
<1>2. /\ b \in Seq(S) /\ Len(b) = Len(s) - i
      /\ \A j \in 1 .. Len(s) - i : b[j] = s[j + i]
  OBVIOUS
<1> HIDE DEF a, b
<1>3. a \o b \in Seq(S) /\ Len(a \o b) = Len(s) - 1
  <2>1. a \o b \in Seq(S) /\ Len(a \o b) = Len(a) + Len(b)
    <3>1. a \in Seq(S) /\ b \in Seq(S) BY <1>1, <1>2
    <3> HIDE <1>1, <1>2
    <3> QED BY <3>1
  <2>2. Len(a) + Len(b) = Len(s) - 1 BY <1>1, <1>2
  <2> QED BY <2>1, <2>2
<1>4. \A j \in 1 .. Len(s) - 1 : (a \o b)[j] = IF j < i THEN a[j] ELSE b[j - (i - 1)]
  BY <1>1, <1>2
<1>5. ASSUME NEW j \in 1 .. Len(s) - 1
      PROVE  (a \o b)[j] = IF j < i THEN s[j] ELSE s[j + 1]
  <2>1. CASE j < i BY <1>1, <1>4, <2>1
  <2>2. CASE ~(j < i)
    <3>1. j - (i - 1) \in 1 .. Len(s) - i BY <2>2
    <3>2. b[j - (i - 1)] = s[j - (i - 1) + i] BY <1>2, <3>1
    <3>3. j - (i - 1) + i = j + 1 OBVIOUS
    <3> QED BY <1>4, <2>2, <3>2, <3>3
  <2> QED BY <2>1, <2>2
<1> QED BY <1>3, <1>5 DEF a, b

(* The keys of a list and what an operation makes of them.                 *)
Keys(s) == {s[i] : i \in 1 .. Len(s)}
Simple(s) == \A i, j \in 1 .. Len(s) : s[i] = s[j] => i = j
Table(e, s) ==
    /\ s \in Seq(User) /\ Len(s) <= MaxEntries /\ Simple(s)
    /\ \A u \in User : e[u] # None <=> u \in Keys(s)

LEMMA TableIs == TableOK <=> Table(entries, order)
<1>1. \A u : u \in Keys(order) <=> \E i \in 1 .. Len(order) : order[i] = u BY DEF Keys
<1> QED BY <1>1 DEF TableOK, Table, Simple

LEMMA DropKey ==
    ASSUME NEW s \in Seq(User), NEW k \in User, Simple(s)
    PROVE  /\ Without(s, k) \in Seq(User) /\ Len(Without(s, k)) <= Len(s)
           /\ Simple(Without(s, k))
           /\ Keys(Without(s, k)) = Keys(s) \ {k}
<1>1. CASE Positions(s, k) = {}
  <2>1. k \notin Keys(s) BY <1>1 DEF Positions, Keys
  <2> QED BY <1>1, <2>1 DEF Without
<1>2. CASE Positions(s, k) # {}
  <2> DEFINE i == CHOOSE p \in Positions(s, k) : TRUE
             t == SubSeq(s, 1, i - 1) \o SubSeq(s, i + 1, Len(s))
  <2>1. i \in 1 .. Len(s) /\ s[i] = k BY <1>2 DEF Positions
  <2>2. Without(s, k) = t BY <1>2 DEF Without
  <2> HIDE DEF i
  <2>3. /\ t \in Seq(User) /\ Len(t) = Len(s) - 1
        /\ \A j \in 1 .. Len(t) : t[j] = IF j < i THEN s[j] ELSE s[j + 1]
    BY <2>1, Shifted
  <2> HIDE DEF t
  <2>4. Simple(t) BY <2>1, <2>3 DEF Simple
  <2>5. ASSUME NEW j \in 1 .. Len(t) PROVE t[j] \in Keys(s) \ {k}
    <3> DEFINE n == IF j < i THEN j ELSE j + 1
    <3>1. n \in 1 .. Len(s) /\ n # i /\ t[j] = s[n] BY <2>1, <2>3
    <3> HIDE DEF n
    <3>2. s[n] # k BY <2>1, <3>1 DEF Simple
    <3> QED BY <3>1, <3>2 DEF Keys
  <2>6. ASSUME NEW x \in Keys(s), x # k PROVE x \in Keys(t)
    <3>1. PICK j \in 1 .. Len(s) : x = s[j] BY <2>6 DEF Keys
    <3>2. j # i BY <2>1, <2>6, <3>1
    <3>3. CASE j < i
      <4>1. j \in 1 .. Len(t) /\ t[j] = x BY <2>1, <2>3, <3>1, <3>3
      <4> QED BY <4>1 DEF Keys
    <3>4. CASE j > i
      <4>1. j - 1 \in 1 .. Len(t) /\ t[j - 1] = x BY <2>1, <2>3, <3>1, <3>4
      <4> QED BY <4>1 DEF Keys
    <3> QED BY <2>1, <3>2, <3>3, <3>4
  <2>7. Keys(t) \subseteq Keys(s) \ {k} BY <2>5 DEF Keys
  <2> QED BY <2>1, <2>2, <2>3, <2>4, <2>6, <2>7
<1> QED BY <1>1, <1>2

LEMMA DropTail ==
    ASSUME NEW s \in Seq(User), Simple(s), Len(s) > 0
    PROVE  /\ Tail(s) \in Seq(User) /\ Len(Tail(s)) = Len(s) - 1
           /\ Simple(Tail(s))
           /\ Keys(Tail(s)) = Keys(s) \ {Head(s)}
<1>1. /\ Tail(s) \in Seq(User) /\ Len(Tail(s)) = Len(s) - 1
      /\ \A i \in 1 .. Len(s) - 1 : Tail(s)[i] = s[i + 1]
      /\ Head(s) = s[1]
  OBVIOUS
<1>2. Simple(Tail(s)) BY <1>1 DEF Simple
<1>3. Keys(Tail(s)) \subseteq Keys(s) \ {Head(s)} BY <1>1 DEF Keys, Simple
<1>4. ASSUME NEW x \in Keys(s), x # Head(s) PROVE x \in Keys(Tail(s))
  <2>1. PICK j \in 1 .. Len(s) : x = s[j] BY <1>4 DEF Keys
  <2>2. j - 1 \in 1 .. Len(s) - 1 /\ Tail(s)[j - 1] = x BY <1>1, <1>4, <2>1
  <2> QED BY <1>1, <2>2 DEF Keys
<1> QED BY <1>1, <1>2, <1>3, <1>4

LEMMA AddKey ==
    ASSUME NEW s \in Seq(User), NEW k \in User, Simple(s), k \notin Keys(s)
    PROVE  /\ Append(s, k) \in Seq(User) /\ Len(Append(s, k)) = Len(s) + 1
           /\ Simple(Append(s, k))
           /\ Keys(Append(s, k)) = Keys(s) \cup {k}
<1> DEFINE t == Append(s, k)
<1>1. /\ t \in Seq(User) /\ Len(t) = Len(s) + 1
      /\ \A i \in 1 .. Len(s) : t[i] = s[i]
      /\ t[Len(s) + 1] = k
  BY Appended
<1> HIDE DEF t
<1>2. Simple(t)
  <2>1. \A i \in 1 .. Len(s) : s[i] # k BY DEF Keys
  <2> QED BY <1>1, <2>1 DEF Simple
<1>3. Keys(t) \subseteq Keys(s) \cup {k} BY <1>1 DEF Keys
<1>4. Keys(s) \cup {k} \subseteq Keys(t)
  <2>1. Len(s) + 1 \in 1 .. Len(t) BY <1>1
  <2>2. k \in Keys(t) BY <1>1, <2>1 DEF Keys
  <2>3. \A i \in 1 .. Len(s) : i \in 1 .. Len(t) /\ t[i] = s[i] BY <1>1
  <2>4. Keys(s) \subseteq Keys(t) BY <2>3 DEF Keys
  <2> QED BY <2>2, <2>4
<1> QED BY <1>1, <1>2, <1>3, <1>4 DEF t

(* What claim(), drop() and the rest do to the table.                      *)
LEMMA AddTable ==
    ASSUME Table(entries, order), DataOK, NEW r \in Run, Key(r) \in User,
           Entry(r) = None, AddPlaceholder(r)
    PROVE  Table(entries', order')
<1> DEFINE k == Key(r)
           evict == Len(order) >= MaxEntries
<1>0. /\ order \in Seq(User) /\ Len(order) <= MaxEntries /\ Simple(order)
      /\ \A u \in User : entries[u] # None <=> u \in Keys(order)
      /\ k \in User
  BY DEF Table
<1>1. k \notin Keys(order) BY <1>0 DEF Entry
<1>2. Placeholder(r) # None BY RecordTypes, NoneAssumption
<1>3. CASE evict
  <2>1. Len(order) > 0 /\ Len(order) = MaxEntries BY <1>0, <1>3, NatAssumption
  <2>2. /\ Tail(order) \in Seq(User) /\ Len(Tail(order)) = Len(order) - 1
        /\ Simple(Tail(order)) /\ Keys(Tail(order)) = Keys(order) \ {Head(order)}
    BY <1>0, <2>1, DropTail
  <2>3. k \notin Keys(Tail(order)) BY <1>1, <2>2
  <2>4. order' = Append(Tail(order), k) BY <1>3 DEF AddPlaceholder
  <2>5. /\ order' \in Seq(User) /\ Len(order') = Len(Tail(order)) + 1
        /\ Simple(order') /\ Keys(order') = Keys(Tail(order)) \cup {k}
    BY <1>0, <2>2, <2>3, <2>4, AddKey
  <2>6. entries' = [u \in User |-> IF u = k THEN Placeholder(r)
                     ELSE IF u = Head(order) THEN None ELSE entries[u]]
    BY <1>3 DEF AddPlaceholder
  <2>7. \A u \in User : entries'[u] # None <=> u \in Keys(order')
    BY <1>0, <1>2, <2>2, <2>5, <2>6
  <2>8. Len(order') <= MaxEntries BY <1>0, <2>2, <2>5
  <2> QED BY <2>5, <2>7, <2>8 DEF Table
<1>4. CASE ~evict
  <2>1. order' = Append(order, k) BY <1>4 DEF AddPlaceholder
  <2>2. /\ order' \in Seq(User) /\ Len(order') = Len(order) + 1
        /\ Simple(order') /\ Keys(order') = Keys(order) \cup {k}
    BY <1>0, <1>1, <2>1, AddKey
  <2>3. entries' = [u \in User |-> IF u = k THEN Placeholder(r) ELSE entries[u]]
    BY <1>4 DEF AddPlaceholder
  <2>4. \A u \in User : entries'[u] # None <=> u \in Keys(order')
    BY <1>0, <1>2, <2>2, <2>3
  <2>5. Len(order') <= MaxEntries BY <1>0, <1>4, <2>2, NatAssumption
  <2> QED BY <2>2, <2>4, <2>5 DEF Table
<1> QED BY <1>3, <1>4

LEMMA DropTable ==
    ASSUME Table(entries, order), DataOK, NEW k \in User,
           entries' = [entries EXCEPT ![k] = None], order' = Without(order, k)
    PROVE  Table(entries', order')
<1>1. /\ order \in Seq(User) /\ Len(order) <= MaxEntries /\ Simple(order)
      /\ \A u \in User : entries[u] # None <=> u \in Keys(order)
  BY DEF Table
<1>2. /\ order' \in Seq(User) /\ Len(order') <= Len(order)
      /\ Simple(order') /\ Keys(order') = Keys(order) \ {k}
  BY <1>1, DropKey
<1>3. \A u \in User : entries'[u] # None <=> u \in Keys(order')
  BY <1>1, <1>2 DEF DataOK
<1>4. Len(order') <= MaxEntries BY <1>1, <1>2, NatAssumption
<1> QED BY <1>2, <1>3, <1>4 DEF Table

(* StickyEntry change; which keys have one does not.                           *)
LEMMA SameTable ==
    ASSUME Table(entries, order), order' = order,
           \A u \in User : entries'[u] = None <=> entries[u] = None
    PROVE  Table(entries', order')
BY DEF Table

LEMMA KeepTable ==
    ASSUME Table(entries, order), DataOK, NEW r \in Run, Key(r) \in User,
           NEW h \in Handle, Keep(r, h)
    PROVE  Table(entries', order')
<1>1. Kept(h) # None BY RecordTypes, NoneAssumption
<1>2. \A u \in User : entries'[u] = None <=> entries[u] = None
  BY <1>1 DEF Keep, DataOK, Mine, Entry
<1> QED BY <1>2, SameTable DEF Keep

LEMMA ForgetTable ==
    ASSUME Table(entries, order), DataOK, NEW r \in Run, Key(r) \in User, Forget(r)
    PROVE  Table(entries', order')
<1>1. Placeholder(r) # None BY RecordTypes, NoneAssumption
<1>2. \A u \in User : entries'[u] = None <=> entries[u] = None
  BY <1>1 DEF Forget, DataOK, Mine, Entry
<1> QED BY <1>2, SameTable DEF Forget

LEMMA UntouchedTable ==
    ASSUME Table(entries, order), UNCHANGED <<entries, order>>
    PROVE  Table(entries', order')
OBVIOUS

LEMMA DropRunTable ==
    ASSUME Table(entries, order), DataOK, NEW r \in Run, Key(r) \in User, Drop(r)
    PROVE  Table(entries', order')
<1>1. CASE Mine(r) BY <1>1, DropTable DEF Drop
<1>2. CASE ~Mine(r) BY <1>2, UntouchedTable DEF Drop
<1> QED BY <1>1, <1>2

LEMMA ClaimTable ==
    ASSUME Table(entries, order), DataOK, NEW r \in Run, Key(r) \in User, Claim(r)
    PROVE  Table(entries', order')
<1> DEFINE e == Entry(r)
<1>1. CASE e = None BY <1>1, AddTable DEF Claim
<1>2. CASE e # None /\ e.busy \notin {None, r} BY <1>2, UntouchedTable DEF Claim
<1>3. CASE e # None /\ e.busy \in {None, r} /\ e.stale
  BY <1>3, DropTable DEF Claim
<1>4. CASE e # None /\ e.busy \in {None, r} /\ ~e.stale
  <2>1. entries' = [entries EXCEPT ![Key(r)].busy = r] /\ order' = order
    BY <1>4 DEF Claim
  <2>2. [e EXCEPT !.busy = r] \in StickyEntry BY <1>4, EntryType DEF StickyEntry, Entry
  <2>3. [e EXCEPT !.busy = r] # None BY <2>2, NoneAssumption
  <2>4. \A u \in User : entries'[u] = None <=> entries[u] = None
    BY <1>4, <2>1, <2>3 DEF DataOK, Entry
  <2> QED BY <2>1, <2>4, SameTable
<1> QED BY <1>1, <1>2, <1>3, <1>4

LEMMA TableStep ==
    ASSUME Inv, [Next]_vars
    PROVE  TableOK'
<1>0. DataOK /\ Staged /\ HandlesKnown /\ Table(entries, order)
  BY TableIs DEF Inv
<1>1. SUFFICES Table(entries', order')
  <2>1. \A u : u \in Keys(order') <=> \E i \in 1 .. Len(order') : order'[i] = u BY DEF Keys
  <2> QED BY <2>1 DEF TableOK, Table, Simple
<1>2. ASSUME NEW r \in Run, RunStep(r) PROVE Table(entries', order')
  <2>1. CASE UNCHANGED <<entries, order>> BY <1>0, <2>1, UntouchedTable
  <2>2. CASE CreateSession(r)
    BY <1>0, <2>2, HasUser, ClaimTable DEF CreateSession
  <2>3. CASE AttachFails(r)
    BY <1>0, <2>3, HasUser, ForgetTable DEF AttachFails
  <2>4. CASE CloseUntouched(r)
    <3>1. Key(r) \in User BY <1>0, <2>4, HasUser DEF CloseUntouched
    <3>2. claim[r].handle \in Handle /\ claim[r].owner \in BOOLEAN BY <1>0 DEF DataOK
    <3>3. \/ UNCHANGED <<entries, order>>
          \/ Keep(r, claim[r].handle)
          \/ Drop(r)
      BY <2>4, <3>2 DEF CloseUntouched
    <3> QED BY <1>0, <3>1, <3>2, <3>3, KeepTable, DropRunTable, UntouchedTable
  <2>5. CASE ParkOk(r)
    <3>1. sess[r] \in Handle BY <1>0 DEF DataOK
    <3> QED BY <1>0, <2>5, <3>1, HasUser, KeepTable DEF ParkOk
  <2>6. CASE Freed(r)
    BY <1>0, <2>6, HasUser, DropRunTable, UntouchedTable DEF Freed
  <2> QED BY <1>2, <2>1, <2>2, <2>3, <2>4, <2>5, <2>6
       DEF RunStep, Execute, Begin, Refuse, Finish, EnterTurn, Loaded, AttachOk,
           OpenLease, OpenFails, Operate, TurnEnds, CloseLeased, ParkFails
<1>3. ASSUME NEW r \in Run, NEW l \in Lease, LeaseStep(r, l)
      PROVE  Table(entries', order')
  <2>1. UNCHANGED <<entries, order>>
    BY <1>3 DEF LeaseStep, LeaseOpened, LeaseAnswerLost, OperationEnds,
                OperationFindsNoLease
  <2> QED BY <1>0, <2>1, UntouchedTable
<1>4. ASSUME NEW u \in User, HandleExpires(u) PROVE Table(entries', order')
  <2>1. entries[u] # None /\ entries' = [entries EXCEPT ![u].stale = TRUE]
    BY <1>4 DEF HandleExpires
  <2>2. [entries[u] EXCEPT !.stale = TRUE] \in StickyEntry
    BY <1>0, <2>1, EntryType DEF StickyEntry
  <2>3. [entries[u] EXCEPT !.stale = TRUE] # None BY <2>2, NoneAssumption
  <2>4. \A v \in User : entries'[v] = None <=> entries[v] = None
    BY <1>0, <2>1, <2>3 DEF DataOK
  <2> QED BY <1>0, <1>4, <2>4, SameTable DEF HandleExpires
<1>5. ASSUME NEW l \in Lease, LeaseGone(l) PROVE Table(entries', order')
  BY <1>0, <1>5, UntouchedTable DEF LeaseGone
<1>6. CASE UNCHANGED vars BY <1>0, <1>6, UntouchedTable DEF vars
<1> QED BY <1>2, <1>3, <1>4, <1>5, <1>6 DEF Next
---------------------------------------------------------------------------
(* The stages. *)
LEMMA StagedStep ==
    ASSUME Inv, [Next]_vars
    PROVE  Staged'
<1> USE RecordTypes
<1>0. DataOK /\ Staged /\ HandlesKnown BY DEF Inv
<1>1. ASSUME NEW r \in Run, RunStep(r) PROVE Staged'
  <2>1. ASSUME NEW u \in User, Execute(r, u) PROVE Staged'
    <3>1. PICK c \in BOOLEAN : who' = [who EXCEPT ![r] = [user |-> u, compact |-> c]]
      BY <2>1 DEF Execute
    <3>2. [user |-> u, compact |-> c] # None BY NoneAssumption DEF Caller
    <3> QED BY <1>0, <2>1, <3>1, <3>2 DEF Execute, Staged, DataOK, Goto
  <2>2. CASE Begin(r) BY <1>0, <2>2 DEF Begin, Staged, DataOK, Goto
  <2>3. CASE Refuse(r) BY <1>0, <2>3 DEF Refuse, Staged, DataOK, Goto
  <2>4. CASE Finish(r) BY <1>0, <2>4 DEF Finish, Staged, DataOK, Goto
  <2>5. CASE CreateSession(r)
    <3>1. Key(r) \in User /\ Claim(r) BY <1>0, <2>5, HasUser DEF CreateSession
    <3>2. \A q \in Run : q # r => claim'[q] = claim[q]
      <4>1. claim' = claim \/ \E h : claim' = [claim EXCEPT ![r] = Taken(r, h)]
        BY <1>0, <3>1, ClaimOutcome
      <4> QED BY <1>0, <4>1 DEF DataOK
    <3> QED BY <1>0, <2>5, <3>2 DEF CreateSession, Staged, DataOK, Goto
  <2>6. CASE EnterTurn(r) BY <1>0, <2>6 DEF EnterTurn, Staged, DataOK, Goto
  <2>7. CASE Loaded(r) BY <1>0, <2>7 DEF Loaded, Staged, DataOK, Goto
  <2>8. CASE AttachOk(r) BY <1>0, <2>8 DEF AttachOk, Staged, DataOK, Goto
  <2>9. CASE AttachFails(r) BY <1>0, <2>9 DEF AttachFails, Staged, DataOK, Goto
  <2>10. CASE OpenLease(r) BY <1>0, <2>10 DEF OpenLease, Staged, DataOK
  <2>11. CASE OpenFails(r) BY <1>0, <2>11 DEF OpenFails, Staged, DataOK
  <2>12. CASE Operate(r) BY <1>0, <2>12 DEF Operate, Staged, DataOK
  <2>13. CASE TurnEnds(r) BY <1>0, <2>13 DEF TurnEnds, OpsOf, Staged, DataOK, Goto
  <2>14. CASE CloseUntouched(r) BY <1>0, <2>14 DEF CloseUntouched, Staged, DataOK, Goto
  <2>15. CASE CloseLeased(r) BY <1>0, <2>15 DEF CloseLeased, Staged, DataOK, Goto
  <2>16. CASE ParkOk(r) BY <1>0, <2>16 DEF ParkOk, Staged, DataOK, Goto
  <2>17. CASE ParkFails(r) BY <1>0, <2>17 DEF ParkFails, Staged, DataOK, Goto
  <2>18. CASE Freed(r) BY <1>0, <2>18 DEF Freed, Staged, DataOK, Goto
  <2> QED BY <1>1, <2>1, <2>2, <2>3, <2>4, <2>5, <2>6, <2>7, <2>8, <2>9, <2>10,
             <2>11, <2>12, <2>13, <2>14, <2>15, <2>16, <2>17, <2>18 DEF RunStep
<1>2. ASSUME NEW r \in Run, NEW l \in Lease, LeaseStep(r, l) PROVE Staged'
  <2>1. CASE LeaseOpened(r, l) BY <1>0, <2>1 DEF LeaseOpened, Staged, DataOK
  <2>2. CASE LeaseAnswerLost(r, l) BY <1>0, <2>2 DEF LeaseAnswerLost, Staged, DataOK
  <2>3. CASE OperationEnds(r, l) BY <1>0, <2>3 DEF OperationEnds, Staged, DataOK
  <2>4. CASE OperationFindsNoLease(r, l)
    <3>1. pc[r] = "work" BY <1>0, <2>4 DEF OperationFindsNoLease, Staged
    <3>2. \A q \in Run : sess'[q] = sess[q] \/ (q = r /\ sess'[q] = NoSess)
      BY <1>0, <2>4 DEF OperationFindsNoLease, DataOK
    <3>3. \A q \in Run, m \in Lease : ops'[q][m] = ops[q][m] \/ q = r
      BY <1>0, <2>4 DEF OperationFindsNoLease, DataOK
    <3>4. UNCHANGED <<pc, who, claim, opening>> BY <2>4 DEF OperationFindsNoLease
    <3> QED BY <1>0, <3>1, <3>2, <3>3, <3>4 DEF Staged
  <2> QED BY <1>2, <2>1, <2>2, <2>3, <2>4 DEF LeaseStep
<1>3. ASSUME NEW u \in User, HandleExpires(u) PROVE Staged'
  BY <1>0, <1>3 DEF HandleExpires, Staged
<1>4. ASSUME NEW l \in Lease, LeaseGone(l) PROVE Staged'
  BY <1>0, <1>4 DEF LeaseGone, Staged
<1>5. CASE UNCHANGED vars BY <1>0, <1>5 DEF vars, Staged
<1> QED BY <1>1, <1>2, <1>3, <1>4, <1>5 DEF Next
---------------------------------------------------------------------------
(* Handles name leases of their user.  The worker's leases change, but a   *)
(* lease that is known keeps its user.                                     *)
LeasesKeep == \A l \in Lease : wl[l].st # "unused" =>
                 wl'[l].st # "unused" /\ wl'[l].user = wl[l].user

LEMMA NamesKept ==
    ASSUME LeasesKeep, NEW h, NEW u, Names(wl, h, u)
    PROVE  Names(wl', h, u)
BY DEF LeasesKeep, Names

LEMMA LeaseSet ==
    ASSUME DataOK, NEW l \in Lease, NEW w, wl' = [wl EXCEPT ![l] = w],
           wl[l].st # "unused" => w.st # "unused" /\ w.user = wl[l].user
    PROVE  LeasesKeep
BY DEF DataOK, LeasesKeep

LEMMA LeasesKept ==
    ASSUME Inv, [Next]_vars
    PROVE  LeasesKeep
<1>0. DataOK /\ Staged /\ HandlesKnown BY DEF Inv
<1>1. ASSUME NEW r \in Run, RunStep(r) PROVE LeasesKeep
  <2>1. CASE UNCHANGED wl BY <2>1 DEF LeasesKeep
  <2>2. CASE AttachOk(r)
    BY <1>0, <2>2 DEF AttachOk, DataOK, LeasesKeep
  <2>3. CASE AttachFails(r) /\ wl' # wl
    <3> DEFINE l == claim[r].handle.lease
    <3>1. l \in Lease BY <1>0, <2>3 DEF AttachFails, Staged, HandlesKnown, Names
    <3> HIDE DEF l
    <3>2. wl' = [wl EXCEPT ![l] = [wl[l] EXCEPT !.st = "held",
                   !.token = RotatedToken(l), !.lost = TRUE]]
      BY <2>3 DEF AttachFails, l
    <3> DEFINE w == [wl[l] EXCEPT !.st = "held", !.token = RotatedToken(l), !.lost = TRUE]
    <3>3. wl[l] \in Leases BY <1>0, <3>1 DEF DataOK, Leases
    <3>4. w.st = "held" /\ w.user = wl[l].user BY <3>3 DEF Leases
    <3> HIDE DEF w
    <3> QED BY <1>0, <3>1, <3>2, <3>4, LeaseSet DEF w
  <2>4. CASE ParkOk(r) \/ ParkFails(r) \/ Freed(r)
    <3> DEFINE l == sess[r].lease
    <3>1. l \in Lease
      BY <1>0, <2>4 DEF ParkOk, ParkFails, Freed, Staged, HandlesKnown, Names
    <3> HIDE DEF l
    <3>2. \/ wl' = wl
          \/ wl' = [wl EXCEPT ![l].st = "parked"]
          \/ wl' = [wl EXCEPT ![l].st = "gone"]
          \/ wl' = [wl EXCEPT ![l].lost = TRUE]
      BY <2>4 DEF ParkOk, ParkFails, Freed, l
    <3> HIDE <2>4
    <3>3. ASSUME NEW st \in {"parked", "gone"}, wl' = [wl EXCEPT ![l].st = st]
          PROVE  LeasesKeep
      BY <1>0, <3>1, <3>3 DEF DataOK, LeasesKeep
    <3>4. CASE wl' = [wl EXCEPT ![l].lost = TRUE]
      BY <1>0, <3>1, <3>4 DEF DataOK, LeasesKeep
    <3> QED BY <2>1, <3>2, <3>3, <3>4
  <2> QED BY <1>1, <2>1, <2>2, <2>3, <2>4
       DEF RunStep, Execute, Begin, Refuse, Finish, CreateSession, EnterTurn, Loaded,
           OpenLease, OpenFails, Operate, TurnEnds, CloseUntouched, CloseLeased
<1>2. ASSUME NEW r \in Run, NEW l \in Lease, LeaseStep(r, l) PROVE LeasesKeep
  <2>1. CASE UNCHANGED wl BY <2>1 DEF LeasesKeep
  <2>2. CASE LeaseOpened(r, l) \/ LeaseAnswerLost(r, l)
    BY <1>0, <2>2, RecordTypes DEF LeaseOpened, LeaseAnswerLost, DataOK, LeasesKeep
  <2>3. CASE OperationFindsNoLease(r, l)
    BY <1>0, <2>3 DEF OperationFindsNoLease, DataOK, LeasesKeep
  <2> QED BY <1>2, <2>1, <2>2, <2>3 DEF LeaseStep, OperationEnds
<1>3. ASSUME NEW u \in User, HandleExpires(u) PROVE LeasesKeep
  BY <1>3 DEF HandleExpires, LeasesKeep
<1>4. ASSUME NEW l \in Lease, LeaseGone(l) PROVE LeasesKeep
  BY <1>0, <1>4 DEF LeaseGone, DataOK, LeasesKeep
<1>5. CASE UNCHANGED vars BY <1>5 DEF vars, LeasesKeep
<1> QED BY <1>1, <1>2, <1>3, <1>4, <1>5 DEF Next

(* Steps that give nobody a new handle.                                    *)
NoNewHandle ==
    /\ \A r \in Run : claim'[r].handle \in {claim[r].handle, NoSess}
                     /\ sess'[r] \in {sess[r], NoSess}
    /\ \A u \in User : \/ entries'[u] = None
                       \/ entries'[u].handle = NoSess
                       \/ entries[u] # None /\ entries'[u].handle = entries[u].handle
    /\ \A r \in Run : who'[r] = who[r] \/ (claim'[r].handle = NoSess /\ sess'[r] = NoSess)

LEMMA NoNewHandleKnown ==
    ASSUME HandlesKnown, LeasesKeep, NoNewHandle
    PROVE  HandlesKnown'
<1>0. \A w, u : Names(w, NoSess, u) BY DEF Names
<1>1. ASSUME NEW r \in Run
      PROVE  Names(wl', claim'[r].handle, who'[r].user) /\ Names(wl', sess'[r], who'[r].user)
  <2>1. Names(wl', claim[r].handle, who[r].user) /\ Names(wl', sess[r], who[r].user)
    BY NamesKept DEF HandlesKnown
  <2> QED BY <1>0, <2>1 DEF NoNewHandle
<1>2. ASSUME NEW u \in User, entries'[u] # None PROVE Names(wl', entries'[u].handle, u)
  <2>1. entries[u] # None => Names(wl', entries[u].handle, u) BY NamesKept DEF HandlesKnown
  <2> QED BY <1>0, <1>2, <2>1 DEF NoNewHandle
<1> QED BY <1>1, <1>2 DEF HandlesKnown

(* The table after an operation of run r: its entry holds no handle, its   *)
(* old one, or one of the leases of r.                                     *)
LEMMA TableKnown ==
    ASSUME HandlesKnown, LeasesKeep, NEW r \in Run, Key(r) \in User, OnlyKey(r),
           NEW h, h # NoSess => Names(wl, h, Key(r)),
           entries'[Key(r)] \in {Entry(r), None, Placeholder(r), Kept(h)}
    PROVE  \A u \in User : entries'[u] # None => Names(wl', entries'[u].handle, u)
<1>0. \A w, u : Names(w, NoSess, u) BY DEF Names
<1>1. Names(wl', h, Key(r)) BY <1>0, NamesKept
<1>2. \A u \in User : entries[u] # None => Names(wl', entries[u].handle, u)
  BY NamesKept DEF HandlesKnown
<1>3. Placeholder(r).handle = NoSess /\ Kept(h).handle = h BY DEF Placeholder, Kept
<1> QED BY <1>0, <1>1, <1>2, <1>3 DEF OnlyKey, Entry

LEMMA KnownStep ==
    ASSUME Inv, [Next]_vars
    PROVE  HandlesKnown'
<1> USE RecordTypes
<1>0. DataOK /\ Staged /\ HandlesKnown /\ LeasesKeep BY LeasesKept DEF Inv
<1>a. \A w, u : Names(w, NoSess, u) BY DEF Names
<1>b. \A r \in Run : Names(wl', claim[r].handle, who[r].user) /\ Names(wl', sess[r], who[r].user)
  BY <1>0, NamesKept DEF HandlesKnown
<1>c. \A u \in User : entries[u] # None => Names(wl', entries[u].handle, u)
  BY <1>0, NamesKept DEF HandlesKnown
<1>1. ASSUME NEW r \in Run, RunStep(r) PROVE HandlesKnown'
  <2>1. ASSUME NEW u \in User, Execute(r, u) PROVE HandlesKnown'
    <3>1. NoNewHandle BY <1>0, <2>1 DEF Execute, NoNewHandle, Staged, DataOK
    <3> QED BY <1>0, <3>1, NoNewHandleKnown
  <2>2. CASE Refuse(r) \/ Finish(r)
    <3>1. NoNewHandle BY <1>0, <2>2 DEF Refuse, Finish, NoNewHandle, Staged, DataOK
    <3> QED BY <1>0, <3>1, NoNewHandleKnown
  <2>3. CASE UNCHANGED <<who, claim, sess, entries>>
    <3>1. NoNewHandle BY <2>3 DEF NoNewHandle
    <3> QED BY <1>0, <3>1, NoNewHandleKnown
  <2>4. CASE CreateSession(r)
    <3>1. /\ Key(r) \in User /\ Claim(r) /\ UNCHANGED <<who, sess>>
      BY <1>0, <2>4, HasUser DEF CreateSession
    <3>2. OnlyKey(r) BY <1>0, <3>1, ClaimOutcome
    <3>3. CASE claim' = claim /\ entries' = entries
      <4>1. NoNewHandle BY <3>1, <3>3 DEF NoNewHandle
      <4> QED BY <1>0, <4>1, NoNewHandleKnown
    <3>4. CASE /\ claim' = [claim EXCEPT ![r] = Taken(r, NoSess)]
               /\ entries'[Key(r)] \in {None, Placeholder(r)}
      <4>1. \A q \in Run : claim'[q].handle \in {claim[q].handle, NoSess}
        BY <1>0, <3>4 DEF DataOK, Taken
      <4>2. \A u \in User : \/ entries'[u] = None
                            \/ entries'[u].handle = NoSess
                            \/ entries[u] # None /\ entries'[u].handle = entries[u].handle
        BY <3>2, <3>4 DEF OnlyKey, Placeholder
      <4>3. NoNewHandle
        <5>1. \A q \in Run : sess'[q] = sess[q] /\ who'[q] = who[q] BY <3>1
        <5>2. \A q \in Run : sess'[q] \in {sess[q], NoSess} BY <5>1
        <5>3. \A q \in Run : claim'[q].handle \in {claim[q].handle, NoSess}
                            /\ sess'[q] \in {sess[q], NoSess}
          BY <4>1, <5>2
        <5>4. \A q \in Run : who'[q] = who[q] \/ (claim'[q].handle = NoSess /\ sess'[q] = NoSess)
          BY <5>1
        <5> QED BY <4>2, <5>3, <5>4 DEF NoNewHandle
      <4> QED BY <1>0, <4>3, NoNewHandleKnown
    <3>5. CASE /\ claim' = [claim EXCEPT ![r] = Taken(r, Entry(r).handle)]
               /\ Entry(r) # None /\ Entry(r).busy \in {None, r}
               /\ entries'[Key(r)] = [Entry(r) EXCEPT !.busy = r]
      <4>1. Names(wl', Entry(r).handle, who[r].user) BY <1>c, <3>1, <3>5 DEF Entry, Key
      <4>2. \A q \in Run : claim'[q].handle = claim[q].handle
                            \/ (q = r /\ claim'[q].handle = Entry(r).handle)
        BY <1>0, <3>5 DEF DataOK, Taken
      <4>3. entries'[Key(r)].handle = Entry(r).handle
        BY <1>0, <3>1, <3>5, EntryType DEF StickyEntry, Entry
      <4>4. \A u \in User : entries'[u] # None => Names(wl', entries'[u].handle, u)
        BY <1>c, <3>1, <3>2, <3>5, <4>3 DEF OnlyKey, Entry
      <4> QED BY <1>b, <3>1, <4>1, <4>2, <4>4 DEF HandlesKnown
    <3> QED BY <1>0, <3>1, <3>3, <3>4, <3>5, ClaimOutcome
  <2>5. CASE AttachOk(r)
    <3>1. claim[r].handle # NoSess BY <1>0, <2>5 DEF AttachOk, Staged
    <3>2. \A q \in Run : sess'[q] = sess[q]
                          \/ (q = r /\ sess'[q].lease = claim[r].handle.lease)
      BY <1>0, <2>5 DEF AttachOk, DataOK
    <3>3. \A q \in Run : Names(wl', sess'[q], who[q].user) BY <1>b, <3>1, <3>2 DEF Names
    <3>4. UNCHANGED <<who, claim, entries>> BY <2>5 DEF AttachOk
    <3> QED BY <1>b, <1>c, <3>3, <3>4 DEF HandlesKnown
  <2>6. CASE AttachFails(r)
    <3>1. Key(r) \in User /\ Forget(r) /\ UNCHANGED <<who, sess>>
      BY <1>0, <2>6, HasUser DEF AttachFails
    <3>2. OnlyKey(r) /\ entries'[Key(r)] \in {Entry(r), Placeholder(r)}
      BY <1>0, <3>1, ForgetOutcome
    <3>3. \A u \in User : entries'[u] # None => Names(wl', entries'[u].handle, u)
      BY <1>0, <3>1, <3>2, TableKnown
    <3>4. \A q \in Run : claim'[q].handle \in {claim[q].handle, NoSess}
      BY <1>0, <2>6 DEF AttachFails, DataOK
    <3> QED BY <1>a, <1>b, <3>1, <3>3, <3>4 DEF HandlesKnown
  <2>7. CASE CloseUntouched(r)
    <3>1. Key(r) \in User /\ UNCHANGED <<who, sess, claim>>
      BY <1>0, <2>7, HasUser DEF CloseUntouched
    <3>2. Names(wl, claim[r].handle, Key(r)) BY <1>0 DEF HandlesKnown, Key
    <3>3. OnlyKey(r) /\ entries'[Key(r)] \in {Entry(r), None, Kept(claim[r].handle)}
      BY <1>0, <2>7, CloseOutcome
    <3>4. \A u \in User : entries'[u] # None => Names(wl', entries'[u].handle, u)
      BY <1>0, <3>1, <3>2, <3>3, TableKnown
    <3> QED BY <1>b, <3>1, <3>4 DEF HandlesKnown
  <2>8. CASE ParkOk(r)
    <3>1. Key(r) \in User /\ UNCHANGED <<who, claim>> /\ Keep(r, sess[r])
      BY <1>0, <2>8, HasUser DEF ParkOk
    <3>2. Names(wl, sess[r], Key(r)) /\ sess[r] \in Handle
      BY <1>0 DEF HandlesKnown, Key, DataOK
    <3>3. OnlyKey(r) /\ entries'[Key(r)] \in {Entry(r), Kept(sess[r])}
      BY <1>0, <3>1, <3>2, KeepOutcome
    <3>4. \A u \in User : entries'[u] # None => Names(wl', entries'[u].handle, u)
      BY <1>0, <3>1, <3>2, <3>3, TableKnown
    <3>5. \A q \in Run : sess'[q] \in {sess[q], NoSess} BY <1>0, <2>8 DEF ParkOk, DataOK
    <3> QED BY <1>a, <1>b, <3>1, <3>4, <3>5 DEF HandlesKnown
  <2>9. CASE Freed(r)
    <3>1. Key(r) \in User /\ UNCHANGED <<who, claim>> BY <1>0, <2>9, HasUser DEF Freed
    <3>2. OnlyKey(r) /\ entries'[Key(r)] \in {Entry(r), None} BY <1>0, <2>9, FreedOutcome
    <3>3. \A u \in User : entries'[u] # None => Names(wl', entries'[u].handle, u)
      BY <1>0, <3>1, <3>2, TableKnown
    <3>4. \A q \in Run : sess'[q] \in {sess[q], NoSess} BY <1>0, <2>9 DEF Freed, DataOK
    <3> QED BY <1>a, <1>b, <3>1, <3>3, <3>4 DEF HandlesKnown
  <2> QED BY <1>1, <2>1, <2>2, <2>3, <2>4, <2>5, <2>6, <2>7, <2>8, <2>9
       DEF RunStep, Begin, EnterTurn, Loaded, OpenLease, OpenFails, Operate, TurnEnds,
           CloseLeased, ParkFails
<1>2. ASSUME NEW r \in Run, NEW l \in Lease, LeaseStep(r, l) PROVE HandlesKnown'
  <2>1. CASE LeaseOpened(r, l)
    <3>1. UNCHANGED <<who, claim, entries>> BY <2>1 DEF LeaseOpened
    <3>2. wl'[l].st = "held" /\ wl'[l].user = who[r].user
      BY <1>0, <2>1 DEF LeaseOpened, Fresh, DataOK
    <3>3. \A q \in Run : sess'[q] = sess[q] \/ (q = r /\ sess'[q].lease = l)
      BY <1>0, <2>1 DEF LeaseOpened, DataOK
    <3>4. \A q \in Run : Names(wl', sess'[q], who[q].user) BY <1>b, <3>2, <3>3 DEF Names
    <3> QED BY <1>b, <1>c, <3>1, <3>4 DEF HandlesKnown
  <2>2. CASE LeaseAnswerLost(r, l) \/ OperationEnds(r, l) \/ OperationFindsNoLease(r, l)
    <3>1. NoNewHandle
      BY <1>0, <2>2 DEF LeaseAnswerLost, OperationEnds, OperationFindsNoLease, NoNewHandle,
                        DataOK
    <3> QED BY <1>0, <3>1, NoNewHandleKnown
  <2> QED BY <1>2, <2>1, <2>2 DEF LeaseStep
<1>3. ASSUME NEW u \in User, HandleExpires(u) PROVE HandlesKnown'
  <2>1. \A v \in User : entries'[v] = entries[v]
                        \/ (entries[v] # None /\ entries'[v].handle = entries[v].handle)
    BY <1>0, <1>3, EntryType DEF HandleExpires, DataOK, StickyEntry
  <2>2. NoNewHandle BY <1>3, <2>1 DEF HandleExpires, NoNewHandle
  <2> QED BY <1>0, <2>2, NoNewHandleKnown
<1>4. ASSUME NEW l \in Lease, LeaseGone(l) PROVE HandlesKnown'
  <2>1. NoNewHandle BY <1>4 DEF LeaseGone, NoNewHandle
  <2> QED BY <1>0, <2>1, NoNewHandleKnown
<1>5. CASE UNCHANGED vars
  <2>1. NoNewHandle BY <1>5 DEF vars, NoNewHandle
  <2> QED BY <1>0, <2>1, NoNewHandleKnown
<1> QED BY <1>1, <1>2, <1>3, <1>4, <1>5 DEF Next
---------------------------------------------------------------------------
(* Who speaks to a lease.                                                  *)
NoNewHolder == \A q \in Run : \A l \in Lease : Holds(q, l)' => Holds(q, l)
SameEntries ==
    \A u \in User :
       \/ entries'[u] = None
       \/ entries'[u].handle = NoSess
       \/ /\ entries[u] # None
          /\ entries'[u].handle = entries[u].handle
          /\ entries'[u].busy = entries[u].busy

LEMMA NoSessNoLease == NoSess.lease \notin Lease
BY NoneAssumption DEF NoSess

LEMMA HoldersKept ==
    ASSUME OneHolder, HolderBusy, NoNewHolder, SameEntries
    PROVE  OneHolder' /\ HolderBusy'
<1>1. OneHolder' BY DEF OneHolder, NoNewHolder
<1>2. ASSUME NEW u \in User, NEW q \in Run, NEW l \in Lease,
             entries'[u] # None, entries'[u].handle.lease = l, Holds(q, l)'
      PROVE  entries'[u].busy = q
  <2>1. entries'[u].handle # NoSess BY <1>2, NoSessNoLease
  <2>2. /\ entries[u] # None /\ entries'[u].handle = entries[u].handle
        /\ entries'[u].busy = entries[u].busy
    BY <1>2, <2>1 DEF SameEntries
  <2>3. Holds(q, l) BY <1>2 DEF NoNewHolder
  <2> QED BY <1>2, <2>2, <2>3 DEF HolderBusy
<1>3. HolderBusy' BY <1>2 DEF HolderBusy
<1> QED BY <1>1, <1>3

(* A step that gives nobody a sandbox or a claim adds no holder.           *)
LEMMA FewerHolders ==
    ASSUME \A q \in Run : sess'[q] \in {sess[q], NoSess},
           \A q \in Run : claim'[q].handle \in {claim[q].handle, NoSess},
           \A q \in Run : pc'[q] \in WithSandbox =>
                             pc[q] \in WithSandbox \/ claim'[q].handle = NoSess
    PROVE  NoNewHolder
BY NoSessNoLease DEF NoNewHolder, Holds

(* A run that closes and puts a handle of its own back into the table.     *)
LEMMA KeepHolders ==
    ASSUME DataOK, OneHolder, HolderBusy, NoNewHolder, NEW r \in Run, Key(r) \in User,
           \A l \in Lease : ~Holds(r, l)',
           OnlyKey(r), NEW h \in Handle,
           h.lease \in Lease => Holds(r, h.lease),
           entries'[Key(r)] \in {Entry(r), None, Kept(h)}
    PROVE  OneHolder' /\ HolderBusy'
<1>1. OneHolder' BY DEF OneHolder, NoNewHolder
<1>2. ASSUME NEW u \in User, NEW q \in Run, NEW l \in Lease,
             entries'[u] # None, entries'[u].handle.lease = l, Holds(q, l)'
      PROVE  entries'[u].busy = q
  <2>0. Holds(q, l)' /\ Holds(q, l) BY <1>2 DEF NoNewHolder
  <2>1. CASE entries'[u] = entries[u] BY <1>2, <2>0, <2>1 DEF HolderBusy
  <2>2. CASE entries'[u] # entries[u]
    <3>1. u = Key(r) /\ entries'[u] = Kept(h) BY <1>2, <2>2 DEF OnlyKey, Entry
    <3>2. l = h.lease BY <1>2, <3>1 DEF Kept
    <3>3. Holds(r, l) BY <2>0, <3>2
    <3>4. q = r BY <2>0, <3>3 DEF OneHolder
    <3> QED BY <2>0, <3>4
  <2> QED BY <2>1, <2>2
<1>3. HolderBusy' BY <1>2 DEF HolderBusy
<1> QED BY <1>1, <1>3

LEMMA HoldersStep ==
    ASSUME Inv, [Next]_vars
    PROVE  OneHolder' /\ HolderBusy'
<1> USE RecordTypes, NoSessNoLease
<1>0. DataOK /\ Staged /\ HandlesKnown /\ OneHolder /\ HolderBusy BY DEF Inv
<1>1. ASSUME NEW r \in Run, RunStep(r) PROVE OneHolder' /\ HolderBusy'
  <2>1. CASE \/ \E u \in User : Execute(r, u)
             \/ Begin(r) \/ Refuse(r) \/ Finish(r) \/ EnterTurn(r) \/ Loaded(r)
             \/ OpenLease(r) \/ OpenFails(r) \/ Operate(r) \/ TurnEnds(r)
             \/ CloseLeased(r) \/ ParkFails(r)
    <3>1. UNCHANGED <<sess, entries>>
      BY <2>1 DEF Execute, Begin, Refuse, Finish, EnterTurn, Loaded, OpenLease, OpenFails,
                  Operate, TurnEnds, CloseLeased, ParkFails
    <3>2. \A q \in Run : claim'[q].handle \in {claim[q].handle, NoSess}
      BY <1>0, <2>1 DEF Execute, Begin, Refuse, Finish, EnterTurn, Loaded, OpenLease,
                  OpenFails, Operate, TurnEnds, CloseLeased, ParkFails, DataOK
    <3>3. \A q \in Run : pc'[q] \in WithSandbox => pc[q] \in WithSandbox
      BY <1>0, <2>1 DEF Execute, Begin, Refuse, Finish, EnterTurn, Loaded, OpenLease,
                  OpenFails, Operate, TurnEnds, CloseLeased, ParkFails, DataOK, Goto,
                  WithSandbox, InProgress, Stage
    <3>4. NoNewHolder BY <3>1, <3>2, <3>3, FewerHolders
    <3>5. SameEntries BY <3>1 DEF SameEntries
    <3> QED BY <1>0, <3>4, <3>5, HoldersKept
  <2>2. CASE CreateSession(r)
    <3>1. /\ Key(r) \in User /\ Claim(r) /\ UNCHANGED sess
          /\ pc[r] = "broker" /\ sess[r] = NoSess
      BY <1>0, <2>2, HasUser DEF CreateSession, Staged
    <3>2. OnlyKey(r) BY <1>0, <3>1, ClaimOutcome
    <3>3. \A q \in Run : q # r => pc'[q] = pc[q] BY <1>0, <2>2 DEF CreateSession, Goto, DataOK
    <3>4. CASE claim' = claim /\ entries' = entries
      <4>1. claim[r].handle = NoSess BY <1>0, <3>1 DEF Staged
      <4>2. NoNewHolder BY <3>1, <3>3, <3>4, <4>1, FewerHolders
      <4>3. SameEntries BY <3>4 DEF SameEntries
      <4> QED BY <1>0, <4>2, <4>3, HoldersKept
    <3>5. CASE /\ claim' = [claim EXCEPT ![r] = Taken(r, NoSess)]
               /\ entries'[Key(r)] \in {None, Placeholder(r)}
      <4>1. \A q \in Run : claim'[q].handle = IF q = r THEN NoSess ELSE claim[q].handle
        BY <1>0, <3>5 DEF DataOK, Taken
      <4>2. NoNewHolder BY <3>1, <3>3, <4>1, FewerHolders
      <4>3. SameEntries BY <3>2, <3>5 DEF SameEntries, OnlyKey, Placeholder
      <4> QED BY <1>0, <4>2, <4>3, HoldersKept
    <3>6. CASE /\ claim' = [claim EXCEPT ![r] = Taken(r, Entry(r).handle)]
               /\ Entry(r) # None /\ Entry(r).busy \in {None, r}
               /\ entries'[Key(r)] = [Entry(r) EXCEPT !.busy = r]
               /\ \A u \in User : u # Key(r) => entries'[u] = entries[u]
      <4> DEFINE m == Entry(r).handle.lease
      <4>1. \A q \in Run : claim'[q].handle = IF q = r THEN Entry(r).handle ELSE claim[q].handle
        BY <1>0, <3>6 DEF DataOK, Taken
      <4>2. \A q \in Run : \A l \in Lease : Holds(q, l)' => Holds(q, l) \/ (q = r /\ l = m)
        BY <3>1, <3>3, <4>1 DEF Holds
      <4>3. ASSUME NEW q \in Run, m \in Lease, Holds(q, m) PROVE q = r
        <5>1. Entry(r).busy = q BY <1>0, <3>1, <3>6, <4>3 DEF HolderBusy, Entry
        <5> QED BY <3>6, <5>1, NoneAssumption
      <4>4. OneHolder' BY <1>0, <4>2, <4>3 DEF OneHolder
      <4>5. ASSUME NEW u \in User, NEW q \in Run, NEW l \in Lease,
                   entries'[u] # None, entries'[u].handle.lease = l, Holds(q, l)'
            PROVE  entries'[u].busy = q
        <5>1. CASE u = Key(r)
          <6>1. Entry(r) \in StickyEntry BY <1>0, <3>1, <3>6, EntryType DEF Entry
          <6>2. entries'[u].busy = r /\ entries'[u].handle = Entry(r).handle
            BY <3>6, <5>1, <6>1 DEF StickyEntry
          <6>3. l = m BY <4>5, <6>2
          <6>4. q = r BY <4>2, <4>3, <4>5, <6>3
          <6> QED BY <6>2, <6>4
        <5>2. CASE u # Key(r)
          <6>1. entries'[u] = entries[u] BY <3>6, <5>2
          <6>2. entries[u].handle # NoSess /\ wl[l].user = u
            BY <1>0, <4>5, <6>1 DEF HandlesKnown, Names
          <6>3. l # m
            <7>1. m \in Lease => wl[m].user = Key(r)
              BY <1>0, <3>1, <3>6 DEF HandlesKnown, Names, Entry
            <7> QED BY <5>2, <6>2, <7>1
          <6>4. Holds(q, l) BY <4>2, <4>5, <6>3
          <6> QED BY <1>0, <4>5, <6>1, <6>4 DEF HolderBusy
        <5> QED BY <5>1, <5>2
      <4>6. HolderBusy' BY <4>5 DEF HolderBusy
      <4> QED BY <4>4, <4>6
    <3> QED BY <1>0, <3>1, <3>4, <3>5, <3>6, ClaimOutcome
  <2>3. CASE AttachOk(r)
    <3>1. UNCHANGED <<claim, entries>> BY <2>3 DEF AttachOk
    <3>2. pc[r] \in WithSandbox /\ \A q \in Run : pc'[q] \in WithSandbox => pc[q] \in WithSandbox
      BY <1>0, <2>3 DEF AttachOk, Goto, WithSandbox, InProgress, Stage, DataOK
    <3>3. \A q \in Run : sess'[q] = sess[q]
                          \/ (q = r /\ sess'[q].lease = claim[r].handle.lease)
      BY <1>0, <2>3 DEF AttachOk, DataOK
    <3>4. NoNewHolder BY <3>1, <3>2, <3>3 DEF NoNewHolder, Holds
    <3>5. SameEntries BY <3>1 DEF SameEntries
    <3> QED BY <1>0, <3>4, <3>5, HoldersKept
  <2>4. CASE AttachFails(r)
    <3>1. Key(r) \in User /\ Forget(r) /\ UNCHANGED sess
      BY <1>0, <2>4, HasUser DEF AttachFails
    <3>2. OnlyKey(r) /\ entries'[Key(r)] \in {Entry(r), Placeholder(r)}
      BY <1>0, <3>1, ForgetOutcome
    <3>3. SameEntries BY <3>1, <3>2 DEF SameEntries, OnlyKey, Entry, Placeholder
    <3>4. \A q \in Run : claim'[q].handle \in {claim[q].handle, NoSess}
      BY <1>0, <2>4 DEF AttachFails, DataOK
    <3>5. \A q \in Run : pc'[q] \in WithSandbox => pc[q] \in WithSandbox
      BY <1>0, <2>4 DEF AttachFails, Goto, WithSandbox, InProgress, Stage, DataOK
    <3>6. NoNewHolder BY <3>1, <3>4, <3>5, FewerHolders
    <3> QED BY <1>0, <3>3, <3>6, HoldersKept
  <2>5. CASE CloseUntouched(r)
    <3>1. Key(r) \in User /\ UNCHANGED <<claim, sess>>
      BY <1>0, <2>5, HasUser DEF CloseUntouched
    <3>2. OnlyKey(r) /\ entries'[Key(r)] \in {Entry(r), None, Kept(claim[r].handle)}
      BY <1>0, <2>5, CloseOutcome
    <3>3. /\ pc[r] \in WithSandbox /\ pc'[r] \notin WithSandbox
          /\ \A q \in Run : pc'[q] \in WithSandbox => pc[q] \in WithSandbox
      BY <1>0, <2>5 DEF CloseUntouched, Goto, WithSandbox, InProgress, Stage, DataOK
    <3>4. NoNewHolder BY <3>1, <3>3, FewerHolders
    <3>5. \A l \in Lease : ~Holds(r, l)'
      BY <1>0, <2>5, <3>1, <3>3 DEF CloseUntouched, Holds
    <3>6. claim[r].handle \in Handle /\ Holds(r, claim[r].handle.lease)
      BY <1>0, <3>3 DEF Holds, DataOK
    <3> QED BY <1>0, <3>1, <3>2, <3>4, <3>5, <3>6, KeepHolders
  <2>6. CASE ParkOk(r)
    <3>1. Key(r) \in User /\ Keep(r, sess[r]) /\ UNCHANGED claim /\ sess[r] \in Handle
      BY <1>0, <2>6, HasUser DEF ParkOk, DataOK
    <3>2. OnlyKey(r) /\ entries'[Key(r)] \in {Entry(r), Kept(sess[r])}
      BY <1>0, <3>1, KeepOutcome
    <3>3. /\ pc'[r] \notin WithSandbox
          /\ \A q \in Run : pc'[q] \in WithSandbox => pc[q] \in WithSandbox
      BY <1>0, <2>6 DEF ParkOk, Goto, WithSandbox, InProgress, Stage, DataOK
    <3>4. sess'[r] = NoSess /\ \A q \in Run : sess'[q] \in {sess[q], NoSess}
      BY <1>0, <2>6 DEF ParkOk, DataOK
    <3>5. NoNewHolder BY <3>1, <3>3, <3>4, FewerHolders
    <3>6. \A l \in Lease : ~Holds(r, l)' BY <3>3, <3>4 DEF Holds
    <3>7. Holds(r, sess[r].lease) BY DEF Holds
    <3> QED BY <1>0, <3>1, <3>2, <3>5, <3>6, <3>7, KeepHolders
  <2>7. CASE Freed(r)
    <3>1. Key(r) \in User /\ UNCHANGED claim BY <1>0, <2>7, HasUser DEF Freed
    <3>2. OnlyKey(r) /\ entries'[Key(r)] \in {Entry(r), None} BY <1>0, <2>7, FreedOutcome
    <3>3. SameEntries BY <3>1, <3>2 DEF SameEntries, OnlyKey, Entry
    <3>4. \A q \in Run : sess'[q] \in {sess[q], NoSess} BY <1>0, <2>7 DEF Freed, DataOK
    <3>5. \A q \in Run : pc'[q] \in WithSandbox => pc[q] \in WithSandbox
      BY <1>0, <2>7 DEF Freed, Goto, WithSandbox, InProgress, Stage, DataOK
    <3>6. NoNewHolder BY <3>1, <3>4, <3>5, FewerHolders
    <3> QED BY <1>0, <3>3, <3>6, HoldersKept
  <2> QED BY <1>1, <2>1, <2>2, <2>3, <2>4, <2>5, <2>6, <2>7 DEF RunStep
<1>2. ASSUME NEW r \in Run, NEW l \in Lease, LeaseStep(r, l)
      PROVE  OneHolder' /\ HolderBusy'
  <2>1. CASE LeaseOpened(r, l)
    <3>1. UNCHANGED <<pc, claim, entries>> /\ wl[l].st = "unused"
      BY <2>1 DEF LeaseOpened
    <3>2. \A q \in Run : sess'[q] = sess[q] \/ (q = r /\ sess'[q].lease = l)
      BY <1>0, <2>1 DEF LeaseOpened, DataOK
    <3>3. \A q \in Run : ~Holds(q, l)
      BY <1>0, <3>1 DEF Holds, HandlesKnown, Names
    <3>4. \A u \in User : entries[u] # None => entries[u].handle.lease # l
      BY <1>0, <3>1 DEF HandlesKnown, Names
    <3>5. \A q \in Run : \A m \in Lease : Holds(q, m)' => Holds(q, m) \/ (q = r /\ m = l)
      BY <3>1, <3>2 DEF Holds
    <3>6. OneHolder' BY <1>0, <3>3, <3>5 DEF OneHolder
    <3>7. HolderBusy' BY <1>0, <3>1, <3>4, <3>5 DEF HolderBusy
    <3> QED BY <3>6, <3>7
  <2>2. CASE LeaseAnswerLost(r, l) \/ OperationEnds(r, l) \/ OperationFindsNoLease(r, l)
    <3>1. UNCHANGED <<pc, claim, entries>>
      BY <2>2 DEF LeaseAnswerLost, OperationEnds, OperationFindsNoLease
    <3>2. \A q \in Run : sess'[q] \in {sess[q], NoSess}
      BY <1>0, <2>2 DEF LeaseAnswerLost, OperationEnds, OperationFindsNoLease, DataOK
    <3>3. NoNewHolder BY <3>1, <3>2, FewerHolders
    <3>4. SameEntries BY <3>1 DEF SameEntries
    <3> QED BY <1>0, <3>3, <3>4, HoldersKept
  <2> QED BY <1>2, <2>1, <2>2 DEF LeaseStep
<1>3. ASSUME NEW u \in User, HandleExpires(u) PROVE OneHolder' /\ HolderBusy'
  <2>1. SameEntries
    BY <1>0, <1>3, EntryType DEF HandleExpires, DataOK, StickyEntry, SameEntries
  <2>2. NoNewHolder BY <1>3 DEF HandleExpires, NoNewHolder, Holds
  <2> QED BY <1>0, <2>1, <2>2, HoldersKept
<1>4. CASE \/ \E l \in Lease : LeaseGone(l)
           \/ UNCHANGED vars
  <2>1. UNCHANGED <<pc, claim, sess, entries>> BY <1>4 DEF LeaseGone, vars
  <2>2. NoNewHolder BY <2>1 DEF NoNewHolder, Holds
  <2>3. SameEntries BY <2>1 DEF SameEntries
  <2> QED BY <1>0, <2>2, <2>3, HoldersKept
<1> QED BY <1>1, <1>2, <1>3, <1>4 DEF Next
---------------------------------------------------------------------------
(* Leases in use have a run.                                               *)
InUse(w) == w.st = "held" /\ ~w.lost
HasRun(l) == \E r \in Run : pc[r] \in InProgress /\ sess[r].lease = l

LEMMA HeldIs == HeldLeaseHasRun <=> \A l \in Lease : InUse(wl[l]) => HasRun(l)
BY DEF HeldLeaseHasRun, InUse, HasRun

LEMMA HeldKept ==
    ASSUME HeldLeaseHasRun,
           \A l \in Lease : InUse(wl'[l]) =>
              \/ HasRun(l)'
              \/ /\ InUse(wl[l])
                 /\ \A q \in Run : pc[q] \in InProgress /\ sess[q].lease = l =>
                                   pc'[q] \in InProgress /\ sess'[q].lease = l
    PROVE  HeldLeaseHasRun'
<1>1. ASSUME NEW l \in Lease, InUse(wl'[l]) PROVE HasRun(l)'
  <2>1. CASE HasRun(l)' BY <2>1
  <2>2. CASE /\ InUse(wl[l])
             /\ \A q \in Run : pc[q] \in InProgress /\ sess[q].lease = l =>
                               pc'[q] \in InProgress /\ sess'[q].lease = l
    <3>1. HasRun(l) BY <2>2, HeldIs
    <3> QED BY <2>2, <3>1 DEF HasRun
  <2> QED BY <1>1, <2>1, <2>2
<1> QED BY <1>1 DEF HeldLeaseHasRun, InUse, HasRun

LEMMA HeldStep ==
    ASSUME Inv, [Next]_vars
    PROVE  HeldLeaseHasRun'
<1> USE RecordTypes, NoSessNoLease
<1>0. DataOK /\ Staged /\ HandlesKnown /\ HeldLeaseHasRun BY DEF Inv
<1>1. ASSUME NEW r \in Run, RunStep(r) PROVE HeldLeaseHasRun'
  <2>1. CASE \/ \E u \in User : Execute(r, u)
             \/ Begin(r) \/ Refuse(r) \/ Finish(r) \/ CreateSession(r) \/ EnterTurn(r)
             \/ Loaded(r) \/ OpenLease(r) \/ OpenFails(r) \/ Operate(r) \/ TurnEnds(r)
             \/ CloseUntouched(r) \/ CloseLeased(r)
    <3>1. UNCHANGED <<sess, wl>>
      BY <2>1 DEF Execute, Begin, Refuse, Finish, CreateSession, EnterTurn, Loaded,
                  OpenLease, OpenFails, Operate, TurnEnds, CloseUntouched, CloseLeased
    <3>2. \A q \in Run : pc[q] \in InProgress => pc'[q] \in InProgress \/ sess[q] = NoSess
      BY <1>0, <2>1 DEF Execute, Begin, Refuse, Finish, CreateSession, EnterTurn, Loaded,
                  OpenLease, OpenFails, Operate, TurnEnds, CloseUntouched, CloseLeased,
                  Goto, InProgress, Stage, DataOK, Staged
    <3> QED BY <1>0, <3>1, <3>2, HeldKept
  <2>2. CASE AttachOk(r)
    <3>1. PICK l \in Lease : l = claim[r].handle.lease
      BY <1>0, <2>2 DEF AttachOk, Staged, HandlesKnown, Names
    <3>2. \A m \in Lease : m # l => wl'[m] = wl[m] BY <1>0, <2>2, <3>1 DEF AttachOk, DataOK
    <3>3. sess'[r].lease = l /\ sess[r] = NoSess /\ pc'[r] = "work"
      BY <1>0, <2>2, <3>1 DEF AttachOk, DataOK, Staged, Goto
    <3>4. \A q \in Run : q # r => sess'[q] = sess[q] /\ pc'[q] = pc[q]
      BY <1>0, <2>2 DEF AttachOk, DataOK, Goto
    <3>5. HasRun(l)' BY <3>3 DEF HasRun, InProgress, Stage
    <3>6. ASSUME NEW m \in Lease, m # l, NEW q \in Run, sess[q].lease = m
          PROVE  pc'[q] = pc[q] /\ sess'[q].lease = m
      BY <3>3, <3>4, <3>6
    <3> QED BY <1>0, <3>2, <3>5, <3>6, HeldKept
  <2>3. CASE AttachFails(r)
    <3> DEFINE l == claim[r].handle.lease
    <3>1. l \in Lease BY <1>0, <2>3 DEF AttachFails, Staged, HandlesKnown, Names
    <3> HIDE DEF l
    <3>2. \A m \in Lease : wl'[m] = wl[m] \/ wl'[m].lost
      <4>1. CASE wl' = wl BY <4>1
      <4>2. CASE wl' = [wl EXCEPT ![l] = [wl[l] EXCEPT !.st = "held",
                           !.token = RotatedToken(l), !.lost = TRUE]]
        <5> DEFINE w == [wl[l] EXCEPT !.st = "held", !.token = RotatedToken(l), !.lost = TRUE]
        <5>1. wl[l] \in Leases BY <1>0, <3>1 DEF DataOK, Leases
        <5>2. w.lost = TRUE BY <5>1 DEF Leases
        <5> HIDE DEF w
        <5>3. wl' = [wl EXCEPT ![l] = w] BY <4>2 DEF w
        <5>4. \A m \in Lease : wl'[m] = IF m = l THEN w ELSE wl[m]
          BY <1>0, <3>1, <5>3 DEF DataOK
        <5> HIDE <4>2
        <5> QED BY <5>2, <5>4
      <4> QED BY <2>3, <4>1, <4>2 DEF AttachFails, l
    <3>3. UNCHANGED sess BY <2>3 DEF AttachFails
    <3>4. \A q \in Run : pc[q] \in InProgress => pc'[q] \in InProgress
      BY <1>0, <2>3 DEF AttachFails, Goto, InProgress, Stage, DataOK
    <3> QED BY <1>0, <3>2, <3>3, <3>4, HeldKept DEF InUse
  <2>4. CASE ParkFails(r)
    <3>1. \A m \in Lease : wl'[m] = wl[m] \/ wl'[m].st = "parked"
      BY <1>0, <2>4 DEF ParkFails, DataOK
    <3>2. UNCHANGED sess BY <2>4 DEF ParkFails
    <3>3. \A q \in Run : pc[q] \in InProgress => pc'[q] \in InProgress
      BY <1>0, <2>4 DEF ParkFails, Goto, InProgress, Stage, DataOK
    <3> QED BY <1>0, <3>1, <3>2, <3>3, HeldKept DEF InUse
  <2>5. CASE ParkOk(r) \/ Freed(r)
    <3> DEFINE l == sess[r].lease
    <3>1. l \in Lease BY <1>0, <2>5 DEF ParkOk, Freed, Staged, HandlesKnown, Names
    <3>2. \A q \in Run : q # r => sess'[q] = sess[q] /\ pc'[q] = pc[q]
      BY <1>0, <2>5 DEF ParkOk, Freed, DataOK, Goto
    <3>3. \/ wl' = [wl EXCEPT ![l].st = "parked"]
          \/ wl' = [wl EXCEPT ![l].st = "gone"]
          \/ wl' = [wl EXCEPT ![l].lost = TRUE]
      BY <2>5 DEF ParkOk, Freed
    <3> HIDE DEF l
    <3> HIDE <2>5
    <3>4. ~InUse(wl'[l]) /\ \A m \in Lease : m # l => wl'[m] = wl[m]
      <4>0. wl \in [Lease -> Leases] BY <1>0 DEF DataOK, Leases
      <4>1. ASSUME NEW st \in {"parked", "gone"}, wl' = [wl EXCEPT ![l].st = st]
            PROVE  ~InUse(wl'[l]) /\ \A m \in Lease : m # l => wl'[m] = wl[m]
        BY <3>1, <4>0, <4>1 DEF InUse, Leases
      <4>2. CASE wl' = [wl EXCEPT ![l].lost = TRUE]
        BY <3>1, <4>0, <4>2 DEF InUse, Leases
      <4> QED BY <3>3, <4>1, <4>2
    <3>5. \A m \in Lease : sess[r].lease = m => m = l BY DEF l
    <3> QED BY <1>0, <3>2, <3>4, <3>5, HeldKept
  <2> QED BY <1>1, <2>1, <2>2, <2>3, <2>4, <2>5 DEF RunStep
<1>2. ASSUME NEW r \in Run, NEW l \in Lease, LeaseStep(r, l) PROVE HeldLeaseHasRun'
  <2>0. UNCHANGED pc
    BY <1>2 DEF LeaseStep, LeaseOpened, LeaseAnswerLost, OperationEnds, OperationFindsNoLease
  <2>1. CASE LeaseOpened(r, l)
    <3>1. pc[r] = "work" /\ sess[r] = NoSess BY <1>0, <2>1 DEF LeaseOpened, Staged
    <3>2. sess'[r].lease = l /\ \A q \in Run : q # r => sess'[q] = sess[q]
      BY <1>0, <2>1 DEF LeaseOpened, DataOK
    <3>3. HasRun(l)' BY <2>0, <3>1, <3>2 DEF HasRun, InProgress, Stage
    <3>4. \A m \in Lease : m # l => wl'[m] = wl[m] BY <1>0, <2>1 DEF LeaseOpened, DataOK
    <3>5. ASSUME NEW m \in Lease, NEW q \in Run, sess[q].lease = m
          PROVE  sess'[q].lease = m
      BY <3>1, <3>2, <3>5
    <3> QED BY <1>0, <2>0, <3>3, <3>4, <3>5, HeldKept
  <2>2. CASE LeaseAnswerLost(r, l)
    <3>1. \A m \in Lease : wl'[m] = wl[m] \/ wl'[m].lost
      BY <1>0, <2>2 DEF LeaseAnswerLost, Fresh, DataOK
    <3>2. UNCHANGED sess BY <2>2 DEF LeaseAnswerLost
    <3> QED BY <1>0, <2>0, <3>1, <3>2, HeldKept DEF InUse
  <2>3. CASE OperationEnds(r, l) \/ (OperationFindsNoLease(r, l) /\ sess[r] = NoSess)
    <3>1. UNCHANGED wl BY <2>3 DEF OperationEnds, OperationFindsNoLease
    <3>2. \A q \in Run : sess'[q] = sess[q]
      BY <1>0, <2>3 DEF OperationEnds, OperationFindsNoLease, DataOK
    <3> QED BY <1>0, <2>0, <3>1, <3>2, HeldKept
  <2>4. CASE OperationFindsNoLease(r, l) /\ sess[r] # NoSess
    <3> DEFINE m == sess[r].lease
    <3>1. m \in Lease BY <1>0, <2>4 DEF HandlesKnown, Names
    <3>2. wl' = [wl EXCEPT ![m].lost = TRUE] BY <2>4 DEF OperationFindsNoLease
    <3>3. \A q \in Run : q # r => sess'[q] = sess[q]
      BY <1>0, <2>4 DEF OperationFindsNoLease, DataOK
    <3>4. \A n \in Lease : sess[r].lease = n => n = m OBVIOUS
    <3> HIDE DEF m
    <3> HIDE <2>4
    <3>5. ~InUse(wl'[m]) /\ \A n \in Lease : n # m => wl'[n] = wl[n]
      <4>0. wl \in [Lease -> Leases] BY <1>0 DEF DataOK, Leases
      <4> QED BY <3>1, <3>2, <4>0 DEF InUse, Leases
    <3> QED BY <1>0, <2>0, <3>3, <3>4, <3>5, HeldKept
  <2> QED BY <1>2, <2>1, <2>2, <2>3, <2>4 DEF LeaseStep
<1>3. ASSUME NEW u \in User, HandleExpires(u) PROVE HeldLeaseHasRun'
  BY <1>0, <1>3 DEF HandleExpires, HeldLeaseHasRun
<1>4. ASSUME NEW l \in Lease, LeaseGone(l) PROVE HeldLeaseHasRun'
  <2>1. \A m \in Lease : wl'[m] = wl[m] \/ wl'[m].st = "gone"
    BY <1>0, <1>4 DEF LeaseGone, DataOK
  <2>2. UNCHANGED <<pc, sess>> BY <1>4 DEF LeaseGone
  <2> QED BY <1>0, <2>1, <2>2, HeldKept DEF InUse
<1>5. CASE UNCHANGED vars BY <1>0, <1>5 DEF vars, HeldLeaseHasRun
<1> QED BY <1>1, <1>2, <1>3, <1>4, <1>5 DEF Next
---------------------------------------------------------------------------
(* The budgets.                                                            *)
RunsOf(a, w, u) == {r \in a : w[r].user = u}

LEMMA ActiveFinite ==
    ASSUME DataOK
    PROVE  IsFiniteSet(active) /\ \A u : IsFiniteSet(RunsOf(active, who, u))
<1>1. IsFiniteSet(active) BY RunsFinite, FS_Subset DEF DataOK
<1>2. \A u : RunsOf(active, who, u) \subseteq active BY DEF RunsOf
<1> QED BY <1>1, <1>2, FS_Subset

(* A run that enters or leaves counts for its own user, once.              *)
LEMMA CountAdd ==
    ASSUME NEW S, IsFiniteSet(S), NEW x, x \notin S
    PROVE  /\ Cardinality(S) \in Nat
           /\ Cardinality(S \cup {x}) = Cardinality(S) + 1
BY FS_AddElement, FS_CardinalityType

LEMMA CountRemove ==
    ASSUME NEW S, IsFiniteSet(S), NEW x \in S
    PROVE  /\ Cardinality(S) \in Nat /\ Cardinality(S) > 0
           /\ Cardinality(S \ {x}) = Cardinality(S) - 1
<1>1. Cardinality(S) \in Nat BY FS_CardinalityType
<1>2. Cardinality(S \ {x}) = Cardinality(S) - 1 BY FS_RemoveElement
<1>3. IsFiniteSet(S \ {x}) BY FS_RemoveElement
<1>4. Cardinality(S \ {x}) \in Nat BY <1>3, FS_CardinalityType
<1> QED BY <1>1, <1>2, <1>4

LEMMA BeginBudget ==
    ASSUME DataOK, Staged, BudgetExact, NEW r \in Run, Begin(r)
    PROVE  BudgetExact'
<1> DEFINE v == who[r].user
<1>0. /\ active \subseteq Run /\ r \notin active /\ v \in User /\ who' = who
      /\ active' = active \cup {r}
      /\ perUser' = [perUser EXCEPT ![v] = @ + 1] /\ perUser \in [User -> Nat]
      /\ Cardinality(active) < MaxRuns /\ perUser[v] < MaxPerUser
  BY HasUser DEF Begin, HasRoom, BudgetExact, DataOK, InProgress, Stage
<1>1. active' = {q \in Run : pc'[q] \in InProgress}
  <2>1. pc'[r] \in InProgress /\ \A q \in Run : q # r => pc'[q] = pc[q]
    BY DEF Begin, Goto, DataOK, InProgress, Stage
  <2>2. active = {q \in Run : pc[q] \in InProgress} BY DEF BudgetExact
  <2> QED BY <1>0, <2>1, <2>2
<1>2. Cardinality(active') <= MaxRuns
  <2>1. Cardinality(active) \in Nat /\ Cardinality(active') = Cardinality(active) + 1
    BY <1>0, ActiveFinite, CountAdd
  <2> QED BY <1>0, <2>1, NatAssumption
<1>3. ASSUME NEW u \in User
      PROVE  /\ perUser'[u] = Cardinality(RunsOf(active', who', u))
             /\ perUser'[u] <= MaxPerUser
  <2>0. perUser[u] = Cardinality(RunsOf(active, who, u)) /\ perUser[u] <= MaxPerUser
    BY DEF BudgetExact, RunsOf
  <2>1. CASE u = v
    <3>1. RunsOf(active', who', u) = RunsOf(active, who, u) \cup {r}
      BY <1>0, <2>1 DEF RunsOf
    <3>2. r \notin RunsOf(active, who, u) BY <1>0 DEF RunsOf
    <3>3. Cardinality(RunsOf(active', who', u)) = perUser[u] + 1
      BY <2>0, <3>1, <3>2, ActiveFinite, CountAdd
    <3>4. perUser'[u] = perUser[u] + 1 BY <1>0, <2>1
    <3> QED BY <1>0, <2>1, <3>3, <3>4, NatAssumption
  <2>2. CASE u # v
    <3>1. RunsOf(active', who', u) = RunsOf(active, who, u) BY <1>0, <2>2 DEF RunsOf
    <3> QED BY <1>0, <2>0, <2>2, <3>1
  <2> QED BY <2>1, <2>2
<1> QED BY <1>1, <1>2, <1>3 DEF BudgetExact, RunsOf

LEMMA FinishBudget ==
    ASSUME DataOK, Staged, BudgetExact, NEW r \in Run, Finish(r)
    PROVE  BudgetExact'
<1> DEFINE v == who[r].user
<1>0. /\ active \subseteq Run /\ r \in active /\ v \in User
      /\ \A q \in Run : q # r => who'[q] = who[q]
      /\ active' = active \ {r}
      /\ perUser' = [perUser EXCEPT ![v] = IF @ > 0 THEN @ - 1 ELSE 0]
      /\ perUser \in [User -> Nat]
  BY HasUser DEF Finish, Release, BudgetExact, DataOK, InProgress, Stage
<1>1. active' = {q \in Run : pc'[q] \in InProgress}
  <2>1. pc'[r] \notin InProgress /\ \A q \in Run : q # r => pc'[q] = pc[q]
    BY DEF Finish, Goto, DataOK, InProgress, Stage
  <2>2. active = {q \in Run : pc[q] \in InProgress} BY DEF BudgetExact
  <2> QED BY <1>0, <2>1, <2>2
<1>2. Cardinality(active') <= MaxRuns
  <2>1. Cardinality(active) \in Nat /\ Cardinality(active') = Cardinality(active) - 1
    BY <1>0, ActiveFinite, CountRemove
  <2>2. Cardinality(active) <= MaxRuns BY DEF BudgetExact
  <2> QED BY <2>1, <2>2, NatAssumption
<1>3. ASSUME NEW u \in User
      PROVE  /\ perUser'[u] = Cardinality(RunsOf(active', who', u))
             /\ perUser'[u] <= MaxPerUser
  <2>0. perUser[u] = Cardinality(RunsOf(active, who, u)) /\ perUser[u] <= MaxPerUser
    BY DEF BudgetExact, RunsOf
  <2>1. CASE u = v
    <3>1. RunsOf(active', who', u) = RunsOf(active, who, u) \ {r}
      BY <1>0, <2>1 DEF RunsOf
    <3>2. r \in RunsOf(active, who, u) BY <1>0, <2>1 DEF RunsOf
    <3>3. /\ perUser[u] > 0
          /\ Cardinality(RunsOf(active', who', u)) = perUser[u] - 1
      BY <2>0, <3>1, <3>2, ActiveFinite, CountRemove
    <3>4. perUser'[u] = perUser[u] - 1 BY <1>0, <2>1, <3>3
    <3> QED BY <1>0, <2>0, <3>3, <3>4, NatAssumption
  <2>2. CASE u # v
    <3>1. RunsOf(active', who', u) = RunsOf(active, who, u) BY <1>0, <2>2 DEF RunsOf
    <3> QED BY <1>0, <2>0, <2>2, <3>1
  <2> QED BY <2>1, <2>2
<1> QED BY <1>1, <1>2, <1>3 DEF BudgetExact, RunsOf

(* A step within a turn, or before one, leaves the counts alone.           *)
LEMMA SameBudget ==
    ASSUME DataOK, BudgetExact, UNCHANGED <<active, perUser>>,
           \A q \in Run : pc'[q] \in InProgress <=> pc[q] \in InProgress,
           \A q \in Run : pc[q] \in InProgress => who'[q] = who[q]
    PROVE  BudgetExact'
<1>1. active = {q \in Run : pc[q] \in InProgress} BY DEF BudgetExact
<1>2. active' = {q \in Run : pc'[q] \in InProgress} BY <1>1
<1>3. \A u \in User : RunsOf(active', who', u) = RunsOf(active, who, u) BY <1>1 DEF RunsOf
<1>4. \A u \in User : perUser'[u] = Cardinality(RunsOf(active', who', u))
  BY <1>3 DEF BudgetExact, RunsOf
<1> QED BY <1>2, <1>4 DEF BudgetExact, RunsOf

LEMMA BudgetStep ==
    ASSUME Inv, [Next]_vars
    PROVE  BudgetExact'
<1>0. DataOK /\ Staged /\ BudgetExact BY DEF Inv
<1>1. ASSUME NEW r \in Run, RunStep(r) PROVE BudgetExact'
  <2>1. CASE Begin(r) BY <1>0, <2>1, BeginBudget
  <2>2. CASE Finish(r) BY <1>0, <2>2, FinishBudget
  <2> DEFINE Keeps == /\ UNCHANGED <<active, perUser>>
                      /\ \A q \in Run : pc'[q] \in InProgress <=> pc[q] \in InProgress
                      /\ \A q \in Run : pc[q] \in InProgress => who'[q] = who[q]
  <2>3. ASSUME NEW u \in User, Execute(r, u) PROVE Keeps
    BY <1>0, <2>3 DEF Execute, Goto, InProgress, Stage, DataOK
  <2>4. ASSUME Refuse(r) PROVE Keeps BY <1>0, <2>4 DEF Refuse, Goto, InProgress, Stage, DataOK
  <2>5. ASSUME CreateSession(r) PROVE Keeps BY <1>0, <2>5 DEF CreateSession, Goto, InProgress, Stage, DataOK
  <2>6. ASSUME EnterTurn(r) PROVE Keeps BY <1>0, <2>6 DEF EnterTurn, Goto, InProgress, Stage, DataOK
  <2>7. ASSUME Loaded(r) PROVE Keeps BY <1>0, <2>7 DEF Loaded, Goto, InProgress, Stage, DataOK
  <2>8. ASSUME AttachOk(r) PROVE Keeps BY <1>0, <2>8 DEF AttachOk, Goto, InProgress, Stage, DataOK
  <2>9. ASSUME AttachFails(r) PROVE Keeps BY <1>0, <2>9 DEF AttachFails, Goto, InProgress, Stage, DataOK
  <2>10. ASSUME OpenLease(r) PROVE Keeps BY <1>0, <2>10 DEF OpenLease, DataOK
  <2>11. ASSUME OpenFails(r) PROVE Keeps BY <1>0, <2>11 DEF OpenFails, DataOK
  <2>12. ASSUME Operate(r) PROVE Keeps BY <1>0, <2>12 DEF Operate, DataOK
  <2>13. ASSUME TurnEnds(r) PROVE Keeps BY <1>0, <2>13 DEF TurnEnds, Goto, InProgress, Stage, DataOK
  <2>14. ASSUME CloseUntouched(r) PROVE Keeps BY <1>0, <2>14 DEF CloseUntouched, Goto, InProgress, Stage, DataOK
  <2>15. ASSUME CloseLeased(r) PROVE Keeps BY <1>0, <2>15 DEF CloseLeased, Goto, InProgress, Stage, DataOK
  <2>16. ASSUME ParkOk(r) PROVE Keeps BY <1>0, <2>16 DEF ParkOk, Goto, InProgress, Stage, DataOK
  <2>17. ASSUME ParkFails(r) PROVE Keeps BY <1>0, <2>17 DEF ParkFails, Goto, InProgress, Stage, DataOK
  <2>18. ASSUME Freed(r) PROVE Keeps BY <1>0, <2>18 DEF Freed, Goto, InProgress, Stage, DataOK
  <2>19. ASSUME Keeps PROVE BudgetExact' BY <1>0, <2>19, SameBudget
  <2> HIDE DEF Keeps
  <2> QED BY <1>1, <2>1, <2>2, <2>3, <2>4, <2>5, <2>6, <2>7, <2>8, <2>9,
             <2>10, <2>11, <2>12, <2>13, <2>14, <2>15, <2>16, <2>17, <2>18, <2>19 DEF RunStep
<1>2. CASE \/ \E r \in Run, l \in Lease : LeaseStep(r, l)
           \/ \E u \in User : HandleExpires(u)
           \/ \E l \in Lease : LeaseGone(l)
           \/ UNCHANGED vars
  <2>1. UNCHANGED <<pc, who, active, perUser>>
    BY <1>2 DEF LeaseStep, LeaseOpened, LeaseAnswerLost, OperationEnds,
                OperationFindsNoLease, HandleExpires, LeaseGone, vars
  <2> QED BY <1>0, <2>1, SameBudget
<1> QED BY <1>1, <1>2 DEF Next
---------------------------------------------------------------------------
LEMMA InitInv == Init => Inv
<1> SUFFICES ASSUME Init PROVE Inv OBVIOUS
<1> USE RecordTypes
<1>1. DataOK BY DEF Init, DataOK, Stage, Leases
<1>2. TableOK BY NatAssumption DEF Init, TableOK
<1>3. BudgetExact
  <2>1. active = {r \in Run : pc[r] \in InProgress} BY DEF Init, InProgress, Stage
  <2>2. Cardinality({}) = 0 BY FS_EmptySet
  <2>3. \A u \in User : {r \in active : who[r].user = u} = {} BY DEF Init
  <2>4. active = {} /\ \A u \in User : perUser[u] = 0 BY DEF Init
  <2>5. Cardinality(active) <= MaxRuns BY <2>2, <2>4, NatAssumption
  <2>6. \A u \in User : /\ perUser[u] = Cardinality({r \in active : who[r].user = u})
                        /\ perUser[u] <= MaxPerUser
    BY <2>2, <2>3, <2>4, NatAssumption
  <2> QED BY <2>1, <2>5, <2>6 DEF BudgetExact
<1>4. Staged BY DEF Init, Staged
<1>5. HandlesKnown BY DEF Init, HandlesKnown, Names
<1>6. OneHolder /\ HolderBusy BY NoSessNoLease DEF Init, OneHolder, HolderBusy, Holds
<1>7. HeldLeaseHasRun BY DEF Init, HeldLeaseHasRun
<1> QED BY <1>1, <1>2, <1>3, <1>4, <1>5, <1>6, <1>7 DEF Inv

LEMMA InvStep == Inv /\ [Next]_vars => Inv'
<1> SUFFICES ASSUME Inv, [Next]_vars PROVE Inv' OBVIOUS
<1>1. DataOK' BY DataStep
<1>2. TableOK' BY TableStep
<1>3. BudgetExact' BY BudgetStep
<1>4. Staged' BY StagedStep
<1>5. HandlesKnown' BY KnownStep
<1>6. OneHolder' /\ HolderBusy' BY HoldersStep
<1>7. HeldLeaseHasRun' BY HeldStep
<1> QED BY <1>1, <1>2, <1>3, <1>4, <1>5, <1>6, <1>7 DEF Inv

LEMMA Invariance == Spec => []Inv
BY InitInv, InvStep, PTL DEF Spec

(* The state of the run service, of the sandbox sessions and of the table  *)
(* of handles is well-formed: every key of the table once in its order,    *)
(* and never more than maxEntries.                                         *)
THEOREM TypeCorrect == Spec => []TypeOK
<1>1. Inv => TypeOK BY DEF Inv, TypeOK
<1> QED BY <1>1, Invariance, PTL

(* However many runs of however many users start, fail and end, and in     *)
(* whatever order: the two budgets of acquire() and release() count the    *)
(* runs in progress, and both limits hold.                                 *)
THEOREM BudgetsAreExact == Spec => []BudgetExact
<1>1. Inv => BudgetExact BY DEF Inv
<1> QED BY <1>1, Invariance, PTL

(* A claim is of a sandbox of the run's own user, no two runs work with a  *)
(* handle of one sandbox, even when the table evicted an entry in use, and *)
(* a lease in use whose messages all arrived belongs to a run in progress. *)
THEOREM SandboxesHaveOneOwner == Spec => []SandboxesOwned
<1>1. Inv => ClaimExclusive
  <2> SUFFICES ASSUME Inv, NEW r \in Run, claim[r].handle # NoSess
               PROVE  /\ wl[claim[r].handle.lease].user = who[r].user
                      /\ \A q \in Run \ {r} :
                           pc[r] \in WithSandbox /\ pc[q] \in WithSandbox =>
                               claim[r].handle.lease # claim[q].handle.lease
    BY DEF ClaimExclusive
  <2>1. /\ claim[r].handle.lease \in Lease
        /\ wl[claim[r].handle.lease].user = who[r].user
    BY DEF Inv, HandlesKnown, Names
  <2>2. ASSUME NEW q \in Run \ {r}, pc[r] \in WithSandbox, pc[q] \in WithSandbox,
               claim[r].handle.lease = claim[q].handle.lease
        PROVE  FALSE
    BY <2>1, <2>2 DEF Inv, OneHolder, Holds
  <2> QED BY <2>1, <2>2
<1>2. Inv => SandboxesOwned BY <1>1 DEF Inv, SandboxesOwned
<1> QED BY <1>2, Invariance, PTL
===========================================================================
