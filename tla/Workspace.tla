----------------------------- MODULE Workspace -----------------------------
(***************************************************************************)
(* The workspaces of one user's sessions: files on the shared disk that    *)
(* every turn's sandbox starts from and is copied back to.  Staging is     *)
(* lazy (the first command or read), copying back mirrors deletions, a     *)
(* sandbox may be kept from one turn to the next of whichever session (the *)
(* run service does not pass the session's key on), taken away in the      *)
(* middle of one, or changed by a process that outlives its turn, two      *)
(* turns of a session may overlap, and the session may be deleted under    *)
(* them.  A file is here or not; its bytes are left out, and so are sizes: *)
(* a sync may be refused by the quota at any time.                         *)
(***************************************************************************)
EXTENDS Integers, FiniteSets

CONSTANTS SessionKeys, Runs, Files

ASSUME WorkspaceAssumption ==
    IsFiniteSet(SessionKeys) /\ IsFiniteSet(Runs) /\ IsFiniteSet(Files)

VARIABLES
    disk,    \* session -> its files under sessions/<key>/workspace
    parked,  \* the sandbox kept for the user's next turn
    run      \* turn -> its state

workspaceVars == <<disk, parked, run>>

NoBox == [open |-> FALSE]
NoTurn == [phase |-> "none"]

\* A new sandbox has no files.  had, of and alone are for the properties: the
\* files it has held, the session whose files were all staged into it, and
\* whether those have changed on the disk only through it since then.
NoKey == "no key"
EmptyBox == [open |-> TRUE, files |-> {}, had |-> {}, of |-> NoKey, alone |-> FALSE]

Leased(r) == IF run[r].box.open THEN run[r].box ELSE EmptyBox
With(box, fs) == [box EXCEPT !.files = fs, !.had = @ \union fs]
Running(r) == run[r].phase = "turn"
Set(r, q) == run' = [run EXCEPT ![r] = q]

\* The disk of session k changes by the hand of a turn (or of none): every
\* sandbox with its files that the others have now differs from it.
Differs(box, k) == IF box.open /\ box.of = k THEN [box EXCEPT !.alone = FALSE] ELSE box
Disturbed(k, others) ==
    [q \in Runs |->
        IF q \in others /\ run[q] # NoTurn THEN [run[q] EXCEPT !.box = Differs(@, k)]
        ELSE run[q]]

-----------------------------------------------------------------------------
(* The turn.                                                               *)

\* claim(): one turn at a time has the handle, whatever its session.
Unclaimed == \A q \in Runs : run[q] # NoTurn => ~run[q].mine
UnclaimedAlways == TRUE
Claimable == Unclaimed

\* resume(): the turn that claims the handle takes the parked sandbox over,
\* unless attaching fails.  A claim is not kept (mine) when the handle had
\* expired or is pushed out of the table later.
Start(r, k) ==
    /\ run[r] = NoTurn
    /\ \E mine, attached \in BOOLEAN :
         /\ mine => Claimable
         /\ attached => Claimable /\ parked.open
         /\ Set(r, [phase |-> "turn", key |-> k, mine |-> mine, attached |-> attached,
                    staged |-> FALSE, box |-> IF attached THEN parked ELSE NoBox])
    /\ parked' = IF Claimable THEN NoBox ELSE parked
    /\ UNCHANGED disk

\* ensure(), before the first command or read: all of the disk's files...
Whole(r, fs) ==
    [With(Leased(r), Leased(r).files \union fs) EXCEPT !.of = run[r].key, !.alone = TRUE]
WholeBatch(r, fs) ==
    LET one == IF fs = {} THEN {} ELSE {CHOOSE f \in fs : TRUE} IN
    [With(Leased(r), Leased(r).files \union one) EXCEPT !.of = run[r].key, !.alone = TRUE]
Staged(r, fs) == Whole(r, fs)
Stage(r) ==
    /\ Running(r) /\ ~run[r].attached /\ ~run[r].staged
    /\ Set(r, [run[r] EXCEPT !.staged = TRUE, !.box = Staged(r, disk[run[r].key])])
    /\ UNCHANGED <<disk, parked>>

\* ... or the batches before the one that failed; the next command tries again.
StageFails(r) ==
    /\ Running(r) /\ ~run[r].attached /\ ~run[r].staged
    /\ \E fs \in SUBSET disk[run[r].key] :
         Set(r, [run[r] EXCEPT !.box = With(Leased(r), Leased(r).files \union fs)])
    /\ UNCHANGED <<disk, parked>>

\* A command makes or deletes a file.
Exec(r, f) ==
    /\ Running(r) /\ (run[r].attached \/ run[r].staged)
    /\ \E fs \in {Leased(r).files \union {f}, Leased(r).files \ {f}} :
         Set(r, [run[r] EXCEPT !.box = With(Leased(r), fs)])
    /\ UNCHANGED <<disk, parked>>

\* The write tool and the browser do not wait for the staging.
PutFile(r, f) ==
    /\ Running(r)
    /\ Set(r, [run[r] EXCEPT !.box = With(Leased(r), Leased(r).files \union {f})])
    /\ UNCHANGED <<disk, parked>>

Browse(r) ==
    /\ Running(r) /\ ~run[r].box.open
    /\ Set(r, [run[r] EXCEPT !.box = EmptyBox])
    /\ UNCHANGED <<disk, parked>>

\* The lease is gone; the next use opens another, and nothing is staged again.
LeaseLost(r) ==
    /\ Running(r) /\ run[r].box.open
    /\ Set(r, [run[r] EXCEPT !.box = NoBox])
    /\ UNCHANGED <<disk, parked>>

-----------------------------------------------------------------------------
(* syncBack, when the turn is over and has a sandbox.                      *)

\* finish(): kept for the next turn by the turn that has the claim, or released.
Over(r, box) ==
    /\ Set(r, NoTurn)
    /\ \/ run[r].mine /\ box.open /\ parked' = box
       \/ UNCHANGED parked

\* No sandbox, no workspace/ in it, or the listing or the quota refuses.
Finish(r) ==
    /\ run[r].phase # "none"
    /\ Over(r, run[r].box)
    /\ UNCHANGED disk

\* The mirror: only after a listing that was whole and is not empty where the
\* disk is not.
Mirrors(k, truncated, wanted) == ~truncated /\ (wanted # {} \/ disk[k] = {})
MirrorsCutShort(k, truncated, wanted) == wanted # {} \/ disk[k] = {}
MayMirror(k, truncated, wanted) == Mirrors(k, truncated, wanted)

\* The listing, which may be cut short, and what the disk has before.
ListFiles(r) ==
    /\ Running(r) /\ run[r].box.open
    /\ \E truncated \in BOOLEAN, wanted \in SUBSET run[r].box.files :
         /\ ~truncated => wanted = run[r].box.files
         /\ Set(r, [phase |-> "write", key |-> run[r].key, mine |-> run[r].mine,
                    box |-> run[r].box, wanted |-> wanted, todo |-> wanted,
                    mirror |-> MayMirror(run[r].key, truncated, wanted)])
    /\ UNCHANGED <<disk, parked>>

\* One file after the other; one that cannot be read is passed over.
WriteFile(r) ==
    /\ run[r].phase = "write"
    /\ \E f \in run[r].todo, read \in BOOLEAN :
         LET k == run[r].key
             next == [run[r] EXCEPT !.todo = @ \ {f}] IN
         /\ read => f \in run[r].box.files
         /\ disk' = IF read THEN [disk EXCEPT ![k] = @ \union {f}] ELSE disk
         /\ run' = [(IF disk' = disk THEN run ELSE Disturbed(k, Runs \ {r})) EXCEPT ![r] = next]
         /\ parked' = IF disk' = disk THEN parked ELSE Differs(parked, k)

\* The files that the disk has by now and the listing has not.
Doomed(r) == disk[run[r].key] \ run[r].wanted
Walk(r) ==
    /\ run[r].phase = "write" /\ run[r].todo = {} /\ run[r].mirror
    /\ Set(r, [phase |-> "delete", key |-> run[r].key, mine |-> run[r].mine,
               box |-> run[r].box, wanted |-> run[r].wanted, todo |-> Doomed(r)])
    /\ UNCHANGED <<disk, parked>>

DeleteFile(r) ==
    /\ run[r].phase = "delete"
    /\ \E f \in run[r].todo :
         LET k == run[r].key
             next == [run[r] EXCEPT !.todo = @ \ {f}] IN
         /\ disk' = [disk EXCEPT ![k] = @ \ {f}]
         /\ run' = [(IF disk' = disk THEN run ELSE Disturbed(k, Runs \ {r})) EXCEPT ![r] = next]
         /\ parked' = IF disk' = disk THEN parked ELSE Differs(parked, k)

-----------------------------------------------------------------------------
(* Between the turns.                                                      *)

\* A process that was left running in a parked sandbox, and its eviction.
Background(f) ==
    /\ parked.open
    /\ parked' = With(parked, parked.files \union {f})
    /\ UNCHANGED <<disk, run>>

Evict ==
    /\ parked.open
    /\ parked' = NoBox
    /\ UNCHANGED <<disk, run>>

\* removeSession.
RemoveSession(k) ==
    /\ disk[k] # {}
    /\ disk' = [disk EXCEPT ![k] = {}]
    /\ run' = Disturbed(k, Runs)
    /\ parked' = Differs(parked, k)

WorkspaceInit ==
    /\ disk = [k \in SessionKeys |-> {}]
    /\ parked = NoBox
    /\ run = [r \in Runs |-> NoTurn]

WorkspaceNext ==
    \/ \E r \in Runs :
         \/ \E k \in SessionKeys : Start(r, k)
         \/ Stage(r) \/ StageFails(r) \/ Browse(r) \/ LeaseLost(r)
         \/ \E f \in Files : Exec(r, f) \/ PutFile(r, f)
         \/ ListFiles(r) \/ WriteFile(r) \/ Walk(r) \/ DeleteFile(r) \/ Finish(r)
    \/ Evict \/ \E f \in Files : Background(f)
    \/ \E k \in SessionKeys : RemoveSession(k)

WorkspaceSpec == WorkspaceInit /\ [][WorkspaceNext]_workspaceVars
-----------------------------------------------------------------------------
Boxes ==
    {b \in [open : {TRUE}, files : SUBSET Files, had : SUBSET Files,
            of : SessionKeys \union {NoKey}, alone : BOOLEAN] : b.files \subseteq b.had}
Turns == [phase : {"turn"}, key : SessionKeys, mine : BOOLEAN, attached : BOOLEAN,
          staged : BOOLEAN, box : Boxes \union {NoBox}]
Writes == [phase : {"write"}, key : SessionKeys, mine : BOOLEAN, box : Boxes,
           wanted : SUBSET Files, todo : SUBSET Files, mirror : BOOLEAN]
Deletions == [phase : {"delete"}, key : SessionKeys, mine : BOOLEAN, box : Boxes,
              wanted : SUBSET Files, todo : SUBSET Files]

OneClaim ==
    \A r \in Runs : run[r] # NoTurn /\ run[r].mine =>
        /\ ~parked.open
        /\ \A q \in Runs \ {r} : run[q] # NoTurn => ~run[q].mine

(* The variables keep their types, a sandbox has only files that it has    *)
(* held, and only the turn that took the claim, one at a time, will park a *)
(* sandbox.                                                                *)
WorkspaceTypeOK ==
    /\ disk \in [SessionKeys -> SUBSET Files]
    /\ parked \in Boxes \union {NoBox}
    /\ run \in [Runs -> {NoTurn} \union Turns \union Writes \union Deletions]
    /\ OneClaim

Known(box) == box.open /\ box.of \in SessionKeys /\ box.alone => disk[box.of] \subseteq box.had

(* A sandbox into which a session's files were staged, in this turn or an  *)
(* earlier one, has held every file that the session has on the disk,      *)
(* unless another turn or the session's deletion changed them meanwhile:   *)
(* no file can be missing from its listing that it never had.  (stageFiles *)
(* and the sandbox handed on from turn to turn.)                           *)
KnowsTheDisk ==
    /\ Known(parked)
    /\ \A r \in Runs : run[r] # NoTurn => Known(run[r].box)

Deletes(r, f) ==
    /\ run[r].phase = "delete" /\ f \in run[r].todo
    /\ run'[r] = [run[r] EXCEPT !.todo = @ \ {f}]
    /\ f \in disk[run[r].key] \ disk'[run[r].key]

OnPurpose ==
    \A r \in Runs, f \in Files :
        Deletes(r, f) /\ run[r].box.of = run[r].key /\ run[r].box.alone
            => f \in run[r].box.had \ run[r].box.files

(* syncBack deletes from the disk only what the turn deleted from its      *)
(* sandbox: never a file that a listing cut short, a failed read or an     *)
(* empty sandbox leaves out.  (For a sandbox with the files of the turn's  *)
(* own session and turns that did not overlap, see KnowsTheDisk.)          *)
DeletedOnPurpose == [][OnPurpose]_workspaceVars
=============================================================================
