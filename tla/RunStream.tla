----------------------------- MODULE RunStream -----------------------------
(***************************************************************************)
(* The frames of a run on their way to the browser: the buffers of         *)
(* agent/run-registry.js, the two event streams of http/server.js (POST    *)
(* /v1/chat/stream and GET /v1/runs/:id/events) and the chat page that     *)
(* reconnects (web/src/stores/chat.js).                                    *)
(*                                                                         *)
(* One page follows the runs of one session.  Other runs of the process    *)
(* matter because the registry keeps a limited number of buffers.          *)
(***************************************************************************)
EXTENDS Naturals, Sequences, FiniteSets, SequencesExt

CONSTANTS
    Run, None,
    MaxFrames,     \* maxFramesPerRun
    MaxBytes,      \* maxBytesPerRun
    MaxRetained,   \* maxRetainedRuns
    MaxAttempts,   \* maxAttempts of resumeAfterDrop
    Size,          \* sizes a frame may have
    MaxSeq,        \* bound: frames of a run
    MaxLoads       \* bound: how often the page is loaded or reloaded

ASSUME LimitsAssumption ==
    /\ MaxFrames \in Nat /\ MaxBytes \in Nat /\ MaxRetained \in Nat
    /\ MaxAttempts \in Nat /\ MaxSeq \in Nat /\ MaxLoads \in Nat
    /\ Size \subseteq Nat

VARIABLES
    reg,    \* the Map "runs": a buffer or None
    ended,  \* the runs that have finished, by endedAt
    aged,   \* those that ended longer than keepFinishedMs ago
    stage,  \* what execute() is doing for each run
    conn,   \* the event stream the page reads, None without one
    tab     \* the page: "live" of driveRun and where it is

vars == <<reg, ended, aged, stage, conn, tab>>

Resync == [seq |-> 1, type |-> "resync", bytes |-> 0]

(* The page.  mode: idle, joining (GET for a run it lists as running),     *)
(* live (reading a stream), dropped (between two attempts), settled.       *)
Idle == [mode |-> "idle", run |-> None, known |-> FALSE, lastSeq |-> 0,
         shown |-> <<>>, attempt |-> 0, error |-> FALSE, outcome |-> "none", loads |-> 0]

Init ==
    /\ reg = [r \in Run |-> None]
    /\ ended = <<>>
    /\ aged = {}
    /\ stage = [r \in Run |-> "new"]
    /\ conn = None
    /\ tab = Idle
---------------------------------------------------------------------------
(* The registry. *)
Bytes(frames) == FoldSeq(LAMBDA f, n : f.bytes + n, 0, frames)
Fits(frames) == Len(frames) <= MaxFrames /\ Bytes(frames) <= MaxBytes
After(frames, k) == SubSeq(frames, k + 1, Len(frames))

(* trim(): drops the oldest frames until the rest is within both limits;   *)
(* a frame that is too large by itself takes the whole buffer with it.     *)
DroppedCount(frames) ==
    CHOOSE k \in 0 .. Len(frames) :
        /\ Fits(After(frames, k))
        /\ \A j \in 0 .. k - 1 : ~Fits(After(frames, j))
TrimUnmarked(run) == [run EXCEPT !.frames = After(@, DroppedCount(@))]
Trim(run) ==
    [run EXCEPT !.frames = After(@, DroppedCount(@)),
                !.truncated = @ \/ DroppedCount(run.frames) > 0]

Buffer == [frames |-> <<>>, next |-> 1, truncated |-> FALSE, done |-> FALSE]
Appended(run, frame) ==
    Trim([run EXCEPT !.frames = Append(@, frame), !.next = @ + 1])

(* sweep(): forgets what ended long ago, then the earliest ended until the *)
(* number of buffers is within the limit.  Running ones stay.              *)
Excess(n) == IF n > MaxRetained THEN n - MaxRetained ELSE 0
Sweep ==
    LET known == {r \in Run : reg[r] # None} \ aged
        over == {i \in DOMAIN ended : ended[i] \in known}
        extra == {i \in over :
                    Cardinality({j \in over : j < i}) < Excess(Cardinality(known))}
    IN  aged \cup {ended[i] : i \in extra}
Swept(gone) == [r \in Run |-> IF r \in gone THEN None ELSE reg[r]]
ForgetRuns(gone) ==
    /\ aged' = aged \ gone
    /\ UNCHANGED ended

(* emit(): first into the buffer, then to whoever listens. *)
Deliver(r, frame, last) ==
    conn' = IF conn = None \/ conn.run # r \/ ~conn.open THEN conn
            ELSE [conn EXCEPT !.wire = Append(@, frame), !.open = ~last]
Emit(r, type, bytes) ==
    LET frame == [seq |-> reg[r].next, type |-> type, bytes |-> bytes]
    IN  /\ reg' = [reg EXCEPT ![r] = Appended(@, frame)]
        /\ Deliver(r, frame, conn # None /\ conn.post /\ type \in {"final", "error"})

(* execute(): open() and the run_start frame.  The page starts the run     *)
(* with a POST, or someone else does.                                      *)
RunStart == [seq |-> Buffer.next, type |-> "run_start", bytes |-> 0]
Open(r) ==
    /\ stage[r] = "new"
    /\ stage' = [stage EXCEPT ![r] = "running"]
    /\ reg' = [Swept(Sweep) EXCEPT ![r] = Appended(Buffer, RunStart)]
    /\ ForgetRuns(Sweep)
Chat(r) ==
    /\ tab.mode \in {"idle", "settled"} /\ tab.outcome # "resync"
    /\ Open(r)
    /\ conn' = [run |-> r, wire |-> <<RunStart>>, open |-> TRUE, post |-> TRUE]
    /\ tab' = [Idle EXCEPT !.mode = "live", !.run = r, !.loads = tab.loads]
OtherRun(r) ==
    /\ Open(r)
    /\ UNCHANGED <<conn, tab>>

Produce(r) ==
    /\ stage[r] = "running" /\ reg[r].next < MaxSeq
    /\ \E bytes \in Size : Emit(r, "delta", bytes)
    /\ UNCHANGED <<ended, aged, stage, tab>>
LastFrame(r) ==
    /\ stage[r] = "running"
    /\ \E type \in {"final", "error"} : Emit(r, type, 1)
    /\ stage' = [stage EXCEPT ![r] = "ending"]
    /\ UNCHANGED <<ended, aged, tab>>

(* close(), in the finally of execute(): listeners are told. *)
Close(r) ==
    /\ stage[r] = "ending"
    /\ stage' = [stage EXCEPT ![r] = "over"]
    /\ reg' = [reg EXCEPT ![r].done = TRUE]
    /\ ended' = Append(ended, r)
    /\ conn' = IF conn # None /\ conn.run = r THEN [conn EXCEPT !.open = FALSE] ELSE conn
    /\ UNCHANGED <<aged, tab>>
KeepTimeEnds(r) ==
    /\ stage[r] = "over" /\ reg[r] # None /\ r \notin aged
    /\ aged' = aged \cup {r}
    /\ UNCHANGED <<reg, ended, stage, conn, tab>>
---------------------------------------------------------------------------
(* subscribe(): the frames after "from", or the news that they are gone. *)
Oldest(run) == IF run.frames # <<>> THEN Head(run.frames).seq ELSE run.next
GappedByOne(run, from) == run.truncated /\ from + 2 < Oldest(run)
Gapped(run, from) == run.truncated /\ from + 1 < Oldest(run)
\* The frames have ascending numbers: those to leave out come first.
Seen(frames, from) == {i \in DOMAIN frames : frames[i].seq <= from}
Replay(run, from) == After(run.frames, Cardinality(Seen(run.frames, from)))

(* GET /v1/runs/:id/events: subscribe, the replay and the end of a stream  *)
(* that has nothing to wait for happen without an await.                   *)
Stream(r, run, from) ==
    IF Gapped(run, from)
    THEN [run |-> r, wire |-> <<Resync>>, open |-> FALSE, post |-> FALSE]
    ELSE [run |-> r, wire |-> Replay(run, from), open |-> ~run.done, post |-> FALSE]

Settle(outcome) == tab' = [tab EXCEPT !.mode = "settled", !.outcome = outcome]
GiveUp == Settle(IF tab.error THEN "error" ELSE "lost")
NextAttemptUncounted == tab' = [tab EXCEPT !.mode = "dropped"]
NextAttempt ==
    IF tab.known /\ tab.attempt < MaxAttempts
    THEN tab' = [tab EXCEPT !.mode = "dropped", !.attempt = @ + 1]
    ELSE GiveUp

(* resumeRun() reaches the server and is answered. *)
Subscribe ==
    LET r == tab.run IN
    /\ tab.mode \in {"joining", "dropped"}
    /\ reg' = Swept(Sweep)
    /\ ForgetRuns(Sweep)
    /\ \/ /\ r \notin Sweep /\ reg[r] # None
          /\ conn' = Stream(r, reg[r], tab.lastSeq)
          /\ tab' = [tab EXCEPT !.mode = "live"]
       \/ /\ r \in Sweep \/ reg[r] = None
          /\ GiveUp
          /\ UNCHANGED conn
    /\ UNCHANGED stage
(* No answer, or an error answer: resumeAfterDrop tries again; the first   *)
(* GET of a page is not repeated after an error answer.                    *)
SubscribeFails ==
    /\ tab.mode \in {"joining", "dropped"}
    /\ NextAttempt \/ (tab.mode = "joining" /\ GiveUp)
    /\ UNCHANGED <<reg, ended, aged, stage, conn>>

(* The stream breaks; what is on the wire is lost.  Before run_start the   *)
(* page does not know which run it is and gives up.                        *)
Drop ==
    /\ tab.mode = "live"
    /\ conn' = None
    /\ NextAttempt
    /\ UNCHANGED <<reg, ended, aged, stage>>

(* The stream ends before a final frame: after an error frame that is the  *)
(* end of the turn, on a resumed stream it counts as one more failure.     *)
StreamEnds ==
    /\ tab.mode = "live" /\ conn.wire = <<>> /\ ~conn.open
    /\ conn' = None
    /\ IF tab.error /\ tab.attempt = 0 THEN GiveUp ELSE NextAttempt
    /\ UNCHANGED <<reg, ended, aged, stage>>

(* handleFrame(): the breakpoint moves, then the frame is shown.  With     *)
(* final the page is done at once; resync makes it done when the stream is *)
(* over, which follows immediately.                                        *)
Receive ==
    LET f == Head(conn.wire)
        seen == [tab EXCEPT !.lastSeq = f.seq, !.known = TRUE,
                            !.error = @ \/ f.type = "error"]
        shown == [seen EXCEPT !.shown = Append(@, f.seq)]
    IN
    /\ tab.mode = "live" /\ conn.wire # <<>>
    /\ CASE f.type = "resync" ->
              /\ tab' = [seen EXCEPT !.mode = "settled", !.outcome = "resync"]
              /\ conn' = None
         [] f.type = "final" ->
              /\ tab' = [shown EXCEPT !.mode = "settled", !.outcome = "final"]
              /\ conn' = None
         [] OTHER ->
              /\ tab' = shown
              /\ conn' = [conn EXCEPT !.wire = Tail(@)]
    /\ UNCHANGED <<reg, ended, aged, stage>>

(* resumeActiveRun(): asks which run is not done and follows it from its   *)
(* first frame.                                                            *)
FollowRunning(fresh) ==
    LET running == {r \in Run : reg[r] # None /\ ~reg[r].done}
    IN  \/ running = {} /\ tab' = fresh
        \/ \E r \in running :
             tab' = [fresh EXCEPT !.mode = "joining", !.run = r, !.known = TRUE]

(* openSession(): after a resync, or when the user loads the page. *)
Load ==
    /\ tab.loads < MaxLoads
    /\ conn' = None
    /\ reg' = Swept(Sweep)
    /\ ForgetRuns(Sweep)
    /\ FollowRunning([Idle EXCEPT !.loads = tab.loads + 1])
    /\ UNCHANGED stage

Client == Subscribe \/ SubscribeFails \/ Drop \/ StreamEnds \/ Receive
Next ==
    \/ \E r \in Run : Chat(r) \/ OtherRun(r) \/ Produce(r) \/ LastFrame(r)
                      \/ Close(r) \/ KeepTimeEnds(r)
    \/ Client \/ Load

Spec == Init /\ [][Next]_vars

(* Runs end (runTurn's timeout aborts them), promises settle and timers    *)
(* fire, and what is on a wire is read.  A stream need never break.        *)
Fairness ==
    /\ \A r \in Run : WF_vars(LastFrame(r)) /\ WF_vars(Close(r))
    /\ WF_vars(Receive) /\ WF_vars(StreamEnds)
    /\ WF_vars(Subscribe \/ SubscribeFails)
FairSpec == Spec /\ Fairness
---------------------------------------------------------------------------
(* A buffer holds consecutive frames up to the newest one, within both     *)
(* limits, and says so when it does not begin with the first.              *)
BufferOK(b) ==
    /\ Fits(b.frames)
    /\ \A i \in 1 .. Len(b.frames) : b.frames[i].seq = b.next - Len(b.frames) + i - 1
    /\ b.truncated <=> Len(b.frames) + 1 < b.next
Frame == [seq : Nat \ {0}, type : {"run_start", "delta", "final", "error"}, bytes : Nat]
Buffers == [frames : Seq(Frame), next : Nat \ {0}, truncated : BOOLEAN, done : BOOLEAN]
Streams == [run : Run, wire : Seq(Frame \cup {Resync}), open : BOOLEAN, post : BOOLEAN]
Pages == [mode : {"idle", "joining", "live", "dropped", "settled"},
          run : Run \cup {None}, known : BOOLEAN, lastSeq : Nat,
          shown : Seq(Nat), attempt : Nat, error : BOOLEAN,
          outcome : {"none", "final", "error", "lost", "resync"}, loads : Nat]
\* What stands for no run, no buffer and no stream is none of them.
ASSUME NoneAssumption == None \notin Run \cup Buffers \cup Streams

TypeOK ==
    /\ reg \in [Run -> Buffers \cup {None}]
    /\ \A r \in Run : reg[r] # None => BufferOK(reg[r])
    /\ ended \in Seq(Run) /\ aged \subseteq Run
    /\ stage \in [Run -> {"new", "running", "ending", "over"}]
    /\ conn \in Streams \cup {None}
    /\ tab \in Pages
    /\ conn = None <=> tab.mode # "live"
    /\ \A r \in Run : stage[r] \in {"running", "ending"} => reg[r] # None /\ ~reg[r].done

(* However often the stream breaks, and whatever the buffer lost meanwhile, *)
(* the page shows the frames of the run without a gap, without a frame     *)
(* shown twice, in order: a gap is always announced by a resync.           *)
NoSilentGap == \A i \in 1 .. Len(tab.shown) : tab.shown[i] = i

(* A page that follows a run stops waiting: with the answer, an error, or  *)
(* a reload.                                                               *)
Settles == tab.mode \in {"joining", "live", "dropped"} ~> tab.mode \in {"idle", "settled"}
===========================================================================
