----------------------------- MODULE ExecStream -----------------------------
(***************************************************************************)
(* Commands of one lease run as asynchronous jobs: the worker's jobs       *)
(* (sandbox-worker/src/exec-jobs.js), the event stream of its server and   *)
(* the caller that resumes it (execViaAsyncJob and readNdjson of           *)
(* sandbox/client.js).  Each command is called once, by its own caller.    *)
(***************************************************************************)
EXTENDS Naturals, Sequences, FiniteSets

CONSTANTS
    Job, None,
    RetainJobs,   \* config.exec.retainJobs
    Attempts,     \* length of RESUME_DELAYS_MS
    MaxOutput     \* bound: output frames of a command

Frame == [seq : Nat \ {0}, kind : {"out", "error", "exit"}]
Stream == [q : Seq(Frame), open : BOOLEAN]

ASSUME LimitsAssumption ==
    RetainJobs \in Nat /\ Attempts \in Nat \ {0} /\ MaxOutput \in Nat
ASSUME NoneAssumption == None \notin Stream

VARIABLES
    lease,   \* held by the turn, parked after it, or out of the worker's table
    job,     \* status, frames, and whether its controller was aborted
    kept,    \* the jobs in lease.execs
    ended,   \* finished jobs by finishedAt (no two in the same millisecond)
    wire,    \* wire[j]: the event stream of j its caller reads, or None
    call     \* the caller: execViaAsyncJob

vars == <<lease, job, kept, ended, wire, call>>

NoJob == [status |-> "none", frames |-> <<>>, killed |-> FALSE]
NoCall == [pc |-> "idle", lastSeq |-> 0, got |-> <<>>, attempt |-> 1,
           sawExit |-> FALSE, outcome |-> "open"]

Init ==
    /\ lease = "held"
    /\ job = [j \in Job |-> NoJob]
    /\ kept = {}
    /\ ended = <<>>
    /\ wire = [j \in Job |-> None]
    /\ call = [j \in Job |-> NoCall]
---------------------------------------------------------------------------
(* evictOld(): of the finished jobs only the latest stay.                   *)
After(finished, j, k) ==
    \E m, n \in DOMAIN finished : m < n /\ finished[m] = j /\ finished[n] = k
IsFinished(finished, j) == \E n \in DOMAIN finished : finished[n] = j
RetainedOldest(all, finished) ==
    {j \in all : IsFinished(finished, j) =>
                   Cardinality({k \in all : After(finished, k, j)}) < RetainJobs}
Retained(all, finished) ==
    {j \in all : IsFinished(finished, j) =>
                   Cardinality({k \in all : After(finished, j, k)}) < RetainJobs}

(* start().  The handler looked the lease up before it read the body: it   *)
(* starts the job even if the lease was released in between.               *)
StartJob(j) ==
    /\ job' = [job EXCEPT ![j].status = "running"]
    /\ kept' = Retained(kept \cup {j}, ended)

(* emit(): numbered, into the buffer, then to the stream.  The exit frame  *)
(* closes the stream.                                                      *)
Numbered(j, kinds) ==
    [i \in 1 .. Len(kinds) |-> [seq |-> Len(job[j].frames) + i, kind |-> kinds[i]]]
Push(j, frames) ==
    wire' = IF wire[j] = None \/ ~wire[j].open THEN wire
            ELSE [wire EXCEPT ![j] =
                    [q |-> @.q \o frames, open |-> \A i \in DOMAIN frames : frames[i].kind # "exit"]]

Output(j) ==
    LET f == Numbered(j, <<"out">>) IN
    /\ job[j].status = "running" /\ Len(job[j].frames) < MaxOutput
    /\ job' = [job EXCEPT ![j].frames = @ \o f]
    /\ Push(j, f)
    /\ UNCHANGED <<lease, kept, ended, call>>

(* The command ends, by itself, by its timeout or killed; or it could not  *)
(* be run at all, which an error frame says.  The exit frame is the last.  *)
End(j) ==
    \E kinds \in {<<"exit">>, <<"error", "exit">>} :
    LET f == Numbered(j, kinds) IN
    /\ job[j].status = "running"
    /\ job' = [job EXCEPT ![j].status = "over", ![j].frames = @ \o f]
    /\ ended' = Append(ended, j)
    /\ kept' = Retained(kept, ended')
    /\ Push(j, f)
    /\ UNCHANGED <<lease, call>>

(* The turn ends: the lease is parked or released, its commands are       *)
(* aborted.  The jobs of a released lease cannot be reached.               *)
EndTurn ==
    \E next \in {"parked", "gone"} :
    /\ lease # "gone" /\ lease # next
    /\ lease' = next
    /\ job' = [j \in Job |-> [job[j] EXCEPT !.killed = @ \/ job[j].status = "running"]]
    /\ UNCHANGED <<kept, ended, wire, call>>
---------------------------------------------------------------------------
Over(c, outcome) == [c EXCEPT !.pc = "over", !.outcome = outcome]
(* The for loop over the delays; exhausted, the job is abandoned. *)
Again(c) ==
    IF c.attempt < Attempts
    THEN [c EXCEPT !.pc = "loop", !.attempt = @ + 1, !.sawExit = FALSE]
    ELSE [c EXCEPT !.pc = "abandon", !.sawExit = FALSE]
SetCall(j, c) == call' = [call EXCEPT ![j] = c]

(* POST exec: the worker looks the lease up, or answers 404. *)
Post(j) ==
    /\ call[j].pc = "idle"
    /\ SetCall(j, IF lease # "gone" THEN [call[j] EXCEPT !.pc = "post"] ELSE Over(call[j], "failed"))
    /\ UNCHANGED <<lease, job, kept, ended, wire>>
(* The job is started and the caller told. *)
Started(j) ==
    /\ call[j].pc = "post"
    /\ StartJob(j)
    /\ SetCall(j, [call[j] EXCEPT !.pc = "loop"])
    /\ UNCHANGED <<lease, ended, wire>>
(* No answer: the command may run, and nobody will abandon it. *)
NotStarted(j) ==
    /\ call[j].pc = "post"
    /\ StartJob(j) \/ UNCHANGED <<job, kept>>
    /\ SetCall(j, Over(call[j], "failed"))
    /\ UNCHANGED <<lease, ended, wire>>

(* GET events from the last frame seen; subscribe() writes what is there   *)
(* and listens for more while the command runs.  Only an exit frame makes  *)
(* the handler end the stream.                                             *)
\* The frames are numbered by their place: the ones with a number > from.
FramesAfterInclusive(j, from) ==
    SubSeq(job[j].frames, IF from = 0 THEN 1 ELSE from, Len(job[j].frames))
FramesAfter(j, from) == SubSeq(job[j].frames, from + 1, Len(job[j].frames))
Subscribe(j) ==
    LET q == FramesAfter(j, call[j].lastSeq) IN
    /\ call[j].pc = "loop" /\ lease # "gone" /\ j \in kept
    /\ wire' = [wire EXCEPT ![j] =
         [q |-> q, open |-> \A i \in DOMAIN q : q[i].kind # "exit"]]
    /\ SetCall(j, [call[j] EXCEPT !.pc = "read"])
    /\ UNCHANGED <<lease, job, kept, ended>>
(* 404 (the lease is gone, the job was evicted) or another refusal, of the *)
(* worker or of a gateway: not retried, and the job not abandoned.         *)
Refused(j) ==
    /\ call[j].pc = "loop"
    /\ SetCall(j, Over(call[j], "failed"))
    /\ UNCHANGED <<lease, job, kept, ended, wire>>
Unreachable(j) ==
    /\ call[j].pc = "loop"
    /\ SetCall(j, Again(call[j]))
    /\ UNCHANGED <<lease, job, kept, ended, wire>>

(* readNdjson(): a frame is handed on, then its number recorded. *)
Read(j) ==
    LET f == Head(wire[j].q) IN
    /\ call[j].pc = "read" /\ wire[j].q # <<>>
    /\ SetCall(j, [call[j] EXCEPT !.got = Append(@, f),
                     !.lastSeq = IF f.seq > @ THEN f.seq ELSE @,
                     !.sawExit = @ \/ f.kind = "exit"])
    /\ wire' = [wire EXCEPT ![j].q = Tail(@)]
    /\ UNCHANGED <<lease, job, kept, ended>>

(* The stream is at its end, or something between the two ended it: the    *)
(* exit frame tells the two apart.                                         *)
Afterwards(c) == IF c.sawExit THEN Over(c, "exit") ELSE Again(c)
StreamDone(j) ==
    /\ call[j].pc = "read"
    /\ wire' = [wire EXCEPT ![j] = None]
    /\ SetCall(j, Afterwards(call[j]))
    /\ UNCHANGED <<lease, job, kept, ended>>
(* The stream fails while it is read: what was read stays, what it meant   *)
(* (the outcome) is not returned.                                          *)
BreakKills(j) ==
    /\ call[j].pc = "read"
    /\ wire' = [wire EXCEPT ![j] = None]
    /\ SetCall(j, Again(call[j]))
    /\ job' = [job EXCEPT ![j].killed = TRUE]
    /\ UNCHANGED <<lease, kept, ended>>
Break(j) ==
    /\ call[j].pc = "read"
    /\ wire' = [wire EXCEPT ![j] = None]
    /\ SetCall(j, Again(call[j]))
    /\ UNCHANGED <<lease, job, kept, ended>>

(* The turn is cancelled or the caller's own timer fires. *)
Cancel(j) ==
    /\ call[j].pc \in {"loop", "read"}
    /\ wire' = [wire EXCEPT ![j] = None]
    /\ SetCall(j, [call[j] EXCEPT !.pc = "abandon"])
    /\ UNCHANGED <<lease, job, kept, ended>>
(* DELETE of the job, answered or lost: the only thing that stops a        *)
(* command for its caller's sake.                                          *)
Abandon(j) ==
    /\ call[j].pc = "abandon"
    /\ \/ lease # "gone" /\ j \in kept /\ job[j].status = "running"
          /\ job' = [job EXCEPT ![j].killed = TRUE]
       \/ UNCHANGED job
    /\ SetCall(j, Over(call[j], "failed"))
    /\ UNCHANGED <<lease, kept, ended, wire>>

Next ==
    \/ EndTurn
    \/ \E j \in Job :
         \/ Output(j) \/ End(j)
         \/ Post(j) \/ Started(j) \/ NotStarted(j) \/ Subscribe(j) \/ Refused(j)
         \/ Unreachable(j) \/ Read(j) \/ StreamDone(j) \/ Break(j) \/ Cancel(j)
         \/ Abandon(j)

Spec == Init /\ [][Next]_vars
---------------------------------------------------------------------------
(* Retention takes the output of finished commands only, keeps no more     *)
(* than it should, and keeps the latest.                                   *)
KeptOK ==
    /\ \A j \in Job : job[j].status = "running" => j \in kept
    /\ Cardinality({j \in kept : job[j].status = "over"}) <= RetainJobs
    /\ \A i, k \in 1 .. Len(ended) : i < k /\ ended[i] \in kept => ended[k] \in kept
TypeOK ==
    /\ lease \in {"held", "parked", "gone"}
    /\ job \in [Job -> [status : {"none", "running", "over"}, frames : Seq(Frame),
                        killed : BOOLEAN]]
    /\ kept \subseteq Job /\ ended \in Seq(Job) /\ KeptOK
    /\ wire \in [Job -> Stream \cup {None}]
    /\ call \in [Job -> [pc : {"idle", "post", "loop", "read", "abandon", "over"},
                         lastSeq : Nat, got : Seq(Frame), attempt : 1 .. Attempts,
                         sawExit : BOOLEAN, outcome : {"open", "exit", "failed"}]]
    /\ \A j \in Job : wire[j] # None <=> call[j].pc = "read"

(* The whole of it is a reliable ordered channel: however often streams    *)
(* break and are resumed, the caller hands on each frame once and in order *)
(* and reports an exit only after everything the command wrote.            *)
IsExit(f) == f.kind = "exit"
Channel == INSTANCE OrderedChannel WITH
    Call <- Job, IsLast <- IsExit,
    sent <- [j \in Job |-> job[j].frames],
    received <- [j \in Job |-> call[j].got],
    outcome <- [j \in Job |-> call[j].outcome]
ReliableOutput == Channel!Spec

(* A lost connection never stops a command: it is killed only when its     *)
(* caller gave up, or when the turn ended.                                 *)
KilledOnlyIfAbandoned ==
    \A j \in Job : job[j].killed =>
        lease # "held" \/ (call[j].pc = "over" /\ call[j].outcome = "failed")
===========================================================================
