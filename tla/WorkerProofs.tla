---------------------------- MODULE WorkerProofs ----------------------------
(***************************************************************************)
(* Proofs about the worker.                                                *)
(*  - ExecStream, for any number of commands, frames and resumes: the jobs, *)
(*    the streams and their callers implement OrderedChannel, no command is *)
(*    killed for a lost connection, and the jobs that are kept are those    *)
(*    that should be.                                                      *)
(*  - SlotEgress, for any answers of the manager, any number of slots and   *)
(*    any policies: a slot reaches what it was given and nothing else.      *)
(*  - MCWorker, the two of them side by side.                              *)
(***************************************************************************)
EXTENDS MCWorker, FiniteSetTheorems, WellFoundedInduction, TLAPS

(* A set of numbers has a least one. *)
LEMMA LeastNumber ==
    ASSUME NEW T, T \subseteq Nat, T # {}
    PROVE  \E k \in T : \A j \in T : k <= j
<1>1. PICK k \in T : \A j \in T : <<j, k>> \notin OpToRel(<, Nat)
  BY NatLessThanWellFounded, WFMin
<1>2. \A j \in T : ~(j < k)
  <2>1. TAKE j \in T
  <2>2. SUFFICES ASSUME j < k PROVE FALSE  OBVIOUS
  <2>3. <<j, k>> \in Nat \X Nat  OBVIOUS
  <2>4. <<j, k>> \in OpToRel(<, Nat)  BY <2>2, <2>3 DEF OpToRel
  <2>5. QED  BY <1>1, <2>4
<1>3. QED  BY <1>2

-----------------------------------------------------------------------------
(* The commands.                                                           *)

Jobs == [status : {"none", "running", "over"}, frames : Seq(Frame), killed : BOOLEAN]
Calls == [pc : {"idle", "post", "loop", "read", "abandon", "over"}, lastSeq : Nat,
          got : Seq(Frame), attempt : 1 .. Attempts, sawExit : BOOLEAN,
          outcome : {"open", "exit", "failed"}]

(* The buffer of a job: numbered by place, and the exit frame is there as  *)
(* the last one exactly when the job is over.                              *)
Buffer(b) ==
    /\ b \in Jobs
    /\ \A i \in 1 .. Len(b.frames) :
         /\ b.frames[i].seq = i
         /\ b.frames[i].kind = "exit" <=> (b.status = "over" /\ i = Len(b.frames))
    /\ b.status = "over" => Len(b.frames) > 0
(* What a caller has got is the first lastSeq frames of the buffer. *)
Caller(b, c) ==
    /\ c \in Calls
    /\ c.lastSeq = Len(c.got) /\ c.lastSeq <= Len(b.frames)
    /\ \A i \in 1 .. c.lastSeq : c.got[i] = b.frames[i]
    /\ c.pc \in {"idle", "post"} => b.status = "none"
    /\ c.sawExit => b.status = "over" /\ c.lastSeq = Len(b.frames)
    /\ c.pc = "over" <=> c.outcome # "open"
(* q is what p has after its first n frames. *)
Rest(n, q, p) ==
    /\ n + Len(q) = Len(p)
    /\ \A i \in 1 .. Len(q) : q[i] = p[n + i]
(* A stream carries the rest, and is closed only after the exit frame. *)
Carried(b, w, c) ==
    /\ c.pc # "read" => w = None
    /\ c.pc = "read" =>
         /\ w \in Stream
         /\ Rest(c.lastSeq, w.q, b.frames)
         /\ ~w.open => b.status = "over"
Good(b, w, c) == Buffer(b) /\ Caller(b, c) /\ Carried(b, w, c)

Inv ==
    /\ job = [j \in Job |-> job[j]] /\ wire = [j \in Job |-> wire[j]]
    /\ call = [j \in Job |-> call[j]]
    /\ \A j \in Job : Good(job[j], wire[j], call[j])

-----------------------------------------------------------------------------
(* A sequence that continues another after n frames still does with more *)
(* frames at the end of both.                                            *)
LEMMA Continues ==
    ASSUME NEW S, NEW p \in Seq(S), NEW q \in Seq(S), NEW f \in Seq(S), NEW n \in Nat,
           Rest(n, q, p)
    PROVE  Rest(n, q \o f, p \o f)
<1>1. /\ Len(q \o f) = Len(q) + Len(f) /\ Len(p \o f) = Len(p) + Len(f)
      /\ Len(q) \in Nat /\ Len(p) \in Nat /\ Len(f) \in Nat
  OBVIOUS
<1>2. n + Len(q) = Len(p) /\ n + Len(q \o f) = Len(p \o f) BY <1>1 DEF Rest
<1>3. ASSUME NEW i \in 1 .. Len(q \o f) PROVE (q \o f)[i] = (p \o f)[n + i]
  <2>1. CASE i <= Len(q)
    <3>1. i \in 1 .. Len(q) /\ n + i \in 1 .. Len(p) BY <1>1, <1>2, <2>1
    <3>2. (q \o f)[i] = q[i] BY <3>1
    <3>3. (p \o f)[n + i] = p[n + i] BY <3>1
    <3> QED BY <3>1, <3>2, <3>3 DEF Rest
  <2>2. CASE i > Len(q)
    <3>1. i - Len(q) \in 1 .. Len(f) /\ (n + i) - Len(p) = i - Len(q)
      <4>1. PICK a, b, c : a = Len(q) /\ b = Len(p) /\ c = Len(f) OBVIOUS
      <4>2. a \in Nat /\ b \in Nat /\ c \in Nat /\ n + a = b BY <1>1, <1>2, <4>1
      <4>3. i \in Nat /\ a < i /\ i <= a + c BY <1>1, <2>2, <4>1
      <4>4. i - a \in 1 .. c /\ (n + i) - b = i - a BY <4>2, <4>3
      <4> QED BY <4>1, <4>4
    <3>2. (q \o f)[i] = f[i - Len(q)] BY <1>1, <2>2
    <3>3. (p \o f)[n + i] = f[(n + i) - Len(p)] BY <1>1, <1>2, <2>2
    <3> QED BY <3>1, <3>2, <3>3
  <2>3. i <= Len(q) \/ i > Len(q) BY <1>1
  <2> QED BY <2>1, <2>2, <2>3
<1> QED BY <1>2, <1>3 DEF Rest

(* A step of one job: what it becomes is as good. *)
Becomes(j, b, w, c) ==
    /\ job' = [job EXCEPT ![j] = b]
    /\ wire' = [wire EXCEPT ![j] = w]
    /\ call' = [call EXCEPT ![j] = c]

LEMMA Assemble ==
    ASSUME Inv, NEW j \in Job, NEW b, NEW w, NEW c, Good(b, w, c), Becomes(j, b, w, c)
    PROVE  Inv'
<1>1. /\ job' = [i \in Job |-> IF i = j THEN b ELSE job[i]]
      /\ wire' = [i \in Job |-> IF i = j THEN w ELSE wire[i]]
      /\ call' = [i \in Job |-> IF i = j THEN c ELSE call[i]]
  BY DEF Inv, Becomes
<1>2. \A i \in Job : Good(job'[i], wire'[i], call'[i]) BY <1>1 DEF Inv
<1>3. /\ job' = [i \in Job |-> job'[i]] /\ wire' = [i \in Job |-> wire'[i]]
      /\ call' = [i \in Job |-> call'[i]]
  BY <1>1
<1> QED BY <1>2, <1>3 DEF Inv

(* What stays is what it becomes. *)
LEMMA Kept ==
    ASSUME Inv, NEW j \in Job
    PROVE  /\ job = [job EXCEPT ![j] = job[j]] /\ wire = [wire EXCEPT ![j] = wire[j]]
           /\ call = [call EXCEPT ![j] = call[j]]
BY DEF Inv

LEMMA GoodNow == ASSUME Inv, NEW j \in Job PROVE Good(job[j], wire[j], call[j])
BY DEF Inv

-----------------------------------------------------------------------------
(* The job.                                                                *)

LEMMA NumberedFacts ==
    ASSUME NEW j, job[j].frames \in Seq(Frame),
           NEW kinds \in {<<"out">>, <<"exit">>, <<"error", "exit">>}
    PROVE  LET f == Numbered(j, kinds) IN
           /\ f \in Seq(Frame) /\ Len(f) = Len(kinds) /\ Len(f) > 0
           /\ \A i \in 1 .. Len(f) : f[i].seq = Len(job[j].frames) + i /\ f[i].kind = kinds[i]
<1> DEFINE n == Len(kinds)
           f == Numbered(j, kinds)
<1>1. n \in {1, 2} /\ n \in Nat /\ \A i \in 1 .. n : kinds[i] \in {"out", "error", "exit"}
  OBVIOUS
<1>2. Len(job[j].frames) \in Nat OBVIOUS
<1>3. f = [i \in 1 .. n |-> [seq |-> Len(job[j].frames) + i, kind |-> kinds[i]]]
  BY DEF Numbered
<1> HIDE DEF n
<1>4. \A i \in 1 .. n : f[i] \in Frame /\ f[i].seq = Len(job[j].frames) + i /\ f[i].kind = kinds[i]
  BY <1>1, <1>2, <1>3 DEF Frame
<1>5. f \in [1 .. n -> Frame] BY <1>3, <1>4
<1>6. f \in Seq(Frame) BY <1>1, <1>5
<1>7. Len(f) = n BY <1>1, <1>5, <1>6
<1> QED BY <1>1, <1>4, <1>6, <1>7 DEF n

(* emit(): the buffer and the stream grow by the same frames. *)
NewFrames(b, f, st) ==
    /\ f \in Seq(Frame) /\ Len(f) > 0 /\ st \in {"running", "over"}
    /\ \A i \in 1 .. Len(f) :
         /\ f[i].seq = Len(b.frames) + i
         /\ f[i].kind = "exit" <=> (st = "over" /\ i = Len(f))
Pushed(w, f, v, st) ==
    /\ w = None => v = w
    /\ w \in Stream /\ w.open => v \in Stream /\ v.q = w.q \o f /\ (~v.open => st = "over")
Grown(b, f, st) == [b EXCEPT !.status = st, !.frames = b.frames \o f]

LEMMA Emitted ==
    ASSUME NEW b, NEW w, NEW c, Good(b, w, c), b.status = "running",
           NEW f, NEW st, NewFrames(b, f, st), NEW v, Pushed(w, f, v, st)
    PROVE  Good(Grown(b, f, st), v, c)
<1> USE DEF NewFrames, Pushed
<1> DEFINE g == b.frames \o f
           d == [b EXCEPT !.status = st, !.frames = g]
<1>1. b \in Jobs /\ b.frames \in Seq(Frame) BY DEF Good, Buffer, Jobs
<1>2. /\ g \in Seq(Frame) /\ Len(g) = Len(b.frames) + Len(f)
      /\ \A i \in 1 .. Len(b.frames) : g[i] = b.frames[i]
      /\ \A i \in 1 .. Len(f) : g[Len(b.frames) + i] = f[i]
      /\ Len(b.frames) \in Nat /\ Len(f) \in Nat
  BY <1>1
<1> HIDE DEF g
<1>3. d \in Jobs /\ d.frames = g /\ d.status = st BY <1>1, <1>2 DEF Jobs
<1> HIDE DEF d
<1>4. \A i \in 1 .. Len(b.frames) : b.frames[i].seq = i /\ b.frames[i].kind # "exit"
  BY DEF Good, Buffer
<1>5. Buffer(d)
  <2>1. ASSUME NEW i \in 1 .. Len(g)
        PROVE  g[i].seq = i /\ (g[i].kind = "exit" <=> (st = "over" /\ i = Len(g)))
    <3>1. CASE i <= Len(b.frames)
      <4>1. g[i] = b.frames[i] /\ i \in 1 .. Len(b.frames) /\ i # Len(g) BY <1>2, <3>1
      <4> QED BY <1>4, <4>1
    <3>2. CASE i > Len(b.frames)
      <4>1. PICK k \in 1 .. Len(f) : i = Len(b.frames) + k
        <5>1. i - Len(b.frames) \in 1 .. Len(f) BY <1>2, <3>2
        <5>2. i = Len(b.frames) + (i - Len(b.frames)) BY <1>2
        <5> QED BY <5>1, <5>2
      <4>2. g[i] = f[k] /\ (i = Len(g) <=> k = Len(f)) BY <1>2, <4>1
      <4> QED BY <4>1, <4>2
    <3> QED BY <1>2, <3>1, <3>2
  <2> QED BY <1>2, <1>3, <2>1 DEF Buffer
<1>6. Caller(d, c)
  <2>1. /\ c \in Calls /\ c.lastSeq = Len(c.got) /\ c.lastSeq <= Len(b.frames)
        /\ \A i \in 1 .. c.lastSeq : c.got[i] = b.frames[i]
        /\ c.pc \notin {"idle", "post"} /\ ~c.sawExit
        /\ c.pc = "over" <=> c.outcome # "open"
    BY DEF Good, Caller
  <2>2. c.lastSeq \in Nat BY <2>1 DEF Calls
  <2>3. c.lastSeq <= Len(g) /\ \A i \in 1 .. c.lastSeq : c.got[i] = g[i]
    BY <1>2, <2>1, <2>2
  <2> QED BY <1>3, <2>1, <2>3 DEF Caller
<1>7. Carried(d, v, c)
  <2>1. CASE c.pc # "read"
    <3>1. v = None BY <2>1 DEF Good, Carried
    <3> QED BY <2>1, <3>1 DEF Carried
  <2>2. CASE c.pc = "read"
    <3>1. w \in Stream /\ w.open /\ Rest(c.lastSeq, w.q, b.frames)
      BY <2>2 DEF Good, Carried
    <3>2. c.lastSeq \in Nat BY DEF Good, Caller, Calls
    <3>3. v \in Stream /\ v.q = w.q \o f /\ (~v.open => st = "over") BY <3>1
    <3>4. w.q \in Seq(Frame) BY <3>1 DEF Stream
    <3>5. Rest(c.lastSeq, w.q \o f, b.frames \o f)
      BY <1>1, <3>1, <3>2, <3>4, Continues
    <3> QED BY <1>3, <2>2, <3>3, <3>5 DEF Carried, g
  <2> QED BY <2>1, <2>2
<1> QED BY <1>5, <1>6, <1>7 DEF Good, d, g, Grown

-----------------------------------------------------------------------------
(* The abstract channel.                                                   *)

sent == [j \in Job |-> job[j].frames]
received == [j \in Job |-> call[j].got]
outcome == [j \in Job |-> call[j].outcome]

Step == Channel!Next \/ UNCHANGED Channel!vars

(* What a step of one job is for the channel. *)
LEMMA Mapped ==
    ASSUME Inv, NEW j \in Job, NEW b, NEW w, NEW c, Becomes(j, b, w, c)
    PROVE  /\ sent' = [i \in Job |-> IF i = j THEN b.frames ELSE sent[i]]
           /\ received' = [i \in Job |-> IF i = j THEN c.got ELSE received[i]]
           /\ outcome' = [i \in Job |-> IF i = j THEN c.outcome ELSE outcome[i]]
           /\ sent = [i \in Job |-> sent[i]] /\ received = [i \in Job |-> received[i]]
           /\ outcome = [i \in Job |-> outcome[i]]
           /\ sent[j] = job[j].frames /\ received[j] = call[j].got
           /\ outcome[j] = call[j].outcome
<1>1. /\ job' = [i \in Job |-> IF i = j THEN b ELSE job[i]]
      /\ call' = [i \in Job |-> IF i = j THEN c ELSE call[i]]
  BY DEF Inv, Becomes
<1> QED BY <1>1 DEF sent, received, outcome

LEMMA Silent ==
    ASSUME Inv, NEW j \in Job, NEW b, NEW w, NEW c, Becomes(j, b, w, c),
           b.frames = job[j].frames, c.got = call[j].got, c.outcome = call[j].outcome
    PROVE  Step
<1>1. sent' = sent /\ received' = received /\ outcome' = outcome BY Mapped
<1> QED BY <1>1 DEF Step, Channel!vars, sent, received, outcome

LEMMA Failing ==
    ASSUME Inv, NEW j \in Job, NEW b, NEW w, NEW c, Becomes(j, b, w, c),
           b.frames = job[j].frames, c.got = call[j].got,
           call[j].outcome = "open", c.outcome = "failed"
    PROVE  Step
<1>1. /\ sent' = sent /\ received' = received
      /\ outcome' = [outcome EXCEPT ![j] = "failed"] /\ outcome[j] = "open"
  BY Mapped
<1>2. Channel!Fail(j) BY <1>1 DEF Channel!Fail, sent, received, outcome
<1> QED BY <1>2 DEF Step, Channel!Next

LEMMA PrefixConcat ==
    ASSUME NEW S, NEW p \in Seq(S), NEW f \in Seq(S), Len(f) > 0
    PROVE  Len(p \o f) > Len(p) /\ Channel!IsPrefix(p, p \o f)
<1>1. /\ p \o f \in Seq(S) /\ Len(p \o f) = Len(p) + Len(f)
      /\ Len(p) \in Nat /\ Len(f) \in Nat
      /\ \A i \in 1 .. Len(p) : (p \o f)[i] = p[i]
  OBVIOUS
<1>2. Len(p \o f) > Len(p) BY <1>1
<1>3. SubSeq(p, 1, Len(p)) = SubSeq(p \o f, 1, Len(p))
  <2>1. SubSeq(p, 1, Len(p)) = [i \in 1 .. Len(p) |-> p[i]] BY <1>1
  <2>2. SubSeq(p \o f, 1, Len(p)) = [i \in 1 .. Len(p) |-> (p \o f)[i]] BY <1>1, <1>2
  <2> QED BY <1>1, <2>1, <2>2
<1> QED BY <1>1, <1>2, <1>3 DEF Channel!IsPrefix

LEMMA Sending ==
    ASSUME Inv, NEW j \in Job, NEW b, NEW w, Becomes(j, b, w, call[j]),
           NEW f, NEW st, NewFrames(job[j], f, st), job[j].status = "running",
           b = Grown(job[j], f, st)
    PROVE  Step
<1>1. job[j] \in Jobs /\ f \in Seq(Frame) /\ Len(f) > 0 BY GoodNow DEF Good, Buffer, NewFrames
<1>2. b.frames = job[j].frames \o f BY <1>1 DEF Grown, Jobs
<1>3. /\ sent' = [i \in Job |-> IF i = j THEN b.frames ELSE sent[i]]
      /\ sent[j] = job[j].frames /\ sent = [i \in Job |-> sent[i]]
      /\ received' = received /\ outcome' = outcome
  BY Mapped
<1>4. Buffer(job[j]) /\ job[j].frames \in Seq(Frame) BY GoodNow DEF Good, Buffer, Jobs
<1>5. ~Channel!Ended(job[j].frames)
  <2>1. Len(job[j].frames) \in Nat /\ (job[j].frames # <<>> => Len(job[j].frames) > 0)
    BY <1>4
  <2> QED BY <1>4, <2>1 DEF Channel!Ended, IsExit, Buffer
<1>6. sent'[j] = b.frames BY <1>3
<1>7. Len(b.frames) > Len(job[j].frames) /\ Channel!IsPrefix(job[j].frames, b.frames)
  BY <1>1, <1>4, <1>2, PrefixConcat
<1>8. /\ sent[j] = job[j].frames /\ sent' = [sent EXCEPT ![j] = sent'[j]]
      /\ received' = received /\ outcome' = outcome
  BY <1>3, <1>6
<1>9. Channel!Send(j)
  <2>1. [i \in Job |-> job[i].frames][j] = job[j].frames OBVIOUS
  <2>2. ([i \in Job |-> job[i].frames]')[j] = b.frames BY <1>6 DEF sent
  <2>3. [i \in Job |-> job[i].frames]' =
          [[i \in Job |-> job[i].frames] EXCEPT ![j] = ([i \in Job |-> job[i].frames]')[j]]
    BY <1>8 DEF sent
  <2>4. UNCHANGED <<[i \in Job |-> call[i].got], [i \in Job |-> call[i].outcome]>>
    BY <1>8 DEF received, outcome
  <2>5. ~Channel!Ended([i \in Job |-> job[i].frames][j]) BY <1>5, <2>1
  <2>6. /\ Len(([i \in Job |-> job[i].frames]')[j]) > Len([i \in Job |-> job[i].frames][j])
        /\ Channel!IsPrefix([i \in Job |-> job[i].frames][j], ([i \in Job |-> job[i].frames]')[j])
    BY <1>7, <2>1, <2>2
  <2> QED BY <2>3, <2>4, <2>5, <2>6, Zenon DEF Channel!Send
<1> QED BY <1>9 DEF Step, Channel!Next

LEMMA Receiving ==
    ASSUME Inv, NEW j \in Job, NEW b, NEW w, NEW c, Becomes(j, b, w, c),
           b.frames = job[j].frames, c.outcome = call[j].outcome,
           call[j].outcome = "open", Len(call[j].got) < Len(job[j].frames),
           c.got = Append(call[j].got, job[j].frames[Len(call[j].got) + 1])
    PROVE  Step
<1>1. /\ sent' = sent /\ outcome' = outcome /\ outcome[j] = "open"
      /\ sent[j] = job[j].frames /\ received[j] = call[j].got
      /\ received' = [received EXCEPT ![j] = c.got]
  BY Mapped
<1>2. Channel!Receive(j)
  BY <1>1 DEF Channel!Receive, sent, received, outcome
<1> QED BY <1>2 DEF Step, Channel!Next

LEMMA Completing ==
    ASSUME Inv, NEW j \in Job, NEW b, NEW w, NEW c, Becomes(j, b, w, c),
           b.frames = job[j].frames, c.got = call[j].got, c.outcome = "exit",
           call[j].outcome = "open", job[j].status = "over",
           call[j].lastSeq = Len(job[j].frames)
    PROVE  Step
<1>1. /\ sent' = sent /\ received' = received /\ outcome[j] = "open"
      /\ sent[j] = job[j].frames /\ received[j] = call[j].got
      /\ outcome' = [outcome EXCEPT ![j] = "exit"]
  BY Mapped
<1>2. Buffer(job[j]) /\ Caller(job[j], call[j]) BY GoodNow DEF Good
<1>3. /\ job[j].frames \in Seq(Frame) /\ call[j].got \in Seq(Frame)
      /\ Len(job[j].frames) \in Nat /\ Len(job[j].frames) > 0
  BY <1>2 DEF Buffer, Caller, Jobs, Calls
<1>4. Len(call[j].got) = Len(job[j].frames)
      /\ \A i \in 1 .. Len(job[j].frames) : call[j].got[i] = job[j].frames[i]
  BY <1>2 DEF Caller
<1>5. call[j].got = job[j].frames BY <1>3, <1>4
<1>6. job[j].frames[Len(job[j].frames)].kind = "exit" BY <1>2, <1>3 DEF Buffer
<1>7. Channel!Ended(job[j].frames) BY <1>3, <1>6 DEF Channel!Ended, IsExit
<1>8. Channel!Complete(j)
  BY <1>1, <1>5, <1>7 DEF Channel!Complete, sent, received, outcome
<1> QED BY <1>8 DEF Step, Channel!Next

-----------------------------------------------------------------------------
(* The actions: each keeps the invariant and is a step of the channel.     *)

Ending(kinds, st) ==
    \/ kinds = <<"out">> /\ st = "running"
    \/ kinds \in {<<"exit">>, <<"error", "exit">>} /\ st = "over"
LEMMA EndingKinds ==
    ASSUME NEW kinds, NEW st, Ending(kinds, st)
    PROVE  /\ kinds \in {<<"out">>, <<"exit">>, <<"error", "exit">>}
           /\ st \in {"running", "over"}
           /\ \A i \in 1 .. Len(kinds) : kinds[i] = "exit" <=> (st = "over" /\ i = Len(kinds))
<1>1. CASE kinds = <<"out">> /\ st = "running" BY <1>1
<1>2. CASE kinds = <<"exit">> /\ st = "over" BY <1>2
<1>3. CASE kinds = <<"error", "exit">> /\ st = "over" BY <1>3
<1> QED BY <1>1, <1>2, <1>3 DEF Ending

(* A job that produces frames, the last of them the exit frame if that is  *)
(* its end.                                                                *)
LEMMA Emits ==
    ASSUME Inv, NEW j \in Job, NEW kinds, NEW st,
           job[j].status = "running", Push(j, Numbered(j, kinds)), call' = call,
           job' = [job EXCEPT ![j] = Grown(job[j], Numbered(j, kinds), st)],
           Ending(kinds, st)
    PROVE  Inv' /\ Step
<1> DEFINE f == Numbered(j, kinds)
           b == Grown(job[j], f, st)
           w == wire[j]
           o == \A i \in DOMAIN f : f[i].kind # "exit"
           v == IF w = None \/ ~w.open THEN w ELSE [q |-> w.q \o f, open |-> o]
<1>1. Good(job[j], w, call[j]) /\ job[j].frames \in Seq(Frame)
  BY GoodNow DEF Good, Buffer, Jobs
<1>2. wire' = [wire EXCEPT ![j] = v] BY Kept DEF Push
<1>3. /\ f \in Seq(Frame) /\ Len(f) = Len(kinds) /\ Len(f) > 0
      /\ \A i \in 1 .. Len(f) : f[i].seq = Len(job[j].frames) + i /\ f[i].kind = kinds[i]
  BY <1>1, EndingKinds, NumberedFacts
<1>4. \A i \in 1 .. Len(kinds) : kinds[i] = "exit" <=> (st = "over" /\ i = Len(kinds))
  BY EndingKinds
<1>5. st \in {"running", "over"} BY EndingKinds
<1>6. NewFrames(job[j], f, st)
  <2> HIDE DEF f
  <2> QED BY <1>3, <1>4, <1>5 DEF NewFrames
<1>7. Pushed(w, f, v, st)
  <2>1. w = None => v = w OBVIOUS
  <2>2. ASSUME w \in Stream, w.open PROVE v \in Stream /\ v.q = w.q \o f /\ (~v.open => st = "over")
    <3>1. DOMAIN f = 1 .. Len(f) /\ w.q \o f \in Seq(Frame) BY <1>3, <2>2 DEF Stream
    <3>2. ~o => st = "over" BY <1>3, <1>4, <3>1
    <3>3. w # None BY <2>2, NoneAssumption
    <3>4. v = [q |-> w.q \o f, open |-> o] BY <2>2, <3>3
    <3>5. o \in BOOLEAN OBVIOUS
    <3> HIDE DEF v, o, f
    <3> QED BY <3>1, <3>2, <3>4, <3>5 DEF Stream
  <2> HIDE DEF v, f, w
  <2> QED BY <2>1, <2>2 DEF Pushed
<1> HIDE DEF v, f
<1>8. Good(b, v, call[j]) BY <1>1, <1>6, <1>7, Emitted
<1>9. Becomes(j, b, v, call[j])
  <2> HIDE DEF b
  <2> QED BY <1>2, Kept DEF Becomes, f, b
<1>10. Inv' BY <1>8, <1>9, Assemble
<1>11. Step BY <1>6, <1>9, Sending
<1> QED BY <1>10, <1>11

LEMMA JobOk == ASSUME Inv, NEW j \in Job, Output(j) \/ End(j) PROVE Inv' /\ Step
<1>1. job[j] \in Jobs BY GoodNow DEF Good, Buffer
<1>2. CASE Output(j)
  <2> DEFINE f == Numbered(j, <<"out">>)
  <2>1. /\ job[j].status = "running" /\ Push(j, f) /\ call' = call
        /\ job' = [job EXCEPT ![j].frames = @ \o f]
    BY <1>2 DEF Output
  <2>2. Grown(job[j], f, "running") = [job[j] EXCEPT !.frames = job[j].frames \o f]
    BY <1>1, <2>1 DEF Grown, Jobs
  <2>3. job' = [job EXCEPT ![j] = Grown(job[j], f, "running")] BY <2>1, <2>2
  <2> QED BY <2>1, <2>3, Emits DEF Ending
<1>3. CASE End(j)
  <2>1. PICK kinds \in {<<"exit">>, <<"error", "exit">>} :
          /\ job[j].status = "running"
          /\ job' = [job EXCEPT ![j].status = "over", ![j].frames = @ \o Numbered(j, kinds)]
          /\ Push(j, Numbered(j, kinds)) /\ call' = call
    BY <1>3 DEF End
  <2>2. job' = [job EXCEPT ![j] = Grown(job[j], Numbered(j, kinds), "over")]
    BY <2>1 DEF Grown, Inv
  <2> QED BY <2>1, <2>2, Emits DEF Ending
<1> QED BY <1>2, <1>3

(* A job whose frames stay: nothing of it changes but that it is started,  *)
(* or killed.                                                              *)
SameOutput(b, d) ==
    /\ d \in Jobs /\ d.frames = b.frames
    /\ d.status = b.status \/ (b.status = "none" /\ d.status = "running")
(* A caller that moves on with what it has got. *)
SameInput(c, d) ==
    /\ d \in Calls /\ d.lastSeq = c.lastSeq /\ d.got = c.got
    /\ d.sawExit => c.sawExit
    /\ d.pc = "over" <=> d.outcome # "open"
LEMMA MovesOn ==
    ASSUME NEW b, NEW w, NEW c, Good(b, w, c), NEW d, SameOutput(b, d),
           NEW e, SameInput(c, e), e.pc \in {"idle", "post"} => d.status = "none"
    PROVE  Buffer(d) /\ Caller(d, e)
<1>1. Buffer(d)
  <2>1. d.status # b.status => b.status # "over" /\ d.status # "over" BY DEF SameOutput
  <2>2. d.status = "over" <=> b.status = "over" BY <2>1
  <2> QED BY <2>2 DEF Good, Buffer, SameOutput
<1>2. Caller(d, e)
  <2>1. e.sawExit => d.status = "over" /\ e.lastSeq = Len(d.frames)
    BY DEF SameOutput, SameInput, Good, Caller
  <2> QED BY <2>1 DEF SameOutput, SameInput, Good, Caller
<1> QED BY <1>1, <1>2

(* ... and reads no stream then. *)
LEMMA Quiet ==
    ASSUME Inv, NEW j \in Job, NEW d, NEW e, Becomes(j, d, None, e),
           SameOutput(job[j], d), SameInput(call[j], e), e.pc # "read",
           e.pc \in {"idle", "post"} => d.status = "none"
    PROVE  Inv'
<1>1. Buffer(d) /\ Caller(d, e) BY GoodNow, MovesOn
<1>2. Carried(d, None, e) BY DEF Carried
<1>3. Good(d, None, e) BY <1>1, <1>2 DEF Good
<1> QED BY <1>3, Assemble

LEMMA NotReading ==
    ASSUME Inv, NEW j \in Job, call[j].pc # "read"
    PROVE  wire = [wire EXCEPT ![j] = None]
<1>1. wire[j] = None BY GoodNow DEF Good, Carried
<1> QED BY <1>1, Kept

LEMMA SameJob ==
    ASSUME Inv, NEW j \in Job
    PROVE  /\ job[j] \in Jobs /\ SameOutput(job[j], job[j]) /\ call[j] \in Calls
           /\ call[j].pc = "over" <=> call[j].outcome # "open"
BY GoodNow DEF Good, Buffer, Caller, SameOutput

LEMMA OverFacts ==
    ASSUME NEW c \in Calls, NEW o \in {"exit", "failed"}
    PROVE  /\ SameInput(c, Over(c, o)) /\ Over(c, o).pc = "over"
           /\ Over(c, o).outcome = o /\ Over(c, o).got = c.got
BY DEF Over, SameInput, Calls

LEMMA PcFacts ==
    ASSUME NEW c \in Calls, c.pc # "over", c.outcome = "open",
           NEW p \in {"post", "loop", "read", "abandon"}
    PROVE  LET d == [c EXCEPT !.pc = p] IN
           SameInput(c, d) /\ d.pc = p /\ d.outcome = c.outcome /\ d.got = c.got
BY DEF SameInput, Calls

LEMMA AgainFacts ==
    ASSUME NEW c \in Calls, c.outcome = "open"
    PROVE  /\ SameInput(c, Again(c)) /\ Again(c).pc \in {"loop", "abandon"}
           /\ Again(c).outcome = c.outcome /\ Again(c).got = c.got
<1>1. CASE c.attempt < Attempts
  <2> DEFINE d == [c EXCEPT !.pc = "loop", !.attempt = c.attempt + 1, !.sawExit = FALSE]
  <2>1. Again(c) = d BY <1>1 DEF Again
  <2>2. c.attempt + 1 \in 1 .. Attempts BY <1>1, LimitsAssumption DEF Calls
  <2>3. /\ d \in Calls /\ d.lastSeq = c.lastSeq /\ d.got = c.got /\ d.outcome = c.outcome
        /\ d.pc = "loop" /\ d.sawExit = FALSE
    BY <2>2 DEF Calls
  <2> HIDE DEF d
  <2> QED BY <2>1, <2>3 DEF SameInput
<1>2. CASE ~(c.attempt < Attempts)
  <2> DEFINE d == [c EXCEPT !.pc = "abandon", !.sawExit = FALSE]
  <2>1. Again(c) = d BY <1>2 DEF Again
  <2>2. /\ d \in Calls /\ d.lastSeq = c.lastSeq /\ d.got = c.got /\ d.outcome = c.outcome
        /\ d.pc = "abandon" /\ d.sawExit = FALSE
    BY DEF Calls
  <2> HIDE DEF d
  <2> QED BY <2>1, <2>2 DEF SameInput
<1> QED BY <1>1, <1>2

(* The caller gives up, whatever becomes of the job. *)
LEMMA FailsOk ==
    ASSUME Inv, NEW j \in Job, NEW d, SameOutput(job[j], d),
           Becomes(j, d, None, Over(call[j], "failed")), call[j].pc # "over"
    PROVE  Inv' /\ Step
<1> DEFINE e == Over(call[j], "failed")
<1>1. call[j] \in Calls /\ call[j].outcome = "open" BY SameJob
<1>2. SameInput(call[j], e) /\ e.pc = "over" /\ e.outcome = "failed" /\ e.got = call[j].got
  BY <1>1, OverFacts
<1>3. Becomes(j, d, None, e) OBVIOUS
<1>4. d.frames = job[j].frames BY DEF SameOutput
<1> HIDE DEF e
<1>5. Inv' BY <1>2, <1>3, Quiet
<1>6. Step BY <1>1, <1>2, <1>3, <1>4, Failing
<1> QED BY <1>5, <1>6

(* The caller goes on without a stream. *)
LEMMA GoesOn ==
    ASSUME Inv, NEW j \in Job, NEW d, SameOutput(job[j], d), NEW e, SameInput(call[j], e),
           e.outcome = call[j].outcome, Becomes(j, d, None, e), e.pc # "read",
           e.pc \in {"idle", "post"} => d.status = "none"
    PROVE  Inv' /\ Step
<1>1. Inv' BY Quiet
<1>2. d.frames = job[j].frames /\ e.got = call[j].got BY DEF SameOutput, SameInput
<1>3. Step BY <1>2, Silent
<1> QED BY <1>1, <1>3

LEMMA StartJobFacts ==
    ASSUME Inv, NEW j \in Job, call[j].pc = "post", StartJob(j)
    PROVE  LET d == [job[j] EXCEPT !.status = "running"] IN
           job' = [job EXCEPT ![j] = d] /\ SameOutput(job[j], d)
<1>1. job[j].status = "none" /\ job[j] \in Jobs BY GoodNow DEF Good, Buffer, Caller
<1>2. job' = [job EXCEPT ![j] = [job[j] EXCEPT !.status = "running"]] BY DEF StartJob
<1> QED BY <1>1, <1>2 DEF SameOutput, Jobs

LEMMA BeginOk ==
    ASSUME Inv, NEW j \in Job, Post(j) \/ Started(j) \/ NotStarted(j) PROVE Inv' /\ Step
<1>1. /\ call[j] \in Calls /\ SameOutput(job[j], job[j]) /\ wire' = wire
      /\ call[j].pc \in {"idle", "post"} /\ job[j].status = "none"
  BY SameJob, GoodNow DEF Good, Caller, Post, Started, NotStarted
<1>2. wire' = [wire EXCEPT ![j] = None] /\ call[j].outcome = "open"
  BY <1>1, NotReading, SameJob
<1>3. CASE Post(j)
  <2>1. job' = [job EXCEPT ![j] = job[j]] BY <1>3, Kept DEF Post
  <2>2. CASE lease # "gone"
    <3> DEFINE e == [call[j] EXCEPT !.pc = "post"]
    <3>1. call' = [call EXCEPT ![j] = e] BY <1>3, <2>2 DEF Post, SetCall
    <3>2. SameInput(call[j], e) /\ e.pc = "post" /\ e.outcome = call[j].outcome
      BY <1>1, <1>2, PcFacts
    <3> HIDE DEF e
    <3>3. Becomes(j, job[j], None, e) BY <1>2, <2>1, <3>1 DEF Becomes
    <3> QED BY <1>1, <3>2, <3>3, GoesOn
  <2>3. CASE lease = "gone"
    <3>1. Becomes(j, job[j], None, Over(call[j], "failed"))
      BY <1>2, <1>3, <2>1, <2>3 DEF Post, SetCall, Becomes
    <3> QED BY <1>1, <3>1, FailsOk
  <2> QED BY <2>2, <2>3
<1>4. CASE Started(j)
  <2> DEFINE d == [job[j] EXCEPT !.status = "running"]
             e == [call[j] EXCEPT !.pc = "loop"]
  <2>1. job' = [job EXCEPT ![j] = d] /\ SameOutput(job[j], d)
    BY <1>4, StartJobFacts DEF Started
  <2>2. call' = [call EXCEPT ![j] = e] BY <1>4 DEF Started, SetCall
  <2>3. SameInput(call[j], e) /\ e.pc = "loop" /\ e.outcome = call[j].outcome
    BY <1>1, <1>2, PcFacts
  <2> HIDE DEF d, e
  <2>4. Becomes(j, d, None, e) BY <1>2, <2>1, <2>2 DEF Becomes
  <2> QED BY <2>1, <2>3, <2>4, GoesOn
<1>5. CASE NotStarted(j)
  <2>1. call' = [call EXCEPT ![j] = Over(call[j], "failed")]
    BY <1>5 DEF NotStarted, SetCall
  <2>2. CASE StartJob(j)
    <3> DEFINE d == [job[j] EXCEPT !.status = "running"]
    <3>1. job' = [job EXCEPT ![j] = d] /\ SameOutput(job[j], d)
      BY <1>5, <2>2, StartJobFacts DEF NotStarted
    <3> HIDE DEF d
    <3>2. Becomes(j, d, None, Over(call[j], "failed")) BY <1>2, <2>1, <3>1 DEF Becomes
    <3> QED BY <1>1, <3>1, <3>2, FailsOk
  <2>3. CASE job' = job
    <3>1. Becomes(j, job[j], None, Over(call[j], "failed"))
      BY <1>2, <2>1, <2>3, Kept DEF Becomes
    <3> QED BY <1>1, <3>1, FailsOk
  <2> QED BY <1>5, <2>2, <2>3 DEF NotStarted
<1> QED BY <1>3, <1>4, <1>5

LEMMA SuffixFacts ==
    ASSUME NEW S, NEW p \in Seq(S), NEW n \in Nat, n <= Len(p)
    PROVE  LET q == SubSeq(p, n + 1, Len(p)) IN q \in Seq(S) /\ Rest(n, q, p)
<1> DEFINE q == SubSeq(p, n + 1, Len(p))
<1>1. Len(p) \in Nat OBVIOUS
<1>2. q \in Seq(S) BY <1>1
<1>3. Len(q) = Len(p) - n BY <1>1
<1>4. \A i \in 1 .. Len(q) : q[i] = p[n + i] BY <1>1, <1>3
<1>5. n + Len(q) = Len(p) BY <1>1, <1>3
<1> QED BY <1>2, <1>4, <1>5 DEF Rest

LEMMA SubscribeOk == ASSUME Inv, NEW j \in Job, Subscribe(j) PROVE Inv' /\ Step
<1> DEFINE b == job[j]
           c == call[j]
           q == FramesAfter(j, c.lastSeq)
           o == \A i \in DOMAIN q : q[i].kind # "exit"
           w == [q |-> q, open |-> o]
           e == [c EXCEPT !.pc = "read"]
<1>1. c.pc = "loop" /\ wire' = [wire EXCEPT ![j] = w] /\ job' = job
      /\ call' = [call EXCEPT ![j] = e]
  BY DEF Subscribe, SetCall
<1>2. Good(b, wire[j], c) /\ b \in Jobs /\ c \in Calls BY GoodNow, SameJob
<1>3. b.frames \in Seq(Frame) /\ c.lastSeq \in Nat /\ c.lastSeq <= Len(b.frames)
  BY <1>2 DEF Good, Caller, Jobs, Calls
<1>4. q \in Seq(Frame) /\ Rest(c.lastSeq, q, b.frames)
  BY <1>3, SuffixFacts DEF FramesAfter
<1> HIDE DEF q
<1>5. ~o => b.status = "over"
  <2>1. SUFFICES ASSUME NEW i \in DOMAIN q, q[i].kind = "exit" PROVE b.status = "over"
    OBVIOUS
  <2>2. DOMAIN q = 1 .. Len(q) /\ Len(q) \in Nat /\ Len(b.frames) \in Nat BY <1>3, <1>4
  <2>3. q[i] = b.frames[c.lastSeq + i] /\ c.lastSeq + Len(q) = Len(b.frames)
    BY <1>4, <2>2 DEF Rest
  <2>4. c.lastSeq + i \in 1 .. Len(b.frames) BY <1>3, <2>2, <2>3
  <2> QED BY <1>2, <2>1, <2>3, <2>4 DEF Good, Buffer
<1>6. o \in BOOLEAN OBVIOUS
<1> HIDE DEF o
<1>7. w \in Stream /\ w.q = q /\ w.open = o BY <1>4, <1>6 DEF Stream
<1>8. SameInput(c, e) /\ e.pc = "read" /\ e.outcome = c.outcome /\ e.got = c.got
  BY <1>1, <1>2, SameJob, PcFacts
<1>9. SameOutput(b, b) BY SameJob
<1> HIDE DEF w, e
<1>10. Buffer(b) /\ Caller(b, e) BY <1>2, <1>8, <1>9, MovesOn
<1>11. e.lastSeq = c.lastSeq BY <1>8 DEF SameInput
<1>12. Carried(b, w, e) BY <1>4, <1>5, <1>7, <1>8, <1>11 DEF Carried
<1>13. Becomes(j, b, w, e) BY <1>1, Kept DEF Becomes
<1>14. Inv' BY <1>10, <1>12, <1>13, Assemble DEF Good
<1>15. Step BY <1>8, <1>13, Silent
<1> QED BY <1>14, <1>15

LEMMA LoopOk ==
    ASSUME Inv, NEW j \in Job,
           Refused(j) \/ Unreachable(j) \/ StreamDone(j) \/ Break(j) \/ Cancel(j) \/ Abandon(j)
    PROVE  Inv' /\ Step
<1>1. /\ call[j] \in Calls /\ SameOutput(job[j], job[j]) /\ job[j] \in Jobs
      /\ call[j].outcome = "open" /\ call[j].pc # "over"
  BY SameJob DEF Refused, Unreachable, StreamDone, Break, Cancel, Abandon
<1>2. wire' = [wire EXCEPT ![j] = None]
  BY NotReading DEF Refused, Unreachable, StreamDone, Break, Cancel, Abandon
<1>3. CASE Refused(j)
  <2>1. Becomes(j, job[j], None, Over(call[j], "failed"))
    BY <1>2, <1>3, Kept DEF Becomes, Refused, SetCall
  <2> QED BY <1>1, <2>1, FailsOk
<1>4. ASSUME job' = job, SetCall(j, Again(call[j])) PROVE Inv' /\ Step
  <2>1. Becomes(j, job[j], None, Again(call[j]))
    BY <1>2, <1>4, Kept DEF Becomes, SetCall
  <2>2. /\ SameInput(call[j], Again(call[j])) /\ Again(call[j]).outcome = call[j].outcome
        /\ Again(call[j]).pc # "read" /\ Again(call[j]).pc \notin {"idle", "post"}
    BY <1>1, AgainFacts
  <2> QED BY <1>1, <2>1, <2>2, GoesOn
<1>5. CASE Unreachable(j) \/ Break(j) BY <1>4, <1>5 DEF Unreachable, Break
<1>6. CASE StreamDone(j)
  <2>1. CASE ~call[j].sawExit
    BY <1>4, <1>6, <2>1 DEF StreamDone, Afterwards
  <2>2. CASE call[j].sawExit
    <3> DEFINE e == Over(call[j], "exit")
    <3>1. call' = [call EXCEPT ![j] = e] /\ job' = job
      BY <1>6, <2>2 DEF StreamDone, Afterwards, SetCall
    <3>2. SameInput(call[j], e) /\ e.pc = "over" /\ e.outcome = "exit" /\ e.got = call[j].got
      BY <1>1, OverFacts
    <3> HIDE DEF e
    <3>3. Becomes(j, job[j], None, e) BY <1>2, <3>1, Kept DEF Becomes
    <3>4. Inv' BY <1>1, <3>2, <3>3, Quiet
    <3>5. job[j].status = "over" /\ call[j].lastSeq = Len(job[j].frames)
      BY <2>2, GoodNow DEF Good, Caller
    <3>6. Step BY <1>1, <3>2, <3>3, <3>5, Completing
    <3> QED BY <3>4, <3>6
  <2> QED BY <2>1, <2>2
<1>7. CASE Cancel(j)
  <2> DEFINE e == [call[j] EXCEPT !.pc = "abandon"]
  <2>1. call' = [call EXCEPT ![j] = e] /\ job' = job BY <1>7 DEF Cancel, SetCall
  <2>2. SameInput(call[j], e) /\ e.pc = "abandon" /\ e.outcome = call[j].outcome
    BY <1>1, PcFacts
  <2> HIDE DEF e
  <2>3. Becomes(j, job[j], None, e) BY <1>2, <2>1, Kept DEF Becomes
  <2> QED BY <1>1, <2>2, <2>3, GoesOn
<1>8. CASE Abandon(j)
  <2>1. call' = [call EXCEPT ![j] = Over(call[j], "failed")] BY <1>8 DEF Abandon, SetCall
  <2>2. CASE job' = [job EXCEPT ![j].killed = TRUE]
    <3> DEFINE d == [job[j] EXCEPT !.killed = TRUE]
    <3>1. job' = [job EXCEPT ![j] = d] BY <2>2
    <3>2. SameOutput(job[j], d) BY <1>1 DEF SameOutput, Jobs
    <3> HIDE DEF d
    <3>3. Becomes(j, d, None, Over(call[j], "failed")) BY <1>2, <2>1, <3>1 DEF Becomes
    <3> QED BY <1>1, <3>2, <3>3, FailsOk
  <2>3. CASE job' = job
    <3>1. Becomes(j, job[j], None, Over(call[j], "failed"))
      BY <1>2, <2>1, <2>3, Kept DEF Becomes
    <3> QED BY <1>1, <3>1, FailsOk
  <2> QED BY <1>8, <2>2, <2>3 DEF Abandon
<1> QED BY <1>3, <1>5, <1>6, <1>7, <1>8

LEMMA TailRest ==
    ASSUME NEW S, NEW p \in Seq(S), NEW q \in Seq(S), NEW n \in Nat, Rest(n, q, p), q # <<>>
    PROVE  /\ Head(q) = p[n + 1] /\ n + 1 \in 1 .. Len(p) /\ n < Len(p)
           /\ Tail(q) \in Seq(S) /\ Rest(n + 1, Tail(q), p)
<1>1. /\ Len(q) \in Nat /\ Len(q) > 0 /\ Len(p) \in Nat /\ Head(q) = q[1]
      /\ Tail(q) \in Seq(S) /\ Len(Tail(q)) = Len(q) - 1
      /\ \A i \in 1 .. Len(q) - 1 : Tail(q)[i] = q[i + 1]
  OBVIOUS
<1>2. n + Len(q) = Len(p) /\ \A i \in 1 .. Len(q) : q[i] = p[n + i] BY DEF Rest
<1>3. n + 1 \in 1 .. Len(p) /\ n < Len(p) BY <1>1, <1>2
<1>4. Head(q) = p[n + 1] BY <1>1, <1>2
<1>5. ASSUME NEW i \in 1 .. Len(q) - 1 PROVE Tail(q)[i] = p[(n + 1) + i]
  <2>1. i + 1 \in 1 .. Len(q) /\ n + (i + 1) = (n + 1) + i BY <1>1
  <2> QED BY <1>1, <1>2, <2>1
<1>6. (n + 1) + (Len(q) - 1) = Len(p) BY <1>1, <1>2
<1>7. Rest(n + 1, Tail(q), p) BY <1>1, <1>5, <1>6 DEF Rest
<1> QED BY <1>1, <1>3, <1>4, <1>7

(* readNdjson() with the frame that comes next. *)
Reads(c, f) ==
    [c EXCEPT !.got = Append(c.got, f), !.lastSeq = c.lastSeq + 1,
              !.sawExit = c.sawExit \/ f.kind = "exit"]
LEMMA ReadsFacts ==
    ASSUME NEW c \in Calls, NEW f \in Frame
    PROVE  LET e == Reads(c, f) IN
           /\ e \in Calls /\ e.got = Append(c.got, f) /\ e.lastSeq = c.lastSeq + 1
           /\ e.pc = c.pc /\ e.outcome = c.outcome
           /\ e.sawExit => c.sawExit \/ f.kind = "exit"
<1> DEFINE s == c.sawExit \/ f.kind = "exit"
           e == [c EXCEPT !.got = Append(c.got, f), !.lastSeq = c.lastSeq + 1, !.sawExit = s]
<1>1. s \in BOOLEAN OBVIOUS
<1>2. s => c.sawExit \/ f.kind = "exit" OBVIOUS
<1>3. Reads(c, f) = e BY DEF Reads
<1> HIDE DEF s
<1>4. Append(c.got, f) \in Seq(Frame) /\ c.lastSeq + 1 \in Nat BY DEF Calls
<1>5. /\ e \in Calls /\ e.got = Append(c.got, f) /\ e.lastSeq = c.lastSeq + 1
      /\ e.pc = c.pc /\ e.outcome = c.outcome /\ e.sawExit = s
  BY <1>1, <1>4 DEF Calls
<1> HIDE DEF e
<1> QED BY <1>2, <1>3, <1>5

LEMMA ReadOk == ASSUME Inv, NEW j \in Job, Read(j) PROVE Inv' /\ Step
<1> DEFINE b == job[j]
           c == call[j]
           w == wire[j]
           f == Head(w.q)
           e == Reads(c, f)
           v == [w EXCEPT !.q = Tail(w.q)]
<1>1. Buffer(b) /\ Caller(b, c) /\ Carried(b, w, c) /\ c.pc = "read" /\ w.q # <<>>
  BY GoodNow DEF Good, Read
<1>2. /\ w \in Stream /\ w.q \in Seq(Frame) /\ Rest(c.lastSeq, w.q, b.frames)
      /\ b.frames \in Seq(Frame) /\ c \in Calls /\ c.lastSeq \in Nat /\ c.got \in Seq(Frame)
  BY <1>1 DEF Carried, Stream, Buffer, Jobs, Caller, Calls
<1>3. /\ f = b.frames[c.lastSeq + 1] /\ c.lastSeq + 1 \in 1 .. Len(b.frames)
      /\ c.lastSeq < Len(b.frames)
      /\ Tail(w.q) \in Seq(Frame) /\ Rest(c.lastSeq + 1, Tail(w.q), b.frames)
  <2>1. PICK p, q, n : p = b.frames /\ q = w.q /\ n = c.lastSeq OBVIOUS
  <2>2. p \in Seq(Frame) /\ q \in Seq(Frame) /\ n \in Nat /\ Rest(n, q, p) /\ q # <<>>
    BY <1>1, <1>2, <2>1
  <2>3. /\ Head(q) = p[n + 1] /\ n + 1 \in 1 .. Len(p) /\ n < Len(p)
        /\ Tail(q) \in Seq(Frame) /\ Rest(n + 1, Tail(q), p)
    BY <2>2, TailRest
  <2> QED BY <2>1, <2>3
<1>4. f.seq = c.lastSeq + 1 /\ f \in Frame
  <2> HIDE DEF f
  <2>1. f \in Frame BY <1>2, <1>3
  <2>2. b.frames[c.lastSeq + 1].seq = c.lastSeq + 1 BY <1>1, <1>3 DEF Buffer
  <2> QED BY <1>3, <2>1, <2>2
<1>5. /\ job' = job /\ wire' = [wire EXCEPT ![j].q = Tail(@)]
      /\ call' = [call EXCEPT ![j] = [c EXCEPT !.got = Append(@, f),
                     !.lastSeq = IF f.seq > @ THEN f.seq ELSE @,
                     !.sawExit = @ \/ f.kind = "exit"]]
  BY DEF Read, SetCall
<1>6. (IF f.seq > c.lastSeq THEN f.seq ELSE c.lastSeq) = c.lastSeq + 1 BY <1>2, <1>4
<1>7. call' = [call EXCEPT ![j] = e] BY <1>5, <1>6 DEF Reads
<1>8. wire' = [wire EXCEPT ![j] = v] BY <1>5
<1> HIDE DEF f
<1>9. /\ e \in Calls /\ e.got = Append(c.got, f) /\ e.lastSeq = c.lastSeq + 1
      /\ e.pc = c.pc /\ e.outcome = c.outcome
      /\ e.sawExit => c.sawExit \/ f.kind = "exit"
  BY <1>2, <1>4, ReadsFacts
<1>10. v \in Stream /\ v.q = Tail(w.q) /\ (v.open <=> w.open) BY <1>2, <1>3 DEF Stream
<1> HIDE DEF e, v
<1>11. Append(c.got, f) \in Seq(Frame) /\ Len(Append(c.got, f)) = Len(c.got) + 1
       /\ (\A i \in 1 .. Len(c.got) : Append(c.got, f)[i] = c.got[i])
       /\ Append(c.got, f)[Len(c.got) + 1] = f
  BY <1>2, <1>4
<1>12. /\ Len(c.got) = c.lastSeq /\ c.outcome = "open"
       /\ \A i \in 1 .. c.lastSeq : c.got[i] = b.frames[i]
  BY <1>1 DEF Caller
<1>13. Caller(b, e)
  <2>1. ASSUME NEW i \in 1 .. e.lastSeq PROVE e.got[i] = b.frames[i]
    <3>1. CASE i = c.lastSeq + 1 BY <1>3, <1>9, <1>11, <1>12, <3>1
    <3>2. CASE i # c.lastSeq + 1
      <4>1. i \in 1 .. c.lastSeq BY <1>2, <1>9, <3>2
      <4> QED BY <1>9, <1>11, <1>12, <4>1
    <3> QED BY <3>1, <3>2
  <2>2. ~c.sawExit
    <3>1. c.sawExit => c.lastSeq = Len(b.frames) BY <1>1 DEF Caller
    <3>2. c.lastSeq # Len(b.frames) BY <1>2, <1>3
    <3> QED BY <3>1, <3>2
  <2>3. f.kind = "exit" => b.status = "over" /\ c.lastSeq + 1 = Len(b.frames)
    BY <1>1, <1>3 DEF Buffer
  <2>4. e.lastSeq = Len(e.got) /\ e.lastSeq <= Len(b.frames)
    BY <1>3, <1>9, <1>11, <1>12
  <2> QED BY <1>1, <1>9, <1>12, <2>1, <2>2, <2>3, <2>4 DEF Caller
<1>14. Carried(b, v, e) BY <1>1, <1>3, <1>9, <1>10 DEF Carried
<1>15. Becomes(j, b, v, e) BY <1>5, <1>7, <1>8, Kept DEF Becomes
<1>16. Inv' BY <1>1, <1>13, <1>14, <1>15, Assemble DEF Good
<1>17. Step
  <2>1. Len(c.got) < Len(b.frames) BY <1>3, <1>12
  <2>2. e.got = Append(c.got, b.frames[Len(c.got) + 1]) BY <1>3, <1>9, <1>12
  <2> QED BY <1>9, <1>12, <1>15, <2>1, <2>2, Receiving
<1> QED BY <1>16, <1>17

LEMMA EndTurnOk == ASSUME Inv, EndTurn PROVE Inv' /\ Step
<1> DEFINE k(j) == job[j].killed \/ job[j].status = "running"
<1>1. /\ job' = [j \in Job |-> [job[j] EXCEPT !.killed = k(j)]]
      /\ wire' = wire /\ call' = call
  BY DEF EndTurn
<1>2. ASSUME NEW j \in Job
      PROVE  SameOutput(job[j], job'[j]) /\ Good(job'[j], wire'[j], call'[j])
  <2>1. job[j] \in Jobs /\ Good(job[j], wire[j], call[j]) BY SameJob, GoodNow
  <2>2. k(j) \in BOOLEAN OBVIOUS
  <2>3. job'[j] = [job[j] EXCEPT !.killed = k(j)] BY <1>1
  <2> HIDE DEF k
  <2>4. job'[j] \in Jobs /\ job'[j].frames = job[j].frames /\ job'[j].status = job[j].status
    BY <2>1, <2>2, <2>3 DEF Jobs
  <2> QED BY <1>1, <2>1, <2>4 DEF SameOutput, Good, Buffer, Caller, Carried
<1>3. Inv' BY <1>1, <1>2 DEF Inv
<1>4. sent' = sent BY <1>2 DEF sent, SameOutput
<1>5. Step BY <1>1, <1>4 DEF Step, Channel!vars, sent
<1> QED BY <1>3, <1>5

-----------------------------------------------------------------------------
(* The theorems.                                                           *)

LEMMA InvInit == Init => Inv
<1> SUFFICES ASSUME Init PROVE Inv OBVIOUS
<1>1. <<>> \in Seq(Frame) /\ Len(<<>>) = 0 OBVIOUS
<1>2. NoJob \in Jobs /\ NoJob.frames = <<>> /\ NoJob.status = "none"
  BY <1>1 DEF NoJob, Jobs
<1>3. Buffer(NoJob) BY <1>1, <1>2 DEF Buffer
<1>4. NoCall \in Calls BY <1>1, LimitsAssumption DEF NoCall, Calls
<1>5. Caller(NoJob, NoCall) BY <1>1, <1>2, <1>4 DEF NoCall, Caller
<1>6. Carried(NoJob, None, NoCall) BY DEF NoCall, Carried
<1> QED BY <1>3, <1>5, <1>6 DEF Init, Inv, Good

LEMMA InvNext == ASSUME Inv, [Next]_vars PROVE Inv' /\ Step
<1>1. CASE UNCHANGED vars
  <2>1. Inv' BY <1>1 DEF vars, Inv
  <2>2. Step BY <1>1 DEF vars, Step, Channel!vars
  <2> QED BY <2>1, <2>2
<1>2. CASE Next
  BY <1>2, EndTurnOk, JobOk, BeginOk, SubscribeOk, LoopOk, ReadOk DEF Next
<1> QED BY <1>1, <1>2

LEMMA Invariance == Spec => []Inv
<1>1. Inv /\ [Next]_vars => Inv' BY InvNext
<1> QED BY <1>1, InvInit, PTL DEF Spec

(* exec-jobs.js and execViaAsyncJob together are a reliable ordered        *)
(* channel: whatever breaks between them, a caller is handed each frame    *)
(* once and in order, and an exit only after everything the command wrote. *)
THEOREM ImplementsOrderedChannel == Spec => ReliableOutput
<1>1. Init => Channel!Init BY DEF Init, Channel!Init, NoJob, NoCall
<1>2. Inv /\ [Next]_vars => [Channel!Next]_(Channel!vars) BY InvNext DEF Step
<1> QED BY <1>1, <1>2, Invariance, PTL DEF Spec, ReliableOutput, Channel!Spec

(* What a step may do to a command's life: abort() is called for the turn  *)
(* or by a caller that fails, and a call that is over stays so.            *)
Failed(c) == c.pc = "over" /\ c.outcome = "failed"
Spared(j) == /\ job'[j].killed => job[j].killed \/ Failed(call'[j])
             /\ call[j].pc = "over" => call'[j] = call[j]
LEMMA KilledBy ==
    ASSUME Inv, [Next]_vars PROVE lease' # "held" \/ (lease' = lease /\ \A j \in Job : Spared(j))
<1>1. CASE UNCHANGED vars BY <1>1 DEF vars, Spared
<1>2. CASE EndTurn BY <1>2 DEF EndTurn
<1>3. ASSUME NEW j \in Job, NEW d, job' = job \/ job' = [job EXCEPT ![j] = d],
             d.killed = job[j].killed, call' = call \/ call[j].pc # "over",
             NEW c, call' = call \/ SetCall(j, c)
      PROVE  \A i \in Job : Spared(i)
  <2>1. ASSUME NEW i \in Job PROVE job'[i].killed = job[i].killed
    BY <1>3 DEF Inv
  <2>2. ASSUME NEW i \in Job, call[i].pc = "over" PROVE call'[i] = call[i]
    BY <1>3, <2>2 DEF Inv, SetCall
  <2> QED BY <2>1, <2>2 DEF Spared
<1>4. ASSUME NEW j \in Job, Output(j) \/ End(j) PROVE lease' = lease /\ \A i \in Job : Spared(i)
  <2>1. job[j] \in Jobs BY SameJob
  <2>2. CASE Output(j)
    <3> DEFINE d == [job[j] EXCEPT !.frames = job[j].frames \o Numbered(j, <<"out">>)]
    <3>1. job' = [job EXCEPT ![j] = d] /\ call' = call /\ lease' = lease
      BY <2>2 DEF Output
    <3>2. d.killed = job[j].killed BY <2>1 DEF Jobs
    <3> HIDE DEF d
    <3> QED BY <1>3, <3>1, <3>2
  <2>3. CASE End(j)
    <3>1. PICK kinds \in {<<"exit">>, <<"error", "exit">>} :
            job' = [job EXCEPT ![j].status = "over", ![j].frames = @ \o Numbered(j, kinds)]
      BY <2>3 DEF End
    <3> DEFINE d == [job[j] EXCEPT !.status = "over", !.frames = job[j].frames \o Numbered(j, kinds)]
    <3>2. job' = [job EXCEPT ![j] = d] /\ call' = call /\ lease' = lease
      BY <2>3, <3>1 DEF End, Inv
    <3>3. d.killed = job[j].killed BY <2>1 DEF Jobs
    <3> HIDE DEF d
    <3> QED BY <1>3, <3>2, <3>3
  <2> QED BY <1>4, <2>2, <2>3
<1>5. ASSUME NEW j \in Job, StartJob(j), NEW c, SetCall(j, c), call[j].pc # "over"
      PROVE  \A i \in Job : Spared(i)
  <2> DEFINE d == [job[j] EXCEPT !.status = "running"]
  <2>1. job[j] \in Jobs BY SameJob
  <2>2. job' = [job EXCEPT ![j] = d] BY <1>5 DEF StartJob
  <2>3. d.killed = job[j].killed BY <2>1 DEF Jobs
  <2> HIDE DEF d
  <2> QED BY <1>3, <1>5, <2>2, <2>3
<1>6. ASSUME NEW j \in Job, job' = job, NEW c, SetCall(j, c), call[j].pc # "over"
      PROVE  \A i \in Job : Spared(i)
  BY <1>3, <1>6
<1>7. ASSUME NEW j \in Job, Post(j) \/ Started(j) \/ NotStarted(j) \/ Subscribe(j)
               \/ Refused(j) \/ Unreachable(j) \/ Read(j) \/ StreamDone(j) \/ Break(j) \/ Cancel(j)
      PROVE  lease' = lease /\ \A i \in Job : Spared(i)
  <2>1. CASE Post(j) BY <1>6, <2>1 DEF Post
  <2>2. CASE Started(j) BY <1>5, <2>2 DEF Started
  <2>3. CASE NotStarted(j) BY <1>5, <1>6, <2>3 DEF NotStarted
  <2>4. CASE Subscribe(j) BY <1>6, <2>4 DEF Subscribe
  <2>5. CASE Refused(j) BY <1>6, <2>5 DEF Refused
  <2>6. CASE Unreachable(j) BY <1>6, <2>6 DEF Unreachable
  <2>7. CASE Read(j) BY <1>6, <2>7 DEF Read
  <2>8. CASE StreamDone(j) BY <1>6, <2>8 DEF StreamDone
  <2>9. CASE Break(j) BY <1>6, <2>9 DEF Break
  <2>10. CASE Cancel(j) BY <1>6, <2>10 DEF Cancel
  <2> QED BY <1>7, <2>1, <2>2, <2>3, <2>4, <2>5, <2>6, <2>7, <2>8, <2>9, <2>10
<1>8. ASSUME NEW j \in Job, Abandon(j) PROVE lease' = lease /\ \A i \in Job : Spared(i)
  <2>1. call[j].pc # "over" /\ SetCall(j, Over(call[j], "failed")) /\ lease' = lease
    BY <1>8 DEF Abandon
  <2>2. CASE job' = job BY <1>6, <2>1, <2>2
  <2>3. CASE job' = [job EXCEPT ![j].killed = TRUE]
    <3>1. call' = [i \in Job |-> IF i = j THEN Over(call[j], "failed") ELSE call[i]]
      BY <2>1 DEF SetCall, Inv
    <3>2. Failed(Over(call[j], "failed")) BY SameJob, OverFacts DEF Failed
    <3>3. \A i \in Job \ {j} : job'[i] = job[i] BY <2>3 DEF Inv
    <3> QED BY <2>1, <3>1, <3>2, <3>3 DEF Spared
  <2> QED BY <1>8, <2>1, <2>2, <2>3 DEF Abandon
<1> QED BY <1>1, <1>2, <1>4, <1>7, <1>8 DEF Next

(* A lost connection never stops a command. *)
THEOREM KilledOnlyForItsCaller == Spec => []KilledOnlyIfAbandoned
<1>1. Init => KilledOnlyIfAbandoned BY DEF Init, NoJob, KilledOnlyIfAbandoned
<1>2. ASSUME Inv, KilledOnlyIfAbandoned, [Next]_vars PROVE KilledOnlyIfAbandoned'
  <2>1. ASSUME lease' = lease, NEW j \in Job, Spared(j), job'[j].killed, lease' = "held"
        PROVE  Failed(call'[j])
    <3>1. job[j].killed => Failed(call[j]) BY <1>2, <2>1 DEF KilledOnlyIfAbandoned, Failed
    <3>2. Failed(call[j]) => call'[j] = call[j] BY <2>1 DEF Spared, Failed
    <3> QED BY <2>1, <3>1, <3>2 DEF Spared
  <2> QED BY <1>2, <2>1, KilledBy DEF KilledOnlyIfAbandoned, Failed
<1> QED BY <1>1, <1>2, Invariance, PTL DEF Spec

-----------------------------------------------------------------------------
(* The jobs that are kept.                                                 *)

Once(finished) == \A m, n \in DOMAIN finished : finished[m] = finished[n] => m = n
\* Of the finished jobs the later ones stay.
LaterStay(all, finished) ==
    \A m, n \in 1 .. Len(finished) : m < n /\ finished[m] \in all => finished[n] \in all
Newer(all, finished, j) == {k \in all : After(finished, j, k)}

LEMMA NewerFinite ==
    ASSUME NEW f \in Seq(Job), NEW T, \A j \in T : IsFinished(f, j)
    PROVE  IsFiniteSet(T) /\ Cardinality(T) \in Nat
<1>1. Len(f) \in Nat /\ DOMAIN f = 1 .. Len(f) /\ IsFiniteSet(1 .. Len(f)) BY FS_Interval
<1>2. PICK I : I = {n \in 1 .. Len(f) : f[n] \in T} OBVIOUS
<1>3. PICK g : g = [n \in I |-> f[n]] OBVIOUS
<1>4. g \in Surjection(I, T)
  <2>1. g \in [I -> T] BY <1>2, <1>3
  <2>2. ASSUME NEW j \in T PROVE \E n \in I : g[n] = j
    <3>1. PICK n \in DOMAIN f : f[n] = j BY DEF IsFinished
    <3> QED BY <1>1, <1>2, <1>3, <3>1
  <2> QED BY <2>1, <2>2 DEF Surjection
<1>5. IsFiniteSet(I) BY <1>1, <1>2, FS_Subset
<1> QED BY <1>4, <1>5, FS_Surjection, FS_CardinalityType

LEMMA NewerFacts ==
    ASSUME NEW f \in Seq(Job), NEW all, NEW j
    PROVE  IsFiniteSet(Newer(all, f, j)) /\ Cardinality(Newer(all, f, j)) \in Nat
<1>1. \A k \in Newer(all, f, j) : IsFinished(f, k) BY DEF Newer, After, IsFinished
<1> QED BY <1>1, NewerFinite

LEMMA RetainedIs ==
    ASSUME NEW f, NEW all, NEW j
    PROVE  j \in Retained(all, f) <=>
             j \in all /\ (IsFinished(f, j) => Cardinality(Newer(all, f, j)) < RetainJobs)
BY DEF Retained, Newer

(* evictOld() keeps no more finished jobs than it should: all of them but *)
(* the oldest are newer than that.                                        *)
LEMMA RetainedFew ==
    ASSUME NEW f \in Seq(Job), NEW all, NEW D, D = {j \in Retained(all, f) : IsFinished(f, j)}
    PROVE  Cardinality(D) <= RetainJobs
<1>1. RetainJobs \in Nat BY LimitsAssumption
<1>2. CASE D = {}
  <2>1. Cardinality(D) = 0 BY <1>2, FS_EmptySet, Zenon
  <2> QED BY <1>1, <2>1
<1>3. CASE D # {}
  <2>1. PICK T : T = {n \in DOMAIN f : f[n] \in D} OBVIOUS
  <2>2. T # {} /\ T \subseteq Nat
    <3>1. PICK j \in D : TRUE BY <1>3
    <3>2. PICK n \in DOMAIN f : f[n] = j BY <3>1 DEF IsFinished
    <3> QED BY <2>1, <3>1, <3>2
  <2>3. PICK k \in T : \A n \in T : k <= n BY <2>2, LeastNumber
  <2>4. PICK j \in D : j = f[k] BY <2>1, <2>3
  <2>5. PICK L : L = Newer(all, f, j) OBVIOUS
  <2>6. IsFiniteSet(L) /\ Cardinality(L) \in Nat /\ Cardinality(L) < RetainJobs
    BY <2>4, <2>5, NewerFacts, RetainedIs
  <2>7. D \subseteq L \union {j}
    <3> SUFFICES ASSUME NEW x \in D, x # j PROVE x \in L OBVIOUS
    <3>1. PICK n \in DOMAIN f : f[n] = x BY DEF IsFinished
    <3>2. n \in T /\ k <= n /\ k # n /\ k \in Nat /\ n \in Nat BY <2>1, <2>2, <2>3, <2>4, <3>1
    <3>3. After(f, j, x) BY <2>1, <2>3, <2>4, <3>1, <3>2 DEF After
    <3>4. x \in all BY RetainedIs
    <3> QED BY <2>5, <3>3, <3>4 DEF Newer
  <2>8. IsFiniteSet(L \union {j}) /\ Cardinality(L \union {j}) <= Cardinality(L) + 1
    <3>1. /\ IsFiniteSet(L \union {j})
          /\ Cardinality(L \union {j}) = IF j \in L THEN Cardinality(L) ELSE Cardinality(L) + 1
      BY <2>6, FS_AddElement, Zenon
    <3> QED BY <2>6, <3>1
  <2>9. Cardinality(D) <= Cardinality(L \union {j}) BY <2>7, <2>8, FS_Subset
  <2>10. Cardinality(D) \in Nat /\ Cardinality(L \union {j}) \in Nat
    BY <2>7, <2>8, FS_Subset, FS_CardinalityType
  <2> QED BY <1>1, <2>6, <2>8, <2>9, <2>10
<1> QED BY <1>2, <1>3

(* ... and it keeps the latest.                                           *)
LEMMA RetainedLater ==
    ASSUME NEW f \in Seq(Job), Once(f), NEW all, LaterStay(all, f)
    PROVE  LaterStay(Retained(all, f), f)
<1> SUFFICES ASSUME NEW m \in 1 .. Len(f), NEW n \in 1 .. Len(f), m < n, f[m] \in Retained(all, f)
             PROVE  f[n] \in Retained(all, f)
  BY DEF LaterStay
<1>1. DOMAIN f = 1 .. Len(f) OBVIOUS
<1>2. f[m] \in all /\ IsFinished(f, f[m]) BY <1>1, RetainedIs DEF IsFinished
<1>3. Cardinality(Newer(all, f, f[m])) < RetainJobs BY <1>2, RetainedIs
<1>4. f[n] \in all BY <1>2 DEF LaterStay
<1>5. Newer(all, f, f[n]) \subseteq Newer(all, f, f[m])
  <2> SUFFICES ASSUME NEW k \in all, After(f, f[n], k) PROVE After(f, f[m], k) BY DEF Newer
  <2>1. PICK a, b \in DOMAIN f : a < b /\ f[a] = f[n] /\ f[b] = k BY DEF After
  <2>2. a = n BY <1>1, <2>1 DEF Once
  <2>3. m < b BY <1>1, <2>1, <2>2
  <2> QED BY <1>1, <2>1, <2>3 DEF After
<1>6. Cardinality(Newer(all, f, f[n])) <= Cardinality(Newer(all, f, f[m]))
  BY <1>5, NewerFacts, FS_Subset
<1>7. Cardinality(Newer(all, f, f[n])) \in Nat /\ Cardinality(Newer(all, f, f[m])) \in Nat
  BY NewerFacts
<1>8. Cardinality(Newer(all, f, f[n])) < RetainJobs BY <1>3, <1>6, <1>7, LimitsAssumption
<1> QED BY <1>4, <1>8, RetainedIs

(* ended is the jobs that are over, each once.                            *)
KeptInv ==
    /\ lease \in {"held", "parked", "gone"}
    /\ kept \subseteq Job /\ ended \in Seq(Job) /\ Once(ended)
    /\ \A j \in Job : IsFinished(ended, j) <=> job[j].status = "over"
    /\ KeptOK

\* What KeptOK says, in the words of the lemmas.
LEMMA KeptIs ==
    ASSUME kept \subseteq Job, \A j \in Job : IsFinished(ended, j) <=> job[j].status = "over"
    PROVE  KeptOK <=> /\ \A j \in Job : job[j].status = "running" => j \in kept
                      /\ Cardinality({j \in kept : IsFinished(ended, j)}) <= RetainJobs
                      /\ LaterStay(kept, ended)
<1>1. {j \in kept : job[j].status = "over"} = {j \in kept : IsFinished(ended, j)} OBVIOUS
<1> QED BY <1>1 DEF KeptOK, LaterStay

\* evictOld() after a job was added or ended.
LEMMA Evicts ==
    ASSUME NEW all \in SUBSET Job, lease' \in {"held", "parked", "gone"},
           ended' \in Seq(Job), Once(ended)',
           \A j \in Job : IsFinished(ended', j) <=> job'[j].status = "over",
           \A j \in Job : job'[j].status = "running" => j \in all,
           LaterStay(all, ended'), kept' = Retained(all, ended')
    PROVE  KeptInv'
<1>1. kept' \subseteq Job BY DEF Retained
<1>2. ASSUME NEW j \in Job, job'[j].status = "running" PROVE j \in kept'
  <2>1. j \in all /\ ~IsFinished(ended', j) BY <1>2
  <2> QED BY <2>1, RetainedIs
<1>3. Cardinality({j \in kept' : IsFinished(ended', j)}) <= RetainJobs BY RetainedFew
<1>4. LaterStay(kept', ended') BY RetainedLater DEF Once
<1>5. {j \in kept' : job'[j].status = "over"} = {j \in kept' : IsFinished(ended', j)} BY <1>1
<1>6. KeptOK' BY <1>2, <1>3, <1>4, <1>5 DEF KeptOK, LaterStay
<1> QED BY <1>1, <1>6 DEF KeptInv

\* A step that neither starts nor ends a job.
LEMMA SameStatus ==
    ASSUME KeptInv, kept' = kept, ended' = ended, lease' \in {"held", "parked", "gone"},
           \A j \in Job : job'[j].status = job[j].status
    PROVE  KeptInv'
<1>1. {j \in kept' : job'[j].status = "over"} = {j \in kept : job[j].status = "over"}
  BY DEF KeptInv
<1> QED BY <1>1 DEF KeptInv, KeptOK

LEMMA StartKeeps ==
    ASSUME Inv, KeptInv, NEW j \in Job, call[j].pc = "post", StartJob(j), UNCHANGED <<lease, ended>>
    PROVE  KeptInv'
<1>1. job[j].status = "none" /\ job[j] \in Jobs BY GoodNow, SameJob DEF Good, Caller
<1>2. /\ job' = [i \in Job |-> IF i = j THEN [job[j] EXCEPT !.status = "running"] ELSE job[i]]
      /\ kept' = Retained(kept \union {j}, ended)
  BY DEF StartJob, Inv
<1>3. job'[j].status = "running" /\ \A i \in Job \ {j} : job'[i] = job[i] BY <1>1, <1>2 DEF Jobs
<1>4. \A i \in Job : IsFinished(ended, i) <=> job'[i].status = "over" BY <1>1, <1>3 DEF KeptInv
<1>5. \A i \in Job : job'[i].status = "running" => i \in kept \union {j} BY <1>3 DEF KeptInv, KeptOK
<1>6. LaterStay(kept \union {j}, ended)
  <2> SUFFICES ASSUME NEW m \in 1 .. Len(ended), NEW n \in 1 .. Len(ended), m < n,
                      ended[m] \in kept \union {j}
               PROVE  ended[n] \in kept
    BY DEF LaterStay
  <2>1. DOMAIN ended = 1 .. Len(ended) BY DEF KeptInv
  <2>2. ended[m] # j BY <1>1, <2>1 DEF KeptInv, IsFinished
  <2> QED BY <2>2 DEF KeptInv, KeptOK
<1>7. kept \union {j} \in SUBSET Job BY DEF KeptInv
<1> QED BY <1>2, <1>4, <1>5, <1>6, <1>7, Evicts DEF KeptInv

LEMMA EndKeeps == ASSUME Inv, KeptInv, NEW j \in Job, End(j) PROVE KeptInv'
<1>1. job[j].status = "running" /\ job[j] \in Jobs BY SameJob DEF End
<1>2. PICK f : job' = [job EXCEPT ![j].status = "over", ![j].frames = f]
  BY DEF End
<1>3. ended' = Append(ended, j) /\ kept' = Retained(kept, ended') /\ lease' = lease BY DEF End
<1>4. job'[j].status = "over" /\ \A i \in Job \ {j} : job'[i] = job[i] BY <1>1, <1>2 DEF Inv, Jobs
<1>5. ended \in Seq(Job) /\ ~IsFinished(ended, j) BY <1>1 DEF KeptInv
<1>6. /\ ended' \in Seq(Job) /\ Len(ended') = Len(ended) + 1 /\ Len(ended) \in Nat
      /\ DOMAIN ended' = 1 .. Len(ended') /\ DOMAIN ended = 1 .. Len(ended)
      /\ ended'[Len(ended')] = j /\ \A n \in 1 .. Len(ended) : ended'[n] = ended[n]
  BY <1>3, <1>5
<1>7. \A n \in DOMAIN ended' : n = Len(ended') \/ (n \in DOMAIN ended /\ ended'[n] = ended[n]) BY <1>6
<1>8. \A n \in DOMAIN ended : ended[n] # j BY <1>5 DEF IsFinished
<1>9. Once(ended') BY <1>6, <1>7, <1>8 DEF KeptInv, Once
<1>10. \A i \in Job : IsFinished(ended', i) <=> job'[i].status = "over"
  <2> TAKE i \in Job
  <2>1. IsFinished(ended', i) <=> i = j \/ IsFinished(ended, i) BY <1>6, <1>7 DEF IsFinished
  <2> QED BY <1>4, <2>1 DEF KeptInv
<1>11. \A i \in Job : job'[i].status = "running" => i \in kept BY <1>4 DEF KeptInv, KeptOK
<1>12. LaterStay(kept, ended')
  <2> SUFFICES ASSUME NEW m \in 1 .. Len(ended'), NEW n \in 1 .. Len(ended'), m < n, ended'[m] \in kept
               PROVE  ended'[n] \in kept
    BY DEF LaterStay
  <2>1. m \in 1 .. Len(ended) /\ ended'[m] = ended[m] BY <1>6
  <2>2. CASE n = Len(ended') BY <1>1, <1>6, <2>2 DEF KeptInv, KeptOK
  <2>3. CASE n \in 1 .. Len(ended)
    <3>1. ended'[n] = ended[n] BY <1>6, <2>3
    <3> QED BY <2>1, <2>3, <3>1 DEF KeptInv, KeptOK
  <2> QED BY <1>6, <2>2, <2>3
<1>13. kept \in SUBSET Job BY DEF KeptInv
<1> QED BY <1>3, <1>6, <1>9, <1>10, <1>11, <1>12, <1>13, Evicts DEF KeptInv, Once

LEMMA KeptInit == Init => KeptInv
<1> SUFFICES ASSUME Init PROVE KeptInv OBVIOUS
<1>1. ended = <<>> /\ kept = {} /\ lease = "held" /\ \A j \in Job : job[j] = NoJob BY DEF Init
<1>2. <<>> \in Seq(Job) /\ DOMAIN <<>> = {} /\ Len(<<>>) = 0 OBVIOUS
<1>3. {j \in kept : job[j].status = "over"} = {} BY <1>1
<1>4. Cardinality({}) <= RetainJobs BY FS_EmptySet, LimitsAssumption
<1> QED BY <1>1, <1>2, <1>3, <1>4 DEF KeptInv, KeptOK, Once, IsFinished, NoJob

LEMMA KeptNext == ASSUME Inv, KeptInv, [Next]_vars PROVE KeptInv'
<1>1. CASE UNCHANGED vars BY <1>1, SameStatus DEF vars, KeptInv
<1>2. CASE EndTurn
  <2>1. /\ kept' = kept /\ ended' = ended /\ lease' \in {"parked", "gone"}
        /\ job' = [j \in Job |-> [job[j] EXCEPT !.killed = @ \/ job[j].status = "running"]]
    BY <1>2 DEF EndTurn
  <2>2. ASSUME NEW j \in Job PROVE job'[j].status = job[j].status
    <3>1. job[j] \in Jobs BY SameJob
    <3> QED BY <2>1, <3>1 DEF Jobs
  <2> QED BY <2>1, <2>2, SameStatus
<1>3. ASSUME NEW j \in Job, NEW d, job' = job \/ job' = [job EXCEPT ![j] = d],
             d.status = job[j].status, kept' = kept, ended' = ended, lease' = lease
      PROVE  KeptInv'
  <2>1. \A i \in Job : job'[i].status = job[i].status BY <1>3 DEF Inv
  <2> QED BY <1>3, <2>1, SameStatus DEF KeptInv
<1>4. ASSUME NEW j \in Job, Output(j) PROVE KeptInv'
  <2> DEFINE d == [job[j] EXCEPT !.frames = job[j].frames \o Numbered(j, <<"out">>)]
  <2>1. job[j] \in Jobs BY SameJob
  <2>2. job' = [job EXCEPT ![j] = d] BY <1>4 DEF Output
  <2>3. d.status = job[j].status BY <2>1 DEF Jobs
  <2> HIDE DEF d
  <2> QED BY <1>3, <1>4, <2>2, <2>3 DEF Output
<1>5. ASSUME NEW j \in Job, Abandon(j) PROVE KeptInv'
  <2> DEFINE d == [job[j] EXCEPT !.killed = TRUE]
  <2>1. job[j] \in Jobs BY SameJob
  <2>2. job' = job \/ job' = [job EXCEPT ![j] = d] BY <1>5 DEF Abandon
  <2>3. d.status = job[j].status BY <2>1 DEF Jobs
  <2> HIDE DEF d
  <2> QED BY <1>3, <1>5, <2>2, <2>3 DEF Abandon
<1>6. ASSUME NEW j \in Job, job' = job, kept' = kept, ended' = ended, lease' = lease PROVE KeptInv'
  BY <1>3, <1>6
<1>7. ASSUME NEW j \in Job, Started(j) \/ NotStarted(j) PROVE KeptInv'
  BY <1>6, <1>7, StartKeeps DEF Started, NotStarted
<1>8. ASSUME NEW j \in Job,
             \/ Post(j) \/ Subscribe(j) \/ Refused(j) \/ Unreachable(j) \/ Read(j)
             \/ StreamDone(j) \/ Break(j) \/ Cancel(j)
      PROVE  KeptInv'
  BY <1>6, <1>8, Zenon DEF Post, Subscribe, Refused, Unreachable, Read, StreamDone, Break, Cancel
<1> QED BY <1>1, <1>2, <1>4, <1>5, <1>7, <1>8, EndKeeps DEF Next

(* Retention takes the output of finished commands only, keeps no more of *)
(* them than it should and keeps the latest; and the variables are what   *)
(* they should be (exec-jobs.js evictOld).                                *)
THEOREM ExecTyped == Spec => []TypeOK
<1>1. Inv /\ KeptInv => TypeOK
  <2> SUFFICES ASSUME Inv, KeptInv PROVE TypeOK OBVIOUS
  <2>1. \A j \in Job : job[j] \in Jobs /\ call[j] \in Calls BY SameJob
  <2>2. ASSUME NEW j \in Job
        PROVE  wire[j] \in Stream \union {None} /\ (wire[j] # None <=> call[j].pc = "read")
    <3>1. Carried(job[j], wire[j], call[j]) BY GoodNow DEF Good
    <3> QED BY <3>1, NoneAssumption DEF Carried
  <2>3. job \in [Job -> Jobs] /\ call \in [Job -> Calls] /\ wire \in [Job -> Stream \union {None}]
    BY <2>1, <2>2 DEF Inv
  <2> QED BY <2>2, <2>3 DEF TypeOK, KeptInv, Jobs, Calls
<1>2. Inv /\ [Next]_vars => Inv' BY InvNext
<1>3. Inv /\ KeptInv /\ [Next]_vars => KeptInv' BY KeptNext
<1> QED BY <1>1, <1>2, <1>3, InvInit, KeptInit, PTL DEF Spec

-----------------------------------------------------------------------------
(* SlotEgress for any calls Cs, number of slots N and policies Ps.         *)

Lists(p) == p.enforce \in BOOLEAN /\ p.allow \subseteq Hosts
Hosted(Ps) == \A p \in Ps : Lists(p)

Chains == [default : {"ACCEPT", "DROP"}, allow : SUBSET Hosts, reject : BOOLEAN]
Commands == [op : {"DROP", "ACCEPT", "F", "A", "REJECT"}, hosts : SUBSET Hosts]
Spaces(Ps) == [gen : Nat, chain : Chains, pols : SUBSET Ps, odd : BOOLEAN]
Leases == [st : {"free", "taken", "running", "closing"}, targets : SUBSET Hosts]
Entries(Ps) == [gen : Nat, sig : Ps, lease : Leases]
Boots(Ps) == [st : {"none", "failed"}] \union
             [st : {"boot"}, pol : Ps, cmds : Seq(Commands), built : BOOLEAN]
Answers(N, Ps) ==
    [st : {"idle"}] \union
    [st : {"plan"}, i : 1 .. N, pol : Ps, host : Stores \union {NoHost}, gen : Nat,
     cmds : Seq(Commands), built : BOOLEAN] \union
    [st : {"host"}, i : 0 .. (N + 1), host : Stores \union {NoHost}]

\* What is left of the plan for policy p and the stored hosts S after k commands.
Command(o, hs) == [op |-> o, hosts |-> hs]
Ahead(p, S, k) ==
    IF p.enforce
    THEN IF k = 0 THEN <<Command("DROP", {}), Command("F", {}),
                         Command("A", p.allow \union S), Command("REJECT", {})>>
         ELSE IF k = 1 THEN <<Command("F", {}), Command("A", p.allow \union S), Command("REJECT", {})>>
         ELSE IF k = 2 THEN <<Command("A", p.allow \union S), Command("REJECT", {})>>
         ELSE IF k = 3 THEN <<Command("REJECT", {})>> ELSE <<>>
    ELSE IF k = 0 THEN <<Command("F", {}), Command("ACCEPT", {})>>
         ELSE IF k = 1 THEN <<Command("ACCEPT", {})>> ELSE <<>>
\* What the chain is by then, if nothing came between.
Done(p, S, k, ch) ==
    IF p.enforce
    THEN /\ k >= 1 => ch.default = "DROP"
         /\ k = 2 => ch.allow = {} /\ ch.reject = FALSE
         /\ k >= 3 => ch.allow = p.allow \union S
    ELSE (k >= 1 => ch.reject = FALSE) /\ (k >= 2 => ch.default = "ACCEPT")

LEMMA AheadType ==
    ASSUME NEW p, p.enforce \in BOOLEAN, p.allow \subseteq Hosts, NEW S \in SUBSET Hosts, NEW k \in 0 .. 4
    PROVE  Ahead(p, S, k) \in Seq(Commands)
<1>1. Command("A", p.allow \union S) \in Commands /\ Command("DROP", {}) \in Commands
      /\ Command("F", {}) \in Commands /\ Command("REJECT", {}) \in Commands
      /\ Command("ACCEPT", {}) \in Commands
  BY DEF Command, Commands
<1> QED BY <1>1 DEF Ahead

LEMMA AheadPlan ==
    ASSUME NEW Cs, NEW N, NEW Ps, NEW p, p.enforce \in BOOLEAN
    PROVE  Egress(Cs, N, Ps)!PlanFor(p) = Ahead(p, persistent, 0)
BY DEF Egress!PlanFor, Egress!Plan, Egress!Cmd, Ahead, Command

\* The next command, and what is left after it.
Upcoming(p, S, k) ==
    IF p.enforce
    THEN IF k = 0 THEN Command("DROP", {}) ELSE IF k = 1 THEN Command("F", {})
         ELSE IF k = 2 THEN Command("A", p.allow \union S) ELSE Command("REJECT", {})
    ELSE IF k = 0 THEN Command("F", {}) ELSE Command("ACCEPT", {})

LEMMA AheadHead ==
    ASSUME NEW p, p.enforce \in BOOLEAN, NEW S, NEW k \in 0 .. 4, Ahead(p, S, k) # <<>>
    PROVE  /\ k + 1 \in 0 .. 4 /\ (~p.enforce => k < 2)
           /\ Tail(Ahead(p, S, k)) = Ahead(p, S, k + 1)
           /\ Head(Ahead(p, S, k)) = Upcoming(p, S, k)
<1>1. k \in {0, 1, 2, 3, 4} OBVIOUS
<1>2. CASE p.enforce
  <2>1. k \in {0, 1, 2, 3} BY <1>1, <1>2 DEF Ahead, Upcoming
  <2>2. CASE k = 0 BY <1>2, <2>2 DEF Ahead, Upcoming
  <2>3. CASE k = 1 BY <1>2, <2>3 DEF Ahead, Upcoming
  <2>4. CASE k = 2 BY <1>2, <2>4 DEF Ahead, Upcoming
  <2>5. CASE k = 3 BY <1>2, <2>5 DEF Ahead, Upcoming
  <2> QED BY <2>1, <2>2, <2>3, <2>4, <2>5
<1>3. CASE ~p.enforce
  <2>1. k \in {0, 1} BY <1>1, <1>3 DEF Ahead, Upcoming
  <2>2. CASE k = 0 BY <1>3, <2>2 DEF Ahead, Upcoming
  <2>3. CASE k = 1 BY <1>3, <2>3 DEF Ahead, Upcoming
  <2> QED BY <1>3, <2>1, <2>2, <2>3
<1> QED BY <1>2, <1>3

LEMMA Flushed ==
    ASSUME NEW ch \in Chains, NEW r, r = [ch EXCEPT !.allow = {}, !.reject = FALSE]
    PROVE  r \in Chains /\ r.default = ch.default /\ r.allow = {} /\ r.reject = FALSE
BY DEF Chains

LEMMA Rejecting ==
    ASSUME NEW ch \in Chains, NEW r, r = [ch EXCEPT !.reject = TRUE]
    PROVE  r \in Chains /\ r.default = ch.default /\ r.allow = ch.allow
BY DEF Chains

Tight(p, S, ch, r) ==
    /\ r.allow \subseteq ch.allow \union p.allow \union S
    /\ p.enforce => r.default = "DROP" \/ r.default = ch.default
Ran(p, S, k, ch, r) ==
    /\ r \in Chains /\ Tight(p, S, ch, r)
    /\ k + 1 \in 0 .. 4 /\ Tail(Ahead(p, S, k)) = Ahead(p, S, k + 1)
    /\ Done(p, S, k, ch) => Done(p, S, k + 1, r)

LEMMA RunStep ==
    ASSUME NEW Cs, NEW N, NEW Ps,
           NEW p, Lists(p), NEW S \in SUBSET Hosts, NEW k \in 0 .. 4,
           Ahead(p, S, k) # <<>>, NEW ch \in Chains, NEW r,
           r = Egress(Cs, N, Ps)!Run(ch, Head(Ahead(p, S, k)))
    PROVE  Ran(p, S, k, ch, r)
<1>1. p.enforce \in BOOLEAN /\ p.allow \subseteq Hosts BY DEF Lists
<1>2. /\ k + 1 \in 0 .. 4 /\ (~p.enforce => k < 2)
      /\ Tail(Ahead(p, S, k)) = Ahead(p, S, k + 1)
      /\ Head(Ahead(p, S, k)) = Upcoming(p, S, k)
  BY <1>1, AheadHead
<1>3. PICK cmd : cmd = Upcoming(p, S, k) OBVIOUS
<1>4. Head(Ahead(p, S, k)) = cmd BY Zenon, <1>2, <1>3
<1>5. r = CASE cmd.op = "DROP" -> [ch EXCEPT !.default = "DROP"]
            [] cmd.op = "ACCEPT" -> [ch EXCEPT !.default = "ACCEPT"]
            [] cmd.op = "F" -> [ch EXCEPT !.allow = {}, !.reject = FALSE]
            [] cmd.op = "A" -> IF ch.reject THEN ch ELSE [ch EXCEPT !.allow = @ \union cmd.hosts]
            [] cmd.op = "REJECT" -> [ch EXCEPT !.reject = TRUE]
  BY <1>4, Zenon DEF Egress!Run, Egress!AppendRule
<1>6. ch = [default |-> ch.default, allow |-> ch.allow, reject |-> ch.reject]
      /\ ch.default \in {"ACCEPT", "DROP"} /\ ch.allow \subseteq Hosts /\ ch.reject \in BOOLEAN
  BY DEF Chains
<1> DEFINE Steps == /\ r \in Chains
                    /\ r.allow \subseteq ch.allow \union p.allow \union S
                    /\ p.enforce => r.default = "DROP" \/ r.default = ch.default
                    /\ Done(p, S, k, ch) => Done(p, S, k + 1, r)
<1>7. ASSUME p.enforce PROVE Steps
  <2>1. k \in {0, 1, 2, 3} BY <1>2
  <2>2. CASE k = 0
    <3>1. cmd = Command("DROP", {}) BY <1>7, <1>3, <2>2 DEF Upcoming
    <3>2. r = [ch EXCEPT !.default = "DROP"] BY <1>5, <3>1 DEF Command
    <3> QED BY <1>6, <1>7, <1>1, <2>2, <3>2 DEF Chains, Done
  <2>3. CASE k = 1
    <3>1. cmd = Command("F", {}) BY <1>7, <1>3, <2>3 DEF Upcoming
    <3>2. r = [ch EXCEPT !.allow = {}, !.reject = FALSE] BY <1>5, <3>1 DEF Command
    <3>3. r \in Chains /\ r.default = ch.default /\ r.allow = {} /\ r.reject = FALSE BY Zenon, <3>2, Flushed
    <3> QED BY <1>6, <1>7, <1>1, <2>3, <3>3 DEF Done
  <2>4. CASE k = 2
    <3>1. cmd = Command("A", p.allow \union S) BY <1>7, <1>3, <2>4 DEF Upcoming
    <3>2. r = IF ch.reject THEN ch ELSE [ch EXCEPT !.allow = @ \union (p.allow \union S)]
      BY <1>5, <3>1 DEF Command
    <3> QED BY <1>6, <1>7, <1>1, <2>4, <3>2 DEF Chains, Done
  <2>5. CASE k = 3
    <3>1. cmd = Command("REJECT", {}) BY <1>7, <1>3, <2>5 DEF Upcoming
    <3>2. r = [ch EXCEPT !.reject = TRUE] BY <1>5, <3>1 DEF Command
    <3>3. r \in Chains /\ r.default = ch.default /\ r.allow = ch.allow BY Zenon, <3>2, Rejecting
    <3> QED BY <1>6, <1>7, <1>1, <2>5, <3>3 DEF Done
  <2> QED BY <2>1, <2>2, <2>3, <2>4, <2>5
<1>8. ASSUME ~p.enforce PROVE Steps
  <2>1. k \in {0, 1} BY <1>2, <1>8, <1>1
  <2>2. CASE k = 0
    <3>1. cmd = Command("F", {}) BY <1>8, <1>3, <2>2 DEF Upcoming
    <3>2. r = [ch EXCEPT !.allow = {}, !.reject = FALSE] BY <1>5, <3>1 DEF Command
    <3>3. r \in Chains /\ r.default = ch.default /\ r.allow = {} /\ r.reject = FALSE BY Zenon, <3>2, Flushed
    <3> QED BY <1>6, <1>8, <1>1, <2>2, <3>3 DEF Done
  <2>3. CASE k = 1
    <3>1. cmd = Command("ACCEPT", {}) BY <1>8, <1>3, <2>3 DEF Upcoming
    <3>2. r = [ch EXCEPT !.default = "ACCEPT"] BY <1>5, <3>1 DEF Command
    <3> QED BY <1>6, <1>8, <1>1, <2>3, <3>2 DEF Chains, Done
  <2> QED BY <2>1, <2>2, <2>3
<1> QED BY <1>2, <1>7, <1>8, <1>4 DEF Ran, Tight

\* The last command is done.
Finished(p, S, ch) ==
    /\ p.enforce => ch.default = "DROP" /\ ch.allow = p.allow \union S
    /\ ~p.enforce => ch.default = "ACCEPT" /\ ch.reject = FALSE

LEMMA RunEnd ==
    ASSUME NEW p, p.enforce \in BOOLEAN, NEW S, NEW k \in 0 .. 4, Ahead(p, S, k) = <<>>,
           NEW ch, Done(p, S, k, ch)
    PROVE  Finished(p, S, ch)
<1>1. CASE p.enforce
  <2>1. k = 4 BY <1>1 DEF Ahead
  <2> QED BY <1>1, <2>1 DEF Done, Finished
<1>2. CASE ~p.enforce
  <2>1. k >= 2 BY <1>2 DEF Ahead
  <2> QED BY <1>2, <2>1 DEF Done, Finished
<1> QED BY <1>1, <1>2

-----------------------------------------------------------------------------
(* The invariant.                                                          *)

\* What call c does: it programs namespace g of slot i; it will get there.
At(a, c, i, g) == a[c].st = "plan" /\ a[c].i = i /\ a[c].gen = g
Pends(a, c, p, i, g) == a[c].st = "plan" /\ a[c].pol = p /\ (a[c].i < i \/ At(a, c, i, g))
\* The object stores that slot i should let through by now.
Past(Cs, a, ah, i) ==
    {h \in Stores : h = ah \/ \E c \in Cs : a[c].st = "host" /\ a[c].i > i /\ a[c].host = h}

\* The commands of a plan for p that may have been overtaken; and of one that was not.
Steps(p, cmds, per) == \E S \in SUBSET per, k \in 0 .. 4 : cmds = Ahead(p, S, k)
InStep(p, cmds, ch, past, per) ==
    \E S \in SUBSET per, k \in 0 .. 4 :
        cmds = Ahead(p, S, k) /\ Done(p, S, k, ch) /\ (p.enforce => past \subseteq S)

\* The chain of a slot that nobody is programming.
Given(s) == IF s.lease.st = "running" THEN s.lease.targets ELSE {}
Settled(s, ch, past, per) ==
    IF s.sig.enforce
    THEN /\ ch.default = "DROP"
         /\ s.sig.allow \union past \union Given(s) \subseteq ch.allow
         /\ ch.allow \subseteq s.sig.allow \union per \union s.lease.targets
    ELSE ch.default = "ACCEPT" /\ ch.reject = FALSE

Allowed(P) == UNION {q.allow : q \in P}
\* A slot in use, whatever came between, and if nothing did.
Within(s, n, per) ==
    /\ n.chain.allow \subseteq Allowed(n.pols) \union per \union s.lease.targets
    /\ (\A q \in n.pols : q.enforce) => n.chain.default = "DROP"
Clear(Cs, i, s, n, a, p, past, per) ==
    /\ (\A c \in Cs : ~At(a, c, i, n.gen)) => Settled(s, n.chain, past, per)
    /\ \A c \in Cs : At(a, c, i, n.gen) =>
         /\ a[c].pol = p /\ s.lease.st = "free"
         /\ \A d \in Cs : At(a, d, i, n.gen) => d = c
         /\ a[c].built = TRUE => InStep(p, a[c].cmds, n.chain, past, per)
    /\ s.lease.st = "free" /\ s.sig # p => \E c \in Cs : Pends(a, c, p, i, n.gen)
\* A slot that is being rebuilt, in which nothing can come between.
Booting(b, n, p, past, per) ==
    /\ n.pols = {b.pol}
    /\ n.chain.allow \subseteq b.pol.allow \union per
    /\ n.odd = FALSE => b.pol = p
    /\ b.built = FALSE => b.cmds = <<>>
    /\ b.built = TRUE => InStep(b.pol, b.cmds, n.chain, IF n.odd THEN {} ELSE past, per)

SlotOK(Cs, Ps, i, s, n, b, a, p, past, per) ==
    /\ s \in Entries(Ps) /\ n \in Spaces(Ps) /\ b \in Boots(Ps)
    /\ s.lease.st = "free" => s.lease.targets = {}
    /\ b.st = "none" => /\ s.gen = n.gen /\ Within(s, n, per)
                        /\ n.odd = FALSE => Clear(Cs, i, s, n, a, p, past, per)
    /\ b.st # "none" => s.gen < n.gen /\ s.lease.st = "closing"
    /\ b.st = "boot" => Booting(b, n, p, past, per)

CallOK(N, Ps, q, sl, per) ==
    /\ q \in Answers(N, Ps)
    /\ q.st = "plan" =>
         /\ q.gen <= sl[q.i].gen
         /\ q.built = FALSE => q.cmds = <<>>
         /\ q.built = TRUE => Steps(q.pol, q.cmds, per)
    /\ q.st = "host" /\ q.i >= 1 => q.host \in per

EgressInv(Cs, N, Ps) ==
    /\ policy \in Ps /\ persistent \subseteq Stores /\ artifactHost \in persistent \union {NoHost}
    /\ slot = [i \in 1 .. N |-> slot[i]] /\ net = [i \in 1 .. N |-> net[i]]
    /\ boot = [i \in 1 .. N |-> boot[i]] /\ answer = [c \in Cs |-> answer[c]]
    /\ want.targets \subseteq Hosts
    /\ \A c \in Cs : CallOK(N, Ps, answer[c], slot, persistent)
    /\ \A i \in 1 .. N : SlotOK(Cs, Ps, i, slot[i], net[i], boot[i], answer, policy,
                                Past(Cs, answer, artifactHost, i), persistent)

-----------------------------------------------------------------------------
(* What a step leaves alone.                                               *)

LEMMA Marked ==
    ASSUME NEW Ps, NEW n \in Spaces(Ps), NEW B \in BOOLEAN, NEW m, m = [n EXCEPT !.odd = n.odd \/ B]
    PROVE  (B => m = [n EXCEPT !.odd = TRUE]) /\ (~B => m = n)
<1>1. n.odd \in BOOLEAN /\ n = [gen |-> n.gen, chain |-> n.chain, pols |-> n.pols, odd |-> n.odd]
  BY DEF Spaces
<1>2. CASE B
  <2>1. (n.odd \/ B) = TRUE BY <1>1, <1>2
  <2> QED BY <1>2, <2>1
<1>3. CASE ~B
  <2>1. (n.odd \/ B) = n.odd BY Zenon, <1>1, <1>3
  <2> QED BY <1>1, <1>3, <2>1
<1> QED BY <1>2, <1>3

LEMMA InStepGrows ==
    ASSUME NEW p, NEW cmds, NEW ch, NEW past, NEW past2, NEW per, NEW per2,
           past2 \subseteq past, per \subseteq per2, InStep(p, cmds, ch, past, per)
    PROVE  InStep(p, cmds, ch, past2, per2)
<1>1. PICK S \in SUBSET per, k \in 0 .. 4 :
        cmds = Ahead(p, S, k) /\ Done(p, S, k, ch) /\ (p.enforce => past \subseteq S)
  BY DEF InStep
<1> QED BY <1>1 DEF InStep

LEMMA OddFields ==
    ASSUME NEW Ps, NEW n \in Spaces(Ps), NEW m, m = [n EXCEPT !.odd = TRUE]
    PROVE  m \in Spaces(Ps) /\ m.odd = TRUE /\ m.gen = n.gen /\ m.chain = n.chain /\ m.pols = n.pols
BY DEF Spaces

\* Something came between: nothing is claimed of the slot any more than of every one.
LEMMA OddSlot ==
    ASSUME NEW Cs, NEW Ps, NEW i, NEW s, NEW n, NEW b, NEW a, NEW p, NEW past, NEW per,
           SlotOK(Cs, Ps, i, s, n, b, a, p, past, per),
           NEW m, m = [n EXCEPT !.odd = TRUE], NEW a2, NEW p2, NEW past2, NEW per2, per \subseteq per2
    PROVE  SlotOK(Cs, Ps, i, s, m, b, a2, p2, past2, per2)
<1>1. n \in Spaces(Ps) BY DEF SlotOK
<1>2. /\ m \in Spaces(Ps) /\ m.odd = TRUE /\ m.odd # FALSE
      /\ m.gen = n.gen /\ m.chain = n.chain /\ m.pols = n.pols
  BY <1>1, OddFields
<1>3. ASSUME b.st = "none" PROVE Within(s, m, per2) BY <1>2, <1>3 DEF SlotOK, Within
<1>4. ASSUME b.st = "boot" PROVE Booting(b, m, p2, past2, per2)
  <2>1. Booting(b, n, p, past, per) BY <1>4 DEF SlotOK
  <2>2. ASSUME b.built = TRUE PROVE InStep(b.pol, b.cmds, m.chain, {}, per2)
    <3>1. InStep(b.pol, b.cmds, n.chain, IF n.odd THEN {} ELSE past, per) BY <2>1, <2>2 DEF Booting
    <3>2. {} \subseteq (IF n.odd THEN {} ELSE past) OBVIOUS
    <3> QED BY <1>2, <3>1, <3>2, InStepGrows
  <2>3. (IF m.odd THEN {} ELSE past2) = {} BY <1>2
  <2> QED BY <1>2, <2>1, <2>2, <2>3 DEF Booting
<1> QED BY <1>2, <1>3, <1>4 DEF SlotOK

\* What the calls do elsewhere, more hosts that the pool knows, and fewer that the slot owes.
LEMMA KeptSlot ==
    ASSUME NEW Cs, NEW Ps, NEW i, NEW s, NEW n, NEW b, NEW a, NEW p, NEW past, NEW per,
           SlotOK(Cs, Ps, i, s, n, b, a, p, past, per),
           NEW a2, NEW past2, NEW per2, per \subseteq per2, past2 \subseteq past,
           b.st = "none" =>
             /\ \A c \in Cs : At(a2, c, i, n.gen) <=> At(a, c, i, n.gen)
             /\ \A c \in Cs : At(a, c, i, n.gen) => a2[c] = a[c]
             /\ s.lease.st = "free" /\ s.sig # p =>
                  \A c \in Cs : Pends(a, c, p, i, n.gen) => \E d \in Cs : Pends(a2, d, p, i, n.gen)
    PROVE  SlotOK(Cs, Ps, i, s, n, b, a2, p, past2, per2)
<1>1. ASSUME b.st = "none" PROVE Within(s, n, per2) BY <1>1 DEF SlotOK, Within
<1>2. ASSUME b.st = "boot" PROVE Booting(b, n, p, past2, per2)
  <2>1. Booting(b, n, p, past, per) BY <1>2 DEF SlotOK
  <2>2. ASSUME b.built = TRUE PROVE InStep(b.pol, b.cmds, n.chain, IF n.odd THEN {} ELSE past2, per2)
    <3>1. InStep(b.pol, b.cmds, n.chain, IF n.odd THEN {} ELSE past, per) BY <2>1, <2>2 DEF Booting
    <3>2. (IF n.odd THEN {} ELSE past2) \subseteq (IF n.odd THEN {} ELSE past) OBVIOUS
    <3> QED BY <3>1, <3>2, InStepGrows
  <2> QED BY <2>1, <2>2 DEF Booting
<1>3. ASSUME b.st = "none", n.odd = FALSE PROVE Clear(Cs, i, s, n, a2, p, past2, per2)
  <2>1. Clear(Cs, i, s, n, a, p, past, per) BY <1>3 DEF SlotOK
  <2>2. ASSUME \A c \in Cs : ~At(a2, c, i, n.gen) PROVE Settled(s, n.chain, past2, per2)
    <3>1. Settled(s, n.chain, past, per) BY <1>3, <2>1, <2>2 DEF Clear
    <3> QED BY <3>1 DEF Settled
  <2>3. ASSUME NEW c \in Cs, At(a2, c, i, n.gen)
        PROVE  /\ a2[c].pol = p /\ s.lease.st = "free"
               /\ \A d \in Cs : At(a2, d, i, n.gen) => d = c
               /\ a2[c].built = TRUE => InStep(p, a2[c].cmds, n.chain, past2, per2)
    <3>1. At(a, c, i, n.gen) /\ a2[c] = a[c] BY <1>3, <2>3
    <3>2. /\ a[c].pol = p /\ s.lease.st = "free"
          /\ \A d \in Cs : At(a, d, i, n.gen) => d = c
          /\ a[c].built = TRUE => InStep(p, a[c].cmds, n.chain, past, per)
      BY <2>1, <3>1 DEF Clear
    <3>3. a[c].built = TRUE => InStep(p, a[c].cmds, n.chain, past2, per2) BY <3>2, InStepGrows
    <3>4. \A d \in Cs : At(a2, d, i, n.gen) => d = c BY <1>3, <3>2
    <3> QED BY <3>1, <3>2, <3>3, <3>4
  <2>4. ASSUME s.lease.st = "free", s.sig # p PROVE \E d \in Cs : Pends(a2, d, p, i, n.gen)
    <3>1. PICK c \in Cs : Pends(a, c, p, i, n.gen) BY <2>1, <2>4 DEF Clear
    <3> QED BY <1>3, <2>4, <3>1
  <2> QED BY <2>2, <2>3, <2>4 DEF Clear
<1> QED BY <1>1, <1>2, <1>3 DEF SlotOK

\* A call goes on without passing a slot by that is not up to date.
LEMMA CallMoves ==
    ASSUME NEW Cs, NEW Ps, NEW i, NEW s, NEW n, NEW b, NEW a, NEW p, NEW past, NEW per,
           SlotOK(Cs, Ps, i, s, n, b, a, p, past, per), a = [d \in Cs |-> a[d]],
           NEW c \in Cs, NEW q, NEW a2, a2 = [a EXCEPT ![c] = q],
           NEW past2, NEW per2, per \subseteq per2, past2 \subseteq past,
           b.st = "none" => ~At(a, c, i, n.gen) /\ ~(q.st = "plan" /\ q.i = i /\ q.gen = n.gen),
           b.st = "none" /\ s.lease.st = "free" /\ s.sig # p /\ Pends(a, c, p, i, n.gen) =>
               q.st = "plan" /\ q.pol = p /\ q.i < i
    PROVE  SlotOK(Cs, Ps, i, s, n, b, a2, p, past2, per2)
<1>1. a2[c] = q /\ \A d \in Cs : d # c => a2[d] = a[d] OBVIOUS
<1>2. ASSUME b.st = "none"
      PROVE  /\ \A d \in Cs : At(a2, d, i, n.gen) <=> At(a, d, i, n.gen)
             /\ \A d \in Cs : At(a, d, i, n.gen) => a2[d] = a[d]
             /\ s.lease.st = "free" /\ s.sig # p =>
                  \A d \in Cs : Pends(a, d, p, i, n.gen) => \E e \in Cs : Pends(a2, e, p, i, n.gen)
  <2>1. ASSUME NEW d \in Cs PROVE At(a2, d, i, n.gen) <=> At(a, d, i, n.gen)
    <3>1. CASE d = c BY <1>1, <1>2, <3>1 DEF At
    <3>2. CASE d # c BY <1>1, <3>2 DEF At
    <3> QED BY <3>1, <3>2
  <2>2. ASSUME NEW d \in Cs, At(a, d, i, n.gen) PROVE a2[d] = a[d] BY <1>1, <1>2, <2>2
  <2>3. ASSUME s.lease.st = "free", s.sig # p, NEW d \in Cs, Pends(a, d, p, i, n.gen)
        PROVE  Pends(a2, d, p, i, n.gen)
    <3>1. CASE d = c BY <1>1, <1>2, <2>3, <3>1 DEF Pends
    <3>2. CASE d # c BY <1>1, <2>3, <3>2 DEF Pends, At
    <3> QED BY <3>1, <3>2
  <2> QED BY <2>1, <2>2, <2>3
<1> QED BY <1>2, KeptSlot

LEMMA PastMoves ==
    ASSUME NEW Cs, NEW i, NEW a, a = [d \in Cs |-> a[d]], NEW ah, NEW c \in Cs, NEW q,
           NEW a2, a2 = [a EXCEPT ![c] = q], NEW ah2,
           ah2 = ah \/ ah2 \in Past(Cs, a, ah, i) \/ ah2 \notin Stores,
           q.st = "host" /\ q.i > i => q.host \in Past(Cs, a, ah, i)
    PROVE  Past(Cs, a2, ah2, i) \subseteq Past(Cs, a, ah, i)
<1> SUFFICES ASSUME NEW h \in Past(Cs, a2, ah2, i) PROVE h \in Past(Cs, a, ah, i) OBVIOUS
<1>1. h \in Stores /\ (h = ah2 \/ \E d \in Cs : a2[d].st = "host" /\ a2[d].i > i /\ a2[d].host = h)
  BY DEF Past
<1>2. CASE h = ah2 BY <1>1, <1>2 DEF Past
<1>3. ASSUME NEW d \in Cs, a2[d].st = "host", a2[d].i > i, a2[d].host = h PROVE h \in Past(Cs, a, ah, i)
  <2>1. CASE d = c BY <1>3, <2>1
  <2>2. CASE d # c
    <3>1. a2[d] = a[d] BY <2>2
    <3> QED BY <1>1, <1>3, <3>1 DEF Past
  <2> QED BY <2>1, <2>2
<1> QED BY <1>1, <1>2, <1>3

\* A slot that nobody was programming, under a new policy, or taken up by a call.
LEMMA TakenUp ==
    ASSUME NEW Cs, NEW Ps, NEW i, NEW s, NEW n, NEW b, NEW a, NEW p, NEW past, NEW per,
           SlotOK(Cs, Ps, i, s, n, b, a, p, past, per), b.st = "none",
           \A d \in Cs : ~At(a, d, i, n.gen),
           NEW a2, NEW p2, NEW past2, past2 \subseteq past,
           \A d \in Cs : At(a2, d, i, n.gen) =>
               /\ a2[d].pol = p2 /\ s.lease.st = "free" /\ a2[d].built = FALSE
               /\ \A e \in Cs : At(a2, e, i, n.gen) => e = d,
           s.lease.st = "free" /\ s.sig # p2 => \E d \in Cs : Pends(a2, d, p2, i, n.gen)
    PROVE  SlotOK(Cs, Ps, i, s, n, b, a2, p2, past2, per)
<1>1. ASSUME n.odd = FALSE PROVE Clear(Cs, i, s, n, a2, p2, past2, per)
  <2>1. Settled(s, n.chain, past, per) BY <1>1 DEF SlotOK, Clear
  <2>2. Settled(s, n.chain, past2, per) BY <2>1 DEF Settled
  <2>3. FALSE # TRUE OBVIOUS
  <2> QED BY <2>2, <2>3 DEF Clear
<1> QED BY <1>1 DEF SlotOK

\* With an open policy, a slot that was open owes no host a rule.
LEMMA OpenSlot ==
    ASSUME NEW Cs, NEW Ps, NEW i, NEW s, NEW n, NEW b, NEW a, NEW p, NEW past, NEW per,
           SlotOK(Cs, Ps, i, s, n, b, a, p, past, per), p.enforce = FALSE, s.sig.enforce = FALSE,
           NEW past2
    PROVE  SlotOK(Cs, Ps, i, s, n, b, a, p, past2, per)
<1>1. ASSUME NEW cmds, InStep(p, cmds, n.chain, past, per) PROVE InStep(p, cmds, n.chain, past2, per)
  BY <1>1 DEF InStep
<1>2. ASSUME n.odd = FALSE, Clear(Cs, i, s, n, a, p, past, per) PROVE Clear(Cs, i, s, n, a, p, past2, per)
  <2>1. Settled(s, n.chain, past, per) => Settled(s, n.chain, past2, per) BY DEF Settled
  <2> QED BY <1>1, <1>2, <2>1 DEF Clear
<1>3. ASSUME b.st = "boot" PROVE Booting(b, n, p, past2, per)
  <2>1. Booting(b, n, p, past, per) /\ n.odd \in BOOLEAN BY <1>3 DEF SlotOK, Spaces
  <2>2. CASE n.odd = FALSE
    <3>1. b.pol = p BY <2>1, <2>2 DEF Booting
    <3> QED BY <1>1, <2>1, <2>2, <3>1 DEF Booting
  <2>3. CASE n.odd = TRUE BY <2>1, <2>3 DEF Booting
  <2> QED BY <2>1, <2>2, <2>3
<1> QED BY <1>2, <1>3 DEF SlotOK

-----------------------------------------------------------------------------
(* The invariant, one call and one slot at a time.                         *)

LEMMA StepsGrow ==
    ASSUME NEW p, NEW cmds, NEW per, NEW per2, per \subseteq per2, Steps(p, cmds, per)
    PROVE  Steps(p, cmds, per2)
BY DEF Steps

LEMMA InStepSteps ==
    ASSUME NEW p, NEW cmds, NEW ch, NEW past, NEW per, InStep(p, cmds, ch, past, per)
    PROVE  Steps(p, cmds, per)
BY DEF Steps, InStep

\* The calls stay as good while slots get newer namespaces and the pool more hosts.
LEMMA CallKept ==
    ASSUME NEW N, NEW Ps, NEW q, NEW sl, NEW sl2, NEW per, NEW per2, CallOK(N, Ps, q, sl, per),
           per \subseteq per2,
           \A i \in 1 .. N : sl[i].gen \in Nat /\ sl2[i].gen \in Nat /\ sl[i].gen <= sl2[i].gen
    PROVE  CallOK(N, Ps, q, sl2, per2)
<1>1. ASSUME q.st = "plan" PROVE q.gen <= sl2[q.i].gen
  <2>1. q.i \in 1 .. N /\ q.gen \in Nat BY <1>1 DEF CallOK, Answers
  <2>2. q.gen <= sl[q.i].gen BY <1>1 DEF CallOK
  <2>3. sl[q.i].gen \in Nat /\ sl2[q.i].gen \in Nat /\ sl[q.i].gen <= sl2[q.i].gen BY <2>1
  <2> QED BY <2>1, <2>2, <2>3
<1>2. q.st = "plan" /\ q.built = TRUE => Steps(q.pol, q.cmds, per2) BY StepsGrow DEF CallOK
<1> QED BY <1>1, <1>2 DEF CallOK

LEMMA PastStored ==
    ASSUME NEW Cs, NEW N, NEW Ps, N \in Nat, EgressInv(Cs, N, Ps), NEW i \in 1 .. N
    PROVE  Past(Cs, answer, artifactHost, i) \subseteq persistent
<1> SUFFICES ASSUME NEW h \in Past(Cs, answer, artifactHost, i) PROVE h \in persistent OBVIOUS
<1>1. h \in Stores /\ (h = artifactHost \/ \E d \in Cs : answer[d].st = "host" /\ answer[d].i > i /\ answer[d].host = h)
  BY DEF Past
<1>2. CASE h = artifactHost BY <1>1, <1>2, HostsAssumption DEF EgressInv
<1>3. ASSUME NEW d \in Cs, answer[d].st = "host", answer[d].i > i, answer[d].host = h PROVE h \in persistent
  <2>1. CallOK(N, Ps, answer[d], slot, persistent) BY DEF EgressInv
  <2>2. answer[d].i \in 0 .. (N + 1) BY <1>3, <2>1 DEF CallOK, Answers
  <2>3. answer[d].i >= 1 BY <1>3, <2>2
  <2> QED BY <1>3, <2>1, <2>3 DEF CallOK
<1> QED BY <1>1, <1>2, <1>3

LEMMA SlotNow ==
    ASSUME NEW Cs, NEW N, NEW Ps, EgressInv(Cs, N, Ps), NEW i \in 1 .. N
    PROVE  /\ SlotOK(Cs, Ps, i, slot[i], net[i], boot[i], answer, policy,
                     Past(Cs, answer, artifactHost, i), persistent)
           /\ slot[i] \in Entries(Ps) /\ slot[i].lease \in Leases /\ slot[i].gen \in Nat /\ slot[i].sig \in Ps
           /\ net[i] \in Spaces(Ps) /\ net[i].gen \in Nat /\ net[i].chain \in Chains /\ net[i].odd \in BOOLEAN
           /\ boot[i].st \in {"none", "failed", "boot"}
           /\ boot[i].st = "none" <=> slot[i].gen = net[i].gen
           /\ slot[i].gen <= net[i].gen
           /\ slot[i].lease.st \in {"free", "taken", "running"} => boot[i].st = "none"
<1>1. SlotOK(Cs, Ps, i, slot[i], net[i], boot[i], answer, policy,
             Past(Cs, answer, artifactHost, i), persistent)
  BY DEF EgressInv
<1>2. slot[i] \in Entries(Ps) /\ net[i] \in Spaces(Ps) /\ boot[i] \in Boots(Ps) BY <1>1 DEF SlotOK
<1>3. /\ slot[i].lease \in Leases /\ slot[i].gen \in Nat /\ slot[i].sig \in Ps
      /\ net[i].gen \in Nat /\ net[i].chain \in Chains /\ net[i].odd \in BOOLEAN
  BY <1>2 DEF Entries, Spaces
<1>4. boot[i].st \in {"none", "failed", "boot"} BY <1>2 DEF Boots
<1>5. (boot[i].st = "none" <=> slot[i].gen = net[i].gen) /\ slot[i].gen <= net[i].gen
  BY <1>1, <1>3 DEF SlotOK
<1>6. slot[i].lease.st \in {"free", "taken", "running"} => boot[i].st = "none" BY <1>1 DEF SlotOK
<1> QED BY <1>1, <1>2, <1>3, <1>4, <1>5, <1>6

LEMMA BootIs ==
    ASSUME NEW Cs, NEW N, NEW Ps, EgressInv(Cs, N, Ps), NEW i \in 1 .. N
    PROVE  boot[i] = Egress(Cs, N, Ps)!NoBoot <=> boot[i].st = "none"
<1>1. boot[i] \in Boots(Ps) BY DEF EgressInv, SlotOK
<1> QED BY <1>1 DEF Boots, Egress!NoBoot

LEMMA EgressAssemble ==
    ASSUME NEW Cs, NEW N, NEW Ps,
           policy' \in Ps, persistent' \subseteq Stores, artifactHost' \in persistent' \union {NoHost},
           slot' = [i \in 1 .. N |-> slot'[i]], net' = [i \in 1 .. N |-> net'[i]],
           boot' = [i \in 1 .. N |-> boot'[i]], answer' = [c \in Cs |-> answer'[c]],
           want'.targets \subseteq Hosts,
           \A c \in Cs : CallOK(N, Ps, answer'[c], slot', persistent'),
           \A i \in 1 .. N : SlotOK(Cs, Ps, i, slot'[i], net'[i], boot'[i], answer', policy',
                                    Past(Cs, answer', artifactHost', i), persistent')
    PROVE  EgressInv(Cs, N, Ps)'
BY DEF EgressInv

\* A call in progress whose step touches no slot and takes up none.
LEMMA CallOnly ==
    ASSUME NEW Cs, NEW N, NEW Ps, N \in Nat, EgressInv(Cs, N, Ps), NEW c \in Cs, NEW q,
           answer' = [answer EXCEPT ![c] = q], CallOK(N, Ps, q, slot, persistent'),
           UNCHANGED <<policy, slot, net, boot, want>>,
           persistent \subseteq persistent', persistent' \subseteq Stores,
           artifactHost' \in persistent' \union {NoHost},
           answer[c].st # "plan", q.st # "plan",
           \A i \in 1 .. N : Past(Cs, answer', artifactHost', i) \subseteq Past(Cs, answer, artifactHost, i)
    PROVE  EgressInv(Cs, N, Ps)'
<1>1. /\ answer = [d \in Cs |-> answer[d]] /\ answer' = [d \in Cs |-> answer'[d]]
      /\ answer'[c] = q /\ \A d \in Cs : d # c => answer'[d] = answer[d]
  BY DEF EgressInv
<1>2. ASSUME NEW i \in 1 .. N
      PROVE  SlotOK(Cs, Ps, i, slot[i], net[i], boot[i], answer', policy,
                    Past(Cs, answer', artifactHost', i), persistent')
  <2>1. ~At(answer, c, i, net[i].gen) /\ ~Pends(answer, c, policy, i, net[i].gen) BY DEF At, Pends
  <2> QED BY <1>1, <2>1, SlotNow, CallMoves
<1>3. ASSUME NEW d \in Cs PROVE CallOK(N, Ps, answer'[d], slot, persistent')
  <2>1. CASE d = c BY <1>1, <2>1
  <2>2. CASE d # c
    <3>1. CallOK(N, Ps, answer[d], slot, persistent) BY DEF EgressInv
    <3>2. \A i \in 1 .. N : slot[i].gen \in Nat /\ slot[i].gen <= slot[i].gen BY SlotNow
    <3> QED BY <1>1, <2>2, <3>1, <3>2, CallKept
  <2> QED BY <2>1, <2>2
<1>4. /\ policy' \in Ps /\ slot' = [i \in 1 .. N |-> slot'[i]] /\ net' = [i \in 1 .. N |-> net'[i]]
      /\ boot' = [i \in 1 .. N |-> boot'[i]] /\ want'.targets \subseteq Hosts
  BY DEF EgressInv
<1> QED BY <1>1, <1>2, <1>3, <1>4, EgressAssemble

-----------------------------------------------------------------------------
(* Where a call goes.                                                      *)

LEMMA EgressMin ==
    ASSUME NEW Cs, NEW N, NEW Ps, NEW S, S \subseteq Nat, S # {}
    PROVE  /\ Egress(Cs, N, Ps)!Min(S) \in S
           /\ \A j \in S : Egress(Cs, N, Ps)!Min(S) <= j
<1>1. \E k \in S : \A j \in S : k <= j BY LeastNumber
<1>2. Egress(Cs, N, Ps)!Min(S) = CHOOSE k \in S : \A j \in S : k <= j BY Zenon DEF Egress!Min
<1> QED BY <1>1, <1>2

Planned(i, p, h, g) ==
    [st |-> "plan", i |-> i, pol |-> p, host |-> h, gen |-> g, cmds |-> <<>>, built |-> FALSE]
\* The loop goes to the first slot that is free and not up to date, or on to the host.
GoesTo(N, Ps, from, p, h, q) ==
    /\ q \in Answers(N, Ps)
    /\ \/ /\ q = [st |-> "host", i |-> 0, host |-> h]
          /\ \A j \in from .. N : slot[j].lease.st = "free" => slot[j].sig = p
       \/ /\ q = Planned(q.i, p, h, slot[q.i].gen)
          /\ q.i \in from .. N /\ slot[q.i].lease.st = "free" /\ slot[q.i].sig # p
          /\ \A j \in from .. N : j < q.i => (slot[j].lease.st = "free" => slot[j].sig = p)

LEMMA PlanCall ==
    ASSUME NEW N, NEW Ps, NEW i \in 1 .. N, NEW p \in Ps, NEW h \in Stores \union {NoHost}, NEW g \in Nat
    PROVE  Planned(i, p, h, g) \in Answers(N, Ps)
<1>1. <<>> \in Seq(Commands) OBVIOUS
<1> QED BY <1>1 DEF Answers, Planned

LEMMA PlannedNew ==
    ASSUME NEW i, NEW p, NEW h, NEW g, NEW q, q = Planned(i, p, h, g)
    PROVE  q.built = FALSE
BY DEF Planned

LEMMA HostCall ==
    ASSUME NEW N \in Nat, NEW Ps, NEW h \in Stores \union {NoHost}, NEW k \in 0 .. (N + 1), NEW q,
           q = [st |-> "host", i |-> k, host |-> h]
    PROVE  q \in Answers(N, Ps) /\ q.st = "host" /\ q.i = k /\ q.host = h
BY DEF Answers

LEMMA ApplyOutcome ==
    ASSUME NEW Cs, NEW N, NEW Ps, N \in Nat, EgressInv(Cs, N, Ps), NEW from \in 1 .. (N + 1),
           NEW p \in Ps, NEW h \in Stores \union {NoHost}, NEW q, q = Egress(Cs, N, Ps)!ApplyFrom(from, p, h)
    PROVE  GoesTo(N, Ps, from, p, h, q)
<1> DEFINE T == Egress(Cs, N, Ps)!Stale(from, p)
<1>1. T = {j \in from .. N : slot[j].lease.st = "free" /\ slot[j].sig # p}
  BY DEF Egress!Stale, Egress!Skips
<1>2. CASE T = {}
  <2>1. q = [st |-> "host", i |-> 0, host |-> h] BY <1>2 DEF Egress!ApplyFrom
  <2>2. q \in Answers(N, Ps) BY <2>1, HostCall
  <2>3. \A j \in from .. N : slot[j].lease.st = "free" => slot[j].sig = p BY <1>1, <1>2
  <2> QED BY <2>1, <2>2, <2>3 DEF GoesTo
<1>3. CASE T # {}
  <2>1. PICK i : i = Egress(Cs, N, Ps)!Min(T) OBVIOUS
  <2>2. T \subseteq Nat BY <1>1
  <2>3. i \in T /\ \A j \in T : i <= j BY <1>3, <2>1, <2>2, EgressMin
  <2>4. i \in from .. N /\ i \in 1 .. N /\ slot[i].lease.st = "free" /\ slot[i].sig # p BY <1>1, <2>3
  <2>5. q = Planned(i, p, h, slot[i].gen)
    BY <1>3, <2>1, Zenon DEF Egress!ApplyFrom, Planned
  <2>6. slot[i].gen \in Nat BY <2>4, SlotNow
  <2>7. q \in Answers(N, Ps) /\ q.i = i
    <3>1. Planned(i, p, h, slot[i].gen) \in Answers(N, Ps) BY <2>4, <2>6, PlanCall
    <3>2. q.i = i BY <2>5 DEF Planned
    <3> QED BY <2>5, <3>1, <3>2
  <2>8. ASSUME NEW j \in from .. N, j < i, slot[j].lease.st = "free" PROVE slot[j].sig = p
    <3>1. j \notin T BY <2>2, <2>3, <2>8
    <3> QED BY <1>1, <2>8, <3>1
  <2> QED BY <2>4, <2>5, <2>7, <2>8 DEF GoesTo
<1> QED BY <1>2, <1>3

Going(N, from, p, q) ==
    /\ q.st \in {"plan", "host"} /\ (q.st = "host" => q.i = 0)
    /\ q.st = "plan" => /\ q.i \in from .. N /\ q.i \in 1 .. N /\ q.pol = p
                        /\ q.gen = slot[q.i].gen /\ q.gen = net[q.i].gen /\ q.built = FALSE
                        /\ slot[q.i].lease.st = "free" /\ slot[q.i].sig # p
    /\ \A j \in from .. N : slot[j].lease.st = "free" /\ slot[j].sig # p =>
         q.st = "plan" /\ q.i <= j

LEMMA GoesFacts ==
    ASSUME NEW Cs, NEW N, NEW Ps, N \in Nat, EgressInv(Cs, N, Ps), NEW from \in 1 .. (N + 1),
           NEW p \in Ps, NEW h \in Stores \union {NoHost}, NEW q, GoesTo(N, Ps, from, p, h, q)
    PROVE  CallOK(N, Ps, q, slot, persistent) /\ Going(N, from, p, q)
<1>1. CASE q = [st |-> "host", i |-> 0, host |-> h] /\
           \A j \in from .. N : slot[j].lease.st = "free" => slot[j].sig = p
  <2>1. q \in Answers(N, Ps) /\ q.st = "host" /\ q.i = 0 BY <1>1, HostCall
  <2> QED BY <1>1, <2>1 DEF CallOK, Going
<1>2. CASE /\ q = Planned(q.i, p, h, slot[q.i].gen)
           /\ q.i \in from .. N /\ slot[q.i].lease.st = "free" /\ slot[q.i].sig # p
           /\ \A j \in from .. N : j < q.i => (slot[j].lease.st = "free" => slot[j].sig = p)
  <2>1. PICK i \in 1 .. N : i = q.i BY <1>2
  <2>2. slot[i].gen \in Nat /\ net[i].gen = slot[i].gen BY <1>2, <2>1, SlotNow
  <2>3. q = Planned(i, p, h, slot[i].gen)
    BY <1>2, <2>1
  <2>4. /\ q \in Answers(N, Ps) /\ q.st = "plan" /\ q.pol = p /\ q.gen = slot[i].gen
        /\ q.built = FALSE /\ q.cmds = <<>>
    <3>1. Planned(i, p, h, slot[i].gen) \in Answers(N, Ps) BY <2>2, PlanCall
    <3>2. q.st = "plan" /\ q.pol = p /\ q.gen = slot[i].gen /\ q.cmds = <<>> BY <2>3 DEF Planned
    <3>3. q.built = FALSE BY <2>3, PlannedNew
    <3> QED BY <2>3, <3>1, <3>2, <3>3
  <2>5. CallOK(N, Ps, q, slot, persistent)
    <3>1. FALSE # TRUE OBVIOUS
    <3> QED BY <2>1, <2>2, <2>4, <3>1 DEF CallOK
  <2>6. ASSUME NEW j \in from .. N, slot[j].lease.st = "free", slot[j].sig # p PROVE q.i <= j
    <3>1. ~(j < q.i) BY <1>2, <2>6
    <3> QED BY <2>1, <3>1
  <2> QED BY <1>2, <2>1, <2>2, <2>4, <2>5, <2>6 DEF Going
<1> QED BY <1>1, <1>2 DEF GoesTo

LEMMA BeginsIs ==
    ASSUME NEW Cs, NEW N, NEW Ps, NEW q, NEW p, q.st = "plan"
    PROVE  q.i \notin Egress(Cs, N, Ps)!Begins(q, p) <=>
             q.pol = p /\ \A d \in Cs : ~At(answer, d, q.i, net[q.i].gen)
BY DEF Egress!Begins, Egress!Programming, Egress!Alive, At

\* A call comes from a slot it is not programming (any more) and goes on.
LEMMA PlanGoesOn ==
    ASSUME NEW Cs, NEW N, NEW Ps, N \in Nat, EgressInv(Cs, N, Ps), NEW c \in Cs, NEW p \in Ps,
           NEW from \in 1 .. (N + 1), NEW h \in Stores \union {NoHost}, NEW q,
           GoesTo(N, Ps, from, p, h, q), NEW is, Egress(Cs, N, Ps)!Begins(q, policy) \subseteq is,
           answer[c].st = "plan" => from = answer[c].i + 1 /\ answer[c].pol = p,
           answer' = [answer EXCEPT ![c] = q], artifactHost' = artifactHost,
           NEW i \in 1 .. N, ~At(answer, c, i, net[i].gen), NEW m,
           m = [net[i] EXCEPT !.odd = net[i].odd \/ i \in is]
    PROVE  SlotOK(Cs, Ps, i, slot[i], m, boot[i], answer', policy,
                  Past(Cs, answer', artifactHost', i), persistent)
<1>1. /\ SlotOK(Cs, Ps, i, slot[i], net[i], boot[i], answer, policy,
                Past(Cs, answer, artifactHost, i), persistent)
      /\ net[i] \in Spaces(Ps) /\ net[i].gen \in Nat
  BY SlotNow
<1>2. /\ answer = [d \in Cs |-> answer[d]]
      /\ answer'[c] = q /\ \A d \in Cs : d # c => answer'[d] = answer[d]
  BY DEF EgressInv
<1>3. Going(N, from, p, q) BY GoesFacts
<1>4. Past(Cs, answer', artifactHost', i) \subseteq Past(Cs, answer, artifactHost, i)
  <2>1. ~(q.st = "host" /\ q.i > i) BY <1>3 DEF Going
  <2> QED BY <1>2, <2>1, PastMoves
<1>5. (i \in is => m = [net[i] EXCEPT !.odd = TRUE]) /\ (i \notin is => m = net[i])
  BY <1>1, Marked
<1>6. CASE i \in is BY <1>1, <1>5, <1>6, OddSlot
<1>7. CASE i \notin is /\ q.st = "plan" /\ q.i = i
  <2>1. boot[i].st = "none" BY <1>3, <1>7, SlotNow DEF Going
  <2>2. q.pol = policy /\ \A d \in Cs : ~At(answer, d, i, net[i].gen) BY <1>7, BeginsIs
  <2>3. \A d \in Cs : At(answer', d, i, net[i].gen) => d = c BY <1>2, <2>2 DEF At
  <2>4. At(answer', c, i, net[i].gen) BY <1>2, <1>3, <1>7 DEF At, Going
  <2>5. Pends(answer', c, policy, i, net[i].gen) BY <1>2, <1>7, <2>2, <2>4 DEF Pends
  <2>6. \A d \in Cs : At(answer', d, i, net[i].gen) =>
          /\ answer'[d].pol = policy /\ slot[i].lease.st = "free" /\ answer'[d].built = FALSE
          /\ \A e \in Cs : At(answer', e, i, net[i].gen) => e = d
    BY <1>2, <1>3, <1>7, <2>2, <2>3 DEF Going
  <2>7. SlotOK(Cs, Ps, i, slot[i], net[i], boot[i], answer', policy,
               Past(Cs, answer', artifactHost', i), persistent)
    BY <1>1, <1>4, <2>1, <2>2, <2>5, <2>6, TakenUp, Zenon
  <2> QED BY <1>5, <1>7, <2>7
<1>8. CASE i \notin is /\ ~(q.st = "plan" /\ q.i = i)
  <2>1. ASSUME slot[i].lease.st = "free", slot[i].sig # policy, Pends(answer, c, policy, i, net[i].gen)
        PROVE  q.st = "plan" /\ q.pol = policy /\ q.i < i
    <3>1. answer[c].st = "plan" /\ answer[c].pol = policy /\ answer[c].i < i BY <2>1 DEF Pends
    <3>2. p = policy BY <3>1
    <3>3. answer[c].i \in 1 .. N
      <4>1. CallOK(N, Ps, answer[c], slot, persistent) BY DEF EgressInv
      <4> QED BY <3>1, <4>1 DEF CallOK, Answers
    <3>4. CASE from <= i
      <4>1. i \in from .. N BY <3>4
      <4>2. q.st = "plan" /\ q.i <= i BY <1>3, <2>1, <3>2, <4>1 DEF Going
      <4> QED BY <1>3, <1>8, <3>2, <4>2 DEF Going
    <3>5. CASE i < from
      <4>1. from = answer[c].i + 1 BY <3>1
      <4> QED BY <3>1, <3>3, <3>5, <4>1
    <3> QED BY <3>4, <3>5
  <2> QED BY <1>1, <1>2, <1>4, <1>5, <1>8, <2>1, CallMoves
<1> QED BY <1>6, <1>7, <1>8

-----------------------------------------------------------------------------
(* What the actions write.                                                 *)

LEMMA MarkedNet ==
    ASSUME NEW Cs, NEW N, NEW Ps, NEW is, Egress(Cs, N, Ps)!MarkOdd(is)
    PROVE  /\ net' = [i \in 1 .. N |-> net'[i]]
           /\ \A i \in 1 .. N : net'[i] = [net[i] EXCEPT !.odd = net[i].odd \/ i \in is]
BY DEF Egress!MarkOdd, Egress!Slots

LEMMA MarkedNow ==
    ASSUME NEW Cs, NEW N, NEW Ps, EgressInv(Cs, N, Ps), NEW is, Egress(Cs, N, Ps)!MarkOdd(is), NEW i \in 1 .. N
    PROVE  (i \in is => net'[i] = [net[i] EXCEPT !.odd = TRUE]) /\ (i \notin is => net'[i] = net[i])
<1>1. net[i] \in Spaces(Ps) BY SlotNow
<1>2. net'[i] = [net[i] EXCEPT !.odd = net[i].odd \/ i \in is] BY MarkedNet
<1> QED BY <1>1, <1>2, Marked

LEMMA CallSet ==
    ASSUME NEW Cs, NEW N, NEW Ps, EgressInv(Cs, N, Ps), NEW c \in Cs, NEW q, answer' = [answer EXCEPT ![c] = q]
    PROVE  /\ answer = [d \in Cs |-> answer[d]] /\ answer' = [d \in Cs |-> answer'[d]]
           /\ answer'[c] = q /\ \A d \in Cs : d # c => answer'[d] = answer[d]
<1>1. answer = [d \in Cs |-> answer[d]] BY DEF EgressInv
<1> QED BY <1>1

LEMMA CallNow ==
    ASSUME NEW Cs, NEW N, NEW Ps, EgressInv(Cs, N, Ps), NEW c \in Cs
    PROVE  CallOK(N, Ps, answer[c], slot, persistent)
BY DEF EgressInv

LEMMA CallsKept ==
    ASSUME NEW Cs, NEW N, NEW Ps, EgressInv(Cs, N, Ps), NEW c \in Cs, NEW q, answer' = [answer EXCEPT ![c] = q],
           persistent \subseteq persistent', CallOK(N, Ps, q, slot', persistent'),
           \A i \in 1 .. N : slot'[i].gen \in Nat /\ slot[i].gen <= slot'[i].gen
    PROVE  \A d \in Cs : CallOK(N, Ps, answer'[d], slot', persistent')
<1> TAKE d \in Cs
<1>1. answer'[c] = q /\ (d # c => answer'[d] = answer[d]) BY CallSet
<1>2. CASE d = c BY <1>1, <1>2
<1>3. CASE d # c
  <2>1. \A i \in 1 .. N : slot[i].gen \in Nat BY SlotNow
  <2>2. CallOK(N, Ps, answer[d], slot, persistent) BY CallNow
  <2> QED BY <1>1, <1>3, <2>1, <2>2, CallKept
<1> QED BY <1>2, <1>3

\* The manager sends what it sent before.
LEMMA AnswerSame ==
    ASSUME NEW Cs, NEW N, NEW Ps, N \in Nat, EgressInv(Cs, N, Ps), NEW c \in Cs,
           NEW h \in Stores \union {NoHost}, Egress(Cs, N, Ps)!Answer(c, policy, h)
    PROVE  EgressInv(Cs, N, Ps)'
<1>1. PICK q : q = [st |-> "host", i |-> 0, host |-> h] OBVIOUS
<1>2. q \in Answers(N, Ps) /\ q.st = "host" /\ q.i = 0 /\ q.host = h BY <1>1, HostCall
<1>3. /\ answer[c].st = "idle" /\ answer' = [answer EXCEPT ![c] = q] /\ policy' = policy
      /\ UNCHANGED <<artifactHost, persistent, slot, boot, want>>
  BY <1>1 DEF Egress!Answer, Egress!SetCall, Egress!Idle
<1>4. PICK is : is = {} OBVIOUS
<1>5. Egress(Cs, N, Ps)!MarkOdd(is)
  <2>1. Egress(Cs, N, Ps)!MarkOdd(Egress(Cs, N, Ps)!Begins(q, policy) \union {})
    BY <1>1, Zenon DEF Egress!Answer
  <2>2. Egress(Cs, N, Ps)!Begins(q, policy) \union {} = is BY <1>2, <1>4 DEF Egress!Begins
  <2> QED BY <2>1, <2>2
<1>6. \A i \in 1 .. N : net'[i] = net[i]
  <2> TAKE i \in 1 .. N
  <2>1. i \notin is BY <1>4
  <2>2. (i \in is => net'[i] = [net[i] EXCEPT !.odd = TRUE]) /\ (i \notin is => net'[i] = net[i])
    BY <1>5, MarkedNow
  <2> QED BY <2>1, <2>2
<1>7. net' = net BY <1>5, <1>6, MarkedNet DEF EgressInv
<1>8. CallOK(N, Ps, q, slot, persistent') BY <1>2 DEF CallOK
<1>9. \A i \in 1 .. N : Past(Cs, answer', artifactHost', i) \subseteq Past(Cs, answer, artifactHost, i)
  <2> TAKE i \in 1 .. N
  <2>1. ~(q.st = "host" /\ q.i > i) BY <1>2
  <2>2. answer = [d \in Cs |-> answer[d]] /\ artifactHost' = artifactHost BY <1>3 DEF EgressInv
  <2> QED BY <1>3, <2>1, <2>2, PastMoves
<1>10. artifactHost' \in persistent' \union {NoHost} /\ persistent' \subseteq Stores BY <1>3 DEF EgressInv
<1> QED BY <1>2, <1>3, <1>7, <1>8, <1>9, <1>10, CallOnly

\* The manager sends another policy.
LEMMA AnswerNew ==
    ASSUME NEW Cs, NEW N, NEW Ps, N \in Nat, EgressInv(Cs, N, Ps), NEW c \in Cs, NEW p \in Ps, p # policy,
           NEW h \in Stores \union {NoHost}, Egress(Cs, N, Ps)!Answer(c, p, h)
    PROVE  EgressInv(Cs, N, Ps)'
<1>1. PICK q : q = Egress(Cs, N, Ps)!ApplyFrom(1, p, h) OBVIOUS
<1>2. PICK is : is = Egress(Cs, N, Ps)!Begins(q, p) \union
                     {i \in 1 .. N : boot[i] # Egress(Cs, N, Ps)!NoBoot \/ Egress(Cs, N, Ps)!Programming(i) # {}}
  OBVIOUS
<1>3. /\ answer[c].st = "idle" /\ answer' = [answer EXCEPT ![c] = q] /\ policy' = p
      /\ UNCHANGED <<artifactHost, persistent, slot, boot, want>>
  BY <1>1 DEF Egress!Answer, Egress!SetCall, Egress!Idle
<1>4. Egress(Cs, N, Ps)!MarkOdd(is)
  <2>1. Egress(Cs, N, Ps)!MarkOdd(Egress(Cs, N, Ps)!Begins(q, p) \union
          {i \in Egress(Cs, N, Ps)!Slots :
             p # policy /\ (boot[i] # Egress(Cs, N, Ps)!NoBoot \/ Egress(Cs, N, Ps)!Programming(i) # {})})
    BY <1>1, Zenon DEF Egress!Answer
  <2>2. is = Egress(Cs, N, Ps)!Begins(q, p) \union
          {i \in Egress(Cs, N, Ps)!Slots :
             p # policy /\ (boot[i] # Egress(Cs, N, Ps)!NoBoot \/ Egress(Cs, N, Ps)!Programming(i) # {})}
    BY <1>2 DEF Egress!Slots
  <2> QED BY <2>1, <2>2, Zenon
<1>5. 1 \in 1 .. (N + 1) OBVIOUS
<1>6. GoesTo(N, Ps, 1, p, h, q) BY <1>1, <1>5, ApplyOutcome
<1>7. CallOK(N, Ps, q, slot, persistent) /\ Going(N, 1, p, q) BY <1>5, <1>6, GoesFacts
<1>8. ASSUME NEW i \in 1 .. N
      PROVE  SlotOK(Cs, Ps, i, slot[i], net'[i], boot[i], answer', p, Past(Cs, answer', artifactHost', i), persistent)
  <2>1. /\ SlotOK(Cs, Ps, i, slot[i], net[i], boot[i], answer, policy,
                  Past(Cs, answer, artifactHost, i), persistent)
        /\ net[i] \in Spaces(Ps)
    BY SlotNow
  <2>2. (i \in is => net'[i] = [net[i] EXCEPT !.odd = TRUE]) /\ (i \notin is => net'[i] = net[i])
    BY <1>4, MarkedNow
  <2>3. CASE i \in is BY <2>1, <2>2, <2>3, OddSlot
  <2>4. CASE i \notin is
    <3>1. boot[i].st = "none" BY <1>2, <2>4, BootIs
    <3>2. \A d \in Cs : ~At(answer, d, i, net[i].gen)
      <4>1. Egress(Cs, N, Ps)!Programming(i) = {} BY <1>2, <2>4
      <4> QED BY <4>1 DEF Egress!Programming, Egress!Alive, At
    <3>3. answer'[c] = q /\ \A d \in Cs : d # c => answer'[d] = answer[d] BY <1>3, CallSet
    <3>4. Past(Cs, answer', artifactHost', i) \subseteq Past(Cs, answer, artifactHost, i)
      <4>1. ~(q.st = "host" /\ q.i > i) BY <1>7 DEF Going
      <4>2. answer = [d \in Cs |-> answer[d]] /\ artifactHost' = artifactHost BY <1>3 DEF EgressInv
      <4> QED BY <1>3, <4>1, <4>2, PastMoves
    <3>5. \A d \in Cs : At(answer', d, i, net[i].gen) => d = c BY <3>2, <3>3 DEF At
    <3>6. At(answer', c, i, net[i].gen) => q.pol = p /\ slot[i].lease.st = "free" /\ q.built = FALSE
      BY <1>7, <3>3 DEF At, Going
    <3>7. \A d \in Cs : At(answer', d, i, net[i].gen) =>
            /\ answer'[d].pol = p /\ slot[i].lease.st = "free" /\ answer'[d].built = FALSE
            /\ \A e \in Cs : At(answer', e, i, net[i].gen) => e = d
      BY <3>3, <3>5, <3>6
    <3>8. ASSUME slot[i].lease.st = "free", slot[i].sig # p PROVE Pends(answer', c, p, i, net[i].gen)
      <4>1. i \in 1 .. N /\ q.st = "plan" /\ q.i <= i /\ q.pol = p /\ q.i \in 1 .. N
            /\ q.gen = net[q.i].gen
        BY <1>7, <3>8 DEF Going
      <4>2. CASE q.i = i BY <3>3, <4>1, <4>2 DEF Pends, At
      <4>3. CASE q.i < i BY <3>3, <4>1, <4>3 DEF Pends
      <4> QED BY <4>1, <4>2, <4>3
    <3>9. SlotOK(Cs, Ps, i, slot[i], net[i], boot[i], answer', p, Past(Cs, answer', artifactHost', i), persistent)
      BY <2>1, <3>1, <3>2, <3>4, <3>7, <3>8, TakenUp, Zenon
    <3> QED BY <2>2, <2>4, <3>9
  <2> QED BY <2>3, <2>4
<1>9. \A d \in Cs : CallOK(N, Ps, answer'[d], slot', persistent')
  <2>1. \A i \in 1 .. N : slot'[i].gen \in Nat /\ slot[i].gen <= slot'[i].gen BY <1>3, SlotNow
  <2>2. persistent \subseteq persistent' /\ CallOK(N, Ps, q, slot', persistent') BY <1>3, <1>7
  <2> QED BY <1>3, <2>1, <2>2, CallsKept
<1>10. /\ policy' \in Ps /\ slot' = [i \in 1 .. N |-> slot'[i]] /\ net' = [i \in 1 .. N |-> net'[i]]
       /\ boot' = [i \in 1 .. N |-> boot'[i]] /\ want'.targets \subseteq Hosts
       /\ persistent' \subseteq Stores /\ artifactHost' \in persistent' \union {NoHost}
  BY <1>3, <1>4, MarkedNet DEF EgressInv
<1>11. answer' = [d \in Cs |-> answer'[d]] BY <1>3, CallSet
<1>12. \A i \in 1 .. N : SlotOK(Cs, Ps, i, slot'[i], net'[i], boot'[i], answer', policy',
                                Past(Cs, answer', artifactHost', i), persistent')
  BY <1>3, <1>8, Zenon
<1> QED BY <1>9, <1>10, <1>11, <1>12, EgressAssemble

\* The slot that a call is programming: its plan goes on.
Programs(q, i, g, p) == q.st = "plan" /\ q.i = i /\ q.gen = g /\ q.pol = p
CarriesOn(r, q, p, ch, ch2, past, per) ==
    r.pol = p /\ q.built = TRUE /\ (r.built = TRUE => InStep(p, r.cmds, ch, past, per)) =>
        InStep(p, q.cmds, ch2, past, per)

LEMMA PlanMoves ==
    ASSUME NEW Cs, NEW Ps, NEW i, NEW s, NEW n, NEW b, NEW a, NEW p, NEW past, NEW per,
           SlotOK(Cs, Ps, i, s, n, b, a, p, past, per), a = [d \in Cs |-> a[d]], b.st = "none",
           NEW c \in Cs, At(a, c, i, n.gen), NEW q, NEW a2, a2 = [a EXCEPT ![c] = q],
           Programs(q, i, n.gen, a[c].pol),
           NEW m \in Spaces(Ps), m.gen = n.gen, m.odd = n.odd, Within(s, m, per),
           NEW past2, past2 \subseteq past,
           CarriesOn(a[c], q, p, n.chain, m.chain, past, per)
    PROVE  SlotOK(Cs, Ps, i, s, m, b, a2, p, past2, per)
<1>1. a2[c] = q /\ \A d \in Cs : d # c => a2[d] = a[d] OBVIOUS
<1>2. At(a2, c, i, n.gen) BY <1>1 DEF At, Programs
<1>3. \A d \in Cs : At(a2, d, i, n.gen) => At(a, d, i, n.gen) BY <1>1 DEF At
<1>4. ASSUME n.odd = FALSE PROVE Clear(Cs, i, s, m, a2, p, past2, per)
  <2>1. Clear(Cs, i, s, n, a, p, past, per) BY <1>4 DEF SlotOK
  <2>2. /\ a[c].pol = p /\ s.lease.st = "free"
        /\ \A d \in Cs : At(a, d, i, n.gen) => d = c
        /\ a[c].built = TRUE => InStep(p, a[c].cmds, n.chain, past, per)
    BY <2>1 DEF Clear
  <2>3. \A d \in Cs : At(a2, d, i, n.gen) => d = c BY <1>3, <2>2
  <2>4. q.built = TRUE => InStep(p, q.cmds, m.chain, past2, per) BY <2>2, InStepGrows DEF CarriesOn
  <2>5. ASSUME s.lease.st = "free", s.sig # p PROVE Pends(a2, c, p, i, n.gen)
    BY <1>1, <1>2, <2>2 DEF Pends, Programs
  <2> QED BY <1>1, <1>2, <2>2, <2>3, <2>4, <2>5 DEF Clear, Programs
<1> QED BY <1>4 DEF SlotOK

\* The plan is done: its slot has the new signature.
Finishes(Ps, r) == r.built = TRUE /\ r.cmds = <<>> /\ r.pol \in Ps
Away(q, i) == ~(q.st = "plan" /\ q.i = i)

LEMMA PlanEnds ==
    ASSUME NEW Cs, NEW Ps, NEW i, NEW s, NEW n, NEW b, NEW a, NEW p, NEW past, NEW per,
           SlotOK(Cs, Ps, i, s, n, b, a, p, past, per), a = [d \in Cs |-> a[d]], b.st = "none",
           NEW c \in Cs, At(a, c, i, n.gen), Finishes(Ps, a[c]), p.enforce \in BOOLEAN,
           NEW s2, s2 = [s EXCEPT !.sig = a[c].pol],
           NEW q, NEW a2, a2 = [a EXCEPT ![c] = q], Away(q, i),
           NEW past2, past2 \subseteq past
    PROVE  SlotOK(Cs, Ps, i, s2, n, b, a2, p, past2, per)
<1>1. a2[c] = q /\ \A d \in Cs : d # c => a2[d] = a[d] OBVIOUS
<1>2. s2 \in Entries(Ps) /\ s2.gen = s.gen /\ s2.lease = s.lease /\ s2.sig = a[c].pol
  BY DEF SlotOK, Entries, Finishes
<1>3. Within(s2, n, per) BY <1>2 DEF SlotOK, Within
<1>4. ASSUME n.odd = FALSE PROVE Clear(Cs, i, s2, n, a2, p, past2, per)
  <2>1. Clear(Cs, i, s, n, a, p, past, per) BY <1>4 DEF SlotOK
  <2>2. /\ a[c].pol = p /\ s.lease.st = "free"
        /\ \A d \in Cs : At(a, d, i, n.gen) => d = c
        /\ InStep(p, a[c].cmds, n.chain, past, per)
    BY <2>1 DEF Clear, Finishes
  <2>3. \A d \in Cs : ~At(a2, d, i, n.gen)
    <3> TAKE d \in Cs
    <3>1. CASE d = c BY <1>1, <3>1 DEF At, Away
    <3>2. CASE d # c BY <1>1, <2>2, <3>2 DEF At
    <3> QED BY <3>1, <3>2
  <2>4. PICK S \in SUBSET per, k \in 0 .. 4 :
          Ahead(p, S, k) = <<>> /\ Done(p, S, k, n.chain) /\ (p.enforce => past \subseteq S)
    BY <2>2 DEF InStep, Finishes
  <2>5. /\ p.enforce => n.chain.default = "DROP" /\ n.chain.allow = p.allow \union S
        /\ ~p.enforce => n.chain.default = "ACCEPT" /\ n.chain.reject = FALSE
    <3>1. Finished(p, S, n.chain) BY <2>4, RunEnd
    <3> QED BY <3>1 DEF Finished
  <2>6. Given(s2) = {} BY <1>2, <2>2 DEF Given
  <2>7. Settled(s2, n.chain, past2, per) BY <1>2, <2>2, <2>4, <2>5, <2>6 DEF Settled
  <2> QED BY <1>2, <2>2, <2>3, <2>7 DEF Clear
<1> QED BY <1>2, <1>3, <1>4 DEF SlotOK

\* The entry of a slot that is being rebuilt, and its namespace under construction.
LEMMA BusySlot ==
    ASSUME NEW Cs, NEW Ps, NEW i, NEW s, NEW n, NEW b, NEW a, NEW p, NEW past, NEW per,
           SlotOK(Cs, Ps, i, s, n, b, a, p, past, per), b.st # "none",
           NEW r \in Ps, NEW s2, s2 = [s EXCEPT !.sig = r]
    PROVE  SlotOK(Cs, Ps, i, s2, n, b, a, p, past, per)
<1>1. s2 \in Entries(Ps) /\ s2.gen = s.gen /\ s2.lease = s.lease BY DEF SlotOK, Entries
<1> QED BY <1>1 DEF SlotOK

\* What a call knows of the slot that it is programming.
LEMMA PlanNow ==
    ASSUME NEW Cs, NEW N, NEW Ps, N \in Nat, EgressInv(Cs, N, Ps), NEW c \in Cs, answer[c].st = "plan"
    PROVE  /\ answer[c].i \in 1 .. N /\ answer[c].i + 1 \in 1 .. (N + 1) /\ answer[c].pol \in Ps
           /\ answer[c].gen \in Nat /\ answer[c].host \in Stores \union {NoHost}
           /\ answer[c].gen <= slot[answer[c].i].gen
           /\ answer[c].gen = net[answer[c].i].gen =>
                boot[answer[c].i].st = "none" /\ slot[answer[c].i].gen = answer[c].gen
<1>1. CallOK(N, Ps, answer[c], slot, persistent) BY CallNow
<1>2. /\ answer[c].i \in 1 .. N /\ answer[c].pol \in Ps /\ answer[c].gen \in Nat
      /\ answer[c].host \in Stores \union {NoHost} /\ answer[c].gen <= slot[answer[c].i].gen
  BY <1>1 DEF CallOK, Answers
<1>3. PICK i \in 1 .. N : i = answer[c].i BY <1>2
<1>4. /\ slot[i].gen \in Nat /\ net[i].gen \in Nat /\ slot[i].gen <= net[i].gen
      /\ boot[i].st = "none" <=> slot[i].gen = net[i].gen
  BY SlotNow
<1>5. answer[c].gen = net[i].gen => boot[i].st = "none" /\ slot[i].gen = answer[c].gen
  <2>1. PICK g : g = answer[c].gen OBVIOUS
  <2>2. g \in Nat /\ g <= slot[i].gen BY <1>2, <1>3, <2>1
  <2>3. g = net[i].gen => g = slot[i].gen BY <1>4, <2>2
  <2> QED BY <1>4, <2>1, <2>3
<1> QED BY <1>2, <1>3, <1>5

\* A call that programs a slot, at the others.
LEMMA Elsewhere ==
    ASSUME NEW Cs, NEW N, NEW Ps, EgressInv(Cs, N, Ps), NEW c \in Cs, answer[c].st = "plan",
           NEW q, answer' = [answer EXCEPT ![c] = q],
           q.st = "plan", q.i = answer[c].i, q.gen = answer[c].gen, q.pol = answer[c].pol,
           UNCHANGED <<artifactHost, persistent>>, NEW i \in 1 .. N
    PROVE  /\ Past(Cs, answer', artifactHost', i) \subseteq Past(Cs, answer, artifactHost, i)
           /\ ~At(answer, c, i, net[i].gen) =>
                SlotOK(Cs, Ps, i, slot[i], net[i], boot[i], answer', policy,
                       Past(Cs, answer', artifactHost', i), persistent)
<1>1. answer = [d \in Cs |-> answer[d]] BY CallSet
<1>2. Past(Cs, answer', artifactHost', i) \subseteq Past(Cs, answer, artifactHost, i)
  <2>1. ~(q.st = "host" /\ q.i > i) BY DEF At
  <2> QED BY <1>1, <2>1, PastMoves
<1>3. ASSUME ~At(answer, c, i, net[i].gen)
      PROVE  SlotOK(Cs, Ps, i, slot[i], net[i], boot[i], answer', policy,
                    Past(Cs, answer', artifactHost', i), persistent)
  <2>1. SlotOK(Cs, Ps, i, slot[i], net[i], boot[i], answer, policy,
               Past(Cs, answer, artifactHost, i), persistent)
    BY SlotNow
  <2>2. ~(q.st = "plan" /\ q.i = i /\ q.gen = net[i].gen) BY <1>3 DEF At
  <2>3. Pends(answer, c, policy, i, net[i].gen) => q.st = "plan" /\ q.pol = policy /\ q.i < i
    BY <1>3 DEF Pends
  <2> QED BY <1>1, <1>2, <1>3, <2>1, <2>2, <2>3, CallMoves
<1> QED BY <1>2, <1>3

LEMMA PlanHere ==
    ASSUME NEW Cs, NEW N, NEW Ps, N \in Nat, EgressInv(Cs, N, Ps), NEW c \in Cs, answer[c].st = "plan",
           NEW q, answer' = [answer EXCEPT ![c] = q], UNCHANGED <<artifactHost, persistent>>,
           NEW i \in 1 .. N, At(answer, c, i, net[i].gen), Programs(q, i, net[i].gen, answer[c].pol),
           NEW m \in Spaces(Ps), m.gen = net[i].gen, m.odd = net[i].odd, Within(slot[i], m, persistent),
           CarriesOn(answer[c], q, policy, net[i].chain, m.chain, Past(Cs, answer, artifactHost, i), persistent)
    PROVE  SlotOK(Cs, Ps, i, slot[i], m, boot[i], answer', policy,
                  Past(Cs, answer', artifactHost', i), persistent)
<1>1. PICK s, n, b, a, p, past, per :
        /\ s = slot[i] /\ n = net[i] /\ b = boot[i] /\ a = answer /\ p = policy
        /\ past = Past(Cs, answer, artifactHost, i) /\ per = persistent
  OBVIOUS
<1>2. PICK a2, past2 : a2 = answer' /\ past2 = Past(Cs, answer', artifactHost', i) OBVIOUS
<1>3. SlotOK(Cs, Ps, i, s, n, b, a, p, past, per) BY <1>1, SlotNow
<1>4. b.st = "none" BY <1>1, PlanNow DEF At
<1>5. a = [d \in Cs |-> a[d]] BY <1>1 DEF EgressInv
<1>6. past2 \subseteq past BY <1>1, <1>2, Elsewhere DEF At, Programs
<1>7. At(a, c, i, n.gen) /\ a2 = [a EXCEPT ![c] = q] /\ Programs(q, i, n.gen, a[c].pol) BY <1>1, <1>2
<1>8. m.gen = n.gen /\ m.odd = n.odd /\ Within(s, m, per) BY <1>1
<1>9. CarriesOn(a[c], q, p, n.chain, m.chain, past, per) BY <1>1
<1>10. SlotOK(Cs, Ps, i, s, m, b, a2, p, past2, per)
  BY <1>3, <1>4, <1>5, <1>6, <1>7, <1>8, <1>9, PlanMoves
<1> QED BY <1>1, <1>2, <1>10

LEMMA ResolveStep ==
    ASSUME NEW Cs, NEW N, NEW Ps, N \in Nat, Hosted(Ps), EgressInv(Cs, N, Ps), NEW c \in Cs,
           Egress(Cs, N, Ps)!ResolvePlan(c)
    PROVE  EgressInv(Cs, N, Ps)'
<1>1. /\ answer[c].st = "plan" /\ UNCHANGED <<policy, artifactHost, persistent, slot, net, boot, want>>
      /\ answer' = [answer EXCEPT ![c] =
           [answer[c] EXCEPT !.cmds = Egress(Cs, N, Ps)!PlanFor(answer[c].pol), !.built = TRUE]]
  BY DEF Egress!ResolvePlan, Egress!SetCall
<1>2. /\ answer[c].pol \in Ps /\ answer[c].i \in 1 .. N /\ persistent \subseteq Hosts
      /\ answer[c].pol.enforce \in BOOLEAN /\ answer[c].pol.allow \subseteq Hosts
  BY <1>1, PlanNow, HostsAssumption DEF EgressInv, Hosted, Lists
<1>3. PICK cmds : cmds = Ahead(answer[c].pol, persistent, 0) OBVIOUS
<1>4. Egress(Cs, N, Ps)!PlanFor(answer[c].pol) = cmds
  BY <1>2, <1>3 DEF Egress!PlanFor, Egress!Plan, Egress!Cmd, Ahead, Command
<1>5. cmds \in Seq(Commands)
  <2>1. 0 \in 0 .. 4 /\ persistent \in SUBSET Hosts BY <1>2
  <2> QED BY <1>2, <1>3, <2>1, AheadType
<1>6. PICK q : q = [answer[c] EXCEPT !.cmds = cmds, !.built = TRUE] OBVIOUS
<1>7. answer' = [answer EXCEPT ![c] = q] BY <1>1, <1>4, <1>6
<1>8. CallOK(N, Ps, answer[c], slot, persistent) BY CallNow
<1>9. /\ q \in Answers(N, Ps) /\ q.st = "plan" /\ q.i = answer[c].i /\ q.gen = answer[c].gen
      /\ q.pol = answer[c].pol /\ q.cmds = cmds /\ q.built = TRUE
  BY <1>1, <1>5, <1>6, <1>8 DEF CallOK, Answers
<1>10. 0 \in 0 .. 4 OBVIOUS
<1>11. CallOK(N, Ps, q, slot', persistent')
  <2>1. Steps(q.pol, q.cmds, persistent) BY <1>3, <1>9, <1>10 DEF Steps
  <2>2. q.gen <= slot[q.i].gen BY <1>1, <1>9, PlanNow
  <2>3. FALSE # TRUE OBVIOUS
  <2> QED BY <1>1, <1>9, <2>1, <2>2, <2>3 DEF CallOK
<1>12. ASSUME NEW i \in 1 .. N
       PROVE  SlotOK(Cs, Ps, i, slot[i], net[i], boot[i], answer', policy,
                     Past(Cs, answer', artifactHost', i), persistent)
  <2>1. CASE ~At(answer, c, i, net[i].gen) BY <1>1, <1>7, <1>9, <2>1, Elsewhere
  <2>2. CASE At(answer, c, i, net[i].gen)
    <3>1. /\ SlotOK(Cs, Ps, i, slot[i], net[i], boot[i], answer, policy,
                    Past(Cs, answer, artifactHost, i), persistent)
          /\ net[i] \in Spaces(Ps)
      BY SlotNow
    <3>2. boot[i].st = "none" /\ q.i = i /\ q.gen = net[i].gen BY <1>1, <1>9, <2>2, PlanNow DEF At
    <3>3. Within(slot[i], net[i], persistent) BY <3>1, <3>2 DEF SlotOK
    <3>4. ASSUME answer[c].pol = policy
          PROVE  InStep(policy, q.cmds, net[i].chain, Past(Cs, answer, artifactHost, i), persistent)
      <4>1. Past(Cs, answer, artifactHost, i) \subseteq persistent BY PastStored
      <4>2. Done(policy, persistent, 0, net[i].chain) BY DEF Done
      <4> QED BY <1>3, <1>9, <1>10, <3>4, <4>1, <4>2 DEF InStep
    <3>5. Programs(q, i, net[i].gen, answer[c].pol) BY <1>9, <3>2 DEF Programs
    <3>6. CarriesOn(answer[c], q, policy, net[i].chain, net[i].chain, Past(Cs, answer, artifactHost, i), persistent)
      BY <3>4 DEF CarriesOn
    <3> QED BY <1>1, <1>7, <2>2, <3>1, <3>3, <3>5, <3>6, PlanHere
  <2> QED BY <2>1, <2>2
<1>13. \A d \in Cs : CallOK(N, Ps, answer'[d], slot', persistent')
  <2>1. \A i \in 1 .. N : slot'[i].gen \in Nat /\ slot[i].gen <= slot'[i].gen BY <1>1, SlotNow
  <2> QED BY <1>1, <1>7, <1>11, <2>1, CallsKept
<1>14. answer' = [d \in Cs |-> answer'[d]] BY <1>7, CallSet
<1>15. /\ policy' \in Ps /\ slot' = [i \in 1 .. N |-> slot'[i]] /\ net' = [i \in 1 .. N |-> net'[i]]
       /\ boot' = [i \in 1 .. N |-> boot'[i]] /\ want'.targets \subseteq Hosts
       /\ persistent' \subseteq Stores /\ artifactHost' \in persistent' \union {NoHost}
  BY <1>1 DEF EgressInv
<1>16. \A i \in 1 .. N : SlotOK(Cs, Ps, i, slot'[i], net'[i], boot'[i], answer', policy',
                                Past(Cs, answer', artifactHost', i), persistent')
  BY <1>1, <1>12, Zenon
<1> QED BY <1>13, <1>14, <1>15, <1>16, EgressAssemble

LEMMA InUnion ==
    ASSUME NEW P, NEW p \in P, NEW h \in p.allow
    PROVE  h \in Allowed(P)
BY DEF Allowed

Stepped(Ps, s, n, per, r, m) ==
    m \in Spaces(Ps) /\ m.gen = n.gen /\ m.odd = n.odd /\ m.chain = r /\ Within(s, m, per)

LEMMA WithinStep ==
    ASSUME NEW Ps, NEW s, NEW n \in Spaces(Ps), NEW per, Within(s, n, per), NEW p \in Ps, NEW r \in Chains,
           NEW S, S \subseteq per, Tight(p, S, n.chain, r),
           NEW m, m = [n EXCEPT !.chain = r, !.pols = n.pols \union {p}]
    PROVE  Stepped(Ps, s, n, per, r, m)
<1>1. m \in Spaces(Ps) /\ m.gen = n.gen /\ m.odd = n.odd /\ m.chain = r /\ m.pols = n.pols \union {p}
  BY DEF Spaces
<1>2. n.chain.allow \subseteq Allowed(n.pols) \union per \union s.lease.targets BY DEF Within
<1>3. r.allow \subseteq Allowed(m.pols) \union per \union s.lease.targets
  <2> SUFFICES ASSUME NEW h \in r.allow
               PROVE  h \in Allowed(m.pols) \union per \union s.lease.targets
    OBVIOUS
  <2>1. h \in n.chain.allow \/ h \in p.allow \/ h \in S BY DEF Tight
  <2>2. CASE h \in p.allow
    <3>1. p \in m.pols BY <1>1
    <3> QED BY <2>2, <3>1, InUnion
  <2>3. CASE h \in n.chain.allow
    <3>1. CASE h \in per \union s.lease.targets BY <3>1
    <3>2. CASE \E q \in n.pols : h \in q.allow
      <4>1. PICK q \in n.pols : h \in q.allow BY <3>2
      <4>2. q \in m.pols BY <1>1
      <4> QED BY <4>1, <4>2, InUnion
    <3> QED BY <1>2, <2>3, <3>1, <3>2 DEF Allowed
  <2>4. CASE h \in S BY <2>4
  <2> QED BY <2>1, <2>2, <2>3, <2>4
<1>4. (\A q \in m.pols : q.enforce) => r.default = "DROP" BY <1>1 DEF Within, Tight
<1> QED BY <1>1, <1>3, <1>4 DEF Within, Stepped

LEMMA StepStep ==
    ASSUME NEW Cs, NEW N, NEW Ps, N \in Nat, Hosted(Ps), EgressInv(Cs, N, Ps), NEW c \in Cs,
           Egress(Cs, N, Ps)!StepPlan(c)
    PROVE  EgressInv(Cs, N, Ps)'
<1>1. PICK r : r = answer[c] OBVIOUS
<1>2. PICK j : j = r.i OBVIOUS
<1>3. PICK p : p = r.pol OBVIOUS
<1>4. PICK n : n = net[j] OBVIOUS
<1>5. PICK ch : ch = Egress(Cs, N, Ps)!Run(n.chain, Head(r.cmds)) OBVIOUS
<1>6. PICK q : q = [r EXCEPT !.cmds = Tail(r.cmds)] OBVIOUS
<1>7. PICK m : m = [n EXCEPT !.chain = ch, !.pols = n.pols \union {p}] OBVIOUS
<1>8. /\ r.st = "plan" /\ r.cmds # <<>> /\ n.gen = r.gen
      /\ UNCHANGED <<policy, artifactHost, persistent, slot, boot, want>>
  BY <1>1, <1>2, <1>4 DEF Egress!StepPlan, Egress!Alive
<1>9. answer' = [answer EXCEPT ![c] = q] BY <1>1, <1>6 DEF Egress!StepPlan, Egress!SetCall
<1>10. /\ j \in 1 .. N /\ p \in Ps /\ r.gen \in Nat /\ boot[j].st = "none"
       /\ p.enforce \in BOOLEAN /\ p.allow \subseteq Hosts /\ persistent \subseteq Hosts
  <2>1. answer[c].st = "plan" BY <1>1, <1>8
  <2>2. /\ r.i \in 1 .. N /\ r.pol \in Ps /\ r.gen \in Nat
        /\ r.gen = net[r.i].gen => boot[r.i].st = "none"
    BY <1>1, <2>1, PlanNow
  <2>3. Lists(p) BY <1>3, <2>2 DEF Hosted
  <2>4. persistent \subseteq Hosts BY HostsAssumption DEF EgressInv
  <2> QED BY <1>2, <1>3, <1>4, <1>8, <2>2, <2>3, <2>4 DEF Lists
<1>11. /\ SlotOK(Cs, Ps, j, slot[j], n, boot[j], answer, policy,
                 Past(Cs, answer, artifactHost, j), persistent)
       /\ n \in Spaces(Ps) /\ n.chain \in Chains
  BY <1>4, <1>10, SlotNow
<1>12. net' = [i \in 1 .. N |-> net'[i]] /\ net'[j] = m /\ \A i \in 1 .. N : i # j => net'[i] = net[i]
  <2>1. net = [i \in 1 .. N |-> net[i]] BY DEF EgressInv
  <2>2. net' = [net EXCEPT ![j].chain = Egress(Cs, N, Ps)!Run(@, Head(r.cmds)), ![j].pols = @ \union {p}]
    BY <1>1, <1>2, <1>3 DEF Egress!StepPlan
  <2>3. net' = [net EXCEPT ![j] = m] BY <1>4, <1>5, <1>7, <1>10, <2>1, <2>2
  <2> QED BY <1>10, <2>1, <2>3
<1>13. CallOK(N, Ps, r, slot, persistent) BY <1>1, CallNow
<1>14. r.built = TRUE BY <1>8, <1>13 DEF CallOK, Answers
<1>15. Steps(p, r.cmds, persistent) BY <1>3, <1>8, <1>13, <1>14 DEF CallOK
<1>16. ASSUME NEW S \in SUBSET persistent, NEW k \in 0 .. 4, r.cmds = Ahead(p, S, k)
       PROVE  Ran(p, S, k, n.chain, ch)
  <2>1. S \in SUBSET Hosts BY <1>10
  <2>2. PICK x : x = n.chain OBVIOUS
  <2>3. ch = Egress(Cs, N, Ps)!Run(x, Head(Ahead(p, S, k))) BY <1>5, <1>16, <2>2
  <2>4. Ahead(p, S, k) # <<>> /\ x \in Chains BY <1>8, <1>11, <1>16, <2>2
  <2>5. Lists(p) BY <1>10 DEF Lists
  <2>6. Ran(p, S, k, x, ch) BY <2>1, <2>3, <2>4, <2>5, RunStep
  <2> QED BY <2>2, <2>6
<1>17. PICK S \in SUBSET persistent, k \in 0 .. 4 : r.cmds = Ahead(p, S, k) BY <1>15 DEF Steps
<1>18. Tail(r.cmds) \in Seq(Commands)
  <2>1. r.cmds \in Seq(Commands) BY <1>8, <1>13 DEF CallOK, Answers
  <2> QED BY <1>8, <2>1
<1>19. /\ q \in Answers(N, Ps) /\ q.st = "plan" /\ q.i = j /\ q.gen = r.gen
       /\ q.pol = p /\ q.cmds = Tail(r.cmds) /\ q.built = r.built
  <2>1. r \in [st : {"plan"}, i : 1 .. N, pol : Ps, host : Stores \union {NoHost}, gen : Nat,
               cmds : Seq(Commands), built : BOOLEAN]
    BY <1>8, <1>13 DEF CallOK, Answers
  <2> QED BY <1>2, <1>3, <1>6, <1>18, <2>1 DEF Answers
<1>20. CallOK(N, Ps, q, slot', persistent')
  <2>1. Steps(q.pol, q.cmds, persistent)
    <3>1. Ran(p, S, k, n.chain, ch) BY <1>16, <1>17
    <3>2. k + 1 \in 0 .. 4 /\ Tail(Ahead(p, S, k)) = Ahead(p, S, k + 1) BY <3>1 DEF Ran
    <3>3. q.pol = p /\ q.cmds = Ahead(p, S, k + 1) BY <1>17, <1>19, <3>2, Zenon
    <3> QED BY <3>2, <3>3 DEF Steps
  <2>2. q.gen <= slot[q.i].gen BY <1>2, <1>8, <1>13, <1>19 DEF CallOK
  <2>3. FALSE # TRUE OBVIOUS
  <2> QED BY <1>8, <1>14, <1>19, <2>1, <2>2, <2>3 DEF CallOK
<1>21. SlotOK(Cs, Ps, j, slot[j], m, boot[j], answer', policy,
              Past(Cs, answer', artifactHost', j), persistent)
  <2>1. Within(slot[j], n, persistent) BY <1>10, <1>11 DEF SlotOK
  <2>2. ch \in Chains /\ S \subseteq persistent /\ Tight(p, S, n.chain, ch) BY <1>16, <1>17 DEF Ran
  <2>3. m \in Spaces(Ps) /\ m.gen = n.gen /\ m.odd = n.odd /\ m.chain = ch /\ Within(slot[j], m, persistent)
    <3>1. Stepped(Ps, slot[j], n, persistent, ch, m) BY <1>7, <1>10, <1>11, <2>1, <2>2, WithinStep
    <3> QED BY <3>1 DEF Stepped
  <2>4. CarriesOn(answer[c], q, policy, n.chain, m.chain, Past(Cs, answer, artifactHost, j), persistent)
    <3> DEFINE past == Past(Cs, answer, artifactHost, j)
    <3> HIDE DEF past
    <3> SUFFICES ASSUME p = policy, InStep(p, r.cmds, n.chain, past, persistent)
                 PROVE  InStep(p, q.cmds, ch, past, persistent)
      BY <1>1, <1>3, <1>14, <2>3 DEF CarriesOn, past
    <3>1. PICK S1 \in SUBSET persistent, k1 \in 0 .. 4 :
            r.cmds = Ahead(p, S1, k1) /\ Done(p, S1, k1, n.chain) /\ (p.enforce => past \subseteq S1)
      BY DEF InStep
    <3>2. k1 + 1 \in 0 .. 4 /\ Tail(r.cmds) = Ahead(p, S1, k1 + 1) /\ Done(p, S1, k1 + 1, ch)
      BY <1>16, <3>1 DEF Ran
    <3> QED BY <1>19, <3>1, <3>2 DEF InStep
  <2>5. At(answer, c, j, net[j].gen) /\ answer[c].st = "plan" BY <1>1, <1>2, <1>4, <1>8 DEF At
  <2>6. Programs(q, j, net[j].gen, answer[c].pol) BY <1>1, <1>3, <1>4, <1>8, <1>19 DEF Programs
  <2> QED BY <1>4, <1>8, <1>9, <1>10, <2>3, <2>4, <2>5, <2>6, PlanHere
<1>22. \A i \in 1 .. N : SlotOK(Cs, Ps, i, slot'[i], net'[i], boot'[i], answer', policy',
                                Past(Cs, answer', artifactHost', i), persistent')
  <2> TAKE i \in 1 .. N
  <2>1. CASE i = j BY <1>8, <1>12, <1>21, <2>1, Zenon
  <2>2. CASE i # j
    <3>1. ~At(answer, c, i, net[i].gen) BY <1>1, <1>2, <2>2 DEF At
    <3>2. answer[c].st = "plan" /\ q.i = answer[c].i /\ q.gen = answer[c].gen /\ q.pol = answer[c].pol
      BY <1>1, <1>2, <1>3, <1>8, <1>19
    <3>3. SlotOK(Cs, Ps, i, slot[i], net[i], boot[i], answer', policy,
                 Past(Cs, answer', artifactHost', i), persistent)
      BY <1>8, <1>9, <1>19, <3>1, <3>2, Elsewhere
    <3> QED BY <1>8, <1>12, <2>2, <3>3, Zenon
  <2> QED BY <2>1, <2>2
<1>23. \A d \in Cs : CallOK(N, Ps, answer'[d], slot', persistent')
  <2>1. \A i \in 1 .. N : slot'[i].gen \in Nat /\ slot[i].gen <= slot'[i].gen BY <1>8, SlotNow
  <2> QED BY <1>8, <1>9, <1>20, <2>1, CallsKept
<1>24. answer' = [d \in Cs |-> answer'[d]] BY <1>9, CallSet
<1>25. /\ policy' \in Ps /\ slot' = [i \in 1 .. N |-> slot'[i]]
       /\ boot' = [i \in 1 .. N |-> boot'[i]] /\ want'.targets \subseteq Hosts
       /\ persistent' \subseteq Stores /\ artifactHost' \in persistent' \union {NoHost}
  BY <1>8 DEF EgressInv
<1> QED BY <1>12, <1>22, <1>23, <1>24, <1>25, EgressAssemble

LEMMA GoingOn ==
    ASSUME NEW N, NEW from \in Int, NEW p, NEW q, Going(N, from, p, q), NEW i \in 1 .. N, i < from
    PROVE  (q.st = "plan" => q.i # i) /\ ~(q.st = "host" /\ q.i > i)
BY DEF Going

LEMMA BeginsThere ==
    ASSUME NEW Cs, NEW N, NEW Ps, NEW q, NEW p, NEW i, q.st = "plan" => q.i # i
    PROVE  i \notin Egress(Cs, N, Ps)!Begins(q, p)
BY DEF Egress!Begins

\* The call that programmed slot i goes on; it takes up none before the next one.
LEMMA NextSlot ==
    ASSUME NEW Cs, NEW N, NEW Ps, N \in Nat, EgressInv(Cs, N, Ps), NEW c \in Cs, answer[c].st = "plan",
           NEW q, q = Egress(Cs, N, Ps)!ApplyFrom(answer[c].i + 1, answer[c].pol, answer[c].host)
    PROVE  /\ GoesTo(N, Ps, answer[c].i + 1, answer[c].pol, answer[c].host, q)
           /\ CallOK(N, Ps, q, slot, persistent)
           /\ \A i \in 1 .. N : i <= answer[c].i =>
                i \notin Egress(Cs, N, Ps)!Begins(q, policy) /\ ~(q.st = "plan" /\ q.i = i)
                /\ ~(q.st = "host" /\ q.i > i)
<1>1. /\ answer[c].i \in 1 .. N /\ answer[c].i + 1 \in 1 .. (N + 1) /\ answer[c].pol \in Ps
      /\ answer[c].host \in Stores \union {NoHost}
  BY PlanNow
<1>2. GoesTo(N, Ps, answer[c].i + 1, answer[c].pol, answer[c].host, q) BY <1>1, ApplyOutcome
<1>3. CallOK(N, Ps, q, slot, persistent) /\ Going(N, answer[c].i + 1, answer[c].pol, q)
  BY <1>1, <1>2, GoesFacts
<1>4. ASSUME NEW i \in 1 .. N, i <= answer[c].i
      PROVE  i \notin Egress(Cs, N, Ps)!Begins(q, policy) /\ ~(q.st = "plan" /\ q.i = i)
             /\ ~(q.st = "host" /\ q.i > i)
  <2>1. (q.st = "plan" => q.i # i) /\ ~(q.st = "host" /\ q.i > i)
    <3>1. PICK from : from = answer[c].i + 1 OBVIOUS
    <3>2. from \in Int /\ i < from BY <1>1, <1>4, <3>1
    <3> QED BY <1>3, <3>1, <3>2, GoingOn, Zenon
  <2>2. i \notin Egress(Cs, N, Ps)!Begins(q, policy) BY <2>1, BeginsThere
  <2> QED BY <2>1, <2>2, Zenon
<1> QED BY <1>2, <1>3, <1>4

LEMMA FailsStep ==
    ASSUME NEW Cs, NEW N, NEW Ps, N \in Nat, EgressInv(Cs, N, Ps), NEW c \in Cs,
           Egress(Cs, N, Ps)!PlanFails(c)
    PROVE  EgressInv(Cs, N, Ps)'
<1>1. PICK r : r = answer[c] OBVIOUS
<1>2. PICK q : q = Egress(Cs, N, Ps)!ApplyFrom(r.i + 1, r.pol, r.host) OBVIOUS
<1>3. PICK is : is = Egress(Cs, N, Ps)!Begins(q, policy) \union (IF net[r.i].gen = r.gen THEN {r.i} ELSE {})
  OBVIOUS
<1>4. /\ r.st = "plan" /\ answer' = [answer EXCEPT ![c] = q]
      /\ UNCHANGED <<policy, artifactHost, persistent, slot, boot, want>>
  BY <1>1, <1>2 DEF Egress!PlanFails, Egress!SetCall
<1>5. Egress(Cs, N, Ps)!MarkOdd(is) BY <1>1, <1>2, <1>3 DEF Egress!PlanFails, Egress!Alive
<1>6. /\ r.i \in 1 .. N /\ r.i + 1 \in 1 .. (N + 1) /\ r.pol \in Ps /\ r.host \in Stores \union {NoHost}
  BY <1>1, <1>4, PlanNow
<1>7. GoesTo(N, Ps, r.i + 1, r.pol, r.host, q) /\ CallOK(N, Ps, q, slot, persistent)
  BY <1>1, <1>2, <1>4, NextSlot
<1>8. ASSUME NEW i \in 1 .. N
      PROVE  SlotOK(Cs, Ps, i, slot'[i], net'[i], boot'[i], answer', policy',
                    Past(Cs, answer', artifactHost', i), persistent')
  <2>1. /\ SlotOK(Cs, Ps, i, slot[i], net[i], boot[i], answer, policy,
                  Past(Cs, answer, artifactHost, i), persistent)
        /\ (i \in is => net'[i] = [net[i] EXCEPT !.odd = TRUE]) /\ (i \notin is => net'[i] = net[i])
    BY <1>5, SlotNow, MarkedNow
  <2>2. CASE i \in is
    <3>1. SlotOK(Cs, Ps, i, slot[i], net'[i], boot[i], answer', policy,
                 Past(Cs, answer', artifactHost', i), persistent)
      BY <2>1, <2>2, OddSlot
    <3> QED BY <1>4, <3>1, Zenon
  <2>3. CASE i \notin is
    <3>1. ~At(answer, c, i, net[i].gen) BY <1>1, <1>3, <2>3 DEF At
    <3>2. PICK m : m = [net[i] EXCEPT !.odd = net[i].odd \/ i \in is] OBVIOUS
    <3>3. net'[i] = m BY <1>5, <3>2, MarkedNet
    <3>4. Egress(Cs, N, Ps)!Begins(q, policy) \subseteq is BY <1>3
    <3>5. answer[c].st = "plan" => r.i + 1 = answer[c].i + 1 /\ answer[c].pol = r.pol BY <1>1
    <3>6. SlotOK(Cs, Ps, i, slot[i], m, boot[i], answer', policy,
                 Past(Cs, answer', artifactHost', i), persistent)
      BY <1>4, <1>6, <1>7, <3>1, <3>2, <3>4, <3>5, PlanGoesOn
    <3> QED BY <1>4, <3>3, <3>6, Zenon
  <2> QED BY <2>2, <2>3
<1>9. \A d \in Cs : CallOK(N, Ps, answer'[d], slot', persistent')
  <2>1. \A i \in 1 .. N : slot'[i].gen \in Nat /\ slot[i].gen <= slot'[i].gen BY <1>4, SlotNow
  <2>2. persistent \subseteq persistent' /\ CallOK(N, Ps, q, slot', persistent') BY <1>4, <1>7
  <2> QED BY <1>4, <2>1, <2>2, CallsKept
<1>10. answer' = [d \in Cs |-> answer'[d]] BY <1>4, CallSet
<1>11. /\ policy' \in Ps /\ slot' = [i \in 1 .. N |-> slot'[i]] /\ net' = [i \in 1 .. N |-> net'[i]]
       /\ boot' = [i \in 1 .. N |-> boot'[i]] /\ want'.targets \subseteq Hosts
       /\ persistent' \subseteq Stores /\ artifactHost' \in persistent' \union {NoHost}
  BY <1>4, <1>5, MarkedNet DEF EgressInv
<1> QED BY <1>8, <1>9, <1>10, <1>11, EgressAssemble

LEMMA EndStep ==
    ASSUME NEW Cs, NEW N, NEW Ps, N \in Nat, Hosted(Ps), EgressInv(Cs, N, Ps), NEW c \in Cs,
           Egress(Cs, N, Ps)!EndPlan(c)
    PROVE  EgressInv(Cs, N, Ps)'
<1>1. PICK r : r = answer[c] OBVIOUS
<1>2. PICK q : q = Egress(Cs, N, Ps)!ApplyFrom(r.i + 1, r.pol, r.host) OBVIOUS
<1>3. PICK is : is = Egress(Cs, N, Ps)!Begins(q, policy) OBVIOUS
<1>4. /\ r.st = "plan" /\ r.cmds = <<>> /\ answer' = [answer EXCEPT ![c] = q]
      /\ UNCHANGED <<policy, artifactHost, persistent, boot, want>>
      /\ slot' = [slot EXCEPT ![r.i].sig = IF slot[r.i].gen = r.gen THEN r.pol ELSE @]
  BY <1>1, <1>2 DEF Egress!EndPlan, Egress!SetCall
<1>5. Egress(Cs, N, Ps)!MarkOdd(is) BY <1>1, <1>2, <1>3 DEF Egress!EndPlan
<1>6. /\ r.i \in 1 .. N /\ r.i + 1 \in 1 .. (N + 1) /\ r.pol \in Ps /\ r.host \in Stores \union {NoHost}
      /\ r.gen \in Nat /\ r.gen <= slot[r.i].gen
  BY <1>1, <1>4, PlanNow
<1>7. GoesTo(N, Ps, r.i + 1, r.pol, r.host, q) /\ CallOK(N, Ps, q, slot, persistent)
  BY <1>1, <1>2, <1>4, NextSlot
<1>8. r.built = TRUE
  <2>1. r.built BY <1>1 DEF Egress!EndPlan
  <2>2. r.built \in BOOLEAN BY <1>1, <1>4, CallNow DEF CallOK, Answers
  <2> QED BY <2>1, <2>2
<1>9. PICK s2 : s2 = [slot[r.i] EXCEPT !.sig = r.pol] OBVIOUS
<1>10. /\ slot' = [i \in 1 .. N |-> slot'[i]] /\ \A i \in 1 .. N : i # r.i => slot'[i] = slot[i]
       /\ slot[r.i].gen = r.gen => slot'[r.i] = s2
       /\ slot[r.i].gen # r.gen => slot'[r.i] = slot[r.i]
  <2>1. slot = [i \in 1 .. N |-> slot[i]] BY DEF EgressInv
  <2>2. slot[r.i] \in Entries(Ps) BY <1>6, SlotNow
  <2>3. CASE slot[r.i].gen = r.gen
    <3>1. slot' = [slot EXCEPT ![r.i] = s2] BY <1>4, <1>6, <1>9, <2>1, <2>3
    <3> QED BY <1>6, <2>1, <2>3, <3>1
  <2>4. CASE slot[r.i].gen # r.gen
    <3>1. slot[r.i] = [slot[r.i] EXCEPT !.sig = slot[r.i].sig] BY <2>2 DEF Entries
    <3>2. slot' = [slot EXCEPT ![r.i] = slot[r.i]] BY <1>4, <1>6, <2>1, <2>4, <3>1
    <3> QED BY <1>6, <2>1, <2>4, <3>2
  <2> QED BY <2>3, <2>4
<1>11. \A i \in 1 .. N : ~At(answer, c, i, net[i].gen) =>
         SlotOK(Cs, Ps, i, slot[i], net'[i], boot[i], answer', policy,
                Past(Cs, answer', artifactHost', i), persistent)
  <2> SUFFICES ASSUME NEW i \in 1 .. N, ~At(answer, c, i, net[i].gen)
               PROVE  SlotOK(Cs, Ps, i, slot[i], net'[i], boot[i], answer', policy,
                             Past(Cs, answer', artifactHost', i), persistent)
    OBVIOUS
  <2>1. PICK m : m = [net[i] EXCEPT !.odd = net[i].odd \/ i \in is] OBVIOUS
  <2>2. net'[i] = m BY <1>5, <2>1, MarkedNet
  <2>3. Egress(Cs, N, Ps)!Begins(q, policy) \subseteq is BY <1>3
  <2>4. answer[c].st = "plan" => r.i + 1 = answer[c].i + 1 /\ answer[c].pol = r.pol BY <1>1
  <2>5. SlotOK(Cs, Ps, i, slot[i], m, boot[i], answer', policy,
               Past(Cs, answer', artifactHost', i), persistent)
    BY <1>4, <1>6, <1>7, <2>1, <2>3, <2>4, PlanGoesOn
  <2> QED BY <2>2, <2>5, Zenon
<1>12. ASSUME NEW i \in 1 .. N
       PROVE  SlotOK(Cs, Ps, i, slot'[i], net'[i], boot'[i], answer', policy',
                     Past(Cs, answer', artifactHost', i), persistent')
  <2>1. CASE i # r.i \/ slot[r.i].gen # r.gen
    <3>1. slot'[i] = slot[i] BY <1>10, <2>1
    <3>2. ~At(answer, c, i, net[i].gen)
      <4>1. CASE i # r.i BY <1>1, <4>1 DEF At
      <4>2. CASE i = r.i /\ slot[i].gen # r.gen
        <5>1. slot[i].gen \in Nat /\ net[i].gen \in Nat /\ slot[i].gen <= net[i].gen BY SlotNow
        <5>2. r.gen # net[i].gen BY <1>6, <4>2, <5>1
        <5> QED BY <1>1, <5>2 DEF At
      <4> QED BY <2>1, <4>1, <4>2
    <3> QED BY <1>4, <1>11, <3>1, <3>2, Zenon
  <2>2. CASE i = r.i /\ slot[i].gen = r.gen /\ boot[i].st # "none"
    <3>1. slot'[i] = s2 BY <1>10, <2>2
    <3>2. ~At(answer, c, i, net[i].gen)
      <4>1. slot[i].gen # net[i].gen BY <2>2, SlotNow
      <4> QED BY <1>1, <2>2, <4>1 DEF At
    <3>3. SlotOK(Cs, Ps, i, slot[i], net'[i], boot[i], answer', policy,
                 Past(Cs, answer', artifactHost', i), persistent)
      BY <1>11, <3>2
    <3>4. SlotOK(Cs, Ps, i, s2, net'[i], boot[i], answer', policy,
                 Past(Cs, answer', artifactHost', i), persistent)
      BY <1>6, <1>9, <2>2, <3>3, BusySlot
    <3> QED BY <1>4, <3>1, <3>4, Zenon
  <2>3. CASE i = r.i /\ slot[i].gen = r.gen /\ boot[i].st = "none"
    <3>1. slot'[i] = s2 BY <1>10, <2>3
    <3>2. /\ SlotOK(Cs, Ps, i, slot[i], net[i], boot[i], answer, policy,
                    Past(Cs, answer, artifactHost, i), persistent)
          /\ net[i].gen = r.gen
      BY <2>3, SlotNow
    <3>3. At(answer, c, i, net[i].gen) BY <1>1, <1>4, <2>3, <3>2 DEF At
    <3>4. /\ i \notin is /\ ~(q.st = "plan" /\ q.i = i) /\ ~(q.st = "host" /\ q.i > i)
      BY <1>1, <1>2, <1>3, <1>4, <1>6, <2>3, NextSlot
    <3>5. net'[i] = net[i]
      <4>1. (i \in is => net'[i] = [net[i] EXCEPT !.odd = TRUE]) /\ (i \notin is => net'[i] = net[i])
        BY <1>5, MarkedNow
      <4> QED BY <3>4, <4>1
    <3>6. answer = [d \in Cs |-> answer[d]] /\ policy \in Ps BY DEF EgressInv
    <3>7. Past(Cs, answer', artifactHost', i) \subseteq Past(Cs, answer, artifactHost, i)
      BY <1>4, <3>4, <3>6, PastMoves
    <3>8. policy.enforce \in BOOLEAN BY <3>6 DEF Hosted, Lists
    <3>9. Finishes(Ps, answer[c]) /\ Away(q, i) /\ s2 = [slot[i] EXCEPT !.sig = answer[c].pol]
      BY <1>1, <1>4, <1>6, <1>8, <1>9, <2>3, <3>4 DEF Finishes, Away
    <3>10. SlotOK(Cs, Ps, i, s2, net[i], boot[i], answer', policy,
                  Past(Cs, answer', artifactHost', i), persistent)
      BY <1>4, <2>3, <3>2, <3>3, <3>4, <3>6, <3>7, <3>8, <3>9, PlanEnds
    <3> QED BY <1>4, <3>1, <3>5, <3>10, Zenon
  <2> QED BY <2>1, <2>2, <2>3
<1>13. \A d \in Cs : CallOK(N, Ps, answer'[d], slot', persistent')
  <2>1. ASSUME NEW i \in 1 .. N PROVE slot'[i].gen \in Nat /\ slot'[i].gen = slot[i].gen
    <3>1. slot[i].gen \in Nat /\ slot[i] \in Entries(Ps) BY SlotNow
    <3>2. i = r.i => s2.gen = slot[i].gen BY <1>9, <3>1 DEF Entries
    <3> QED BY <1>10, <3>1, <3>2
  <2>2. \A i \in 1 .. N : slot'[i].gen \in Nat /\ slot[i].gen <= slot'[i].gen
    <3> TAKE i \in 1 .. N
    <3>1. PICK g : g = slot[i].gen OBVIOUS
    <3> QED BY <2>1, <3>1
  <2>3. \A i \in 1 .. N : slot[i].gen \in Nat BY SlotNow
  <2>4. persistent \subseteq persistent' BY <1>4
  <2>5. CallOK(N, Ps, q, slot', persistent') BY <1>7, <2>2, <2>3, <2>4, CallKept
  <2> QED BY <1>4, <2>2, <2>4, <2>5, CallsKept
<1>14. answer' = [d \in Cs |-> answer'[d]] BY <1>4, CallSet
<1>15. /\ policy' \in Ps /\ net' = [i \in 1 .. N |-> net'[i]]
       /\ boot' = [i \in 1 .. N |-> boot'[i]] /\ want'.targets \subseteq Hosts
       /\ persistent' \subseteq Stores /\ artifactHost' \in persistent' \union {NoHost}
  BY <1>4, <1>5, MarkedNet DEF EgressInv
<1> QED BY <1>10, <1>12, <1>13, <1>14, <1>15, EgressAssemble

-----------------------------------------------------------------------------
(* The object store's host.                                                *)

\* A call that is not programming anything becomes idle; the client may take the host for open.
LEMMA HostDone ==
    ASSUME NEW Cs, NEW N, NEW Ps, N \in Nat, EgressInv(Cs, N, Ps), NEW c \in Cs, answer[c].st # "plan",
           answer' = [answer EXCEPT ![c] = Egress(Cs, N, Ps)!Idle],
           UNCHANGED <<policy, persistent, slot, net, boot, want>>,
           artifactHost' = artifactHost \/
             (answer[c].st = "host" /\ answer[c].i = N + 1 /\ artifactHost' = answer[c].host)
    PROVE  EgressInv(Cs, N, Ps)'
<1>1. PICK q : q = [st |-> "idle"] OBVIOUS
<1>2. answer' = [answer EXCEPT ![c] = q] /\ q.st = "idle" BY <1>1 DEF Egress!Idle
<1>3. CallOK(N, Ps, q, slot, persistent') BY <1>1 DEF CallOK, Answers
<1>4. answer = [d \in Cs |-> answer[d]] /\ artifactHost \in persistent \union {NoHost} /\ persistent \subseteq Stores
  BY DEF EgressInv
<1>5. CallOK(N, Ps, answer[c], slot, persistent) BY CallNow
<1>6. \A i \in 1 .. N : Past(Cs, answer', artifactHost', i) \subseteq Past(Cs, answer, artifactHost, i)
  <2> TAKE i \in 1 .. N
  <2>1. artifactHost' = artifactHost \/ artifactHost' \in Past(Cs, answer, artifactHost, i)
    <3> SUFFICES ASSUME answer[c].st = "host", answer[c].i = N + 1, artifactHost' = answer[c].host
                 PROVE  artifactHost' \in Past(Cs, answer, artifactHost, i)
      OBVIOUS
    <3>1. answer[c].i > i /\ answer[c].i >= 1 OBVIOUS
    <3>2. answer[c].host \in Stores BY <1>4, <1>5, <3>1 DEF CallOK
    <3> QED BY <3>1, <3>2 DEF Past
  <2>2. ~(q.st = "host" /\ q.i > i) BY <1>2
  <2> QED BY <1>2, <1>4, <2>1, <2>2, PastMoves
<1>7. artifactHost' \in persistent' \union {NoHost}
  <2>1. CASE artifactHost' = artifactHost BY <1>4, <2>1
  <2>2. CASE answer[c].st = "host" /\ answer[c].i = N + 1 /\ artifactHost' = answer[c].host
    <3>1. answer[c].i >= 1 BY <2>2
    <3> QED BY <1>5, <2>2, <3>1 DEF CallOK
  <2> QED BY <2>1, <2>2
<1>8. persistent \subseteq persistent' /\ persistent' \subseteq Stores BY <1>4
<1>9. q.st # "plan" BY <1>2
<1> QED BY <1>2, <1>3, <1>6, <1>7, <1>8, <1>9, CallOnly

LEMMA SameHostStep ==
    ASSUME NEW Cs, NEW N, NEW Ps, N \in Nat, EgressInv(Cs, N, Ps), NEW c \in Cs,
           Egress(Cs, N, Ps)!SameHost(c) \/ Egress(Cs, N, Ps)!AllowHostFails(c)
    PROVE  EgressInv(Cs, N, Ps)'
<1>1. /\ answer[c].st # "plan" /\ answer' = [answer EXCEPT ![c] = Egress(Cs, N, Ps)!Idle]
      /\ UNCHANGED <<policy, persistent, slot, net, boot, want>> /\ artifactHost' = artifactHost
  BY DEF Egress!SameHost, Egress!AllowHostFails, Egress!SetCall
<1> QED BY <1>1, HostDone

LEMMA AllowedStep ==
    ASSUME NEW Cs, NEW N, NEW Ps, N \in Nat, EgressInv(Cs, N, Ps), NEW c \in Cs,
           Egress(Cs, N, Ps)!HostAllowed(c)
    PROVE  EgressInv(Cs, N, Ps)'
<1>1. /\ answer[c].st # "plan" /\ answer' = [answer EXCEPT ![c] = Egress(Cs, N, Ps)!Idle]
      /\ UNCHANGED <<policy, persistent, slot, net, boot, want>>
      /\ answer[c].st = "host" /\ answer[c].i = N + 1 /\ artifactHost' = answer[c].host
  BY DEF Egress!HostAllowed, Egress!SetCall
<1> QED BY <1>1, HostDone

LEMMA RememberStep ==
    ASSUME NEW Cs, NEW N, NEW Ps, N \in Nat, Hosted(Ps), EgressInv(Cs, N, Ps), NEW c \in Cs,
           Egress(Cs, N, Ps)!RememberHost(c)
    PROVE  EgressInv(Cs, N, Ps)'
<1>1. PICK r : r = answer[c] OBVIOUS
<1>2. /\ r.st = "host" /\ r.i = 0 /\ r.host # NoHost /\ persistent' = persistent \union {r.host}
      /\ UNCHANGED <<policy, slot, boot, want>>
  BY <1>1 DEF Egress!RememberHost
<1>3. r \in Answers(N, Ps) BY <1>1, CallNow DEF CallOK
<1>4. r = [st |-> "host", i |-> 0, host |-> r.host] /\ r.host \in Stores BY <1>2, <1>3 DEF Answers
<1>5. persistent \subseteq persistent' /\ persistent' \subseteq Stores BY <1>2, <1>4 DEF EgressInv
<1>6. answer = [d \in Cs |-> answer[d]] /\ policy \in Ps BY DEF EgressInv
<1>7. CASE policy.enforce
  <2>1. PICK q : q = [st |-> "host", i |-> 1, host |-> r.host] OBVIOUS
  <2>2. answer' = [answer EXCEPT ![c] = q] /\ UNCHANGED <<artifactHost, net>>
    <3>1. answer' = [answer EXCEPT ![c] = [r EXCEPT !.i = 1]] /\ UNCHANGED <<artifactHost, net>>
      BY <1>1, <1>7 DEF Egress!RememberHost, Egress!SetCall
    <3>2. [r EXCEPT !.i = 1] = q BY <1>4, <2>1
    <3> QED BY <3>1, <3>2
  <2>3. 1 \in 0 .. (N + 1) OBVIOUS
  <2>4. q \in Answers(N, Ps) /\ q.st = "host" /\ q.i = 1 /\ q.host = r.host BY <1>4, <2>1, <2>3, HostCall
  <2>5. CallOK(N, Ps, q, slot, persistent') BY <1>2, <2>4 DEF CallOK
  <2>6. \A i \in 1 .. N : Past(Cs, answer', artifactHost', i) \subseteq Past(Cs, answer, artifactHost, i)
    <3> TAKE i \in 1 .. N
    <3>1. ~(q.st = "host" /\ q.i > i) BY <2>4
    <3>2. artifactHost' = artifactHost BY <2>2
    <3> QED BY <1>6, <2>2, <3>1, <3>2, PastMoves
  <2>7. artifactHost' \in persistent' \union {NoHost} BY <1>5, <2>2 DEF EgressInv
  <2>8. answer[c].st # "plan" /\ q.st # "plan" BY <1>1, <1>2, <2>4
  <2> QED BY <1>2, <1>5, <2>2, <2>5, <2>6, <2>7, <2>8, CallOnly
<1>8. CASE ~policy.enforce
  <2>1. PICK q : q = [st |-> "idle"] OBVIOUS
  <2>2. PICK is : is = {i \in 1 .. N : slot[i].sig.enforce} OBVIOUS
  <2>3. answer' = [answer EXCEPT ![c] = q] /\ artifactHost' = r.host
    BY <1>1, <1>8, <2>1 DEF Egress!RememberHost, Egress!SetCall, Egress!Idle
  <2>4. Egress(Cs, N, Ps)!MarkOdd(is) BY <1>1, <1>8, <2>2, Zenon DEF Egress!RememberHost, Egress!Slots
  <2>5. CallOK(N, Ps, q, slot', persistent') BY <2>1 DEF CallOK, Answers
  <2>6. policy.enforce = FALSE BY <1>6, <1>8 DEF Hosted, Lists
  <2>7. ASSUME NEW i \in 1 .. N
        PROVE  SlotOK(Cs, Ps, i, slot'[i], net'[i], boot'[i], answer', policy',
                      Past(Cs, answer', artifactHost', i), persistent')
    <3>1. /\ SlotOK(Cs, Ps, i, slot[i], net[i], boot[i], answer, policy,
                    Past(Cs, answer, artifactHost, i), persistent)
          /\ slot[i].sig \in Ps
      BY SlotNow
    <3>2. (i \in is => net'[i] = [net[i] EXCEPT !.odd = TRUE]) /\ (i \notin is => net'[i] = net[i])
      BY <2>4, MarkedNow
    <3>3. CASE i \in is
      <4>1. SlotOK(Cs, Ps, i, slot[i], net'[i], boot[i], answer', policy,
                   Past(Cs, answer', artifactHost', i), persistent')
        BY <1>5, <3>1, <3>2, <3>3, OddSlot
      <4> QED BY <1>2, <4>1, Zenon
    <3>4. CASE i \notin is
      <4>1. slot[i].sig.enforce = FALSE BY <2>2, <3>1, <3>4 DEF Hosted, Lists
      <4>2. PICK past2 : past2 = Past(Cs, answer', artifactHost', i) OBVIOUS
      <4>3. SlotOK(Cs, Ps, i, slot[i], net[i], boot[i], answer, policy, past2, persistent)
        BY <2>6, <3>1, <4>1, OpenSlot
      <4>4. ~At(answer, c, i, net[i].gen) /\ ~(q.st = "plan" /\ q.i = i /\ q.gen = net[i].gen)
            /\ ~Pends(answer, c, policy, i, net[i].gen)
        BY <1>1, <1>2, <2>1 DEF At, Pends
      <4>5. past2 \subseteq past2 OBVIOUS
      <4>6. SlotOK(Cs, Ps, i, slot[i], net[i], boot[i], answer', policy, past2, persistent')
        BY <1>5, <1>6, <2>3, <4>3, <4>4, <4>5, CallMoves
      <4> QED BY <1>2, <3>2, <3>4, <4>2, <4>6, Zenon
    <3> QED BY <3>3, <3>4
  <2>8. \A d \in Cs : CallOK(N, Ps, answer'[d], slot', persistent')
    <3>1. \A i \in 1 .. N : slot'[i].gen \in Nat /\ slot[i].gen <= slot'[i].gen BY <1>2, SlotNow
    <3> QED BY <1>5, <2>3, <2>5, <3>1, CallsKept
  <2>9. answer' = [d \in Cs |-> answer'[d]] BY <2>3, CallSet
  <2>10. /\ policy' \in Ps /\ slot' = [i \in 1 .. N |-> slot'[i]] /\ net' = [i \in 1 .. N |-> net'[i]]
         /\ boot' = [i \in 1 .. N |-> boot'[i]] /\ want'.targets \subseteq Hosts
         /\ persistent' \subseteq Stores /\ artifactHost' \in persistent' \union {NoHost}
    BY <1>2, <1>5, <2>3, <2>4, MarkedNet DEF EgressInv
  <2> QED BY <2>7, <2>8, <2>9, <2>10, EgressAssemble
<1> QED BY <1>7, <1>8

\* A rule is inserted in a slot in use; its lease may go on to run or to close.
Inserted(Ps, n, H, m) ==
    /\ m \in Spaces(Ps) /\ m.gen = n.gen /\ m.pols = n.pols
    /\ m.chain.default = n.chain.default /\ m.chain.reject = n.chain.reject
    /\ m.chain.allow = n.chain.allow \union H
LeaseOnly(Ps, s, s2) ==
    /\ s2 \in Entries(Ps) /\ s2.gen = s.gen /\ s2.sig = s.sig /\ s2.lease.targets = s.lease.targets
    /\ s2.lease.st = "free" <=> s.lease.st = "free"
Untouched(Cs, i, s, n, m, a) ==
    m.odd = FALSE => n.odd = FALSE /\ (s.lease.st = "free" => \A d \in Cs : ~At(a, d, i, n.gen))

LEMMA InsertSlot ==
    ASSUME NEW Cs, NEW Ps, NEW i, NEW s, NEW n, NEW b, NEW a, NEW p, NEW past, NEW per,
           SlotOK(Cs, Ps, i, s, n, b, a, p, past, per), b.st = "none",
           NEW s2, LeaseOnly(Ps, s, s2), NEW H, NEW m, Inserted(Ps, n, H, m),
           H \subseteq per \union s.lease.targets, Untouched(Cs, i, s, n, m, a),
           m.odd = FALSE /\ s.sig.enforce => Given(s2) \subseteq Given(s) \union H,
           NEW past2, past2 \subseteq past \union H
    PROVE  SlotOK(Cs, Ps, i, s2, m, b, a, p, past2, per)
<1>1. Within(s2, m, per)
  <2>1. Within(s, n, per) BY DEF SlotOK
  <2> QED BY <2>1 DEF Within, Inserted, LeaseOnly
<1>2. ASSUME m.odd = FALSE PROVE Clear(Cs, i, s2, m, a, p, past2, per)
  <2>1. n.odd = FALSE /\ (s.lease.st = "free" => \A d \in Cs : ~At(a, d, i, n.gen)) BY <1>2 DEF Untouched
  <2>2. Clear(Cs, i, s, n, a, p, past, per) BY <2>1 DEF SlotOK
  <2>3. \A d \in Cs : ~At(a, d, i, n.gen) BY <2>1, <2>2 DEF Clear
  <2>4. Settled(s, n.chain, past, per) BY <2>2, <2>3 DEF Clear
  <2>5. Settled(s2, m.chain, past2, per)
    <3>1. s2.sig = s.sig /\ s2.lease.targets = s.lease.targets BY DEF LeaseOnly
    <3>2. m.chain.default = n.chain.default /\ m.chain.reject = n.chain.reject
          /\ m.chain.allow = n.chain.allow \union H
      BY DEF Inserted
    <3>3. CASE s.sig.enforce
      <4>1. Given(s2) \subseteq Given(s) \union H BY <1>2, <3>3
      <4> QED BY <2>4, <3>1, <3>2, <3>3, <4>1 DEF Settled
    <3>4. CASE ~s.sig.enforce BY <2>4, <3>1, <3>2, <3>4 DEF Settled
    <3> QED BY <3>3, <3>4
  <2>6. ASSUME s2.lease.st = "free", s2.sig # p PROVE \E d \in Cs : Pends(a, d, p, i, n.gen)
    BY <2>2, <2>6 DEF LeaseOnly, Clear
  <2>7. m.gen = n.gen BY DEF Inserted
  <2> QED BY <2>3, <2>5, <2>6, <2>7 DEF Clear
<1> QED BY <1>1, <1>2 DEF SlotOK, Inserted, LeaseOnly

RuleAdded(n, H, o) == [n EXCEPT !.chain = [n.chain EXCEPT !.allow = n.chain.allow \union H], !.odd = o]

LEMMA InsertedIs ==
    ASSUME NEW Ps, NEW n \in Spaces(Ps), NEW H \in SUBSET Hosts, NEW o \in BOOLEAN,
           NEW m, m = RuleAdded(n, H, o)
    PROVE  Inserted(Ps, n, H, m) /\ m.odd = o
<1>1. PICK ch : ch = [n.chain EXCEPT !.allow = n.chain.allow \union H] OBVIOUS
<1>2. m = [n EXCEPT !.chain = ch, !.odd = o] BY <1>1 DEF RuleAdded
<1>3. n.chain \in Chains BY DEF Spaces
<1>4. /\ ch \in Chains /\ ch.default = n.chain.default /\ ch.reject = n.chain.reject
      /\ ch.allow = n.chain.allow \union H
  BY <1>3, <1>1 DEF Chains
<1>5. m \in Spaces(Ps) /\ m.gen = n.gen /\ m.pols = n.pols /\ m.chain = ch /\ m.odd = o
  BY <1>4, <1>2 DEF Spaces
<1> QED BY <1>4, <1>5 DEF Inserted

LEMMA InsertedOnly ==
    ASSUME NEW Ps, NEW n \in Spaces(Ps), NEW H \in SUBSET Hosts, NEW m,
           m = [n EXCEPT !.chain = [n.chain EXCEPT !.allow = n.chain.allow \union H]]
    PROVE  Inserted(Ps, n, H, m) /\ m.odd = n.odd
<1>1. n.chain \in Chains BY DEF Spaces
<1>2. PICK ch : ch = [n.chain EXCEPT !.allow = n.chain.allow \union H] OBVIOUS
<1>3. /\ ch \in Chains /\ ch.default = n.chain.default /\ ch.reject = n.chain.reject
      /\ ch.allow = n.chain.allow \union H
  BY <1>1, <1>2 DEF Chains
<1>4. m = [n EXCEPT !.chain = ch] BY <1>2
<1>5. m \in Spaces(Ps) /\ m.gen = n.gen /\ m.pols = n.pols /\ m.chain = ch /\ m.odd = n.odd
  BY <1>3, <1>4 DEF Spaces
<1> QED BY <1>3, <1>5 DEF Inserted

LEMMA InsertedNone ==
    ASSUME NEW Ps, NEW n \in Spaces(Ps)
    PROVE  Inserted(Ps, n, {}, n)
BY DEF Inserted

LEMMA AllowStep ==
    ASSUME NEW Cs, NEW N, NEW Ps, N \in Nat, EgressInv(Cs, N, Ps), NEW c \in Cs,
           Egress(Cs, N, Ps)!AllowHost(c)
    PROVE  EgressInv(Cs, N, Ps)'
<1>1. PICK r : r = answer[c] OBVIOUS
<1>2. PICK j : j = r.i OBVIOUS
<1>3. PICK n : n = net[j] OBVIOUS
<1>4. PICK q : q = [r EXCEPT !.i = j + 1] OBVIOUS
<1>5. PICK o : o = (n.odd \/ Egress(Cs, N, Ps)!Programming(j) # {}) OBVIOUS
<1>6. PICK ch : ch = [n.chain EXCEPT !.allow = n.chain.allow \union {r.host}] OBVIOUS
<1>7. PICK m : m = [n EXCEPT !.chain = ch, !.odd = o] OBVIOUS
<1>8. m = RuleAdded(n, {r.host}, o) BY <1>7, <1>6 DEF RuleAdded
<1>9. /\ r.st = "host" /\ j \in 1 .. N /\ n.gen = slot[j].gen
      /\ UNCHANGED <<policy, artifactHost, persistent, slot, boot, want>>
      /\ answer' = [answer EXCEPT ![c] = q]
  BY <1>1, <1>2, <1>3, <1>4 DEF Egress!AllowHost, Egress!SetCall, Egress!Slots, Egress!Alive
<1>10. r \in Answers(N, Ps) /\ r.host \in persistent
  <2>1. CallOK(N, Ps, r, slot, persistent) BY <1>1, CallNow
  <2>2. r.i >= 1 BY <1>2, <1>9
  <2> QED BY <1>9, <2>1, <2>2 DEF CallOK
<1>11. r = [st |-> "host", i |-> j, host |-> r.host] /\ r.host \in Stores /\ r.host \in Hosts
  <2>1. persistent \subseteq Stores BY DEF EgressInv
  <2> QED BY <1>2, <1>9, <1>10, <2>1, HostsAssumption DEF Answers
<1>12. q \in Answers(N, Ps) /\ q.st = "host" /\ q.i = j + 1 /\ q.host = r.host
  <2>1. j + 1 \in 0 .. (N + 1) BY <1>9
  <2>2. q = [st |-> "host", i |-> j + 1, host |-> r.host] BY <1>4, <1>11
  <2> QED BY <1>11, <2>1, <2>2, HostCall
<1>13. CallOK(N, Ps, q, slot', persistent') BY <1>9, <1>10, <1>12 DEF CallOK
<1>14. /\ SlotOK(Cs, Ps, j, slot[j], n, boot[j], answer, policy,
                 Past(Cs, answer, artifactHost, j), persistent)
       /\ n \in Spaces(Ps) /\ boot[j].st = "none" /\ slot[j] \in Entries(Ps)
  BY <1>3, <1>9, SlotNow
<1>15. net' = [i \in 1 .. N |-> net'[i]] /\ net'[j] = m /\ \A i \in 1 .. N : i # j => net'[i] = net[i]
  <2>1. net = [i \in 1 .. N |-> net[i]] BY DEF EgressInv
  <2>2. net' = [net EXCEPT ![j].chain = Egress(Cs, N, Ps)!InsertRule(@, {r.host}),
                           ![j].odd = @ \/ Egress(Cs, N, Ps)!Programming(j) # {}]
    BY <1>1, <1>2, Zenon DEF Egress!AllowHost
  <2>3. Egress(Cs, N, Ps)!InsertRule(n.chain, {r.host}) = ch BY <1>6 DEF Egress!InsertRule
  <2>4. net' = [net EXCEPT ![j] = m] BY <1>3, <1>5, <1>7, <1>9, <1>14, <2>1, <2>2, <2>3 DEF Spaces
  <2> QED BY <1>9, <2>1, <2>4
<1>16. answer = [d \in Cs |-> answer[d]] /\ answer'[c] = q /\ \A d \in Cs : d # c => answer'[d] = answer[d]
  BY <1>9, CallSet
<1>17. \A i \in 1 .. N : ~At(answer, c, i, net[i].gen) /\ ~(q.st = "plan" /\ q.i = i /\ q.gen = net[i].gen)
                         /\ ~Pends(answer, c, policy, i, net[i].gen)
  BY <1>1, <1>9, <1>12 DEF At, Pends
<1>18. SlotOK(Cs, Ps, j, slot[j], m, boot[j], answer', policy,
              Past(Cs, answer', artifactHost', j), persistent)
  <2>1. PICK past, past2 : past = Past(Cs, answer, artifactHost, j) /\ past2 = Past(Cs, answer', artifactHost', j)
    OBVIOUS
  <2>2. past \subseteq past OBVIOUS
  <2>3. persistent \subseteq persistent OBVIOUS
  <2>4. SlotOK(Cs, Ps, j, slot[j], n, boot[j], answer', policy, past, persistent)
    BY <1>3, <1>9, <1>14, <1>16, <1>17, <2>1, <2>2, <2>3, CallMoves
  <2>5. past2 \subseteq past \union {r.host}
    <3> SUFFICES ASSUME NEW h \in past2, h # r.host PROVE h \in past OBVIOUS
    <3>1. h \in Stores /\ (h = artifactHost' \/
            \E d \in Cs : answer'[d].st = "host" /\ answer'[d].i > j /\ answer'[d].host = h)
      BY <2>1 DEF Past
    <3>2. CASE h = artifactHost' BY <1>9, <2>1, <3>1, <3>2 DEF Past
    <3>3. ASSUME NEW d \in Cs, answer'[d].st = "host", answer'[d].i > j, answer'[d].host = h PROVE h \in past
      <4>1. d # c BY <1>12, <1>16, <3>3
      <4>2. answer'[d] = answer[d] BY <1>16, <4>1
      <4> QED BY <2>1, <3>1, <3>3, <4>2 DEF Past
    <3> QED BY <3>1, <3>2, <3>3
  <2>6. Inserted(Ps, n, {r.host}, m) /\ m.odd = o
    <3>1. {r.host} \in SUBSET Hosts BY <1>11
    <3>2. o \in BOOLEAN BY <1>5
    <3> QED BY <1>14, <1>8, <3>1, <3>2, InsertedIs
  <2>7. Untouched(Cs, j, slot[j], n, m, answer')
    <3> SUFFICES ASSUME m.odd = FALSE, NEW d \in Cs PROVE n.odd = FALSE /\ ~At(answer', d, j, n.gen)
      BY DEF Untouched
    <3>1. n.odd = FALSE /\ Egress(Cs, N, Ps)!Programming(j) = {}
      <4>1. n.odd \in BOOLEAN BY <1>14 DEF Spaces
      <4> QED BY <1>5, <2>6, <4>1
    <3>2. Egress(Cs, N, Ps)!Programming(j) = {} BY <3>1
    <3>3. ~At(answer, d, j, n.gen) BY <1>3, <3>2 DEF Egress!Programming, Egress!Alive, At
    <3>4. CASE d = c BY <1>12, <1>16, <3>1, <3>4 DEF At
    <3>5. CASE d # c BY <1>16, <3>1, <3>3, <3>5 DEF At
    <3> QED BY <3>4, <3>5
  <2>8. LeaseOnly(Ps, slot[j], slot[j]) BY <1>14 DEF LeaseOnly
  <2>9. {r.host} \subseteq persistent \union slot[j].lease.targets BY <1>10
  <2>10. Given(slot[j]) \subseteq Given(slot[j]) \union {r.host} OBVIOUS
  <2>11. SlotOK(Cs, Ps, j, slot[j], m, boot[j], answer', policy, past2, persistent)
    BY <1>14, <2>4, <2>5, <2>6, <2>7, <2>8, <2>9, <2>10, InsertSlot
  <2> QED BY <2>1, <2>11
<1>19. \A i \in 1 .. N : SlotOK(Cs, Ps, i, slot'[i], net'[i], boot'[i], answer', policy',
                                Past(Cs, answer', artifactHost', i), persistent')
  <2> TAKE i \in 1 .. N
  <2>1. CASE i = j BY <1>9, <1>15, <1>18, <2>1, Zenon
  <2>2. CASE i # j
    <3>1. SlotOK(Cs, Ps, i, slot[i], net[i], boot[i], answer, policy,
                 Past(Cs, answer, artifactHost, i), persistent)
      BY SlotNow
    <3>2. q.st = "host" /\ q.i > i => q.host \in Past(Cs, answer, artifactHost, i)
      <4> SUFFICES ASSUME j + 1 > i PROVE r.host \in Past(Cs, answer, artifactHost, i) BY <1>12
      <4>1. r.i > i BY <1>2, <1>9, <2>2
      <4> QED BY <1>1, <1>9, <1>11, <4>1 DEF Past
    <3>3. artifactHost' = artifactHost BY <1>9
    <3>4. Past(Cs, answer', artifactHost', i) \subseteq Past(Cs, answer, artifactHost, i)
      BY <1>9, <1>16, <3>2, <3>3, PastMoves
    <3>5. persistent \subseteq persistent OBVIOUS
    <3>6. SlotOK(Cs, Ps, i, slot[i], net[i], boot[i], answer', policy,
                 Past(Cs, answer', artifactHost', i), persistent)
      BY <1>9, <1>16, <1>17, <3>1, <3>4, <3>5, CallMoves
    <3> QED BY <1>9, <1>15, <2>2, <3>6, Zenon
  <2> QED BY <2>1, <2>2
<1>20. \A d \in Cs : CallOK(N, Ps, answer'[d], slot', persistent')
  <2>1. \A i \in 1 .. N : slot'[i].gen \in Nat /\ slot[i].gen <= slot'[i].gen BY <1>9, SlotNow
  <2> QED BY <1>9, <1>13, <2>1, CallsKept
<1>21. answer' = [d \in Cs |-> answer'[d]] BY <1>9, CallSet
<1>22. /\ policy' \in Ps /\ slot' = [i \in 1 .. N |-> slot'[i]]
       /\ boot' = [i \in 1 .. N |-> boot'[i]] /\ want'.targets \subseteq Hosts
       /\ persistent' \subseteq Stores /\ artifactHost' \in persistent' \union {NoHost}
  BY <1>9 DEF EgressInv
<1> QED BY <1>15, <1>19, <1>20, <1>21, <1>22, EgressAssemble

-----------------------------------------------------------------------------
(* Leases and rebuilds: one slot at a time.                                *)

LEMMA OneSlot ==
    ASSUME NEW Cs, NEW N, NEW Ps, N \in Nat, EgressInv(Cs, N, Ps), NEW i \in 1 .. N,
           NEW s2, NEW m, NEW b2, slot' = [slot EXCEPT ![i] = s2], net' = [net EXCEPT ![i] = m],
           boot' = [boot EXCEPT ![i] = b2], UNCHANGED <<policy, artifactHost, persistent, answer>>,
           want'.targets \subseteq Hosts, slot[i].gen <= s2.gen,
           SlotOK(Cs, Ps, i, s2, m, b2, answer, policy, Past(Cs, answer, artifactHost, i), persistent)
    PROVE  EgressInv(Cs, N, Ps)'
<1>1. /\ slot = [j \in 1 .. N |-> slot[j]] /\ net = [j \in 1 .. N |-> net[j]] /\ boot = [j \in 1 .. N |-> boot[j]]
      /\ answer = [c \in Cs |-> answer[c]]
  BY DEF EgressInv
<1>2. /\ slot' = [j \in 1 .. N |-> slot'[j]] /\ slot'[i] = s2 /\ \A j \in 1 .. N : j # i => slot'[j] = slot[j]
  BY <1>1
<1>3. /\ net' = [j \in 1 .. N |-> net'[j]] /\ net'[i] = m /\ \A j \in 1 .. N : j # i => net'[j] = net[j]
  BY <1>1
<1>4. /\ boot' = [j \in 1 .. N |-> boot'[j]] /\ boot'[i] = b2 /\ \A j \in 1 .. N : j # i => boot'[j] = boot[j]
  BY <1>1
<1>5. \A j \in 1 .. N : SlotOK(Cs, Ps, j, slot'[j], net'[j], boot'[j], answer', policy',
                               Past(Cs, answer', artifactHost', j), persistent')
  <2> TAKE j \in 1 .. N
  <2>1. CASE j = i BY <1>2, <1>3, <1>4, <2>1, Zenon
  <2>2. CASE j # i
    <3>1. SlotOK(Cs, Ps, j, slot[j], net[j], boot[j], answer, policy, Past(Cs, answer, artifactHost, j), persistent)
      BY SlotNow
    <3> QED BY <1>2, <1>3, <1>4, <2>2, <3>1, Zenon
  <2> QED BY <2>1, <2>2
<1>6. \A d \in Cs : CallOK(N, Ps, answer'[d], slot', persistent')
  <2> TAKE d \in Cs
  <2>1. CallOK(N, Ps, answer[d], slot, persistent) BY CallNow
  <2>2. s2.gen \in Nat BY DEF SlotOK, Entries
  <2>3. \A j \in 1 .. N : slot[j].gen \in Nat BY SlotNow
  <2>4. \A j \in 1 .. N : slot[j].gen \in Nat /\ slot'[j].gen \in Nat /\ slot[j].gen <= slot'[j].gen
    BY <1>2, <2>2, <2>3
  <2>5. persistent \subseteq persistent' /\ answer'[d] = answer[d] OBVIOUS
  <2> QED BY <2>1, <2>4, <2>5, CallKept
<1>7. /\ policy' \in Ps /\ answer' = [c \in Cs |-> answer'[c]]
      /\ persistent' \subseteq Stores /\ artifactHost' \in persistent' \union {NoHost}
  BY DEF EgressInv
<1> QED BY <1>2, <1>3, <1>4, <1>5, <1>6, <1>7, EgressAssemble

LEMMA Written ==
    ASSUME NEW Cs, NEW N, NEW Ps, EgressInv(Cs, N, Ps), NEW i \in 1 .. N
    PROVE  /\ slot = [slot EXCEPT ![i] = slot[i]] /\ net = [net EXCEPT ![i] = net[i]]
           /\ boot = [boot EXCEPT ![i] = boot[i]]
<1>1. /\ slot = [j \in 1 .. N |-> slot[j]] /\ net = [j \in 1 .. N |-> net[j]] /\ boot = [j \in 1 .. N |-> boot[j]]
  BY DEF EgressInv
<1> QED BY <1>1

\* At most one slot is marked.
Only(B, i) == IF B THEN {i} ELSE {}
LEMMA MarkedOne ==
    ASSUME NEW Cs, NEW N, NEW Ps, EgressInv(Cs, N, Ps), NEW i \in 1 .. N, NEW B \in BOOLEAN,
           Egress(Cs, N, Ps)!MarkOdd(Only(B, i))
    PROVE  /\ net' = [net EXCEPT ![i] = net'[i]]
           /\ B => net'[i] = [net[i] EXCEPT !.odd = TRUE]
           /\ ~B => net'[i] = net[i]
<1>1. PICK is : is = Only(B, i) OBVIOUS
<1>2. Egress(Cs, N, Ps)!MarkOdd(is) BY <1>1
<1>3. net = [j \in 1 .. N |-> net[j]] /\ net' = [j \in 1 .. N |-> net'[j]] BY <1>2, MarkedNet DEF EgressInv
<1>4. \A j \in 1 .. N : (j \in is => net'[j] = [net[j] EXCEPT !.odd = TRUE]) /\ (j \notin is => net'[j] = net[j])
  BY <1>2, MarkedNow
<1>5. \A j \in 1 .. N : j # i => net'[j] = net[j] BY <1>1, <1>4 DEF Only
<1>6. net' = [net EXCEPT ![i] = net'[i]] BY <1>3, <1>5
<1>7. (B => net'[i] = [net[i] EXCEPT !.odd = TRUE]) /\ (~B => net'[i] = net[i]) BY <1>1, <1>4 DEF Only
<1> QED BY <1>6, <1>7

LEMMA WantOnly ==
    ASSUME NEW Cs, NEW N, NEW Ps, EgressInv(Cs, N, Ps), want'.targets \subseteq Hosts,
           UNCHANGED <<policy, artifactHost, persistent, slot, net, boot, answer>>
    PROVE  EgressInv(Cs, N, Ps)'
BY DEF EgressInv

LEMMA AskStep ==
    ASSUME NEW Cs, NEW N, NEW Ps, EgressInv(Cs, N, Ps), NEW hs \in SUBSET Hosts,
           Egress(Cs, N, Ps)!Ask(hs) \/ Egress(Cs, N, Ps)!NoSlot
    PROVE  EgressInv(Cs, N, Ps)'
<1>1. want'.targets \subseteq Hosts /\ UNCHANGED <<policy, artifactHost, persistent, slot, net, boot, answer>>
  BY DEF Egress!Ask, Egress!NoSlot, Egress!Nothing
<1> QED BY <1>1, WantOnly

\* A slot that nobody is programming is given to a lease.
Leased(Ps, s, s2) ==
    /\ s2 \in Entries(Ps) /\ s2.gen = s.gen /\ s2.sig = s.sig /\ s2.lease.st \in {"taken", "running"}
    /\ s2.lease.st = "running" => s2.lease.targets = {}

LEMMA LeaseTaken ==
    ASSUME NEW Cs, NEW Ps, NEW i, NEW s, NEW n, NEW b, NEW a, NEW p, NEW past, NEW per,
           SlotOK(Cs, Ps, i, s, n, b, a, p, past, per), b.st = "none", s.lease.st = "free",
           NEW s2, Leased(Ps, s, s2), n.odd = FALSE => \A d \in Cs : ~At(a, d, i, n.gen)
    PROVE  SlotOK(Cs, Ps, i, s2, n, b, a, p, past, per)
<1>1. s.lease.targets = {} BY DEF SlotOK
<1>2. Within(s2, n, per) BY <1>1 DEF SlotOK, Within
<1>3. ASSUME n.odd = FALSE PROVE Clear(Cs, i, s2, n, a, p, past, per)
  <2>1. Settled(s, n.chain, past, per) BY <1>3 DEF SlotOK, Clear
  <2>2. Given(s2) = {} BY DEF Given, Leased
  <2>3. Settled(s2, n.chain, past, per) BY <1>1, <2>1, <2>2 DEF Settled, Leased
  <2>4. s2.lease.st # "free" BY DEF Leased
  <2> QED BY <1>3, <2>3, <2>4 DEF Clear
<1> QED BY <1>2, <1>3 DEF SlotOK, Leased

LEMMA AcquireStep ==
    ASSUME NEW Cs, NEW N, NEW Ps, N \in Nat, EgressInv(Cs, N, Ps), Egress(Cs, N, Ps)!Acquire
    PROVE  EgressInv(Cs, N, Ps)'
<1>1. PICK F : F = {j \in 1 .. N : slot[j].lease.st = "free"} OBVIOUS
<1>2. PICK i : i = Egress(Cs, N, Ps)!Min(F) OBVIOUS
<1>3. Egress(Cs, N, Ps)!Free = F BY <1>1 DEF Egress!Free, Egress!Slots
<1>4. i \in 1 .. N /\ slot[i].lease.st = "free"
  <2>1. F \subseteq Nat BY <1>1
  <2>2. F # {} BY <1>3 DEF Egress!Acquire
  <2>3. i \in F BY <1>2, <2>1, <2>2, EgressMin
  <2> QED BY <1>1, <2>3
<1>5. PICK t : t = want.targets OBVIOUS
<1>6. PICK l : l = [st |-> IF t = {} THEN "running" ELSE "taken", targets |-> t] OBVIOUS
<1>7. PICK s2 : s2 = [slot[i] EXCEPT !.lease = l] OBVIOUS
<1>8. PICK B \in BOOLEAN : B = (Egress(Cs, N, Ps)!Programming(i) # {}) OBVIOUS
<1>9. /\ slot' = [slot EXCEPT ![i].lease = l] /\ want' = Egress(Cs, N, Ps)!Nothing
      /\ Egress(Cs, N, Ps)!MarkOdd(Only(Egress(Cs, N, Ps)!Programming(i) # {}, i))
      /\ UNCHANGED <<policy, artifactHost, persistent, boot, answer>>
  BY <1>2, <1>3, <1>5, <1>6, Zenon DEF Egress!Acquire, Only
<1>10. slot' = [slot EXCEPT ![i] = s2] BY <1>4, <1>7, <1>9 DEF EgressInv
<1>11. Egress(Cs, N, Ps)!MarkOdd(Only(B, i)) BY <1>8, <1>9, Zenon
<1>12. PICK m : /\ net' = [net EXCEPT ![i] = m]
                /\ B => m = [net[i] EXCEPT !.odd = TRUE]
                /\ ~B => m = net[i]
  <2>1. /\ net' = [net EXCEPT ![i] = net'[i]]
        /\ B => net'[i] = [net[i] EXCEPT !.odd = TRUE]
        /\ ~B => net'[i] = net[i]
    BY <1>4, <1>11, MarkedOne
  <2> QED BY <2>1
<1>13. /\ SlotOK(Cs, Ps, i, slot[i], net[i], boot[i], answer, policy,
                 Past(Cs, answer, artifactHost, i), persistent)
       /\ slot[i] \in Entries(Ps) /\ boot[i].st = "none" /\ net[i] \in Spaces(Ps) /\ slot[i].gen \in Nat
  BY <1>4, SlotNow
<1>14. Leased(Ps, slot[i], s2) /\ s2.gen = slot[i].gen
  <2>1. t \subseteq Hosts BY <1>5 DEF EgressInv
  <2>2. l \in Leases /\ l.st \in {"taken", "running"} /\ (l.st = "running" => l.targets = {})
    BY <1>6, <2>1 DEF Leases
  <2> QED BY <1>7, <1>13, <2>2 DEF Entries, Leased
<1>15. SlotOK(Cs, Ps, i, slot[i], m, boot[i], answer, policy, Past(Cs, answer, artifactHost, i), persistent)
       /\ (m.odd = FALSE => \A d \in Cs : ~At(answer, d, i, m.gen))
  <2>1. CASE B
    <3>1. persistent \subseteq persistent /\ m = [net[i] EXCEPT !.odd = TRUE] BY <1>12, <2>1
    <3>2. SlotOK(Cs, Ps, i, slot[i], m, boot[i], answer, policy, Past(Cs, answer, artifactHost, i), persistent)
      BY <1>13, <3>1, OddSlot
    <3>3. m.odd = TRUE BY <1>13, <3>1, OddFields
    <3> QED BY <3>2, <3>3
  <2>2. CASE ~B
    <3>1. Egress(Cs, N, Ps)!Programming(i) = {} BY <1>8, <2>2
    <3>2. \A d \in Cs : ~At(answer, d, i, net[i].gen)
      BY <3>1 DEF Egress!Programming, Egress!Alive, At
    <3> QED BY <1>12, <1>13, <2>2, <3>2
  <2> QED BY <2>1, <2>2
<1>16. SlotOK(Cs, Ps, i, s2, m, boot[i], answer, policy, Past(Cs, answer, artifactHost, i), persistent)
  BY <1>4, <1>13, <1>14, <1>15, LeaseTaken
<1>17. boot' = [boot EXCEPT ![i] = boot[i]] BY <1>4, <1>9, Written
<1>18. want'.targets \subseteq Hosts /\ slot[i].gen <= s2.gen BY <1>9, <1>13, <1>14 DEF Egress!Nothing
<1>19. net' = [net EXCEPT ![i] = m] /\ UNCHANGED <<policy, artifactHost, persistent, answer>>
  BY <1>9, <1>12
<1>20. PICK b2 : b2 = boot[i] OBVIOUS
<1>21. boot' = [boot EXCEPT ![i] = b2] BY <1>17, <1>20
<1>22. SlotOK(Cs, Ps, i, s2, m, b2, answer, policy, Past(Cs, answer, artifactHost, i), persistent)
  BY <1>16, <1>20
<1> QED BY <1>4, <1>10, <1>18, <1>19, <1>21, <1>22, OneSlot

LEMMA AllowEgressStep ==
    ASSUME NEW Cs, NEW N, NEW Ps, N \in Nat, Hosted(Ps), EgressInv(Cs, N, Ps), NEW i \in 1 .. N,
           Egress(Cs, N, Ps)!AllowEgress(i)
    PROVE  EgressInv(Cs, N, Ps)'
<1>1. PICK s : s = slot[i] OBVIOUS
<1>2. PICK n : n = net[i] OBVIOUS
<1>3. PICK s2 : s2 = [s EXCEPT !.lease = [s.lease EXCEPT !.st = "running"]] OBVIOUS
<1>4. /\ s.lease.st = "taken" /\ slot' = [slot EXCEPT ![i].lease.st = "running"]
      /\ UNCHANGED <<policy, artifactHost, persistent, boot, answer, want>>
  BY <1>1 DEF Egress!AllowEgress
<1>5. slot' = [slot EXCEPT ![i] = s2] BY <1>1, <1>3, <1>4 DEF EgressInv
<1>6. /\ SlotOK(Cs, Ps, i, s, n, boot[i], answer, policy, Past(Cs, answer, artifactHost, i), persistent)
      /\ s \in Entries(Ps) /\ s.lease \in Leases /\ boot[i].st = "none" /\ n \in Spaces(Ps) /\ s.gen \in Nat
      /\ s.sig \in Ps
  BY <1>1, <1>2, <1>4, SlotNow
<1>7. LeaseOnly(Ps, s, s2) /\ s2.gen = s.gen /\ Given(s2) = s.lease.targets
  <2>1. PICK l : l = [s.lease EXCEPT !.st = "running"] OBVIOUS
  <2>2. l \in Leases /\ l.st = "running" /\ l.targets = s.lease.targets BY <1>6, <2>1 DEF Leases
  <2>3. s2 = [s EXCEPT !.lease = l] BY <1>3, <2>1
  <2>4. s2 \in Entries(Ps) /\ s2.gen = s.gen /\ s2.sig = s.sig /\ s2.lease = l BY <1>6, <2>2, <2>3 DEF Entries
  <2> QED BY <1>4, <2>2, <2>4 DEF LeaseOnly, Given
<1>8. s.lease.targets \in SUBSET Hosts BY <1>6 DEF Leases
<1>9. policy.enforce \in BOOLEAN /\ s.sig.enforce \in BOOLEAN BY <1>6 DEF EgressInv, Hosted, Lists
<1>10. PICK past : past = Past(Cs, answer, artifactHost, i) OBVIOUS
<1>11. SUFFICES \E m : /\ net' = [net EXCEPT ![i] = m]
                       /\ SlotOK(Cs, Ps, i, s2, m, boot[i], answer, policy, past, persistent)
  <2>1. PICK m : /\ net' = [net EXCEPT ![i] = m]
                 /\ SlotOK(Cs, Ps, i, s2, m, boot[i], answer, policy, past, persistent)
    BY <1>11
  <2>2. boot' = [boot EXCEPT ![i] = boot[i]] BY <1>4, Written
  <2>3. want'.targets \subseteq Hosts /\ slot[i].gen <= s2.gen BY <1>1, <1>4, <1>6, <1>7 DEF EgressInv
  <2>4. net' = [net EXCEPT ![i] = m] /\ UNCHANGED <<policy, artifactHost, persistent, answer>>
    BY <1>4, <2>1
  <2>5. PICK b2 : b2 = boot[i] OBVIOUS
  <2>6. boot' = [boot EXCEPT ![i] = b2] BY <2>2, <2>5
  <2>7. SlotOK(Cs, Ps, i, s2, m, b2, answer, policy, Past(Cs, answer, artifactHost, i), persistent)
    BY <1>10, <2>1, <2>5
  <2> QED BY <1>5, <2>3, <2>4, <2>6, <2>7, OneSlot
<1>12. CASE policy.enforce
  <2>1. PICK H : H = s.lease.targets OBVIOUS
  <2>2. PICK m : m = [n EXCEPT !.chain = [n.chain EXCEPT !.allow = n.chain.allow \union H]] OBVIOUS
  <2>3. net' = [net EXCEPT ![i] = m]
    <3>1. net' = [net EXCEPT ![i].chain = Egress(Cs, N, Ps)!InsertRule(@, H)]
      BY <1>1, <1>12, <2>1 DEF Egress!AllowEgress
    <3>2. Egress(Cs, N, Ps)!InsertRule(n.chain, H) = [n.chain EXCEPT !.allow = n.chain.allow \union H]
      BY DEF Egress!InsertRule
    <3> QED BY <1>2, <2>2, <3>1, <3>2 DEF EgressInv
  <2>4. Inserted(Ps, n, H, m) /\ m.odd = n.odd BY <1>6, <1>8, <2>1, <2>2, InsertedOnly
  <2>5. Untouched(Cs, i, s, n, m, answer) BY <1>4, <2>4 DEF Untouched
  <2>6. H \subseteq persistent \union s.lease.targets /\ Given(s2) \subseteq Given(s) \union H
        /\ past \subseteq past \union H
    BY <1>7, <2>1
  <2>7. SlotOK(Cs, Ps, i, s2, m, boot[i], answer, policy, past, persistent)
    BY <1>6, <1>7, <1>10, <2>4, <2>5, <2>6, InsertSlot
  <2> QED BY <2>3, <2>7
<1>13. CASE ~policy.enforce
  <2>1. PICK B \in BOOLEAN : B = s.sig.enforce BY <1>9
  <2>2. Egress(Cs, N, Ps)!MarkOdd(Only(B, i))
    <3>1. Egress(Cs, N, Ps)!MarkOdd(Only(slot[i].sig.enforce, i))
      BY <1>13, Zenon DEF Egress!AllowEgress, Only
    <3> QED BY <1>1, <2>1, <3>1, Zenon
  <2>3. PICK m : /\ net' = [net EXCEPT ![i] = m]
                 /\ B => m = [n EXCEPT !.odd = TRUE]
                 /\ ~B => m = n
    <3>1. /\ net' = [net EXCEPT ![i] = net'[i]]
          /\ B => net'[i] = [net[i] EXCEPT !.odd = TRUE]
          /\ ~B => net'[i] = net[i]
      BY <2>2, MarkedOne
    <3> QED BY <1>2, <3>1
  <2>4. SlotOK(Cs, Ps, i, s, m, boot[i], answer, policy, past, persistent)
        /\ m \in Spaces(Ps) /\ (B => m.odd = TRUE)
    <3>1. CASE B
      <4>1. persistent \subseteq persistent /\ m = [n EXCEPT !.odd = TRUE] BY <2>3, <3>1
      <4>2. SlotOK(Cs, Ps, i, s, m, boot[i], answer, policy, past, persistent) BY <1>6, <4>1, OddSlot
      <4> QED BY <1>6, <4>1, <4>2, OddFields
    <3>2. CASE ~B BY <1>6, <1>10, <2>3, <3>2
    <3> QED BY <3>1, <3>2
  <2>5. Inserted(Ps, m, {}, m) BY <2>4, InsertedNone
  <2>6. Untouched(Cs, i, s, m, m, answer) BY <1>4 DEF Untouched
  <2>7. {} \subseteq persistent \union s.lease.targets /\ past \subseteq past \union {} OBVIOUS
  <2>8. ~(m.odd = FALSE /\ s.sig.enforce) BY <2>1, <2>4
  <2>9. SlotOK(Cs, Ps, i, s2, m, boot[i], answer, policy, past, persistent)
    BY <1>6, <1>7, <2>4, <2>5, <2>6, <2>7, <2>8, InsertSlot
  <2> QED BY <2>3, <2>9
<1> QED BY <1>12, <1>13

LEMMA CloseStep ==
    ASSUME NEW Cs, NEW N, NEW Ps, N \in Nat, EgressInv(Cs, N, Ps), NEW i \in 1 .. N,
           Egress(Cs, N, Ps)!Close(i)
    PROVE  EgressInv(Cs, N, Ps)'
<1>1. PICK s : s = slot[i] OBVIOUS
<1>2. PICK n : n = net[i] OBVIOUS
<1>3. PICK s2 : s2 = [s EXCEPT !.lease = [s.lease EXCEPT !.st = "closing"]] OBVIOUS
<1>4. /\ s.lease.st \in {"taken", "running"} /\ slot' = [slot EXCEPT ![i].lease.st = "closing"]
      /\ UNCHANGED <<policy, artifactHost, persistent, net, boot, answer, want>>
  BY <1>1 DEF Egress!Close
<1>5. slot' = [slot EXCEPT ![i] = s2] BY <1>1, <1>3, <1>4 DEF EgressInv
<1>6. /\ SlotOK(Cs, Ps, i, s, n, boot[i], answer, policy, Past(Cs, answer, artifactHost, i), persistent)
      /\ s \in Entries(Ps) /\ s.lease \in Leases /\ boot[i].st = "none" /\ n \in Spaces(Ps) /\ s.gen \in Nat
  BY <1>1, <1>2, <1>4, SlotNow
<1>7. LeaseOnly(Ps, s, s2) /\ s2.gen = s.gen /\ Given(s2) = {}
  <2>1. PICK l : l = [s.lease EXCEPT !.st = "closing"] OBVIOUS
  <2>2. l \in Leases /\ l.st = "closing" /\ l.targets = s.lease.targets BY <1>6, <2>1 DEF Leases
  <2>3. s2 = [s EXCEPT !.lease = l] BY <1>3, <2>1
  <2>4. s2 \in Entries(Ps) /\ s2.gen = s.gen /\ s2.sig = s.sig /\ s2.lease = l BY <1>6, <2>2, <2>3 DEF Entries
  <2> QED BY <1>4, <2>2, <2>4 DEF LeaseOnly, Given
<1>8. PICK past : past = Past(Cs, answer, artifactHost, i) OBVIOUS
<1>9. Inserted(Ps, n, {}, n) BY <1>6, InsertedNone
<1>10. Untouched(Cs, i, s, n, n, answer) BY <1>4 DEF Untouched
<1>11. {} \subseteq persistent \union s.lease.targets /\ past \subseteq past \union {}
       /\ Given(s2) \subseteq Given(s) \union {}
  BY <1>7
<1>12. SlotOK(Cs, Ps, i, s2, n, boot[i], answer, policy, past, persistent)
  BY <1>6, <1>7, <1>8, <1>9, <1>10, <1>11, InsertSlot
<1>13. boot' = [boot EXCEPT ![i] = boot[i]] /\ net' = [net EXCEPT ![i] = n] BY <1>2, <1>4, Written
<1>14. want'.targets \subseteq Hosts /\ slot[i].gen <= s2.gen BY <1>1, <1>4, <1>6, <1>7 DEF EgressInv
<1>15. UNCHANGED <<policy, artifactHost, persistent, answer>> BY <1>4
<1> QED BY <1>5, <1>8, <1>12, <1>13, <1>14, <1>15, OneSlot

\* The namespace of a slot is new, and its chain is being written.
LEMMA BootSlotStep ==
    ASSUME NEW Cs, NEW N, NEW Ps, N \in Nat, EgressInv(Cs, N, Ps), NEW i \in 1 .. N,
           Egress(Cs, N, Ps)!BootSlot(i)
    PROVE  EgressInv(Cs, N, Ps)'
<1>1. PICK s, n, past : s = slot[i] /\ n = net[i] /\ past = Past(Cs, answer, artifactHost, i) OBVIOUS
<1>2. PICK ch : ch = [default |-> "ACCEPT", allow |-> {}, reject |-> FALSE] OBVIOUS
<1>3. PICK m : m = [gen |-> n.gen + 1, chain |-> ch, pols |-> {policy}, odd |-> FALSE] OBVIOUS
<1>4. PICK b : b = [st |-> "boot", pol |-> policy, cmds |-> <<>>, built |-> FALSE] OBVIOUS
<1>5. /\ s.lease.st = "closing" /\ boot[i].st = "none" /\ net' = [net EXCEPT ![i] = m]
      /\ boot' = [boot EXCEPT ![i] = b]
      /\ UNCHANGED <<policy, artifactHost, persistent, slot, answer, want>>
  BY <1>1, <1>2, <1>3, <1>4, BootIs DEF Egress!BootSlot, Egress!Fresh, Egress!EmptyChain
<1>6. /\ SlotOK(Cs, Ps, i, s, n, boot[i], answer, policy, past, persistent)
      /\ s \in Entries(Ps) /\ n.gen \in Nat /\ s.gen \in Nat /\ s.gen = n.gen /\ policy \in Ps
  BY <1>1, <1>5, SlotNow DEF EgressInv
<1>7. ch \in Chains /\ ch.allow = {} BY <1>2 DEF Chains
<1>8. m \in Spaces(Ps) /\ m.gen = n.gen + 1 /\ m.chain = ch /\ m.pols = {policy}
  BY <1>3, <1>6, <1>7 DEF Spaces
<1>9. b \in Boots(Ps) /\ b.st = "boot" /\ b.pol = policy /\ b.cmds = <<>> BY <1>4, <1>6 DEF Boots
<1>10. b.built = FALSE BY <1>4
<1>11. Booting(b, m, policy, past, persistent)
  <2>1. FALSE # TRUE OBVIOUS
  <2> QED BY <1>7, <1>8, <1>9, <1>10, <2>1 DEF Booting
<1>12. SlotOK(Cs, Ps, i, s, m, b, answer, policy, past, persistent)
  BY <1>5, <1>6, <1>8, <1>9, <1>11 DEF SlotOK
<1>13. slot' = [slot EXCEPT ![i] = s] BY <1>1, <1>5, Written
<1>14. want'.targets \subseteq Hosts /\ slot[i].gen <= s.gen BY <1>1, <1>5, <1>6 DEF EgressInv
<1>15. UNCHANGED <<policy, artifactHost, persistent, answer>> BY <1>5
<1> QED BY <1>1, <1>5, <1>12, <1>13, <1>14, <1>15, OneSlot

LEMMA BootResolveStep ==
    ASSUME NEW Cs, NEW N, NEW Ps, N \in Nat, Hosted(Ps), EgressInv(Cs, N, Ps), NEW i \in 1 .. N,
           Egress(Cs, N, Ps)!BootResolve(i)
    PROVE  EgressInv(Cs, N, Ps)'
<1>1. PICK s, n, b, past : s = slot[i] /\ n = net[i] /\ b = boot[i] /\ past = Past(Cs, answer, artifactHost, i)
  OBVIOUS
<1>2. PICK cmds : cmds = Ahead(b.pol, persistent, 0) OBVIOUS
<1>3. PICK b2 : b2 = [b EXCEPT !.cmds = cmds, !.built = TRUE] OBVIOUS
<1>4. /\ b.st = "boot" /\ UNCHANGED <<policy, artifactHost, persistent, slot, net, answer, want>>
      /\ boot' = [boot EXCEPT ![i].cmds = Egress(Cs, N, Ps)!PlanFor(b.pol), ![i].built = TRUE]
  BY <1>1 DEF Egress!BootResolve
<1>5. /\ SlotOK(Cs, Ps, i, s, n, b, answer, policy, past, persistent)
      /\ s \in Entries(Ps) /\ s.gen \in Nat
  BY <1>1, SlotNow
<1>6. b \in [st : {"boot"}, pol : Ps, cmds : Seq(Commands), built : BOOLEAN] BY <1>4, <1>5 DEF SlotOK, Boots
<1>7. Lists(b.pol) /\ b.pol \in Ps BY <1>6 DEF Hosted
<1>8. b.pol.enforce \in BOOLEAN /\ b.pol.allow \subseteq Hosts BY <1>7 DEF Lists
<1>9. Egress(Cs, N, Ps)!PlanFor(b.pol) = cmds
  BY <1>2, <1>8 DEF Egress!PlanFor, Egress!Plan, Egress!Cmd, Ahead, Command
<1>10. cmds \in Seq(Commands)
  <2>1. 0 \in 0 .. 4 /\ persistent \in SUBSET Hosts BY HostsAssumption DEF EgressInv
  <2> QED BY <1>2, <1>8, <2>1, AheadType
<1>11. b2 \in Boots(Ps) /\ b2.st = "boot" /\ b2.pol = b.pol /\ b2.cmds = cmds
  BY <1>3, <1>6, <1>10 DEF Boots
<1>12. b2.built = TRUE BY <1>3, <1>6
<1>13. boot' = [boot EXCEPT ![i] = b2] BY <1>1, <1>3, <1>4, <1>9 DEF EgressInv
<1>14. InStep(b.pol, cmds, n.chain, IF n.odd THEN {} ELSE past, persistent)
  <2>1. past \subseteq persistent BY <1>1, PastStored
  <2>2. Done(b.pol, persistent, 0, n.chain) BY DEF Done
  <2>3. (IF n.odd THEN {} ELSE past) \subseteq persistent BY <2>1
  <2>4. 0 \in 0 .. 4 OBVIOUS
  <2> QED BY <1>2, <2>2, <2>3, <2>4 DEF InStep
<1>15. Booting(b2, n, policy, past, persistent)
  <2>1. Booting(b, n, policy, past, persistent) BY <1>4, <1>5 DEF SlotOK
  <2>2. FALSE # TRUE OBVIOUS
  <2> QED BY <1>11, <1>12, <1>14, <2>1, <2>2 DEF Booting
<1>16. SlotOK(Cs, Ps, i, s, n, b2, answer, policy, past, persistent) BY <1>4, <1>5, <1>11, <1>15 DEF SlotOK
<1>17. slot' = [slot EXCEPT ![i] = s] /\ net' = [net EXCEPT ![i] = n] BY <1>1, <1>4, Written
<1>18. want'.targets \subseteq Hosts /\ slot[i].gen <= s.gen BY <1>1, <1>4, <1>5 DEF EgressInv
<1>19. UNCHANGED <<policy, artifactHost, persistent, answer>> BY <1>4
<1> QED BY <1>1, <1>13, <1>16, <1>17, <1>18, <1>19, OneSlot

LEMMA BootStepStep ==
    ASSUME NEW Cs, NEW N, NEW Ps, N \in Nat, Hosted(Ps), EgressInv(Cs, N, Ps), NEW i \in 1 .. N,
           Egress(Cs, N, Ps)!BootStep(i)
    PROVE  EgressInv(Cs, N, Ps)'
<1>1. PICK s, n, b, past : s = slot[i] /\ n = net[i] /\ b = boot[i] /\ past = Past(Cs, answer, artifactHost, i)
  OBVIOUS
<1>2. PICK x, ch : x = n.chain /\ ch = Egress(Cs, N, Ps)!Run(n.chain, Head(b.cmds)) OBVIOUS
<1>3. PICK m : m = [n EXCEPT !.chain = ch] OBVIOUS
<1>4. PICK b2 : b2 = [b EXCEPT !.cmds = Tail(b.cmds)] OBVIOUS
<1>5. /\ b.st = "boot" /\ b.cmds # <<>> /\ UNCHANGED <<policy, artifactHost, persistent, slot, answer, want>>
      /\ net' = [net EXCEPT ![i].chain = Egress(Cs, N, Ps)!Run(@, Head(b.cmds))]
      /\ boot' = [boot EXCEPT ![i].cmds = Tail(@)]
  BY <1>1 DEF Egress!BootStep
<1>6. net' = [net EXCEPT ![i] = m] BY <1>1, <1>2, <1>3, <1>5 DEF EgressInv
<1>7. boot' = [boot EXCEPT ![i] = b2] BY <1>1, <1>4, <1>5 DEF EgressInv
<1>8. /\ SlotOK(Cs, Ps, i, s, n, b, answer, policy, past, persistent)
      /\ s \in Entries(Ps) /\ s.gen \in Nat /\ n \in Spaces(Ps) /\ x \in Chains
  BY <1>1, <1>2, SlotNow
<1>9. b \in [st : {"boot"}, pol : Ps, cmds : Seq(Commands), built : BOOLEAN] BY <1>5, <1>8 DEF SlotOK, Boots
<1>10. Lists(b.pol) /\ b.pol \in Ps BY <1>9 DEF Hosted
<1>11. Booting(b, n, policy, past, persistent) BY <1>5, <1>8 DEF SlotOK
<1>12. b.built = TRUE BY <1>5, <1>9, <1>11 DEF Booting
<1>13. PICK owed : owed = (IF n.odd THEN {} ELSE past) OBVIOUS
<1>14. InStep(b.pol, b.cmds, x, owed, persistent) BY <1>2, <1>11, <1>12, <1>13 DEF Booting
<1>15. PICK S \in SUBSET persistent, k \in 0 .. 4 :
         b.cmds = Ahead(b.pol, S, k) /\ Done(b.pol, S, k, x) /\ (b.pol.enforce => owed \subseteq S)
  BY <1>14 DEF InStep
<1>16. Ran(b.pol, S, k, x, ch)
  <2>1. PICK p : p = b.pol OBVIOUS
  <2>2. S \in SUBSET Hosts BY HostsAssumption DEF EgressInv
  <2>3. ch = Egress(Cs, N, Ps)!Run(x, Head(Ahead(p, S, k))) BY <1>2, <1>15, <2>1
  <2>4. Ahead(p, S, k) # <<>> /\ Lists(p) BY <1>5, <1>10, <1>15, <2>1
  <2>5. Ran(p, S, k, x, ch) BY <1>8, <2>2, <2>3, <2>4, RunStep
  <2> QED BY <2>1, <2>5
<1>17. ch \in Chains /\ ch.allow \subseteq x.allow \union b.pol.allow \union S BY <1>16 DEF Ran, Tight
<1>18. k + 1 \in 0 .. 4 /\ Tail(b.cmds) = Ahead(b.pol, S, k + 1) /\ Done(b.pol, S, k + 1, ch)
  BY <1>15, <1>16 DEF Ran
<1>19. m \in Spaces(Ps) /\ m.gen = n.gen /\ m.chain = ch /\ m.pols = n.pols /\ m.odd = n.odd
  BY <1>3, <1>8, <1>17 DEF Spaces
<1>20. Tail(b.cmds) \in Seq(Commands)
  <2>1. b.cmds \in Seq(Commands) BY <1>9
  <2> QED BY <1>5, <2>1
<1>21. b2 \in Boots(Ps) /\ b2.st = "boot" /\ b2.pol = b.pol /\ b2.cmds = Tail(b.cmds) /\ b2.built = b.built
  BY <1>4, <1>9, <1>20 DEF Boots
<1>22. InStep(b.pol, b2.cmds, ch, owed, persistent) BY <1>15, <1>18, <1>21 DEF InStep
<1>23. Booting(b2, m, policy, past, persistent)
  <2>1. m.chain.allow \subseteq b.pol.allow \union persistent BY <1>2, <1>11, <1>17, <1>19 DEF Booting
  <2>2. (IF m.odd THEN {} ELSE past) = owed BY <1>13, <1>19
  <2>3. FALSE # TRUE OBVIOUS
  <2> QED BY <1>11, <1>12, <1>19, <1>21, <1>22, <2>1, <2>2, <2>3 DEF Booting
<1>24. SlotOK(Cs, Ps, i, s, m, b2, answer, policy, past, persistent)
  BY <1>5, <1>8, <1>19, <1>21, <1>23 DEF SlotOK
<1>25. slot' = [slot EXCEPT ![i] = s] BY <1>1, <1>5, Written
<1>26. want'.targets \subseteq Hosts /\ slot[i].gen <= s.gen BY <1>1, <1>5, <1>8 DEF EgressInv
<1>27. UNCHANGED <<policy, artifactHost, persistent, answer>> BY <1>5
<1> QED BY <1>1, <1>6, <1>7, <1>24, <1>25, <1>26, <1>27, OneSlot

LEMMA BootDoneStep ==
    ASSUME NEW Cs, NEW N, NEW Ps, N \in Nat, Hosted(Ps), EgressInv(Cs, N, Ps), NEW i \in 1 .. N,
           Egress(Cs, N, Ps)!BootDone(i)
    PROVE  EgressInv(Cs, N, Ps)'
<1>1. PICK s, n, b, past : s = slot[i] /\ n = net[i] /\ b = boot[i] /\ past = Past(Cs, answer, artifactHost, i)
  OBVIOUS
<1>2. PICK l : l = [st |-> "free", targets |-> {}] OBVIOUS
<1>3. PICK s2 : s2 = [gen |-> n.gen, sig |-> b.pol, lease |-> l] OBVIOUS
<1>4. PICK b2 : b2 = [st |-> "none"] OBVIOUS
<1>5. /\ b.st = "boot" /\ b.cmds = <<>> /\ UNCHANGED <<policy, artifactHost, persistent, net, answer, want>>
      /\ slot' = [slot EXCEPT ![i] = s2] /\ boot' = [boot EXCEPT ![i] = b2]
  BY <1>1, <1>2, <1>3, <1>4 DEF Egress!BootDone, Egress!NoLease, Egress!NoBoot
<1>6. /\ SlotOK(Cs, Ps, i, s, n, b, answer, policy, past, persistent)
      /\ s \in Entries(Ps) /\ s.gen \in Nat /\ n \in Spaces(Ps) /\ n.gen \in Nat /\ s.gen < n.gen
  BY <1>1, <1>5, SlotNow DEF SlotOK
<1>7. b \in [st : {"boot"}, pol : Ps, cmds : Seq(Commands), built : BOOLEAN] BY <1>5, <1>6 DEF SlotOK, Boots
<1>8. b.built = TRUE
  <2>1. b.built BY <1>1 DEF Egress!BootDone
  <2> QED BY <1>7, <2>1
<1>9. b.pol \in Ps /\ b.pol.enforce \in BOOLEAN BY <1>7 DEF Hosted, Lists
<1>10. Booting(b, n, policy, past, persistent) BY <1>5, <1>6 DEF SlotOK
<1>11. PICK S \in SUBSET persistent, k \in 0 .. 4 :
         /\ Ahead(b.pol, S, k) = <<>> /\ Done(b.pol, S, k, n.chain)
         /\ b.pol.enforce => (IF n.odd THEN {} ELSE past) \subseteq S
  BY <1>5, <1>8, <1>10 DEF Booting, InStep
<1>12. Finished(b.pol, S, n.chain)
  <2>1. PICK p : p = b.pol OBVIOUS
  <2>2. p.enforce \in BOOLEAN /\ Ahead(p, S, k) = <<>> /\ Done(p, S, k, n.chain) BY <1>9, <1>11, <2>1
  <2>3. Finished(p, S, n.chain) BY <2>2, RunEnd
  <2> QED BY <2>1, <2>3
<1>13. l \in Leases /\ l.st = "free" /\ l.targets = {} BY <1>2 DEF Leases
<1>14. s2 \in Entries(Ps) /\ s2.gen = n.gen /\ s2.sig = b.pol /\ s2.lease = l BY <1>3, <1>6, <1>9, <1>13 DEF Entries
<1>15. b2 \in Boots(Ps) /\ b2.st = "none" BY <1>4 DEF Boots
<1>16. Within(s2, n, persistent)
  <2>1. n.pols = {b.pol} /\ n.chain.allow \subseteq b.pol.allow \union persistent BY <1>10 DEF Booting
  <2>2. b.pol.allow \subseteq Allowed(n.pols)
    <3> SUFFICES ASSUME NEW h \in b.pol.allow PROVE h \in Allowed(n.pols) OBVIOUS
    <3>1. b.pol \in n.pols BY <2>1
    <3> QED BY <3>1, InUnion
  <2>3. (\A q \in n.pols : q.enforce) => n.chain.default = "DROP" BY <1>12, <2>1 DEF Finished
  <2> QED BY <2>1, <2>2, <2>3 DEF Within
<1>17. ASSUME n.odd = FALSE PROVE Clear(Cs, i, s2, n, answer, policy, past, persistent)
  <2>1. b.pol = policy BY <1>10, <1>17 DEF Booting
  <2>2. \A d \in Cs : ~At(answer, d, i, n.gen)
    <3> SUFFICES ASSUME NEW d \in Cs, At(answer, d, i, n.gen) PROVE FALSE OBVIOUS
    <3>1. answer[d].st = "plan" /\ answer[d].i = i /\ answer[d].gen = n.gen BY DEF At
    <3>2. answer[d].gen <= slot[answer[d].i].gen BY <3>1, PlanNow
    <3>3. n.gen <= s.gen BY <1>1, <3>1, <3>2
    <3> QED BY <1>6, <3>3
  <2>3. b.pol.enforce => past \subseteq S BY <1>11, <1>17
  <2>4. Given(s2) = {} BY <1>13, <1>14 DEF Given
  <2>5. Settled(s2, n.chain, past, persistent)
    <3>1. CASE b.pol.enforce BY <1>12, <1>14, <2>3, <2>4, <3>1 DEF Settled, Finished
    <3>2. CASE ~b.pol.enforce BY <1>12, <1>14, <3>2 DEF Settled, Finished
    <3> QED BY <3>1, <3>2
  <2> QED BY <1>14, <2>1, <2>2, <2>5 DEF Clear
<1>18. SlotOK(Cs, Ps, i, s2, n, b2, answer, policy, past, persistent)
  BY <1>6, <1>13, <1>14, <1>15, <1>16, <1>17 DEF SlotOK
<1>19. net' = [net EXCEPT ![i] = n] BY <1>1, <1>5, Written
<1>20. want'.targets \subseteq Hosts /\ slot[i].gen <= s2.gen BY <1>1, <1>5, <1>6, <1>14 DEF EgressInv
<1>21. UNCHANGED <<policy, artifactHost, persistent, answer>> BY <1>5
<1> QED BY <1>1, <1>5, <1>18, <1>19, <1>20, <1>21, OneSlot

LEMMA BootFailsStep ==
    ASSUME NEW Cs, NEW N, NEW Ps, N \in Nat, EgressInv(Cs, N, Ps), NEW i \in 1 .. N,
           Egress(Cs, N, Ps)!BootFails(i)
    PROVE  EgressInv(Cs, N, Ps)'
<1>1. PICK s, n, b, past : s = slot[i] /\ n = net[i] /\ b = boot[i] /\ past = Past(Cs, answer, artifactHost, i)
  OBVIOUS
<1>2. PICK b2 : b2 = [st |-> "failed"] OBVIOUS
<1>3. /\ b.st = "boot" /\ UNCHANGED <<policy, artifactHost, persistent, slot, net, answer, want>>
      /\ boot' = [boot EXCEPT ![i] = b2]
  BY <1>1, <1>2 DEF Egress!BootFails
<1>4. SlotOK(Cs, Ps, i, s, n, b, answer, policy, past, persistent) /\ s.gen \in Nat BY <1>1, SlotNow
<1>5. b2 \in Boots(Ps) /\ b2.st = "failed" BY <1>2 DEF Boots
<1>6. SlotOK(Cs, Ps, i, s, n, b2, answer, policy, past, persistent) BY <1>3, <1>4, <1>5 DEF SlotOK
<1>7. slot' = [slot EXCEPT ![i] = s] /\ net' = [net EXCEPT ![i] = n] BY <1>1, <1>3, Written
<1>8. want'.targets \subseteq Hosts /\ slot[i].gen <= s.gen BY <1>1, <1>3, <1>4 DEF EgressInv
<1>9. UNCHANGED <<policy, artifactHost, persistent, answer>> BY <1>3
<1> QED BY <1>1, <1>3, <1>6, <1>7, <1>8, <1>9, OneSlot

-----------------------------------------------------------------------------
LEMMA EgressStarts ==
    ASSUME NEW Cs, NEW N, NEW Ps, N \in Nat, Hosted(Ps), Egress(Cs, N, Ps)!Init
    PROVE  EgressInv(Cs, N, Ps)
<1>1. PICK p \in Ps : p = policy BY DEF Egress!Init
<1>2. PICK ch : ch = IF p.enforce THEN [default |-> "DROP", allow |-> p.allow, reject |-> TRUE]
                     ELSE [default |-> "ACCEPT", allow |-> {}, reject |-> FALSE]
  OBVIOUS
<1>3. PICK n : n = [gen |-> 0, pols |-> {p}, odd |-> FALSE, chain |-> ch] OBVIOUS
<1>4. PICK l : l = [st |-> "free", targets |-> {}] OBVIOUS
<1>5. PICK s : s = [gen |-> 0, sig |-> p, lease |-> l] OBVIOUS
<1>6. PICK b : b = [st |-> "none"] OBVIOUS
<1>7. PICK q : q = [st |-> "idle"] OBVIOUS
<1>8. /\ artifactHost = NoHost /\ persistent = {} /\ slot = [i \in 1 .. N |-> s] /\ net = [i \in 1 .. N |-> n]
      /\ boot = [i \in 1 .. N |-> b] /\ answer = [c \in Cs |-> q] /\ want.targets = {}
  BY <1>1, <1>2, <1>3, <1>4, <1>5, <1>6, <1>7
     DEF Egress!Init, Egress!Slots, Egress!BuiltUnder, Egress!EmptyChain, Egress!NoLease, Egress!NoBoot,
         Egress!Idle, Egress!Nothing
<1>9. p.enforce \in BOOLEAN /\ p.allow \subseteq Hosts BY DEF Hosted, Lists
<1>10. /\ ch \in Chains /\ ch.allow \subseteq p.allow
       /\ p.enforce => ch.default = "DROP" /\ ch.allow = p.allow
       /\ ~p.enforce => ch.default = "ACCEPT" /\ ch.reject = FALSE
  <2>1. CASE p.enforce BY <1>2, <1>9, <2>1 DEF Chains
  <2>2. CASE ~p.enforce
    <3>1. ch = [default |-> "ACCEPT", allow |-> {}, reject |-> FALSE] BY <1>2, <2>2
    <3>2. ch.reject = FALSE BY <3>1
    <3> QED BY <2>2, <3>1, <3>2 DEF Chains
  <2> QED BY <2>1, <2>2
<1>11. n \in Spaces(Ps) /\ n.gen = 0 /\ n.pols = {p} /\ n.chain = ch BY <1>3, <1>10 DEF Spaces
<1>12. l \in Leases /\ l.st = "free" /\ l.targets = {} BY <1>4 DEF Leases
<1>13. s \in Entries(Ps) /\ s.gen = 0 /\ s.sig = p /\ s.lease = l BY <1>5, <1>12 DEF Entries
<1>14. b \in Boots(Ps) /\ b.st = "none" BY <1>6 DEF Boots
<1>15. CallOK(N, Ps, q, slot, persistent) BY <1>7 DEF CallOK, Answers
<1>16. \A i \in 1 .. N : Past(Cs, answer, artifactHost, i) = {}
  BY <1>7, <1>8, HostsAssumption DEF Past
<1>17. Within(s, n, persistent)
  <2>1. p.allow \subseteq Allowed(n.pols)
    <3> SUFFICES ASSUME NEW h \in p.allow PROVE h \in Allowed(n.pols) OBVIOUS
    <3>1. p \in n.pols BY <1>11
    <3> QED BY <3>1, InUnion
  <2> QED BY <1>10, <1>11, <2>1 DEF Within
<1>18. \A i \in 1 .. N : Clear(Cs, i, s, n, answer, p, {}, persistent)
  <2>1. Given(s) = {} BY <1>12, <1>13 DEF Given
  <2>2. Settled(s, n.chain, {}, persistent) BY <1>9, <1>10, <1>11, <1>13, <2>1 DEF Settled
  <2>3. \A c \in Cs, i \in 1 .. N : ~At(answer, c, i, n.gen) BY <1>7, <1>8 DEF At
  <2> QED BY <1>13, <2>2, <2>3 DEF Clear
<1>19. \A i \in 1 .. N : SlotOK(Cs, Ps, i, s, n, b, answer, p, {}, persistent)
  BY <1>11, <1>12, <1>13, <1>14, <1>17, <1>18 DEF SlotOK
<1>20. \A i \in 1 .. N : SlotOK(Cs, Ps, i, slot[i], net[i], boot[i], answer, policy,
                                Past(Cs, answer, artifactHost, i), persistent)
  <2> TAKE i \in 1 .. N
  <2>1. slot[i] = s /\ net[i] = n /\ boot[i] = b BY <1>8
  <2> QED BY <1>1, <1>16, <1>19, <2>1, Zenon
<1>21. \A c \in Cs : CallOK(N, Ps, answer[c], slot, persistent)
  <2> TAKE c \in Cs
  <2>1. answer[c] = q BY <1>8
  <2> QED BY <1>15, <2>1
<1>22. /\ slot = [i \in 1 .. N |-> slot[i]] /\ net = [i \in 1 .. N |-> net[i]]
       /\ boot = [i \in 1 .. N |-> boot[i]] /\ answer = [c \in Cs |-> answer[c]]
  BY <1>8
<1> QED BY <1>1, <1>8, <1>20, <1>21, <1>22 DEF EgressInv

LEMMA EgressStep ==
    ASSUME NEW Cs, NEW N, NEW Ps, N \in Nat, Hosted(Ps), EgressInv(Cs, N, Ps), Egress(Cs, N, Ps)!Next
    PROVE  EgressInv(Cs, N, Ps)'
<1>1. \/ \E c \in Cs :
           \/ \E p \in Ps, h \in Stores \union {NoHost} : Egress(Cs, N, Ps)!Answer(c, p, h)
           \/ Egress(Cs, N, Ps)!ResolvePlan(c) \/ Egress(Cs, N, Ps)!StepPlan(c)
           \/ Egress(Cs, N, Ps)!EndPlan(c) \/ Egress(Cs, N, Ps)!PlanFails(c)
           \/ Egress(Cs, N, Ps)!RememberHost(c) \/ Egress(Cs, N, Ps)!SameHost(c)
           \/ Egress(Cs, N, Ps)!AllowHost(c) \/ Egress(Cs, N, Ps)!HostAllowed(c)
           \/ Egress(Cs, N, Ps)!AllowHostFails(c)
      \/ \E hs \in SUBSET Hosts : Egress(Cs, N, Ps)!Ask(hs)
      \/ Egress(Cs, N, Ps)!Acquire \/ Egress(Cs, N, Ps)!NoSlot
      \/ \E i \in 1 .. N :
           \/ Egress(Cs, N, Ps)!AllowEgress(i) \/ Egress(Cs, N, Ps)!Close(i) \/ Egress(Cs, N, Ps)!BootSlot(i)
           \/ Egress(Cs, N, Ps)!BootResolve(i) \/ Egress(Cs, N, Ps)!BootStep(i)
           \/ Egress(Cs, N, Ps)!BootDone(i) \/ Egress(Cs, N, Ps)!BootFails(i)
  BY Zenon DEF Egress!Next, Egress!Slots
<1>2. ASSUME NEW c \in Cs, NEW p \in Ps, NEW h \in Stores \union {NoHost}, Egress(Cs, N, Ps)!Answer(c, p, h)
      PROVE  EgressInv(Cs, N, Ps)'
  <2>1. CASE p = policy BY <1>2, <2>1, AnswerSame
  <2>2. CASE p # policy BY <1>2, <2>2, AnswerNew
  <2> QED BY <2>1, <2>2
<1>3. ASSUME NEW c \in Cs, Egress(Cs, N, Ps)!ResolvePlan(c) PROVE EgressInv(Cs, N, Ps)' BY <1>3, ResolveStep
<1>4. ASSUME NEW c \in Cs, Egress(Cs, N, Ps)!StepPlan(c) PROVE EgressInv(Cs, N, Ps)' BY <1>4, StepStep
<1>5. ASSUME NEW c \in Cs, Egress(Cs, N, Ps)!EndPlan(c) PROVE EgressInv(Cs, N, Ps)' BY <1>5, EndStep
<1>6. ASSUME NEW c \in Cs, Egress(Cs, N, Ps)!PlanFails(c) PROVE EgressInv(Cs, N, Ps)' BY <1>6, FailsStep
<1>7. ASSUME NEW c \in Cs, Egress(Cs, N, Ps)!RememberHost(c) PROVE EgressInv(Cs, N, Ps)' BY <1>7, RememberStep
<1>8. ASSUME NEW c \in Cs, Egress(Cs, N, Ps)!SameHost(c) \/ Egress(Cs, N, Ps)!AllowHostFails(c)
      PROVE  EgressInv(Cs, N, Ps)'
  BY <1>8, SameHostStep
<1>9. ASSUME NEW c \in Cs, Egress(Cs, N, Ps)!AllowHost(c) PROVE EgressInv(Cs, N, Ps)' BY <1>9, AllowStep
<1>10. ASSUME NEW c \in Cs, Egress(Cs, N, Ps)!HostAllowed(c) PROVE EgressInv(Cs, N, Ps)' BY <1>10, AllowedStep
<1>11. ASSUME NEW hs \in SUBSET Hosts, Egress(Cs, N, Ps)!Ask(hs) PROVE EgressInv(Cs, N, Ps)' BY <1>11, AskStep
<1>12. ASSUME Egress(Cs, N, Ps)!NoSlot PROVE EgressInv(Cs, N, Ps)'
  <2>1. {} \in SUBSET Hosts OBVIOUS
  <2> QED BY <1>12, <2>1, AskStep
<1>13. ASSUME Egress(Cs, N, Ps)!Acquire PROVE EgressInv(Cs, N, Ps)' BY <1>13, AcquireStep
<1>14. ASSUME NEW i \in 1 .. N, Egress(Cs, N, Ps)!AllowEgress(i) PROVE EgressInv(Cs, N, Ps)'
  BY <1>14, AllowEgressStep
<1>15. ASSUME NEW i \in 1 .. N, Egress(Cs, N, Ps)!Close(i) PROVE EgressInv(Cs, N, Ps)' BY <1>15, CloseStep
<1>16. ASSUME NEW i \in 1 .. N, Egress(Cs, N, Ps)!BootSlot(i) PROVE EgressInv(Cs, N, Ps)' BY <1>16, BootSlotStep
<1>17. ASSUME NEW i \in 1 .. N, Egress(Cs, N, Ps)!BootResolve(i) PROVE EgressInv(Cs, N, Ps)'
  BY <1>17, BootResolveStep
<1>18. ASSUME NEW i \in 1 .. N, Egress(Cs, N, Ps)!BootStep(i) PROVE EgressInv(Cs, N, Ps)' BY <1>18, BootStepStep
<1>19. ASSUME NEW i \in 1 .. N, Egress(Cs, N, Ps)!BootDone(i) PROVE EgressInv(Cs, N, Ps)' BY <1>19, BootDoneStep
<1>20. ASSUME NEW i \in 1 .. N, Egress(Cs, N, Ps)!BootFails(i) PROVE EgressInv(Cs, N, Ps)' BY <1>20, BootFailsStep
<1> QED BY <1>1, <1>2, <1>3, <1>4, <1>5, <1>6, <1>7, <1>8, <1>9, <1>10, <1>11, <1>12, <1>13, <1>14, <1>15,
           <1>16, <1>17, <1>18, <1>19, <1>20, Zenon

-----------------------------------------------------------------------------
LEMMA EgressStutter ==
    ASSUME NEW Cs, NEW N, NEW Ps, EgressInv(Cs, N, Ps), UNCHANGED Egress(Cs, N, Ps)!vars
    PROVE  EgressInv(Cs, N, Ps)'
BY DEF EgressInv, Egress!vars

LEMMA EgressTypes ==
    ASSUME NEW Cs, NEW N, NEW Ps, N \in Nat, EgressInv(Cs, N, Ps)
    PROVE  Egress(Cs, N, Ps)!TypeOK
<1>1. /\ policy \in Ps /\ artifactHost \in Stores \union {NoHost} /\ persistent \subseteq Stores
  BY DEF EgressInv
<1>2. ASSUME NEW i \in 1 .. N
      PROVE  /\ slot[i].lease.st \in {"free", "taken", "running", "closing"}
             /\ slot[i].sig \in Ps
             /\ net[i].chain.default \in {"ACCEPT", "DROP"} /\ net[i].chain.allow \subseteq Hosts
             /\ boot[i] # Egress(Cs, N, Ps)!NoBoot => slot[i].lease.st = "closing"
             /\ slot[i].gen = net[i].gen \/ slot[i].lease.st = "closing"
  <2>1. /\ slot[i].lease \in Leases /\ slot[i].sig \in Ps /\ net[i].chain \in Chains
        /\ boot[i].st = "none" <=> slot[i].gen = net[i].gen
        /\ slot[i].lease.st \in {"free", "taken", "running"} => boot[i].st = "none"
    BY SlotNow
  <2>2. slot[i].lease.st \in {"free", "taken", "running", "closing"} BY <2>1 DEF Leases
  <2>3. net[i].chain.default \in {"ACCEPT", "DROP"} /\ net[i].chain.allow \subseteq Hosts BY <2>1 DEF Chains
  <2>4. boot[i] = Egress(Cs, N, Ps)!NoBoot <=> boot[i].st = "none" BY BootIs
  <2> QED BY <2>1, <2>2, <2>3, <2>4
<1>3. ASSUME NEW c \in Cs PROVE answer[c].st \in {"idle", "plan", "host"}
  <2>1. CallOK(N, Ps, answer[c], slot, persistent) BY CallNow
  <2> QED BY <2>1 DEF CallOK, Answers
<1> QED BY <1>1, <1>2, <1>3 DEF Egress!TypeOK, Egress!Slots

LEMMA EgressContained ==
    ASSUME NEW Cs, NEW N, NEW Ps, N \in Nat, EgressInv(Cs, N, Ps)
    PROVE  Egress(Cs, N, Ps)!Contained
<1> SUFFICES ASSUME NEW i \in 1 .. N, slot[i].gen = net[i].gen, \A p \in net[i].pols : p.enforce
             PROVE  Egress(Cs, N, Ps)!Reach(net[i]) \subseteq
                      (UNION {p.allow : p \in net[i].pols}) \union persistent \union slot[i].lease.targets
  BY DEF Egress!Contained, Egress!InUse, Egress!Slots
<1>1. Within(slot[i], net[i], persistent) BY SlotNow DEF SlotOK
<1>2. net[i].chain.default = "DROP" BY <1>1 DEF Within
<1>3. Egress(Cs, N, Ps)!Reach(net[i]) = net[i].chain.allow BY <1>2 DEF Egress!Reach
<1>4. Allowed(net[i].pols) = UNION {p.allow : p \in net[i].pols} BY DEF Allowed
<1> QED BY <1>1, <1>3, <1>4, Zenon DEF Within

LEMMA EgressInForce ==
    ASSUME NEW Cs, NEW N, NEW Ps, N \in Nat, Hosted(Ps), EgressInv(Cs, N, Ps)
    PROVE  Egress(Cs, N, Ps)!InForce
<1> SUFFICES ASSUME NEW i \in 1 .. N, slot[i].gen = net[i].gen, ~net[i].odd,
                    Egress(Cs, N, Ps)!Programming(i) = {}
             PROVE  LET p == slot[i].sig
                        l == slot[i].lease
                        must == p.allow \union (IF l.st = "running" THEN l.targets ELSE {})
                                  \union ({artifactHost} \ {NoHost})
                        reach == Egress(Cs, N, Ps)!Reach(net[i])
                    IN  /\ must \subseteq reach
                        /\ IF p.enforce THEN reach \subseteq p.allow \union persistent \union l.targets
                           ELSE reach = Hosts
                        /\ (\A c \in Cs : answer[c].st # "plan") /\ l.st = "free" => p = policy
  BY Zenon DEF Egress!InForce, Egress!InUse, Egress!Slots
<1>1. PICK s, ch, past, reach :
        /\ s = slot[i] /\ ch = net[i].chain /\ past = Past(Cs, answer, artifactHost, i)
        /\ reach = Egress(Cs, N, Ps)!Reach(net[i])
  OBVIOUS
<1>2. /\ boot[i].st = "none" /\ net[i].odd \in BOOLEAN /\ ch \in Chains /\ s.lease \in Leases /\ s.sig \in Ps
      /\ SlotOK(Cs, Ps, i, s, net[i], boot[i], answer, policy, past, persistent)
  BY <1>1, SlotNow
<1>3. Clear(Cs, i, s, net[i], answer, policy, past, persistent) BY <1>2 DEF SlotOK
<1>4. Settled(s, ch, past, persistent)
  <2>1. \A c \in Cs : ~At(answer, c, i, net[i].gen) BY DEF Egress!Programming, Egress!Alive, At
  <2> QED BY <1>1, <1>3, <2>1 DEF Clear
<1>5. reach = ch.allow \union (IF ch.default = "ACCEPT" /\ ~ch.reject THEN Hosts ELSE {})
  BY <1>1 DEF Egress!Reach
<1>6. {artifactHost} \ {NoHost} \subseteq past /\ {artifactHost} \ {NoHost} \subseteq Hosts
  <2>1. artifactHost \in Stores \union {NoHost} BY DEF EgressInv
  <2> QED BY <1>1, <2>1, HostsAssumption DEF Past
<1>7. s.sig.enforce \in BOOLEAN /\ s.sig.allow \subseteq Hosts /\ s.lease.targets \subseteq Hosts /\ ch.allow \subseteq Hosts
  BY <1>2 DEF Hosted, Lists, Leases, Chains
<1>8. s.sig.allow \union Given(s) \union ({artifactHost} \ {NoHost}) \subseteq reach
      /\ IF s.sig.enforce THEN reach \subseteq s.sig.allow \union persistent \union s.lease.targets ELSE reach = Hosts
  <2>1. CASE s.sig.enforce
    <3>1. reach = ch.allow BY <1>4, <1>5, <2>1 DEF Settled
    <3> QED BY <1>4, <1>6, <2>1, <3>1 DEF Settled
  <2>2. CASE ~s.sig.enforce
    <3>1. reach = Hosts BY <1>4, <1>5, <1>7, <2>2 DEF Settled
    <3>2. Given(s) \subseteq Hosts BY <1>7 DEF Given
    <3> QED BY <1>6, <1>7, <2>2, <3>1, <3>2
  <2> QED BY <2>1, <2>2
<1>9. (\A c \in Cs : answer[c].st # "plan") /\ s.lease.st = "free" => s.sig = policy
  BY <1>3 DEF Clear, Pends
<1>10. Given(s) = (IF s.lease.st = "running" THEN s.lease.targets ELSE {}) BY DEF Given
<1> QED BY <1>1, <1>8, <1>9, <1>10, Zenon

LEMMA EgressHolds ==
    ASSUME NEW Cs, NEW N, NEW Ps, N \in Nat, Hosted(Ps), EgressInv(Cs, N, Ps)
    PROVE  Egress(Cs, N, Ps)!TypeOK /\ Egress(Cs, N, Ps)!RulesHold
BY EgressTypes, EgressContained, EgressInForce DEF Egress!RulesHold

\* The rules of the slots hold for any calls, any number of slots and any policies.
THEOREM SlotsReach ==
    ASSUME NEW Cs, NEW N \in Nat, NEW Ps, Hosted(Ps)
    PROVE  Egress(Cs, N, Ps)!Spec => [](Egress(Cs, N, Ps)!TypeOK /\ Egress(Cs, N, Ps)!RulesHold)
<1>1. Egress(Cs, N, Ps)!Init => EgressInv(Cs, N, Ps) BY EgressStarts
<1>2. EgressInv(Cs, N, Ps) /\ [Egress(Cs, N, Ps)!Next]_(Egress(Cs, N, Ps)!vars) => EgressInv(Cs, N, Ps)'
  BY EgressStep, EgressStutter
<1>3. EgressInv(Cs, N, Ps) => Egress(Cs, N, Ps)!TypeOK /\ Egress(Cs, N, Ps)!RulesHold BY EgressHolds
<1> QED BY <1>1, <1>2, <1>3, PTL DEF Egress!Spec

-----------------------------------------------------------------------------
(* The parts side by side.                                                 *)

LEMMA WorkerSteps == [WorkerNext]_allVars => [Next]_vars
BY DEF WorkerNext, allVars

LEMMA CommandsPart == WorkerSpec => Spec
<1>1. WorkerInit => Init BY DEF WorkerInit
<1> QED BY <1>1, WorkerSteps, PTL DEF WorkerSpec, Spec

LEMMA PartsHosted == Hosted(OverlapPolicies) /\ Hosted(LoopPolicies)
<1>1. \A hs \in SUBSET Hosts : Lists(Enforce(hs)) BY DEF Lists, Enforce
<1>2. Lists(Open) BY DEF Lists, Open
<1>3. {} \in SUBSET Hosts /\ {"a"} \in SUBSET Hosts BY HostsAssumption
<1> QED BY <1>1, <1>2, <1>3 DEF Hosted, OverlapPolicies, LoopPolicies

PartsInv ==
    /\ part = "overlap" => EgressInv(Overlapping, 1, OverlapPolicies)
    /\ part = "loop" => EgressInv(Single, 2, LoopPolicies)

LEMMA PartsInit == WorkerInit => PartsInv
<1> SUFFICES ASSUME WorkerInit PROVE PartsInv OBVIOUS
<1>1. part = "overlap" => Egress(Overlapping, 1, OverlapPolicies)!Init BY DEF WorkerInit
<1>2. part = "loop" => Egress(Single, 2, LoopPolicies)!Init BY DEF WorkerInit
<1>3. 1 \in Nat /\ 2 \in Nat OBVIOUS
<1> QED BY <1>1, <1>2, <1>3, PartsHosted, EgressStarts DEF PartsInv

LEMMA PartsNext == PartsInv /\ [WorkerNext]_allVars => PartsInv'
<1> SUFFICES ASSUME PartsInv, [WorkerNext]_allVars PROVE PartsInv' OBVIOUS
<1>1. 1 \in Nat /\ 2 \in Nat OBVIOUS
<1>2. CASE part = "commands" /\ UNCHANGED part BY <1>2 DEF PartsInv
<1>3. CASE part = "overlap" /\ Egress(Overlapping, 1, OverlapPolicies)!Next /\ UNCHANGED part
  <2>1. EgressInv(Overlapping, 1, OverlapPolicies)' BY <1>1, <1>3, PartsHosted, EgressStep DEF PartsInv
  <2> QED BY <1>3, <2>1 DEF PartsInv
<1>4. CASE part = "loop" /\ Egress(Single, 2, LoopPolicies)!Next /\ UNCHANGED part
  <2>1. EgressInv(Single, 2, LoopPolicies)' BY <1>1, <1>4, PartsHosted, EgressStep DEF PartsInv
  <2> QED BY <1>4, <2>1 DEF PartsInv
<1>5. CASE UNCHANGED allVars
  <2>1. UNCHANGED part BY <1>5 DEF allVars
  <2>2. UNCHANGED Egress(Overlapping, 1, OverlapPolicies)!vars /\ UNCHANGED Egress(Single, 2, LoopPolicies)!vars
    BY <1>5 DEF allVars, egressVars, Egress!vars
  <2>3. EgressInv(Overlapping, 1, OverlapPolicies) => EgressInv(Overlapping, 1, OverlapPolicies)'
    BY <2>2, EgressStutter
  <2>4. EgressInv(Single, 2, LoopPolicies) => EgressInv(Single, 2, LoopPolicies)'
    BY <2>2, EgressStutter
  <2> QED BY <2>1, <2>3, <2>4 DEF PartsInv
<1> QED BY <1>2, <1>3, <1>4, <1>5 DEF WorkerNext

(* However the answers of the manager, leases, their ends and the rebuilding   *)
(* of slots interleave and wherever commands fail, a slot lets through no more *)
(* than its policies, its lease and the object store stand for; and no less,   *)
(* unless something came between that SlotEgress marks as odd                  *)
(* (namespace/netns.js, namespace/slot-pool.js, manager/client.js).            *)
THEOREM WorkerRules == WorkerSpec => []RulesHold
<1>1. PartsInv => RulesHold
  <2>1. 1 \in Nat /\ 2 \in Nat OBVIOUS
  <2> QED BY <2>1, PartsHosted, EgressHolds DEF PartsInv, RulesHold
<1> QED BY <1>1, PartsInit, PartsNext, PTL DEF WorkerSpec

(* The types of both, with what retention keeps of finished commands       *)
(* (exec-jobs.js, namespace/netns.js, slot-pool.js).                       *)
THEOREM WorkerTyped == WorkerSpec => []AllTypeOK
<1>1. PartsInv /\ TypeOK => AllTypeOK
  <2>1. 1 \in Nat /\ 2 \in Nat OBVIOUS
  <2> QED BY <2>1, PartsHosted, EgressHolds DEF PartsInv, AllTypeOK
<1> QED BY <1>1, PartsInit, PartsNext, CommandsPart, ExecTyped, PTL DEF WorkerSpec
=============================================================================
