----------------------------- MODULE TurnProofs -----------------------------
(***************************************************************************)
(* Proofs about what a turn leaves behind.  RunStream, for any runs,       *)
(* limits and streams: a buffer is a window of consecutive frames that     *)
(* ends with the newest one, and what is on the wire continues what the    *)
(* page has shown.  Workspace, for any sessions, turns and files, and      *)
(* Sessions, for any sessions, projects, calls and pages, below.           *)
(***************************************************************************)
EXTENDS RunStream, Workspace, Sessions, FiniteSetTheorems, WellFoundedInduction, TLAPS


(* Numbers and sequences.                                                  *)

\* The least element, by well-founded induction.
LEMMA LeastNumber ==
    ASSUME NEW T, T \subseteq Nat, T # {}
    PROVE  \E k \in T : \A j \in T : k <= j
<1>1. PICK k \in T : \A j \in T : <<j, k>> \notin OpToRel(<, Nat)
  BY NatLessThanWellFounded, WFMin
<1>2. \A j \in T : ~(j < k)
  <2>1. TAKE j \in T
  <2>2. SUFFICES ASSUME j < k PROVE FALSE  OBVIOUS
  <2>3. <<j, k>> \in Nat \X Nat  OBVIOUS
  <2>4. <<j, k>> \in OpToRel(<, Nat)  BY <2>2, <2>3 DEF OpToRel
  <2>5. QED  BY <1>1, <2>4
<1>3. QED  BY <1>2

\* The fold over no frame.
LEMMA NoBytes == Bytes(<<>>) = 0
<1> DEFINE E == <<>>
    Body(h) == [s \in SUBSET DOMAIN E |->
                  IF s = {} THEN 0
                  ELSE LET x == CHOOSE y \in s : TRUE IN E[x].bytes + h[s \ {x}]]
<1>1. Bytes(E) = (CHOOSE h : h = Body(h))[DOMAIN E]
  BY Zenon DEF Bytes, FoldSeq, FoldFunction, FoldFunctionOnSet, MapThenFoldSet
<1>2. DOMAIN E = {}  OBVIOUS
<1> HIDE DEF E
<1>3. \E h : h = Body(h)
  <2>1. [s \in SUBSET DOMAIN E |-> 0] = Body([s \in SUBSET DOMAIN E |-> 0])
    BY <1>2
  <2>2. QED  BY <2>1
<1>4. PICK h : h = (CHOOSE g : g = Body(g)) /\ h = Body(h)  BY <1>3
<1>5. h[DOMAIN E] = 0
  <2>1. Body(h)[{}] = 0  BY <1>2
  <2>2. QED  BY <1>2, <1>4, <2>1
<1>6. QED  BY <1>1, <1>4, <1>5 DEF E

LEMMA AfterFacts ==
    ASSUME NEW S, NEW frames \in Seq(S), NEW k \in 0 .. Len(frames)
    PROVE  /\ After(frames, k) \in Seq(S)
           /\ Len(After(frames, k)) = Len(frames) - k
           /\ \A i \in 1 .. Len(frames) - k : After(frames, k)[i] = frames[k + i]
  BY DEF After

-----------------------------------------------------------------------------
(* Buffers.                                                                *)

\* trim() ends: what is left when everything was dropped fits.
LEMMA Dropped ==
    ASSUME NEW frames \in Seq(Frame)
    PROVE  /\ DroppedCount(frames) \in 0 .. Len(frames)
           /\ Fits(After(frames, DroppedCount(frames)))
<1> DEFINE T == {k \in 0 .. Len(frames) : Fits(After(frames, k))}
<1>1. After(frames, Len(frames)) = <<>>
  <2>1. After(frames, Len(frames)) \in Seq(Frame) /\ Len(After(frames, Len(frames))) = 0
    BY AfterFacts
  <2>2. QED  BY <2>1
<1>2. Fits(<<>>)  BY NoBytes, LimitsAssumption DEF Fits
<1>3. T # {} /\ T \subseteq Nat  BY <1>1, <1>2
<1>4. PICK k \in T : \A j \in T : k <= j  BY <1>3, LeastNumber, Zenon
<1>5. \A j \in 0 .. k - 1 : ~Fits(After(frames, j))
  <2>1. TAKE j \in 0 .. k - 1
  <2>2. j \in 0 .. Len(frames) /\ ~(k <= j)  OBVIOUS
  <2>3. QED  BY <1>4, <2>2
<1>6. \E d \in 0 .. Len(frames) : /\ Fits(After(frames, d))
                                  /\ \A j \in 0 .. d - 1 : ~Fits(After(frames, j))
  BY <1>4, <1>5
<1>7. QED  BY <1>6, Zenon DEF DroppedCount

Typed(b) == b \in Buffers /\ BufferOK(b)

\* No more frames than numbers were given.
LEMMA TypedCount ==
    ASSUME NEW b, Typed(b)
    PROVE  /\ Len(b.frames) \in Nat /\ b.next \in Nat
           /\ Len(b.frames) + 1 <= b.next
<1>1. b.frames \in Seq(Frame) /\ b.next \in Nat \ {0}  BY DEF Typed, Buffers
<1>2. CASE Len(b.frames) = 0  BY <1>1, <1>2
<1>3. CASE Len(b.frames) > 0
  <2>1. b.frames[1] \in Frame  BY <1>1, <1>3
  <2>2. b.frames[1].seq \in Nat \ {0}  BY <2>1 DEF Frame
  <2>3. 1 \in 1 .. Len(b.frames)  BY <1>1, <1>3
  <2>4. b.frames[1].seq = b.next - Len(b.frames) + 1 - 1  BY <2>3 DEF Typed, BufferOK
  <2>5. QED  BY <1>1, <2>2, <2>4
<1>4. QED  BY <1>1, <1>2, <1>3

\* append() and its trim leave a window that ends with the new frame.
LEMMA AppendedTyped ==
    ASSUME NEW b, Typed(b), NEW f \in Frame, f.seq = b.next
    PROVE  /\ Typed(Appended(b, f))
           /\ Appended(b, f).next = b.next + 1
           /\ Appended(b, f).done = b.done
<1>1. PICK g, c : g = Append(b.frames, f) /\ c = [b EXCEPT !.frames = Append(@, f), !.next = @ + 1]
  OBVIOUS
<1>2. b \in Buffers /\ b.frames \in Seq(Frame) /\ b.next \in Nat \ {0} /\ b.truncated \in BOOLEAN
  BY DEF Typed, Buffers
<1>3. g \in Seq(Frame) /\ Len(g) = Len(b.frames) + 1  BY <1>1, <1>2
<1>4. \A i \in 1 .. Len(g) : g[i].seq = b.next - Len(b.frames) + i - 1
  <2>1. TAKE i \in 1 .. Len(g)
  <2>2. CASE i = Len(b.frames) + 1  BY <1>1, <1>2, <2>2
  <2>3. CASE i # Len(b.frames) + 1
    <3>1. i \in 1 .. Len(b.frames) /\ g[i] = b.frames[i]  BY <1>1, <1>2, <1>3, <2>3
    <3>2. QED  BY <3>1 DEF Typed, BufferOK
  <2>4. QED  BY <2>2, <2>3
<1>5. PICK d : d = DroppedCount(g) /\ d \in 0 .. Len(g) /\ Fits(After(g, d))
  BY <1>3, Dropped
<1>6. /\ After(g, d) \in Seq(Frame) /\ Len(After(g, d)) = Len(g) - d
      /\ \A i \in 1 .. Len(g) - d : After(g, d)[i] = g[d + i]
  BY <1>3, <1>5, AfterFacts
<1>7. /\ c \in Buffers /\ c.frames = g /\ c.next = b.next + 1 /\ c.done = b.done
      /\ c.truncated = b.truncated
  <2>1. c = [frames |-> g, next |-> b.next + 1, truncated |-> b.truncated, done |-> b.done]
    BY <1>1 DEF Typed, Buffers
  <2>2. b.done \in BOOLEAN /\ b.next + 1 \in Nat \ {0}  BY <1>2 DEF Buffers
  <2>3. QED  BY <1>2, <1>3, <2>1, <2>2 DEF Buffers
<1>8. PICK a : a = Appended(b, f) /\ a = [c EXCEPT !.frames = After(g, d), !.truncated = @ \/ d > 0]
  <2>1. Appended(b, f) = Trim(c)  BY <1>1, Zenon DEF Appended
  <2>2. Trim(c) = [c EXCEPT !.frames = After(g, d), !.truncated = @ \/ d > 0]
    BY <1>5, <1>7, Zenon DEF Trim
  <2>3. QED  BY <2>1, <2>2
<1>9. /\ a \in Buffers /\ a.frames = After(g, d) /\ a.next = b.next + 1 /\ a.done = b.done
      /\ a.truncated = (b.truncated \/ d > 0)
  <2>1. PICK t \in BOOLEAN : t = (b.truncated \/ d > 0)  OBVIOUS
  <2>2. a = [c EXCEPT !.frames = After(g, d), !.truncated = t]  BY <1>7, <1>8, <2>1, Zenon
  <2>3. QED  BY <1>6, <1>7, <2>1, <2>2 DEF Buffers
<1>10. Fits(a.frames)  BY <1>5, <1>9
<1>11. \A i \in 1 .. Len(a.frames) : a.frames[i].seq = a.next - Len(a.frames) + i - 1
  <2>1. TAKE i \in 1 .. Len(a.frames)
  <2>2. a.frames[i] = g[d + i] /\ d + i \in 1 .. Len(g)  BY <1>5, <1>6, <1>9, <1>3
  <2>3. a.frames[i].seq = b.next - Len(b.frames) + (d + i) - 1  BY <2>2, <1>4
  <2>4. Len(a.frames) = Len(b.frames) + 1 - d  BY <1>2, <1>3, <1>5, <1>6, <1>9
  <2>5. Len(b.frames) \in Int /\ d \in Int /\ b.next \in Int /\ i \in Int
    BY <1>2, <1>3, <1>5, <2>4
  <2>6. b.next - Len(b.frames) + (d + i) - 1 = a.next - Len(a.frames) + i - 1
    BY <2>4, <2>5, <1>9
  <2>7. QED  BY <2>2, <2>3, <2>6
<1>12. a.truncated <=> Len(a.frames) + 1 < a.next
  <2>1. Len(a.frames) = Len(b.frames) + 1 - d /\ Len(b.frames) \in Nat /\ d \in Nat
    BY <1>6, <1>9, <1>3, <1>5, <1>2
  <2>2. Len(b.frames) + 1 <= b.next  BY TypedCount
  <2>3. b.truncated <=> Len(b.frames) + 1 < b.next  BY DEF Typed, BufferOK
  <2>4. (b.truncated \/ d > 0) <=> Len(b.frames) + 1 - d + 1 < b.next + 1
    BY <2>1, <2>2, <2>3, <1>2
  <2>5. QED  BY <2>1, <2>4, <1>9
<1>13. QED  BY <1>8, <1>9, <1>10, <1>11, <1>12 DEF Typed, BufferOK

LEMMA NewBuffer ==
    /\ Typed(Appended(Buffer, RunStart)) /\ Appended(Buffer, RunStart).next = 2
    /\ Appended(Buffer, RunStart).done = FALSE
    /\ RunStart \in Frame /\ RunStart.seq = 1
<1>1. Buffer \in Buffers /\ Buffer.next = 1 /\ Buffer.frames = <<>> /\ Buffer.done = FALSE
      /\ Buffer.truncated = FALSE
  BY DEF Buffer, Buffers
<1>2. Fits(<<>>)  BY NoBytes, LimitsAssumption DEF Fits
<1>3. Typed(Buffer)  BY <1>1, <1>2 DEF Typed, BufferOK
<1>4. RunStart \in Frame /\ RunStart.seq = 1  BY DEF RunStart, Frame, Buffer
<1>5. QED  BY <1>1, <1>3, <1>4, AppendedTyped

LEMMA Shifted ==
    ASSUME NEW x \in Int, NEW n \in Int, NEW m \in Int, NEW i \in Int, NEW from \in Int,
           m = from + 1 + n - x
    PROVE  x - n + (m + i) - 1 = from + i
  OBVIOUS

\* What the filter of subscribe leaves.
LEMMA ReplayFacts ==
    ASSUME NEW b, Typed(b), NEW from \in Nat, from < b.next, ~Gapped(b, from)
    PROVE  /\ Replay(b, from) \in Seq(Frame)
           /\ Len(Replay(b, from)) = b.next - 1 - from
           /\ \A i \in 1 .. Len(Replay(b, from)) : Replay(b, from)[i].seq = from + i
<1>1. PICK n, m : n = Len(b.frames) /\ m = from + 1 + n - b.next  OBVIOUS
<1>2. /\ b.frames \in Seq(Frame) /\ b.next \in Nat /\ n \in Nat /\ n + 1 <= b.next
      /\ \A i \in 1 .. n : b.frames[i].seq = b.next - n + i - 1
      /\ b.truncated <=> n + 1 < b.next
      /\ b.truncated \in BOOLEAN
  BY <1>1, TypedCount DEF Typed, BufferOK, Buffers
<1>3. m \in 0 .. n
  <2>1. m <= n /\ m \in Int  BY <1>1, <1>2
  <2>2. m >= 0
    <3>1. CASE ~b.truncated  BY <3>1, <1>1, <1>2
    <3>2. CASE b.truncated
      <4>1. ~(from + 1 < Oldest(b))  BY <3>2 DEF Gapped
      <4>2. Oldest(b) = b.next - n
        <5>1. CASE n = 0
          <6>1. b.frames = <<>>  BY <5>1, <1>1, <1>2
          <6>2. QED  BY <6>1, <1>2, <5>1 DEF Oldest
        <5>2. CASE n > 0
          <6>1. b.frames # <<>> /\ 1 \in 1 .. n /\ Head(b.frames) = b.frames[1]
            BY <5>2, <1>1, <1>2
          <6>2. QED  BY <6>1, <1>2 DEF Oldest
        <5>3. QED  BY <5>1, <5>2, <1>2
      <4>3. QED  BY <4>1, <4>2, <1>1, <1>2
    <3>3. QED  BY <3>1, <3>2
  <2>3. QED  BY <2>1, <2>2
<1>4. Seen(b.frames, from) = 1 .. m
  <2>1. DOMAIN b.frames = 1 .. n  BY <1>1, <1>2
  <2>2. ASSUME NEW i \in 1 .. n
        PROVE  b.frames[i].seq <= from <=> i \in 1 .. m
    <3>1. b.frames[i].seq = b.next - n + i - 1  BY <1>2
    <3>2. m \in Int /\ b.next \in Int /\ n \in Int  BY <1>2, <1>3
    <3>3. b.next - n + i - 1 <= from <=> i <= m  BY <1>1, <3>2
    <3>4. QED  BY <3>1, <3>2, <3>3
  <2>3. \A i \in 1 .. m : i \in 1 .. n  BY <1>2, <1>3
  <2>4. QED  BY <2>1, <2>2, <2>3 DEF Seen
<1>5. Cardinality(Seen(b.frames, from)) = m
  <2>1. Cardinality(1 .. m) = IF 1 > m THEN 0 ELSE m - 1 + 1  BY <1>3, FS_Interval
  <2>2. QED  BY <1>3, <1>4, <2>1
<1>6. PICK w : w = After(b.frames, m)  OBVIOUS
<1>7. w = Replay(b, from)  BY <1>5, <1>6, Zenon DEF Replay
<1>8. w \in Seq(Frame) /\ Len(w) = n - m /\ \A i \in 1 .. n - m : w[i] = b.frames[m + i]
  <2>1. m \in 0 .. Len(b.frames)  BY <1>1, <1>3
  <2>2. /\ After(b.frames, m) \in Seq(Frame) /\ Len(After(b.frames, m)) = Len(b.frames) - m
        /\ \A i \in 1 .. Len(b.frames) - m : After(b.frames, m)[i] = b.frames[m + i]
    <3>1. PICK g : g = b.frames  OBVIOUS
    <3>2. g \in Seq(Frame) /\ m \in 0 .. Len(g)  BY <1>2, <2>1, <3>1
    <3>3. /\ After(g, m) \in Seq(Frame) /\ Len(After(g, m)) = Len(g) - m
          /\ \A i \in 1 .. Len(g) - m : After(g, m)[i] = g[m + i]
      BY <3>2, AfterFacts
    <3>4. QED  BY <3>1, <3>3
  <2>3. QED  BY <2>2, <1>1, <1>6
<1>9. \A i \in 1 .. Len(w) : w[i].seq = from + i
  <2>1. TAKE i \in 1 .. Len(w)
  <2>2. m + i \in 1 .. n /\ w[i] = b.frames[m + i]
    <3>1. i \in 1 .. n - m  BY <1>8
    <3>2. n \in Int /\ m \in Int /\ 0 <= m  BY <1>2, <1>3
    <3>3. m + i \in 1 .. n  BY <3>1, <3>2
    <3>4. QED  BY <1>8, <3>1, <3>3
  <2>3. b.frames[m + i].seq = b.next - n + (m + i) - 1  BY <2>2, <1>2
  <2>4. b.next \in Int /\ n \in Int /\ m \in Int /\ i \in Int /\ from \in Int
    BY <1>2, <1>3, <1>8
  <2>5. m = from + 1 + n - b.next  BY <1>1
  <2>6. b.next - n + (m + i) - 1 = from + i
    <3>1. PICK x \in Int : x = b.next  BY <2>4
    <3>2. m = from + 1 + n - x  BY <2>5, <3>1
    <3>3. x - n + (m + i) - 1 = from + i  BY <2>4, <3>2, Shifted
    <3>4. QED  BY <3>1, <3>3
  <2>7. QED  BY <2>2, <2>3, <2>6
<1>10. Len(w) = b.next - 1 - from
  <2>1. PICK x \in Int : x = b.next  BY <1>2
  <2>2. m = from + 1 + n - x /\ Len(w) = n - m  BY <1>1, <1>8, <2>1
  <2>3. n - m = x - 1 - from  BY <1>2, <1>3, <2>2
  <2>4. QED  BY <2>1, <2>2, <2>3
<1>11. QED  BY <1>7, <1>8, <1>9, <1>10

-----------------------------------------------------------------------------
(* The registry.                                                           *)

Following == {"joining", "live", "dropped"}

RegOK ==
    /\ reg \in [Run -> Buffers \cup {None}]
    /\ \A r \in Run : reg[r] # None => Typed(reg[r])
StageOK ==
    /\ stage \in [Run -> {"new", "running", "ending", "over"}]
    /\ \A r \in Run : stage[r] = "new" => reg[r] = None
    /\ \A r \in Run : stage[r] \in {"running", "ending"} => reg[r] # None /\ reg[r].done = FALSE
OverOK ==
    /\ ended \in Seq(Run) /\ aged \subseteq Run
    /\ \A i \in DOMAIN ended : stage[ended[i]] = "over"
    /\ \A r \in aged : stage[r] = "over"
RegInv == RegOK /\ StageOK /\ OverOK

LEMMA NoneIsNone == None \notin Run /\ None \notin Buffers /\ None \notin Streams
  BY NoneAssumption, Zenon

LEMMA TypedIsSome == ASSUME NEW b, Typed(b) PROVE b # None
  BY NoneIsNone DEF Typed

\* Only runs that are over are forgotten.
LEMMA SweepOver ==
    ASSUME RegInv
    PROVE  \A r \in Sweep : r \in Run /\ stage[r] = "over"
<1>1. /\ ended \in Seq(Run) /\ aged \subseteq Run
      /\ \A i \in DOMAIN ended : ended[i] \in Run /\ stage[ended[i]] = "over"
      /\ \A r \in aged : stage[r] = "over"
  BY DEF RegInv, OverOK
<1>2. ASSUME NEW r \in Sweep PROVE r \in aged \/ \E i \in DOMAIN ended : r = ended[i]
  BY Zenon DEF Sweep
<1>3. ASSUME NEW r \in Sweep PROVE r \in Run /\ stage[r] = "over"
  <2>1. CASE r \in aged  BY <1>1, <2>1
  <2>2. CASE \E i \in DOMAIN ended : r = ended[i]
    <3>1. PICK i \in DOMAIN ended : r = ended[i]  BY <2>2
    <3>2. QED  BY <1>1, <3>1
  <2>3. QED  BY <1>2, <2>1, <2>2
<1>4. QED  BY <1>3

\* What another step does to a run that has begun.
Shrunk(r) == reg'[r] = reg[r] \/ reg'[r] = None

LEMMA SweptKeeps ==
    ASSUME RegInv
    PROVE  \A r \in Run : /\ Swept(Sweep)[r] = reg[r] \/ Swept(Sweep)[r] = None
                          /\ stage[r] # "over" => Swept(Sweep)[r] = reg[r]
<1>1. TAKE r \in Run
<1>2. Swept(Sweep)[r] = IF r \in Sweep THEN None ELSE reg[r]  BY DEF Swept
<1>3. stage[r] # "over" => r \notin Sweep  BY SweepOver, Zenon
<1>4. QED  BY <1>2, <1>3, Zenon

LEMMA ForgetKeeps ==
    ASSUME RegInv, reg' = Swept(Sweep), ForgetRuns(Sweep), UNCHANGED stage
    PROVE  RegInv' /\ \A r \in Run : Shrunk(r)
<1>1. \A r \in Run : /\ reg'[r] = reg[r] \/ reg'[r] = None
                     /\ stage[r] # "over" => reg'[r] = reg[r]
  BY SweptKeeps, Zenon
<1>2. reg' \in [Run -> Buffers \cup {None}]
  BY <1>1 DEF Swept, RegInv, RegOK
<1>3. RegOK'  BY <1>1, <1>2 DEF RegInv, RegOK
<1>4. StageOK'
  <2>1. /\ stage \in [Run -> {"new", "running", "ending", "over"}]
        /\ \A r \in Run : stage[r] = "new" => reg[r] = None
        /\ \A r \in Run : stage[r] \in {"running", "ending"} => reg[r] # None /\ reg[r].done = FALSE
    BY DEF RegInv, StageOK
  <2>2. \A r \in Run : stage[r] = "new" => reg'[r] = None  BY <1>1, <2>1
  <2>3. \A r \in Run : stage[r] \in {"running", "ending"} => reg'[r] = reg[r]  BY <1>1
  <2>4. QED  BY <2>1, <2>2, <2>3 DEF StageOK
<1>5. OverOK'  BY DEF RegInv, OverOK, ForgetRuns
<1>6. QED  BY <1>1, <1>3, <1>4, <1>5 DEF RegInv, Shrunk

LEMMA OpenKeeps ==
    ASSUME RegInv, NEW r \in Run, Open(r)
    PROVE  /\ RegInv'
           /\ reg[r] = None /\ stage[r] = "new" /\ stage'[r] = "running"
           /\ reg'[r] # None /\ reg'[r].next = 2
           /\ \A q \in Run : q # r => Shrunk(q) /\ stage'[q] = stage[q]
<1> DEFINE a == Appended(Buffer, RunStart)
<1>1. Typed(a) /\ a.next = 2 /\ a.done = FALSE /\ a # None /\ a \in Buffers
  BY NewBuffer, TypedIsSome DEF Typed
<1> HIDE DEF a
<1>2. /\ stage[r] = "new" /\ stage' = [stage EXCEPT ![r] = "running"]
      /\ reg' = [Swept(Sweep) EXCEPT ![r] = a]
      /\ aged' = aged \ Sweep /\ ended' = ended
  BY DEF Open, ForgetRuns, a
<1>3. /\ stage \in [Run -> {"new", "running", "ending", "over"}]
      /\ \A q \in Run : stage[q] = "new" => reg[q] = None
      /\ \A q \in Run : stage[q] \in {"running", "ending"} => reg[q] # None /\ reg[q].done = FALSE
      /\ reg \in [Run -> Buffers \cup {None}]
      /\ \A q \in Run : reg[q] # None => Typed(reg[q])
      /\ ended \in Seq(Run) /\ aged \subseteq Run
      /\ \A i \in DOMAIN ended : stage[ended[i]] = "over"
      /\ \A q \in aged : stage[q] = "over"
  BY DEF RegInv, StageOK, RegOK, OverOK
<1>4. Swept(Sweep) \in [Run -> Buffers \cup {None}]
  BY <1>3 DEF Swept
<1>5. reg' \in [Run -> Buffers \cup {None}] /\ reg'[r] = a  BY <1>1, <1>2, <1>4
<1>6. \A q \in Run : q # r => /\ reg'[q] = reg[q] \/ reg'[q] = None
                              /\ stage[q] # "over" => reg'[q] = reg[q]
  BY <1>2, <1>4, SweptKeeps
<1>7. /\ stage' \in [Run -> {"new", "running", "ending", "over"}] /\ stage'[r] = "running"
      /\ \A q \in Run : q # r => stage'[q] = stage[q]
  BY <1>2, <1>3
<1>8. RegOK'  BY <1>1, <1>3, <1>5, <1>6 DEF RegOK
<1>9. StageOK'
  <2>1. \A q \in Run : stage'[q] = "new" => reg'[q] = None
    BY <1>3, <1>6, <1>7
  <2>2. ASSUME NEW q \in Run, stage'[q] \in {"running", "ending"}
        PROVE  reg'[q] # None /\ reg'[q].done = FALSE
    <3>1. CASE q = r  BY <3>1, <1>1, <1>5
    <3>2. CASE q # r
      <4>1. stage'[q] = stage[q]  BY <1>7, <3>2
      <4>2. stage[q] \in {"running", "ending"} /\ reg'[q] = reg[q]  BY <1>6, <3>2, <2>2, <4>1
      <4>3. QED  BY <1>3, <4>2
    <3>3. QED  BY <3>1, <3>2
  <2>3. QED  BY <1>7, <2>1, <2>2 DEF StageOK
<1>10. OverOK'
  <2>1. ASSUME NEW q \in Run, stage[q] = "over" PROVE stage'[q] = "over"
    BY <1>2, <1>7, <2>1
  <2>2. \A i \in DOMAIN ended : ended[i] \in Run  BY <1>3
  <2>3. QED  BY <1>2, <1>3, <2>1, <2>2 DEF OverOK
<1>11. QED  BY <1>1, <1>2, <1>3, <1>5, <1>6, <1>7, <1>8, <1>9, <1>10 DEF RegInv, Shrunk

\* A frame of a running run.
LEMMA EmitKeeps ==
    ASSUME RegInv, NEW r \in Run, stage[r] = "running",
           NEW f \in Frame, f.seq = reg[r].next,
           reg' = [reg EXCEPT ![r] = Appended(@, f)],
           ended' = ended, aged' = aged,
           stage' = stage \/ stage' = [stage EXCEPT ![r] = "ending"]
    PROVE  /\ RegInv'
           /\ reg[r] # None /\ reg'[r] # None /\ reg'[r].next = reg[r].next + 1
           /\ \A q \in Run : /\ stage[q] # "new" => stage'[q] # "new"
                             /\ q # r => reg'[q] = reg[q]
<1>1. /\ stage \in [Run -> {"new", "running", "ending", "over"}]
      /\ \A q \in Run : stage[q] = "new" => reg[q] = None
      /\ \A q \in Run : stage[q] \in {"running", "ending"} => reg[q] # None /\ reg[q].done = FALSE
      /\ reg \in [Run -> Buffers \cup {None}]
      /\ \A q \in Run : reg[q] # None => Typed(reg[q])
      /\ ended \in Seq(Run) /\ aged \subseteq Run
      /\ \A i \in DOMAIN ended : stage[ended[i]] = "over"
      /\ \A q \in aged : stage[q] = "over"
  BY DEF RegInv, StageOK, RegOK, OverOK
<1>2. PICK b, a : b = reg[r] /\ a = Appended(b, f)  OBVIOUS
<1>3. Typed(b) /\ b # None /\ b.done = FALSE /\ f.seq = b.next  BY <1>1, <1>2
<1>4. Typed(a) /\ a.next = b.next + 1 /\ a.done = FALSE  BY <1>2, <1>3, AppendedTyped
<1>5. a # None /\ a \in Buffers  BY <1>4, TypedIsSome DEF Typed
<1>6. reg' = [reg EXCEPT ![r] = a]  BY <1>2
<1>7. /\ reg' \in [Run -> Buffers \cup {None}] /\ reg'[r] = a
      /\ \A q \in Run : q # r => reg'[q] = reg[q]
  BY <1>1, <1>5, <1>6
<1>8. /\ stage' \in [Run -> {"new", "running", "ending", "over"}]
      /\ stage'[r] \in {"running", "ending"}
      /\ \A q \in Run : q # r => stage'[q] = stage[q]
  BY <1>1
<1>9. RegOK'  BY <1>1, <1>4, <1>7 DEF RegOK
<1>10. StageOK'
  <2>1. \A q \in Run : stage'[q] = "new" => reg'[q] = None  BY <1>1, <1>7, <1>8
  <2>2. ASSUME NEW q \in Run, stage'[q] \in {"running", "ending"}
        PROVE  reg'[q] # None /\ reg'[q].done = FALSE
    <3>1. CASE q = r  BY <3>1, <1>4, <1>5, <1>7
    <3>2. CASE q # r  BY <3>2, <1>1, <1>7, <1>8, <2>2
    <3>3. QED  BY <3>1, <3>2
  <2>3. QED  BY <1>8, <2>1, <2>2 DEF StageOK
<1>11. OverOK'
  <2>1. ASSUME NEW q \in Run, stage[q] = "over" PROVE stage'[q] = "over"
    BY <1>8, <2>1
  <2>2. \A i \in DOMAIN ended : ended[i] \in Run  BY <1>1
  <2>3. QED  BY <1>1, <2>1, <2>2 DEF OverOK
<1>12. \A q \in Run : stage[q] # "new" => stage'[q] # "new"  BY <1>8
<1>13. QED  BY <1>2, <1>3, <1>4, <1>5, <1>7, <1>9, <1>10, <1>11, <1>12 DEF RegInv

LEMMA CloseKeeps ==
    ASSUME RegInv, NEW r \in Run, Close(r)
    PROVE  /\ RegInv'
           /\ \A q \in Run : /\ stage[q] # "new" => stage'[q] # "new"
                             /\ reg[q] = None => reg'[q] = None
                             /\ reg[q] # None => reg'[q].next = reg[q].next
<1>1. /\ stage \in [Run -> {"new", "running", "ending", "over"}]
      /\ \A q \in Run : stage[q] = "new" => reg[q] = None
      /\ \A q \in Run : stage[q] \in {"running", "ending"} => reg[q] # None /\ reg[q].done = FALSE
      /\ reg \in [Run -> Buffers \cup {None}]
      /\ \A q \in Run : reg[q] # None => Typed(reg[q])
      /\ ended \in Seq(Run) /\ aged \subseteq Run
      /\ \A i \in DOMAIN ended : stage[ended[i]] = "over"
      /\ \A q \in aged : stage[q] = "over"
  BY DEF RegInv, StageOK, RegOK, OverOK
<1>2. /\ stage[r] = "ending" /\ stage' = [stage EXCEPT ![r] = "over"]
      /\ reg' = [reg EXCEPT ![r].done = TRUE] /\ ended' = Append(ended, r) /\ aged' = aged
  BY DEF Close
<1>3. PICK b, a : b = reg[r] /\ a = [b EXCEPT !.done = TRUE]  OBVIOUS
<1>4. Typed(b) /\ b # None  BY <1>1, <1>2, <1>3
<1>5. /\ a \in Buffers /\ a.frames = b.frames /\ a.next = b.next /\ a.truncated = b.truncated
  BY <1>3, <1>4 DEF Typed, Buffers
<1>6. Typed(a) /\ a # None
  <2>1. BufferOK(a)  BY <1>4, <1>5 DEF Typed, BufferOK
  <2>2. QED  BY <1>5, <2>1, TypedIsSome DEF Typed
<1>7. /\ reg' \in [Run -> Buffers \cup {None}] /\ reg'[r] = a
      /\ \A q \in Run : q # r => reg'[q] = reg[q]
  BY <1>1, <1>2, <1>3, <1>5
<1>8. /\ stage' \in [Run -> {"new", "running", "ending", "over"}] /\ stage'[r] = "over"
      /\ \A q \in Run : q # r => stage'[q] = stage[q]
  BY <1>1, <1>2
<1>9. RegOK'  BY <1>1, <1>6, <1>7 DEF RegOK
<1>10. StageOK'  BY <1>1, <1>7, <1>8 DEF StageOK
<1>11. OverOK'
  <2>1. ASSUME NEW q \in Run, stage[q] = "over" PROVE stage'[q] = "over"
    BY <1>8, <2>1
  <2>2. ended' \in Seq(Run)  BY <1>1, <1>2
  <2>3. ASSUME NEW i \in DOMAIN ended' PROVE stage'[ended'[i]] = "over"
    <3>1. Len(ended) \in Nat /\ DOMAIN ended' = 1 .. Len(ended) + 1 /\ DOMAIN ended = 1 .. Len(ended)
      BY <1>1, <1>2
    <3>2. CASE i = Len(ended) + 1
      <4>1. ended'[i] = r  BY <1>1, <1>2, <3>2
      <4>2. QED  BY <4>1, <1>8
    <3>3. CASE i # Len(ended) + 1
      <4>1. i \in DOMAIN ended /\ ended'[i] = ended[i] /\ ended[i] \in Run
        BY <1>1, <1>2, <3>1, <3>3
      <4>2. QED  BY <4>1, <1>1, <2>1
    <3>4. QED  BY <3>2, <3>3
  <2>4. QED  BY <1>1, <1>2, <2>1, <2>2, <2>3 DEF OverOK
<1>12. QED  BY <1>3, <1>4, <1>5, <1>7, <1>8, <1>9, <1>10, <1>11 DEF RegInv

-----------------------------------------------------------------------------
(* The page and its stream.                                                *)

\* What is shown are the first frames, and the breakpoint is the last of them.
Numbered(t) ==
    /\ \A i \in 1 .. Len(t.shown) : t.shown[i] = i
    /\ t.outcome # "resync" => t.lastSeq = Len(t.shown)
\* A page that follows a run knows only frames that the run has.
Placed(t) ==
    t.mode \in Following =>
        /\ t.run \in Run /\ t.outcome = "none" /\ stage[t.run] # "new"
        /\ reg[t.run] # None => t.lastSeq < reg[t.run].next
\* What is on the wire continues what is shown, up to the newest frame while
\* the stream is open, or it is the news of a gap.
Continues(t, c) ==
    /\ c.wire \in Seq(Frame)
    /\ \A i \in 1 .. Len(c.wire) : c.wire[i].seq = t.lastSeq + i
    /\ reg[t.run] # None => t.lastSeq + Len(c.wire) < reg[t.run].next
    /\ reg[t.run] # None /\ c.open = TRUE => reg[t.run].next = t.lastSeq + Len(c.wire) + 1
GapNews(c) == c.wire = <<Resync>> /\ c.open = FALSE
Fed(t, c) == t.mode = "live" => c.run = t.run /\ (GapNews(c) \/ Continues(t, c))
PageOK ==
    /\ tab \in Pages /\ conn \in Streams \cup {None}
    /\ conn = None <=> tab.mode # "live"
PageInv == PageOK /\ Numbered(tab) /\ Placed(tab) /\ Fed(tab, conn)

\* What the registry may do to the run that a page follows, short of a frame.
Steady ==
    \A q \in Run : stage[q] # "new" =>
        /\ stage'[q] # "new"
        /\ reg'[q] # None => reg[q] # None /\ reg'[q].next = reg[q].next

LEMMA PageKept ==
    ASSUME PageInv, Steady, tab' = tab,
           conn' = conn \/ (conn # None /\ conn' = [conn EXCEPT !.open = FALSE])
    PROVE  PageInv'
<1>1. tab \in Pages /\ conn \in Streams \cup {None} /\ (conn = None <=> tab.mode # "live")
  BY DEF PageInv, PageOK
<1>2. Numbered(tab)' BY DEF PageInv, Numbered
<1>3. Placed(tab)'
  <2>1. ASSUME NEW t, t = tab, t.mode \in Following
        PROVE  /\ t.run \in Run /\ t.outcome = "none" /\ stage'[t.run] # "new"
               /\ reg'[t.run] # None => t.lastSeq < reg'[t.run].next
    BY <2>1 DEF PageInv, Placed, Steady
  <2>2. PICK t : t = tab /\ t = tab'  OBVIOUS
  <2>3. t.mode \in Following =>
            /\ t.run \in Run /\ t.outcome = "none" /\ stage'[t.run] # "new"
            /\ reg'[t.run] # None => t.lastSeq < reg'[t.run].next
    BY <2>1, <2>2
  <2>4. QED  BY <2>2, <2>3 DEF Placed
<1>4. conn' \in Streams \cup {None} /\ (conn' = None <=> tab.mode # "live")
  <2>1. CASE conn' = conn  BY <2>1, <1>1
  <2>2. CASE conn # None /\ conn' = [conn EXCEPT !.open = FALSE]
    <3>1. conn' \in Streams  BY <2>2, <1>1 DEF Streams
    <3>2. QED  BY <2>2, <3>1, <1>1, NoneIsNone
  <2>3. QED  BY <2>1, <2>2
<1>5. Fed(tab, conn)'
  <2>1. SUFFICES ASSUME tab.mode = "live"
                 PROVE  conn'.run = tab.run /\ (GapNews(conn') \/ Continues(tab, conn)')
    BY DEF Fed, GapNews
  <2>2. conn \in Streams /\ conn.run = tab.run /\ (GapNews(conn) \/ Continues(tab, conn))
    BY <2>1, <1>1 DEF PageInv, Fed
  <2>3. /\ conn'.run = conn.run /\ conn'.wire = conn.wire
        /\ conn'.open = conn.open \/ conn'.open = FALSE
    BY <2>2 DEF Streams
  <2>4. tab.run \in Run /\ stage[tab.run] # "new"  BY <2>1 DEF PageInv, Placed, Following
  <2>5. reg'[tab.run] # None => reg[tab.run] # None /\ reg'[tab.run].next = reg[tab.run].next
    BY <2>4 DEF Steady
  <2>6. CASE GapNews(conn)  BY <2>6, <2>2, <2>3 DEF GapNews
  <2>7. CASE Continues(tab, conn)
    <3>1. Continues(tab, conn)'  BY <2>7, <2>3, <2>5 DEF Continues
    <3>2. QED  BY <3>1, <2>2, <2>3
  <2>8. QED  BY <2>2, <2>6, <2>7
<1>6. PageOK'  BY <1>1, <1>4 DEF PageOK
<1>7. QED  BY <1>2, <1>3, <1>5, <1>6 DEF PageInv

\* The page stops following, or is between two attempts.
LEMMA PageLeaves ==
    ASSUME PageInv, RegInv, NEW t \in Pages, tab' = t, conn' = None, t.mode # "live",
           t.mode \in Following => t.run = tab.run /\ t.outcome = tab.outcome
                                   /\ tab.mode \in Following,
           t.lastSeq = tab.lastSeq, t.shown = tab.shown, t.outcome # "resync",
           tab.outcome # "resync", UNCHANGED <<reg, stage>> \/ Steady
    PROVE  PageInv'
<1>1. Steady
  BY DEF Steady
<1>2. Numbered(t)  BY DEF PageInv, Numbered
<1>3. PageOK'  BY DEF PageOK
<1>4. Placed(tab)'
  <2>1. SUFFICES ASSUME t.mode \in Following
                 PROVE  /\ t.run \in Run /\ t.outcome = "none" /\ stage'[t.run] # "new"
                        /\ reg'[t.run] # None => t.lastSeq < reg'[t.run].next
    BY DEF Placed
  <2>2. QED  BY <2>1, <1>1 DEF PageInv, Placed, Steady
<1>5. Fed(tab, conn)'  BY DEF Fed
<1>6. Numbered(tab)'  BY <1>2 DEF Numbered
<1>7. QED  BY <1>3, <1>4, <1>5, <1>6 DEF PageInv

LEMMA GiveUpPage ==
    ASSUME PageInv, RegInv, GiveUp, conn' = None, tab.mode \in Following, Steady
    PROVE  PageInv'
<1>1. tab \in Pages /\ tab.outcome = "none"  BY DEF PageInv, PageOK, Placed
<1>2. PICK out \in {"error", "lost"} : tab' = [tab EXCEPT !.mode = "settled", !.outcome = out]
  BY DEF GiveUp, Settle
<1>3. PICK t : t = [tab EXCEPT !.mode = "settled", !.outcome = out]  OBVIOUS
<1>4. /\ t \in Pages /\ t.mode = "settled" /\ t.outcome = out /\ t.run = tab.run
      /\ t.lastSeq = tab.lastSeq /\ t.shown = tab.shown
  BY <1>1, <1>3 DEF Pages
<1>5. QED  BY <1>1, <1>2, <1>3, <1>4, PageLeaves DEF Following

LEMMA NextAttemptPage ==
    ASSUME PageInv, RegInv, NextAttempt, conn' = None, tab.mode \in Following, Steady
    PROVE  PageInv'
<1>1. tab \in Pages /\ tab.outcome = "none"  BY DEF PageInv, PageOK, Placed
<1>2. CASE GiveUp  BY <1>2, GiveUpPage
<1>3. CASE tab' = [tab EXCEPT !.mode = "dropped", !.attempt = @ + 1]
  <2>1. PICK t : t = [tab EXCEPT !.mode = "dropped", !.attempt = @ + 1]  OBVIOUS
  <2>2. /\ t \in Pages /\ t.mode = "dropped" /\ t.outcome = tab.outcome /\ t.run = tab.run
        /\ t.lastSeq = tab.lastSeq /\ t.shown = tab.shown
    <3>1. PICK n \in Nat : n = tab.attempt + 1  BY <1>1 DEF Pages
    <3>2. t = [tab EXCEPT !.mode = "dropped", !.attempt = n]  BY <2>1, <3>1
    <3>3. QED  BY <1>1, <3>2 DEF Pages
  <2>3. QED  BY <1>1, <1>3, <2>1, <2>2, PageLeaves
<1>4. QED  BY <1>2, <1>3 DEF NextAttempt

LEMMA ResyncFacts == Resync.type = "resync" /\ Resync.seq = 1
  BY DEF Resync

LEMMA ReceivePage ==
    ASSUME PageInv, RegInv, Receive
    PROVE  PageInv'
<1>1. PICK f : f = Head(conn.wire)  OBVIOUS
<1>2. PICK seen : seen = [tab EXCEPT !.lastSeq = f.seq, !.known = TRUE,
                                     !.error = @ \/ f.type = "error"]
  OBVIOUS
<1>3. PICK sh : sh = [seen EXCEPT !.shown = Append(@, f.seq)]  OBVIOUS
<1>4. /\ tab.mode = "live" /\ conn.wire # <<>> /\ UNCHANGED <<reg, stage>>
      /\ \/ /\ f.type = "resync"
            /\ tab' = [seen EXCEPT !.mode = "settled", !.outcome = "resync"] /\ conn' = None
         \/ /\ f.type = "final"
            /\ tab' = [sh EXCEPT !.mode = "settled", !.outcome = "final"] /\ conn' = None
         \/ /\ f.type # "resync"
            /\ tab' = sh /\ conn' = [conn EXCEPT !.wire = Tail(@)]
  BY <1>1, <1>2, <1>3, Zenon DEF Receive
<1>5. /\ tab \in Pages /\ conn \in Streams /\ conn.run = tab.run
      /\ GapNews(conn) \/ Continues(tab, conn)
      /\ tab.run \in Run /\ tab.outcome = "none" /\ stage[tab.run] # "new"
      /\ tab.lastSeq = Len(tab.shown) /\ tab.shown \in Seq(Nat) /\ tab.lastSeq \in Nat
      /\ \A i \in 1 .. Len(tab.shown) : tab.shown[i] = i
  <2>1. tab \in Pages /\ conn \in Streams  BY <1>4 DEF PageInv, PageOK
  <2>2. tab.run \in Run /\ tab.outcome = "none" /\ stage[tab.run] # "new"
    BY <1>4 DEF PageInv, Placed, Following
  <2>3. conn.run = tab.run /\ (GapNews(conn) \/ Continues(tab, conn))
    BY <1>4 DEF PageInv, Fed
  <2>4. tab.lastSeq = Len(tab.shown) /\ \A i \in 1 .. Len(tab.shown) : tab.shown[i] = i
    BY <2>2 DEF PageInv, Numbered
  <2>5. tab.shown \in Seq(Nat) /\ tab.lastSeq \in Nat  BY <2>1 DEF Pages
  <2>6. QED  BY <2>1, <2>2, <2>3, <2>4, <2>5
<1>6. PICK e \in BOOLEAN : e = (tab.error \/ f.type = "error")  OBVIOUS
<1>7. seen = [tab EXCEPT !.lastSeq = f.seq, !.known = TRUE, !.error = e]
  BY <1>2, <1>5, <1>6 DEF Pages
<1>8. CASE GapNews(conn)
  <2>1. f = Resync  BY <1>1, <1>8 DEF GapNews
  <2>2. f.type = "resync" /\ f.seq = 1  BY <2>1, ResyncFacts
  <2>3. tab' = [seen EXCEPT !.mode = "settled", !.outcome = "resync"] /\ conn' = None
    BY <1>4, <2>2
  <2>4. PICK t : t = [seen EXCEPT !.mode = "settled", !.outcome = "resync"]  OBVIOUS
  <2>5. t \in Pages /\ t.mode = "settled" /\ t.outcome = "resync" /\ t.shown = tab.shown
    <3>1. PICK n \in Nat : n = f.seq  BY <2>2
    <3>2. seen = [tab EXCEPT !.lastSeq = n, !.known = TRUE, !.error = e]  BY <1>7, <3>1
    <3>3. seen \in Pages /\ seen.shown = tab.shown  BY <1>5, <3>2 DEF Pages
    <3>4. QED  BY <2>4, <3>3 DEF Pages
  <2>6. tab' = t /\ conn' = None  BY <2>3, <2>4
  <2>7. PageOK'  BY <2>5, <2>6 DEF PageOK
  <2>8. Numbered(tab)' /\ Placed(tab)' /\ Fed(tab, conn)'
    BY <1>5, <2>5, <2>6 DEF Numbered, Placed, Fed, Following
  <2>9. QED  BY <2>7, <2>8 DEF PageInv
<1>9. CASE Continues(tab, conn)
  <2>1. /\ conn.wire \in Seq(Frame) /\ Len(conn.wire) \in Nat /\ Len(conn.wire) > 0
        /\ f = conn.wire[1] /\ f \in Frame /\ f.seq = tab.lastSeq + 1
    <3>1. conn.wire \in Seq(Frame)  BY <1>9 DEF Continues
    <3>2. Len(conn.wire) \in Nat /\ Len(conn.wire) > 0 /\ f = conn.wire[1] /\ f \in Frame
      BY <3>1, <1>1, <1>4
    <3>3. 1 \in 1 .. Len(conn.wire)  BY <3>2
    <3>4. QED  BY <3>1, <3>2, <3>3, <1>9 DEF Continues
  <2>2. f.type # "resync"  BY <2>1 DEF Frame
  <2>3. /\ sh \in Pages /\ sh.shown = Append(tab.shown, f.seq) /\ sh.lastSeq = f.seq
        /\ sh.mode = "live" /\ sh.run = tab.run /\ sh.outcome = "none"
    <3>1. PICK n \in Nat : n = f.seq  BY <2>1 DEF Frame
    <3>2. seen = [tab EXCEPT !.lastSeq = n, !.known = TRUE, !.error = e]  BY <1>7, <3>1
    <3>3. /\ seen \in Pages /\ seen.shown = tab.shown /\ seen.lastSeq = n
          /\ seen.mode = "live" /\ seen.run = tab.run /\ seen.outcome = "none"
      BY <1>4, <1>5, <3>2 DEF Pages
    <3>4. PICK x \in Seq(Nat) : x = Append(tab.shown, n)
      <4>1. Append(tab.shown, n) \in Seq(Nat)  BY <1>5, <3>1
      <4>2. QED  BY <4>1
    <3>5. sh = [seen EXCEPT !.shown = x]  BY <1>3, <3>1, <3>3, <3>4
    <3>6. QED  BY <3>1, <3>3, <3>4, <3>5 DEF Pages
  <2>4. /\ Len(sh.shown) = Len(tab.shown) + 1 /\ sh.lastSeq = Len(sh.shown)
        /\ \A i \in 1 .. Len(sh.shown) : sh.shown[i] = i
    <3>1. Len(sh.shown) = Len(tab.shown) + 1  BY <1>5, <2>1, <2>3
    <3>2. ASSUME NEW i \in 1 .. Len(sh.shown) PROVE sh.shown[i] = i
      <4>1. CASE i = Len(tab.shown) + 1  BY <4>1, <1>5, <2>1, <2>3
      <4>2. CASE i # Len(tab.shown) + 1
        <5>1. i \in 1 .. Len(tab.shown) /\ sh.shown[i] = tab.shown[i]
          BY <4>2, <3>1, <1>5, <2>1, <2>3
        <5>2. QED  BY <5>1, <1>5
      <4>3. QED  BY <4>1, <4>2
    <3>3. QED  BY <3>1, <3>2, <1>5, <2>1, <2>3
  <2>5. CASE tab' = [sh EXCEPT !.mode = "settled", !.outcome = "final"] /\ conn' = None
    <3>1. PICK t : t = [sh EXCEPT !.mode = "settled", !.outcome = "final"]  OBVIOUS
    <3>2. /\ t \in Pages /\ t.mode = "settled" /\ t.outcome = "final" /\ t.shown = sh.shown
          /\ t.lastSeq = sh.lastSeq
      BY <2>3, <3>1 DEF Pages
    <3>3. tab' = t /\ conn' = None  BY <2>5, <3>1
    <3>4. PageOK'  BY <3>2, <3>3 DEF PageOK
    <3>5. Numbered(tab)' /\ Placed(tab)' /\ Fed(tab, conn)'
      BY <2>4, <3>2, <3>3 DEF Numbered, Placed, Fed, Following
    <3>6. QED  BY <3>4, <3>5 DEF PageInv
  <2>6. CASE tab' = sh /\ conn' = [conn EXCEPT !.wire = Tail(@)]
    <3>1. PICK c : c = [conn EXCEPT !.wire = Tail(@)]  OBVIOUS
    <3>2. /\ Tail(conn.wire) \in Seq(Frame) /\ Len(Tail(conn.wire)) = Len(conn.wire) - 1
          /\ \A i \in 1 .. Len(conn.wire) - 1 : Tail(conn.wire)[i] = conn.wire[i + 1]
      BY <2>1
    <3>3. /\ c \in Streams /\ c.wire = Tail(conn.wire) /\ c.open = conn.open /\ c.run = conn.run
      <4>1. PICK x : x = Tail(conn.wire) /\ x \in Seq(Frame \cup {Resync})
        <5>1. Tail(conn.wire) \in Seq(Frame \cup {Resync})  BY <3>2
        <5>2. QED  BY <5>1
      <4>2. c = [conn EXCEPT !.wire = x]  BY <3>1, <4>1
      <4>3. QED  BY <1>5, <4>1, <4>2 DEF Streams
    <3>4. tab' = sh /\ conn' = c  BY <2>6, <3>1
    <3>5. PageOK'  BY <2>3, <3>3, <3>4, NoneIsNone DEF PageOK
    <3>6. Numbered(tab)'  BY <2>4, <3>4 DEF Numbered
    <3>7. /\ reg[tab.run] # None => tab.lastSeq + Len(conn.wire) < reg[tab.run].next
          /\ reg[tab.run] # None /\ conn.open = TRUE
                => reg[tab.run].next = tab.lastSeq + Len(conn.wire) + 1
          /\ \A i \in 1 .. Len(conn.wire) : conn.wire[i].seq = tab.lastSeq + i
      BY <1>9 DEF Continues
    <3>8. reg[tab.run] # None => reg[tab.run].next \in Nat
      BY <1>5 DEF RegInv, RegOK, Typed, Buffers
    <3>9. PICK x, l, n : x = reg[tab.run].next /\ l = tab.lastSeq /\ n = Len(conn.wire)
      OBVIOUS
    <3>10. /\ reg[tab.run] # None => x \in Nat /\ l + n < x
           /\ reg[tab.run] # None /\ conn.open = TRUE => x = l + n + 1
           /\ l \in Nat /\ n \in Nat /\ n > 0 /\ sh.lastSeq = l + 1 /\ sh.run = tab.run
           /\ Len(c.wire) = n - 1
      BY <1>5, <2>1, <2>3, <3>9, <3>2, <3>3, <3>7, <3>8
    <3>11. Placed(tab)'
      <4>1. reg[sh.run] # None => sh.lastSeq < reg[sh.run].next
        BY <3>9, <3>10
      <4>2. QED  BY <4>1, <1>4, <1>5, <2>3, <3>4 DEF Placed
    <3>12. \A i \in 1 .. Len(c.wire) : c.wire[i].seq = sh.lastSeq + i
      <4>1. TAKE i \in 1 .. Len(c.wire)
      <4>2. i \in 1 .. Len(conn.wire) - 1 /\ i + 1 \in 1 .. Len(conn.wire)
        BY <2>1, <3>2, <3>3
      <4>3. conn.wire[i + 1].seq = tab.lastSeq + (i + 1)  BY <3>7, <4>2
      <4>4. c.wire[i] = conn.wire[i + 1]  BY <3>2, <3>3, <4>2
      <4>5. l + (i + 1) = (l + 1) + i
        <5>1. i \in Int /\ l \in Int  BY <3>10
        <5>2. QED  BY <5>1
      <4>6. QED  BY <3>9, <3>10, <4>3, <4>4, <4>5
    <3>13. Fed(tab, conn)'
      <4>1. Len(c.wire) = Len(conn.wire) - 1  BY <3>2, <3>3
      <4>2. /\ reg[sh.run] # None => sh.lastSeq + Len(c.wire) < reg[sh.run].next
            /\ reg[sh.run] # None /\ c.open = TRUE
                  => reg[sh.run].next = sh.lastSeq + Len(c.wire) + 1
        BY <3>9, <3>10, <3>3
      <4>3. Continues(tab, conn)'  BY <1>4, <3>2, <3>3, <3>4, <3>12, <4>2 DEF Continues
      <4>4. QED  BY <1>5, <2>3, <3>3, <3>4, <4>3 DEF Fed
    <3>14. QED  BY <3>5, <3>6, <3>11, <3>13 DEF PageInv
  <2>7. QED  BY <1>4, <2>2, <2>5, <2>6
<1>10. QED  BY <1>5, <1>8, <1>9

\* Subscribing, loading, starting and emitting.
LEMMA SubscribePage ==
    ASSUME PageInv, RegInv, RegInv', Subscribe
    PROVE  PageInv'
<1>1. PICK r : r = tab.run  OBVIOUS
<1>2. /\ tab.mode \in {"joining", "dropped"} /\ reg' = Swept(Sweep) /\ ForgetRuns(Sweep)
      /\ stage' = stage
      /\ \/ /\ r \notin Sweep /\ reg[r] # None
            /\ conn' = Stream(r, reg[r], tab.lastSeq)
            /\ tab' = [tab EXCEPT !.mode = "live"]
         \/ GiveUp /\ conn' = conn
  BY <1>1, Zenon DEF Subscribe
<1>3. \A q \in Run : Shrunk(q)  BY <1>2, ForgetKeeps
<1>4. Steady  BY <1>2, <1>3 DEF Steady, Shrunk
<1>5. /\ tab \in Pages /\ conn = None /\ r \in Run /\ tab.outcome = "none" /\ stage[r] # "new"
      /\ reg[r] # None => tab.lastSeq < reg[r].next
      /\ Numbered(tab)
  <2>1. tab \in Pages /\ conn = None  BY <1>2 DEF PageInv, PageOK
  <2>2. tab.mode \in Following  BY <1>2 DEF Following
  <2>3. QED  BY <1>1, <2>1, <2>2 DEF PageInv, Placed
<1>6. CASE GiveUp /\ conn' = conn
  BY <1>2, <1>4, <1>5, <1>6, GiveUpPage DEF Following
<1>7. CASE /\ r \notin Sweep /\ reg[r] # None
           /\ conn' = Stream(r, reg[r], tab.lastSeq)
           /\ tab' = [tab EXCEPT !.mode = "live"]
  <2>1. PICK b, t, c : b = reg[r] /\ t = [tab EXCEPT !.mode = "live"]
                       /\ c = Stream(r, reg[r], tab.lastSeq)
    OBVIOUS
  <2>2. reg'[r] = b /\ Typed(b) /\ b # None
    <3>1. reg'[r] = reg[r]  BY <1>2, <1>5, <1>7 DEF Swept
    <3>2. QED  BY <1>5, <1>7, <2>1, <3>1 DEF RegInv, RegOK
  <2>3. b.next \in Nat /\ b.done \in BOOLEAN  BY <2>2 DEF Typed, Buffers
  <2>4. /\ t \in Pages /\ t.mode = "live" /\ t.run = r /\ t.outcome = "none"
        /\ t.lastSeq = tab.lastSeq /\ t.shown = tab.shown /\ tab.lastSeq \in Nat
    BY <1>1, <1>5, <2>1 DEF Pages
  <2>5. c.run = r /\ c \in Streams /\ (GapNews(c) \/ Continues(t, c)')
    <3>1. CASE Gapped(b, tab.lastSeq)
      <4>1. c = [run |-> r, wire |-> <<Resync>>, open |-> FALSE, post |-> FALSE]
        BY <2>1, <3>1 DEF Stream
      <4>2. <<Resync>> \in Seq(Frame \cup {Resync})  OBVIOUS
      <4>3. QED  BY <1>5, <4>1, <4>2 DEF Streams, GapNews
    <3>2. CASE ~Gapped(b, tab.lastSeq)
      <4>1. PICK w, o : w = Replay(b, tab.lastSeq) /\ o \in BOOLEAN /\ o = ~b.done  OBVIOUS
      <4>2. c = [run |-> r, wire |-> w, open |-> o, post |-> FALSE]
        BY <2>1, <3>2, <4>1 DEF Stream
      <4>3. /\ w \in Seq(Frame) /\ Len(w) = b.next - 1 - tab.lastSeq
            /\ \A i \in 1 .. Len(w) : w[i].seq = tab.lastSeq + i
        <5>1. tab.lastSeq < b.next  BY <1>5, <1>7, <2>1
        <5>2. QED  BY <2>2, <2>4, <3>2, <4>1, <5>1, ReplayFacts
      <4>4. w \in Seq(Frame \cup {Resync})  BY <4>3
      <4>5. c \in Streams /\ c.run = r /\ c.wire = w  BY <1>5, <4>1, <4>2, <4>4 DEF Streams
      <4>6. t.lastSeq + Len(w) < reg'[t.run].next /\ reg'[t.run].next = t.lastSeq + Len(w) + 1
        BY <2>2, <2>3, <2>4, <4>3
      <4>7. \A i \in 1 .. Len(w) : w[i].seq = t.lastSeq + i  BY <2>4, <4>3
      <4>8. Continues(t, c)'  BY <4>3, <4>5, <4>6, <4>7 DEF Continues
      <4>9. QED  BY <4>5, <4>8
    <3>3. QED  BY <3>1, <3>2
  <2>6. tab' = t /\ conn' = c  BY <1>7, <2>1
  <2>7. PageOK'  BY <2>4, <2>5, <2>6, NoneIsNone DEF PageOK
  <2>8. Numbered(tab)'  BY <1>5, <2>4, <2>6 DEF Numbered
  <2>9. Placed(tab)'
    BY <1>2, <1>5, <1>7, <2>1, <2>2, <2>4, <2>6 DEF Placed
  <2>10. Fed(tab, conn)'  BY <2>4, <2>5, <2>6 DEF Fed, GapNews, Continues
  <2>11. QED  BY <2>7, <2>8, <2>9, <2>10 DEF PageInv
<1>8. QED  BY <1>2, <1>6, <1>7

\* A page that has shown nothing yet.
Blank(t) ==
    t \in Pages /\ t.outcome = "none" /\ t.lastSeq = 0 /\ t.shown = <<>>

LEMMA BlankIdle == Blank(Idle) /\ Idle.mode = "idle"
<1>1. <<>> \in Seq(Nat)  OBVIOUS
<1>2. Idle \in Pages  BY <1>1 DEF Idle, Pages
<1>3. QED  BY <1>2 DEF Idle, Blank

LEMMA BlankLoads ==
    ASSUME NEW t, Blank(t), NEW n \in Nat
    PROVE  Blank([t EXCEPT !.loads = n]) /\ [t EXCEPT !.loads = n].mode = t.mode
  BY DEF Blank, Pages

LEMMA BlankNumbered ==
    ASSUME NEW t, Blank(t)
    PROVE  t \in Pages /\ t.outcome = "none" /\ t.lastSeq = 0 /\ Numbered(t)
<1>1. Len(<<>>) = 0  OBVIOUS
<1>2. QED  BY <1>1 DEF Blank, Numbered

LEMMA LoadPage ==
    ASSUME PageInv, RegInv, RegInv', Load
    PROVE  PageInv'
<1>1. PICK n : n = tab.loads + 1  OBVIOUS
<1>2. n \in Nat
  <2>1. tab.loads \in Nat  BY DEF PageInv, PageOK, Pages
  <2>2. QED  BY <1>1, <2>1
<1>3. PICK f : f = [Idle EXCEPT !.loads = n]  OBVIOUS
<1>4. /\ conn' = None /\ reg' = Swept(Sweep) /\ ForgetRuns(Sweep) /\ stage' = stage
      /\ FollowRunning(f)
  BY <1>1, <1>3 DEF Load
<1>5. \A q \in Run : Shrunk(q)  BY <1>4, ForgetKeeps
<1>6. CASE tab' = f
  <2>1. Blank(f) /\ f.mode = "idle"  BY <1>2, <1>3, BlankIdle, BlankLoads
  <2>2. f \in Pages /\ Numbered(f)  BY <2>1, BlankNumbered
  <2>3. PageOK'  BY <1>4, <1>6, <2>1, <2>2 DEF PageOK
  <2>4. Numbered(tab)' /\ Placed(tab)' /\ Fed(tab, conn)'
    BY <1>6, <2>1, <2>2 DEF Numbered, Placed, Fed, Following
  <2>5. QED  BY <2>3, <2>4 DEF PageInv
<1>7. CASE \E r \in Run : reg[r] # None /\ tab' = [f EXCEPT !.mode = "joining", !.run = r, !.known = TRUE]
  <2>1. PICK r \in Run : reg[r] # None
                         /\ tab' = [f EXCEPT !.mode = "joining", !.run = r, !.known = TRUE]
    BY <1>7
  <2>2. PICK t : t = [f EXCEPT !.mode = "joining", !.run = r, !.known = TRUE]  OBVIOUS
  <2>3. tab' = t  BY <2>1, <2>2
  <2>4. Blank(t) /\ t.mode = "joining" /\ t.run = r
    <3>1. Blank(f)  BY <1>2, <1>3, BlankIdle, BlankLoads
    <3>2. QED  BY <2>2, <3>1 DEF Blank, Pages
  <2>5. /\ t \in Pages /\ t.mode = "joining" /\ t.run = r /\ t.outcome = "none"
        /\ t.lastSeq = 0 /\ Numbered(t)
    BY <2>4, BlankNumbered
  <2>6. PageOK'  BY <1>4, <2>3, <2>5 DEF PageOK
  <2>7. stage[r] # "new"  BY <2>1 DEF RegInv, StageOK
  <2>8. reg'[r] # None => reg'[r].next > 0
    BY DEF RegInv, RegOK, Typed, Buffers
  <2>9. Placed(tab)'
    BY <1>4, <2>3, <2>5, <2>7, <2>8 DEF Placed
  <2>10. Numbered(tab)' /\ Fed(tab, conn)'  BY <2>3, <2>5 DEF Numbered, Fed
  <2>11. QED  BY <2>6, <2>9, <2>10 DEF PageInv
<1>8. QED  BY <1>4, <1>6, <1>7, Zenon DEF FollowRunning

LEMMA ChatPage ==
    ASSUME PageInv, RegInv, RegInv', NEW r \in Run, Chat(r)
    PROVE  PageInv'
<1>1. PICK n, f : n = tab.loads /\ f = RunStart  OBVIOUS
<1>2. /\ Open(r) /\ conn' = [run |-> r, wire |-> <<f>>, open |-> TRUE, post |-> TRUE]
      /\ tab' = [Idle EXCEPT !.mode = "live", !.run = r, !.loads = n]
  BY <1>1 DEF Chat
<1>3. n \in Nat  BY <1>1 DEF PageInv, PageOK, Pages
<1>4. stage'[r] = "running" /\ reg'[r] # None /\ reg'[r].next = 2  BY <1>2, OpenKeeps
<1>5. f \in Frame /\ f.seq = 1  BY <1>1, NewBuffer
<1>6. PICK c, t : c = [run |-> r, wire |-> <<f>>, open |-> TRUE, post |-> TRUE]
                /\ t = [Idle EXCEPT !.mode = "live", !.run = r, !.loads = n]
  OBVIOUS
<1>7. tab' = t /\ conn' = c  BY <1>2, <1>6
<1>8. /\ t \in Pages /\ t.mode = "live" /\ t.run = r /\ t.outcome = "none"
      /\ t.lastSeq = 0 /\ Numbered(t)
  <2>1. Blank(t) /\ t.mode = "live" /\ t.run = r  BY <1>3, <1>6, BlankIdle DEF Blank, Pages
  <2>2. QED  BY <2>1, BlankNumbered
<1>9. <<f>> \in Seq(Frame) /\ <<f>> \in Seq(Frame \cup {Resync}) /\ Len(<<f>>) = 1 /\ <<f>>[1] = f
  BY <1>5
<1>10. c \in Streams /\ c.run = r /\ c.wire = <<f>>  BY <1>6, <1>9 DEF Streams
<1>11. PageOK'  BY <1>7, <1>8, <1>10, NoneIsNone DEF PageOK
<1>12. Placed(tab)'  BY <1>4, <1>7, <1>8 DEF Placed
<1>13. \A i \in 1 .. Len(c.wire) : c.wire[i].seq = t.lastSeq + i
  <2>1. TAKE i \in 1 .. Len(c.wire)
  <2>2. i = 1  BY <1>9, <1>10
  <2>3. QED  BY <1>5, <1>8, <1>9, <1>10, <2>2
<1>14. Continues(tab, conn)'
  BY <1>4, <1>7, <1>8, <1>9, <1>10, <1>13 DEF Continues
<1>15. Numbered(tab)' /\ Fed(tab, conn)'
  BY <1>7, <1>8, <1>10, <1>14 DEF Numbered, Fed
<1>16. QED  BY <1>11, <1>12, <1>15 DEF PageInv

LEMMA EmitPage ==
    ASSUME PageInv, RegInv, NEW r \in Run, stage[r] = "running", tab' = tab,
           NEW f \in Frame, f.seq = reg[r].next, NEW last \in BOOLEAN, Deliver(r, f, last),
           reg[r] # None, reg'[r] # None, reg'[r].next = reg[r].next + 1,
           \A q \in Run : /\ stage[q] # "new" => stage'[q] # "new"
                          /\ q # r => reg'[q] = reg[q]
    PROVE  PageInv'
<1>1. tab \in Pages /\ conn \in Streams \cup {None} /\ (conn = None <=> tab.mode # "live")
  BY DEF PageInv, PageOK
<1>2. PICK x : x = reg[r].next  OBVIOUS
<1>3. x \in Nat /\ reg'[r].next = x + 1  BY <1>2 DEF RegInv, RegOK, Typed, Buffers
<1>4. Numbered(tab)'  BY DEF PageInv, Numbered
<1>5. ASSUME tab.mode \in Following
      PROVE  /\ tab.run \in Run /\ tab.outcome = "none" /\ stage'[tab.run] # "new"
             /\ reg'[tab.run] # None => tab.lastSeq < reg'[tab.run].next
  <2>1. /\ tab.run \in Run /\ tab.outcome = "none" /\ stage[tab.run] # "new"
        /\ reg[tab.run] # None => tab.lastSeq < reg[tab.run].next
        /\ tab.lastSeq \in Nat
    BY <1>1, <1>5 DEF PageInv, Placed, Pages
  <2>2. CASE tab.run = r  BY <2>1, <2>2, <1>2, <1>3
  <2>3. CASE tab.run # r  BY <2>1, <2>3
  <2>4. QED  BY <2>2, <2>3
<1>6. Placed(tab)'
  <2>1. PICK t : t = tab /\ t = tab'  OBVIOUS
  <2>2. t.mode \in Following =>
            /\ t.run \in Run /\ t.outcome = "none" /\ stage'[t.run] # "new"
            /\ reg'[t.run] # None => t.lastSeq < reg'[t.run].next
    BY <1>5, <2>1
  <2>3. QED  BY <2>1, <2>2 DEF Placed
<1>7. CASE conn = None \/ conn.run # r \/ conn.open = FALSE
  <2>1. conn' = conn
    <3>1. conn = None \/ conn.open \in BOOLEAN  BY <1>1 DEF Streams
    <3>2. conn = None \/ conn.run # r \/ ~conn.open  BY <1>7, <3>1
    <3>3. QED  BY <3>2 DEF Deliver
  <2>2. PageOK'  BY <1>1, <2>1 DEF PageOK
  <2>3. Fed(tab, conn)'
    <3>1. PICK t, c : t = tab /\ t = tab' /\ c = conn /\ c = conn'  BY <2>1
    <3>2. SUFFICES ASSUME t.mode = "live" PROVE c.run = t.run /\ (GapNews(c) \/ Continues(t, c)')
      BY <3>1 DEF Fed, GapNews, Continues
    <3>3. /\ c \in Streams /\ c.run = t.run /\ (GapNews(c) \/ Continues(t, c)) /\ t.run \in Run
          /\ t.lastSeq \in Nat
      BY <1>1, <1>5, <3>1, <3>2 DEF PageInv, Fed, Following, Pages
    <3>4. CASE Continues(t, c) /\ t.run = r
      <4>1. c.open = FALSE  BY <1>7, <3>1, <3>2, <3>3, <3>4, <1>1
      <4>2. Len(c.wire) \in Nat /\ t.lastSeq + Len(c.wire) < x
        BY <1>2, <3>4 DEF Continues
      <4>3. t.lastSeq + Len(c.wire) < x + 1  BY <1>3, <3>3, <4>2
      <4>4. QED  BY <1>3, <3>3, <3>4, <4>1, <4>3 DEF Continues
    <3>5. CASE Continues(t, c) /\ t.run # r
      <4>1. reg'[t.run] = reg[t.run]  BY <3>3, <3>5
      <4>2. QED  BY <3>3, <3>5, <4>1 DEF Continues
    <3>6. QED  BY <3>3, <3>4, <3>5
  <2>4. QED  BY <1>4, <1>6, <2>2, <2>3 DEF PageInv
<1>8. CASE conn # None /\ conn.run = r /\ conn.open = TRUE
  <2>1. PICK o \in BOOLEAN : o = ~last  OBVIOUS
  <2>2. conn' = [conn EXCEPT !.wire = Append(@, f), !.open = o]
    BY <1>8, <2>1 DEF Deliver
  <2>3. PICK t, c : t = tab /\ t = tab' /\ c = conn  OBVIOUS
  <2>4. /\ t.mode = "live" /\ c \in Streams /\ c.run = t.run /\ t.run = r /\ t.lastSeq \in Nat
        /\ GapNews(c) \/ Continues(t, c)
    BY <1>1, <1>8, <2>3 DEF PageInv, Fed, Pages
  <2>5. Continues(t, c)  BY <1>8, <2>3, <2>4 DEF GapNews
  <2>6. /\ c.wire \in Seq(Frame) /\ x = t.lastSeq + Len(c.wire) + 1 /\ Len(c.wire) \in Nat
        /\ \A i \in 1 .. Len(c.wire) : c.wire[i].seq = t.lastSeq + i
    BY <1>2, <1>8, <2>3, <2>4, <2>5 DEF Continues
  <2>7. PICK w : w = Append(c.wire, f)  OBVIOUS
  <2>8. /\ w \in Seq(Frame) /\ w \in Seq(Frame \cup {Resync}) /\ Len(w) = Len(c.wire) + 1
        /\ \A i \in 1 .. Len(c.wire) : w[i] = c.wire[i]
        /\ w[Len(c.wire) + 1] = f
    <3>1. w \in Seq(Frame) /\ Len(w) = Len(c.wire) + 1  BY <2>6, <2>7
    <3>2. w \in Seq(Frame \cup {Resync})  BY <3>1
    <3>3. QED  BY <2>6, <2>7, <3>1, <3>2
  <2>9. PICK d : d = [c EXCEPT !.wire = w, !.open = o]  OBVIOUS
  <2>10. d \in Streams /\ d.wire = w /\ d.run = r  BY <2>1, <2>4, <2>8, <2>9 DEF Streams
  <2>11. conn' = d  BY <2>2, <2>3, <2>7, <2>9
  <2>12. PageOK'  BY <1>1, <1>8, <2>10, <2>11, NoneIsNone DEF PageOK
  <2>13. \A i \in 1 .. Len(w) : w[i].seq = t.lastSeq + i
    <3>1. TAKE i \in 1 .. Len(w)
    <3>2. CASE i = Len(c.wire) + 1
      <4>1. w[i].seq = x  BY <1>2, <2>8, <3>2
      <4>2. t.lastSeq + i = x  BY <2>4, <2>6, <3>2
      <4>3. QED  BY <4>1, <4>2
    <3>3. CASE i # Len(c.wire) + 1
      <4>1. i \in 1 .. Len(c.wire)  BY <2>6, <2>8, <3>3
      <4>2. QED  BY <2>6, <2>8, <4>1
    <3>4. QED  BY <3>2, <3>3
  <2>14. /\ t.lastSeq + Len(w) < reg'[t.run].next
         /\ reg'[t.run].next = t.lastSeq + Len(w) + 1
    BY <1>3, <2>4, <2>6, <2>8
  <2>15. Continues(t, d)'  BY <2>8, <2>10, <2>13, <2>14 DEF Continues
  <2>16. Fed(tab, conn)'  BY <2>3, <2>4, <2>10, <2>11, <2>15 DEF Fed, Continues
  <2>17. QED  BY <1>4, <1>6, <2>12, <2>16 DEF PageInv
<1>9. conn = None \/ conn.open \in BOOLEAN  BY <1>1 DEF Streams
<1>10. QED  BY <1>7, <1>8, <1>9
-----------------------------------------------------------------------------
(* Every step.                                                             *)

IInv == RegInv /\ PageInv

LEMMA StreamInit == Init => IInv
<1> SUFFICES ASSUME Init PROVE IInv  OBVIOUS
<1>1. <<>> \in Seq(Run) /\ DOMAIN <<>> = {}  OBVIOUS
<1>2. RegInv  BY <1>1 DEF Init, RegInv, RegOK, StageOK, OverOK
<1>3. tab = Idle /\ conn = None  BY DEF Init
<1>4. tab \in Pages /\ Numbered(tab) /\ tab.mode = "idle"
  BY <1>3, BlankIdle, BlankNumbered
<1>5. PageInv  BY <1>3, <1>4 DEF PageInv, PageOK, Placed, Fed, Following
<1>6. QED  BY <1>2, <1>5 DEF IInv

\* The registry keeps its invariant.
LEMMA RegNext ==
    ASSUME IInv, Next
    PROVE  RegInv'
<1>1. RegInv  BY DEF IInv
<1>2. ASSUME NEW r \in Run, Chat(r) \/ OtherRun(r) PROVE RegInv'
  BY <1>1, <1>2, OpenKeeps DEF Chat, OtherRun
<1>3. ASSUME NEW r \in Run, Produce(r) \/ LastFrame(r) PROVE RegInv'
  <2>1. PICK f : /\ f \in Frame /\ f.seq = reg[r].next
                 /\ reg' = [reg EXCEPT ![r] = Appended(@, f)]
                 /\ stage[r] = "running" /\ ended' = ended /\ aged' = aged
                 /\ stage' = stage \/ stage' = [stage EXCEPT ![r] = "ending"]
    <3>1. PICK ty \in {"delta", "final", "error"}, by \in Nat :
             /\ Emit(r, ty, by) /\ stage[r] = "running" /\ ended' = ended /\ aged' = aged
             /\ stage' = stage \/ stage' = [stage EXCEPT ![r] = "ending"]
      BY <1>3, LimitsAssumption DEF Produce, LastFrame
    <3>2. PICK f : f = [seq |-> reg[r].next, type |-> ty, bytes |-> by]  OBVIOUS
    <3>3. reg[r].next \in Nat \ {0}
      BY <1>1, <3>1 DEF RegInv, StageOK, RegOK, Typed, Buffers
    <3>4. f \in Frame /\ f.seq = reg[r].next  BY <3>2, <3>3 DEF Frame
    <3>5. reg' = [reg EXCEPT ![r] = Appended(@, f)]  BY <3>1, <3>2 DEF Emit
    <3>6. QED  BY <3>1, <3>4, <3>5
  <2>2. QED  BY <1>1, <2>1, EmitKeeps
<1>4. ASSUME NEW r \in Run, Close(r) PROVE RegInv'
  BY <1>1, <1>4, CloseKeeps
<1>5. ASSUME NEW r \in Run, KeepTimeEnds(r) PROVE RegInv'
  BY <1>1, <1>5 DEF KeepTimeEnds, RegInv, RegOK, StageOK, OverOK
<1>6. CASE Subscribe \/ Load
  BY <1>1, <1>6, ForgetKeeps DEF Subscribe, Load
<1>7. CASE SubscribeFails \/ Drop \/ StreamEnds \/ Receive
  <2>1. UNCHANGED <<reg, ended, aged, stage>>
    BY <1>7 DEF SubscribeFails, Drop, StreamEnds, Receive
  <2>2. QED  BY <1>1, <2>1 DEF RegInv, RegOK, StageOK, OverOK
<1>8. QED  BY <1>2, <1>3, <1>4, <1>5, <1>6, <1>7 DEF Next, Client

\* The page and its stream keep theirs.
LEMMA PageNext ==
    ASSUME IInv, Next
    PROVE  PageInv'
<1>1. RegInv /\ PageInv /\ RegInv'  BY RegNext DEF IInv
<1>2. ASSUME NEW r \in Run, Chat(r) PROVE PageInv'  BY <1>1, <1>2, ChatPage
<1>3. ASSUME NEW r \in Run, OtherRun(r) PROVE PageInv'
  <2>1. Open(r) /\ conn' = conn /\ tab' = tab  BY <1>3 DEF OtherRun
  <2>2. /\ stage[r] = "new"
        /\ \A q \in Run : q # r => Shrunk(q) /\ stage'[q] = stage[q]
    BY <1>1, <2>1, OpenKeeps
  <2>3. Steady  BY <2>2 DEF Steady, Shrunk
  <2>4. QED  BY <1>1, <2>1, <2>3, PageKept
<1>4. ASSUME NEW r \in Run, Produce(r) \/ LastFrame(r) PROVE PageInv'
  <2>1. PICK ty \in {"delta", "final", "error"}, by \in Nat :
             /\ Emit(r, ty, by) /\ stage[r] = "running" /\ ended' = ended /\ aged' = aged
             /\ stage' = stage \/ stage' = [stage EXCEPT ![r] = "ending"]
             /\ tab' = tab
    BY <1>4, LimitsAssumption DEF Produce, LastFrame
  <2>2. PICK f, last : /\ f = [seq |-> reg[r].next, type |-> ty, bytes |-> by]
                       /\ last = (conn # None /\ conn.post /\ ty \in {"final", "error"})
    OBVIOUS
  <2>3. reg[r].next \in Nat \ {0}
    BY <1>1, <2>1 DEF RegInv, StageOK, RegOK, Typed, Buffers
  <2>4. f \in Frame /\ f.seq = reg[r].next /\ last \in BOOLEAN  BY <2>2, <2>3 DEF Frame
  <2>5. reg' = [reg EXCEPT ![r] = Appended(@, f)] /\ Deliver(r, f, last)
    BY <2>1, <2>2, Zenon DEF Emit
  <2>6. /\ reg[r] # None /\ reg'[r] # None /\ reg'[r].next = reg[r].next + 1
        /\ \A q \in Run : /\ stage[q] # "new" => stage'[q] # "new"
                          /\ q # r => reg'[q] = reg[q]
    BY <1>1, <2>1, <2>4, <2>5, EmitKeeps
  <2>7. QED  BY <1>1, <2>1, <2>4, <2>5, <2>6, EmitPage
<1>5. ASSUME NEW r \in Run, Close(r) PROVE PageInv'
  <2>1. Steady  BY <1>1, <1>5, CloseKeeps DEF Steady
  <2>2. /\ tab' = tab
        /\ conn' = conn \/ (conn # None /\ conn' = [conn EXCEPT !.open = FALSE])
    BY <1>5 DEF Close
  <2>3. QED  BY <1>1, <2>1, <2>2, PageKept
<1>6. ASSUME NEW r \in Run, KeepTimeEnds(r) PROVE PageInv'
  <2>1. Steady /\ tab' = tab /\ conn' = conn  BY <1>6 DEF KeepTimeEnds, Steady
  <2>2. QED  BY <1>1, <2>1, PageKept
<1>7. CASE Subscribe  BY <1>1, <1>7, SubscribePage
<1>8. CASE Load  BY <1>1, <1>8, LoadPage
<1>9. CASE Receive  BY <1>1, <1>9, ReceivePage
<1>10. CASE SubscribeFails \/ Drop \/ StreamEnds
  <2>1. /\ tab.mode \in Following /\ conn' = None
        /\ NextAttempt \/ GiveUp
        /\ UNCHANGED <<reg, stage>>
    BY <1>1, <1>10 DEF SubscribeFails, Drop, StreamEnds, Following, PageInv, PageOK
  <2>2. Steady  BY <2>1 DEF Steady
  <2>3. CASE NextAttempt  BY <1>1, <2>1, <2>2, <2>3, NextAttemptPage
  <2>4. CASE GiveUp  BY <1>1, <2>1, <2>2, <2>4, GiveUpPage
  <2>5. QED  BY <2>1, <2>3, <2>4
<1>11. QED  BY <1>2, <1>3, <1>4, <1>5, <1>6, <1>7, <1>8, <1>9, <1>10 DEF Next, Client

LEMMA StreamStep == IInv /\ [Next]_vars => IInv'
<1>1. CASE IInv /\ Next  BY <1>1, RegNext, PageNext DEF IInv
<1>2. CASE IInv /\ UNCHANGED vars
  <2>1. tab' = tab /\ conn' = conn /\ reg' = reg /\ stage' = stage /\ ended' = ended /\ aged' = aged
    BY <1>2 DEF vars
  <2>2. RegInv'  BY <1>2, <2>1 DEF IInv, RegInv, RegOK, StageOK, OverOK
  <2>3. Steady  BY <2>1 DEF Steady
  <2>4. PageInv'  BY <1>2, <2>1, <2>3, PageKept DEF IInv
  <2>5. QED  BY <2>2, <2>4 DEF IInv
<1>3. QED  BY <1>1, <1>2

LEMMA StreamTyped == IInv => TypeOK
<1> SUFFICES ASSUME IInv PROVE TypeOK  OBVIOUS
<1>1. RegOK /\ StageOK /\ OverOK /\ PageOK  BY DEF IInv, RegInv, PageInv
<1>2. \A r \in Run : reg[r] # None => BufferOK(reg[r])  BY <1>1 DEF RegOK, Typed
<1>3. ASSUME NEW r \in Run, stage[r] \in {"running", "ending"} PROVE reg[r] # None /\ ~reg[r].done
  <2>1. reg[r] # None /\ reg[r].done = FALSE  BY <1>1, <1>3 DEF StageOK
  <2>2. QED  BY <2>1
<1>4. QED  BY <1>1, <1>2, <1>3 DEF TypeOK, RegOK, StageOK, OverOK, PageOK

(* Every buffer of the registry holds consecutive frames up to the newest  *)
(* one within both of its limits and says when older ones are missing, and *)
(* a run that has not ended keeps its buffer whatever is swept             *)
(* (run-registry.js trim, sweep).                                          *)
THEOREM BuffersWellFormed == Spec => []TypeOK
<1>1. Spec => []IInv  BY StreamInit, StreamStep, PTL DEF Spec
<1>2. QED  BY <1>1, StreamTyped, PTL

(* However often streams break, whatever the buffers have dropped by count *)
(* or by size and whichever runs were forgotten meanwhile, the page has    *)
(* shown the frames of its run from the first on, without a gap and none   *)
(* twice: what cannot be replayed is announced by a resync (run-registry.js *)
(* subscribe, chat.js driveRun).                                           *)
THEOREM StreamHasNoSilentGap == Spec => []NoSilentGap
<1>1. Spec => []IInv  BY StreamInit, StreamStep, PTL DEF Spec
<1>2. IInv => NoSilentGap  BY DEF IInv, PageInv, Numbered, NoSilentGap
<1>3. QED  BY <1>1, <1>2, PTL
-----------------------------------------------------------------------------
(***************************************************************************)
(* Proofs about Workspace for any sessions, turns and files: the types and *)
(* the claim, that a staged sandbox has held every file of its session,    *)
(* and from both that the mirror deletes only what the turn deleted.       *)
(***************************************************************************)

States == {NoTurn} \union Turns \union Writes \union Deletions
AnyBox == Boxes \union {NoBox}
KnownIn(d, box) == box.open /\ box.of \in SessionKeys /\ box.alone => d[box.of] \subseteq box.had

(* What the listing of a turn that copies back says of its sandbox: with   *)
(* the mirror on it was whole, and nothing that is in the sandbox is to be *)
(* deleted.                                                                *)
Listing(q) ==
    /\ q.phase = "write" /\ q.mirror => q.wanted = q.box.files
    /\ q.phase = "delete" => q.todo \intersect q.box.files = {}
ListingSound == \A r \in Runs : Listing(run[r])

DiskInv == WorkspaceTypeOK /\ KnowsTheDisk /\ ListingSound

-----------------------------------------------------------------------------
(* Boxes.                                                                  *)

LEMMA NoBoxType == NoBox \in AnyBox /\ NoBox.open = FALSE
BY DEF NoBox, AnyBox

LEMMA BoxType ==
    ASSUME NEW b \in Boxes
    PROVE  /\ b \in AnyBox /\ b.open
           /\ b.files \in SUBSET Files /\ b.had \in SUBSET Files
           /\ b.files \subseteq b.had
           /\ b.alone \in BOOLEAN /\ b.of \in SessionKeys \union {NoKey}
BY DEF Boxes, AnyBox

LEMMA BoxCases ==
    ASSUME NEW b \in AnyBox
    PROVE  /\ b.open \in BOOLEAN
           /\ b.open => b \in Boxes
           /\ ~b.open => b = NoBox
<1>1. CASE b = NoBox BY <1>1, NoBoxType
<1>2. CASE b \in Boxes
  <2>1. b.open = TRUE BY <1>2 DEF Boxes
  <2> QED BY <1>2, <2>1
<1> QED BY <1>1, <1>2 DEF AnyBox

LEMMA EmptyBoxType == EmptyBox \in Boxes /\ ~EmptyBox.alone /\ EmptyBox.files = {}
BY DEF EmptyBox, Boxes

LEMMA WithType ==
    ASSUME NEW b \in Boxes, NEW fs \in SUBSET Files
    PROVE  /\ With(b, fs) \in Boxes
           /\ With(b, fs).files = fs /\ With(b, fs).had = b.had \union fs
           /\ With(b, fs).of = b.of /\ With(b, fs).alone = b.alone
BY DEF With, Boxes

LEMMA WithKnown ==
    ASSUME NEW d, NEW b \in Boxes, NEW fs \in SUBSET Files, KnownIn(d, b)
    PROVE  KnownIn(d, With(b, fs))
BY WithType, BoxType DEF KnownIn

LEMMA DiffersType ==
    ASSUME NEW b \in Boxes, NEW k
    PROVE  /\ Differs(b, k) \in Boxes
           /\ Differs(b, k).files = b.files /\ Differs(b, k).had = b.had
           /\ Differs(b, k).of = b.of
           /\ Differs(b, k).alone => b.alone /\ b.of # k
BY DEF Differs, Boxes

LEMMA DiffersAny ==
    ASSUME NEW b \in AnyBox, NEW k
    PROVE  Differs(b, k) \in AnyBox /\ Differs(b, k).open = b.open
<1>1. CASE b = NoBox
  <2>1. Differs(b, k) = b BY <1>1, NoBoxType DEF Differs
  <2> QED BY <1>1, <2>1
<1>2. CASE b \in Boxes
  <2>1. Differs(b, k) \in Boxes BY <1>2, DiffersType
  <2>2. b.open = TRUE /\ Differs(b, k).open = TRUE BY <1>2, <2>1 DEF Boxes
  <2> QED BY <2>1, <2>2 DEF AnyBox
<1> QED BY <1>1, <1>2 DEF AnyBox

(* What is left unmarked knows the disk after a change of session k, too.  *)
LEMMA DiffersKnown ==
    ASSUME NEW b \in AnyBox, NEW k \in SessionKeys, NEW d \in [SessionKeys -> SUBSET Files],
           NEW s \in SUBSET Files, KnownIn(d, b)
    PROVE  KnownIn([d EXCEPT ![k] = s], Differs(b, k))
<1>1. CASE b = NoBox BY <1>1, NoBoxType, DiffersAny DEF KnownIn
<1>2. CASE b \in Boxes
  <2>1. SUFFICES ASSUME Differs(b, k).of \in SessionKeys, Differs(b, k).alone
                 PROVE  [d EXCEPT ![k] = s][b.of] \subseteq b.had
    BY <1>2, DiffersType DEF KnownIn
  <2>2. b.of \in SessionKeys /\ b.of # k /\ b.alone /\ b.open
    BY <1>2, <2>1, DiffersType, BoxType
  <2> QED BY <2>2 DEF KnownIn
<1> QED BY <1>1, <1>2 DEF AnyBox

-----------------------------------------------------------------------------
(* Turns.                                                                  *)

(* The phase tells which record a turn is. *)
LEMMA PhaseType ==
    ASSUME NEW q \in States
    PROVE  /\ q = NoTurn <=> q.phase = "none"
           /\ q.phase = "turn" <=> q \in Turns
           /\ q.phase = "write" <=> q \in Writes
           /\ q.phase = "delete" <=> q \in Deletions
           /\ q # NoTurn => q.key \in SessionKeys /\ q.mine \in BOOLEAN /\ q.box \in AnyBox
BY DEF States, NoTurn, Turns, Writes, Deletions, AnyBox

LEMMA DisturbedType ==
    ASSUME NEW q \in States \ {NoTurn}, NEW k
    PROVE  LET p == [q EXCEPT !.box = Differs(q.box, k)] IN
           /\ p \in States /\ p # NoTurn /\ p.mine = q.mine
           /\ p.box = Differs(q.box, k)
           /\ Listing(q) => Listing(p)
<1> DEFINE p == [q EXCEPT !.box = Differs(q.box, k)]
<1>1. CASE q \in Turns
  <2>1. Differs(q.box, k) \in AnyBox BY <1>1, DiffersAny DEF Turns, AnyBox
  <2>2. p \in Turns /\ p.mine = q.mine /\ p.box = Differs(q.box, k)
    BY <1>1, <2>1 DEF Turns, AnyBox
  <2>3. p.phase = "turn" BY <2>2 DEF Turns
  <2>4. p \in States /\ p # NoTurn BY <2>2, <2>3 DEF States, NoTurn
  <2> QED BY <2>2, <2>3, <2>4 DEF Listing
<1>2. CASE q \in Writes
  <2>1. q.box \in Boxes BY <1>2 DEF Writes
  <2>2. Differs(q.box, k) \in Boxes /\ Differs(q.box, k).files = q.box.files
    BY <2>1, DiffersType
  <2>3. /\ p \in Writes /\ p.mine = q.mine /\ p.box = Differs(q.box, k)
        /\ p.wanted = q.wanted /\ p.mirror = q.mirror /\ q.phase = "write"
    BY <1>2, <2>2 DEF Writes
  <2>4. p.phase = "write" BY <2>3 DEF Writes
  <2>5. p \in States /\ p # NoTurn BY <2>3, <2>4 DEF States, NoTurn
  <2> QED BY <2>2, <2>3, <2>4, <2>5 DEF Listing
<1>3. CASE q \in Deletions
  <2>1. q.box \in Boxes BY <1>3 DEF Deletions
  <2>2. Differs(q.box, k) \in Boxes /\ Differs(q.box, k).files = q.box.files
    BY <2>1, DiffersType
  <2>3. /\ p \in Deletions /\ p.mine = q.mine /\ p.box = Differs(q.box, k)
        /\ p.todo = q.todo /\ q.phase = "delete"
    BY <1>3, <2>2 DEF Deletions
  <2>4. p.phase = "delete" BY <2>3 DEF Deletions
  <2>5. p \in States /\ p # NoTurn BY <2>3, <2>4 DEF States, NoTurn
  <2> QED BY <2>2, <2>3, <2>4, <2>5 DEF Listing
<1> QED BY <1>1, <1>2, <1>3 DEF States

-----------------------------------------------------------------------------
(* Steps.                                                                  *)

(* What a turn that is not over has to be, with the disk d. *)
Sound(d, q) == q \in States \ {NoTurn} /\ Listing(q) /\ KnownIn(d, q.box)

LEMMA SoundNow ==
    ASSUME DiskInv, NEW r \in Runs, run[r] # NoTurn
    PROVE  Sound(disk, run[r]) /\ run[r].key \in SessionKeys /\ run[r].box \in AnyBox
<1>1. run[r] \in States \ {NoTurn} BY DEF DiskInv, WorkspaceTypeOK, States
<1>2. Listing(run[r]) /\ KnownIn(disk, run[r].box)
  BY DEF DiskInv, ListingSound, KnowsTheDisk, Known, KnownIn
<1> QED BY <1>1, <1>2, PhaseType DEF Sound

LEMMA IdleListing == Listing(NoTurn)
BY DEF Listing, NoTurn

(* The invariant, from its parts. *)
LEMMA Assemble ==
    ASSUME disk' \in [SessionKeys -> SUBSET Files], parked' \in AnyBox,
           KnownIn(disk', parked'), OneClaim',
           run' = [r \in Runs |-> run'[r]],
           \A r \in Runs : run'[r] = NoTurn \/ Sound(disk', run'[r])
    PROVE  DiskInv'
<1>1. run' \in [Runs -> States]
  <2>1. NoTurn \in States BY DEF States
  <2>2. \A r \in Runs : run'[r] \in States BY <2>1 DEF Sound
  <2> QED BY <2>2
<1>2. WorkspaceTypeOK' BY <1>1 DEF WorkspaceTypeOK, AnyBox, States
<1>3. KnowsTheDisk'
  <2>1. Known(parked)' BY DEF Known, KnownIn
  <2>2. ASSUME NEW r \in Runs, run'[r] # NoTurn PROVE Known(run[r].box)'
    BY <2>2 DEF Known, KnownIn, Sound
  <2> QED BY <2>1, <2>2 DEF KnowsTheDisk
<1>4. ListingSound' BY IdleListing DEF ListingSound, Sound
<1> QED BY <1>2, <1>3, <1>4 DEF DiskInv

(* A step that opens no turn, and parks no sandbox where none was. *)
LEMMA KeepsClaim ==
    ASSUME OneClaim, parked'.open => parked.open,
           \A r \in Runs : run'[r] # NoTurn => run[r] # NoTurn /\ run'[r].mine = run[r].mine
    PROVE  OneClaim'
BY DEF OneClaim

(* A step of one turn that leaves the disk alone. *)
LEMMA TurnStep ==
    ASSUME DiskInv, NEW r \in Runs, NEW q, run[r] # NoTurn, Sound(disk, q),
           q.mine = run[r].mine, Set(r, q), UNCHANGED <<disk, parked>>
    PROVE  DiskInv'
<1>1. /\ disk' \in [SessionKeys -> SUBSET Files] /\ parked' \in AnyBox
      /\ KnownIn(disk', parked') /\ OneClaim
  BY DEF DiskInv, WorkspaceTypeOK, AnyBox, KnowsTheDisk, Known, KnownIn
<1>2. run = [p \in Runs |-> run[p]] BY DEF DiskInv, WorkspaceTypeOK
<1>3. run' = [p \in Runs |-> IF p = r THEN q ELSE run[p]]
  BY <1>2 DEF Set
<1>4. OneClaim' BY <1>1, <1>3, KeepsClaim DEF Sound
<1>5. \A p \in Runs : run'[p] = NoTurn \/ Sound(disk', run'[p])
  BY <1>3, SoundNow
<1> QED BY <1>1, <1>3, <1>4, <1>5, Assemble

(* A change of session k's files by turn r, which is q after it. *)
LEMMA DiskStep ==
    ASSUME DiskInv, NEW k \in SessionKeys, NEW s \in SUBSET Files, NEW others \in SUBSET Runs,
           disk' = [disk EXCEPT ![k] = s], parked' = Differs(parked, k),
           run' = [r \in Runs |-> run'[r]],
           \A r \in others : run'[r] = Disturbed(k, others)[r],
           \A r \in Runs \ others :
               run[r] # NoTurn /\ Sound(disk', run'[r]) /\ run'[r].mine = run[r].mine
    PROVE  DiskInv'
<1>1. /\ disk \in [SessionKeys -> SUBSET Files] /\ parked \in AnyBox
      /\ KnownIn(disk, parked) /\ OneClaim
  BY DEF DiskInv, WorkspaceTypeOK, AnyBox, KnowsTheDisk, Known, KnownIn
<1>2. disk' \in [SessionKeys -> SUBSET Files] BY <1>1
<1>3. parked' \in AnyBox /\ parked'.open = parked.open BY <1>1, DiffersAny
<1>4. KnownIn(disk', parked') BY <1>1, DiffersKnown
<1>5. ASSUME NEW r \in others, run[r] = NoTurn PROVE run'[r] = NoTurn
  BY <1>5 DEF Disturbed
<1>6. ASSUME NEW r \in others, run[r] # NoTurn
      PROVE  Sound(disk', run'[r]) /\ run'[r].mine = run[r].mine
  <2>1. run'[r] = [run[r] EXCEPT !.box = Differs(run[r].box, k)]
    BY <1>6 DEF Disturbed
  <2>2. run[r] \in States \ {NoTurn} /\ Listing(run[r]) /\ KnownIn(disk, run[r].box)
        /\ run[r].box \in AnyBox
    BY <1>6, SoundNow DEF Sound
  <2>3. /\ run'[r] \in States /\ run'[r] # NoTurn /\ run'[r].mine = run[r].mine
        /\ run'[r].box = Differs(run[r].box, k) /\ Listing(run'[r])
    <3>1. PICK q \in States \ {NoTurn} : q = run[r] BY <2>2
    <3>2. PICK p : p = [q EXCEPT !.box = Differs(q.box, k)] OBVIOUS
    <3>3. /\ p \in States /\ p # NoTurn /\ p.mine = q.mine /\ p.box = Differs(q.box, k)
          /\ Listing(q) => Listing(p)
      BY <3>2, DisturbedType
    <3> QED BY <2>1, <2>2, <3>1, <3>2, <3>3
  <2>4. KnownIn(disk', run'[r].box) BY <1>1, <2>2, <2>3, DiffersKnown
  <2> QED BY <2>3, <2>4 DEF Sound
<1>7. \A r \in Runs : run'[r] = NoTurn \/ Sound(disk', run'[r]) BY <1>5, <1>6
<1>8. OneClaim' BY <1>1, <1>3, <1>5, <1>6, KeepsClaim
<1> QED BY <1>2, <1>3, <1>4, <1>7, <1>8, Assemble

-----------------------------------------------------------------------------
(* The actions.                                                            *)

(* The sandbox that the next command of a turn goes to. *)
LEMMA LeasedFacts ==
    ASSUME DiskInv, NEW r \in Runs, run[r] # NoTurn
    PROVE  Leased(r) \in Boxes /\ KnownIn(disk, Leased(r))
<1>1. run[r].box \in AnyBox /\ KnownIn(disk, run[r].box)
  BY SoundNow DEF Sound
<1>2. KnownIn(disk, EmptyBox) BY EmptyBoxType DEF KnownIn
<1> QED BY <1>1, <1>2, BoxCases, EmptyBoxType DEF Leased

LEMMA RunningTurn ==
    ASSUME DiskInv, NEW r \in Runs, Running(r)
    PROVE  run[r] \in Turns /\ run[r] # NoTurn
<1>1. run[r] \in States BY DEF DiskInv, WorkspaceTypeOK, States
<1> QED BY <1>1, PhaseType DEF Running, NoTurn

(* A turn that goes on in the sandbox b. *)
LEMMA TurnBox ==
    ASSUME DiskInv, NEW r \in Runs, Running(r), NEW b \in AnyBox, NEW st \in BOOLEAN,
           KnownIn(disk, b), UNCHANGED <<disk, parked>>,
           Set(r, [run[r] EXCEPT !.staged = st, !.box = b])
    PROVE  DiskInv'
<1> DEFINE q == [run[r] EXCEPT !.staged = st, !.box = b]
<1>1. run[r] \in Turns /\ run[r] # NoTurn BY RunningTurn
<1>2. q \in Turns /\ q.box = b /\ q.mine = run[r].mine BY <1>1 DEF Turns, AnyBox
<1>3. q.phase = "turn" BY <1>2 DEF Turns
<1>4. Sound(disk, q) BY <1>2, <1>3 DEF Sound, States, Listing, NoTurn
<1>5. Set(r, q) OBVIOUS
<1> HIDE DEF q
<1> QED BY <1>1, <1>2, <1>4, <1>5, TurnStep

LEMMA TurnBoxOnly ==
    ASSUME DiskInv, NEW r \in Runs, Running(r), NEW b \in AnyBox,
           KnownIn(disk, b), UNCHANGED <<disk, parked>>,
           Set(r, [run[r] EXCEPT !.box = b])
    PROVE  DiskInv'
<1>1. run[r] \in Turns BY RunningTurn
<1>2. [run[r] EXCEPT !.box = b] = [run[r] EXCEPT !.staged = run[r].staged, !.box = b]
  BY <1>1 DEF Turns
<1>3. run[r].staged \in BOOLEAN BY <1>1 DEF Turns
<1> QED BY <1>2, <1>3, TurnBox, Zenon

LEMMA StageKeeps == ASSUME DiskInv, NEW r \in Runs, Stage(r) PROVE DiskInv'
<1>1. run[r] \in Turns /\ run[r] # NoTurn /\ Running(r) BY RunningTurn DEF Stage
<1> DEFINE k == run[r].key
           b == With(Leased(r), Leased(r).files \union disk[k])
           w == [b EXCEPT !.of = k, !.alone = TRUE]
<1>2. k \in SessionKeys /\ disk[k] \in SUBSET Files
  BY <1>1 DEF Turns, DiskInv, WorkspaceTypeOK
<1>3. Leased(r) \in Boxes BY <1>1, LeasedFacts
<1>4. Leased(r).files \union disk[k] \in SUBSET Files BY <1>2, <1>3, BoxType
<1>5. b \in Boxes /\ b.had = Leased(r).had \union (Leased(r).files \union disk[k])
  BY <1>3, <1>4, WithType
<1> HIDE DEF b
<1>6. w \in Boxes /\ w.of = k /\ w.had = b.had BY <1>2, <1>5 DEF Boxes
<1>7. w \in AnyBox /\ KnownIn(disk, w) BY <1>5, <1>6, BoxType DEF KnownIn
<1>8. Set(r, [run[r] EXCEPT !.staged = TRUE, !.box = w]) /\ UNCHANGED <<disk, parked>>
  BY DEF Stage, Staged, Whole, b
<1> HIDE DEF w
<1> QED BY <1>1, <1>7, <1>8, TurnBox, Zenon

(* Files put into the sandbox, or deleted there. *)
LEMMA WithKeeps ==
    ASSUME DiskInv, NEW r \in Runs, Running(r), NEW fs \in SUBSET Files,
           UNCHANGED <<disk, parked>>,
           Set(r, [run[r] EXCEPT !.box = With(Leased(r), fs)])
    PROVE  DiskInv'
<1>1. Leased(r) \in Boxes /\ KnownIn(disk, Leased(r)) BY RunningTurn, LeasedFacts
<1>2. With(Leased(r), fs) \in AnyBox /\ KnownIn(disk, With(Leased(r), fs))
  BY <1>1, WithType, WithKnown, BoxType
<1> QED BY <1>2, TurnBoxOnly

LEMMA FilesKeep ==
    ASSUME DiskInv, NEW r \in Runs,
           StageFails(r) \/ \E f \in Files : Exec(r, f) \/ PutFile(r, f)
    PROVE  DiskInv'
<1>1. Running(r) /\ UNCHANGED <<disk, parked>> BY DEF StageFails, Exec, PutFile
<1>2. Leased(r).files \in SUBSET Files BY <1>1, RunningTurn, LeasedFacts, BoxType
<1>3. CASE StageFails(r)
  <2>1. PICK fs \in SUBSET disk[run[r].key] :
            Set(r, [run[r] EXCEPT !.box = With(Leased(r), Leased(r).files \union fs)])
    BY <1>3 DEF StageFails
  <2>2. disk[run[r].key] \in SUBSET Files
    BY <1>1, RunningTurn, SoundNow DEF DiskInv, WorkspaceTypeOK
  <2>3. Leased(r).files \union fs \in SUBSET Files BY <1>2, <2>2
  <2> QED BY <1>1, <2>1, <2>3, WithKeeps
<1>4. ASSUME NEW f \in Files, Exec(r, f) PROVE DiskInv'
  <2>1. PICK fs \in {Leased(r).files \union {f}, Leased(r).files \ {f}} :
            Set(r, [run[r] EXCEPT !.box = With(Leased(r), fs)])
    BY <1>4 DEF Exec
  <2>2. fs \in SUBSET Files BY <1>2
  <2> QED BY <1>1, <2>1, <2>2, WithKeeps
<1>5. ASSUME NEW f \in Files, PutFile(r, f) PROVE DiskInv'
  <2>1. Leased(r).files \union {f} \in SUBSET Files BY <1>2
  <2> QED BY <1>1, <1>5, <2>1, WithKeeps DEF PutFile
<1> QED BY <1>3, <1>4, <1>5

LEMMA BoxOpensOrGoes ==
    ASSUME DiskInv, NEW r \in Runs, Browse(r) \/ LeaseLost(r) PROVE DiskInv'
<1>1. Running(r) /\ UNCHANGED <<disk, parked>> BY DEF Browse, LeaseLost
<1>2. CASE Browse(r)
  <2>1. EmptyBox \in AnyBox /\ KnownIn(disk, EmptyBox)
    BY EmptyBoxType, BoxType DEF KnownIn
  <2> QED BY <1>1, <1>2, <2>1, TurnBoxOnly DEF Browse
<1>3. CASE LeaseLost(r)
  <2>1. NoBox \in AnyBox /\ KnownIn(disk, NoBox) BY NoBoxType DEF KnownIn
  <2> QED BY <1>1, <1>3, <2>1, TurnBoxOnly DEF LeaseLost
<1> QED BY <1>2, <1>3

LEMMA ListKeeps == ASSUME DiskInv, NEW r \in Runs, ListFiles(r) PROVE DiskInv'
<1>1. /\ run[r] \in Turns /\ run[r] # NoTurn /\ run[r].box.open
      /\ UNCHANGED <<disk, parked>>
  BY RunningTurn DEF ListFiles
<1>2. run[r].box \in Boxes /\ KnownIn(disk, run[r].box)
  BY <1>1, SoundNow, BoxCases DEF Sound
<1>3. run[r].box.files \in SUBSET Files BY <1>2, BoxType
<1>4. PICK truncated \in BOOLEAN, wanted \in SUBSET run[r].box.files :
        /\ ~truncated => wanted = run[r].box.files
        /\ Set(r, [phase |-> "write", key |-> run[r].key, mine |-> run[r].mine,
                   box |-> run[r].box, wanted |-> wanted, todo |-> wanted,
                   mirror |-> MayMirror(run[r].key, truncated, wanted)])
  BY DEF ListFiles
<1> DEFINE m == MayMirror(run[r].key, truncated, wanted)
           q == [phase |-> "write", key |-> run[r].key, mine |-> run[r].mine,
                 box |-> run[r].box, wanted |-> wanted, todo |-> wanted, mirror |-> m]
<1>5. m \in BOOLEAN /\ (m => wanted = run[r].box.files)
  BY <1>4 DEF MayMirror, Mirrors
<1>6. Set(r, q) BY <1>4
<1> HIDE DEF m
<1>7. run[r].key \in SessionKeys /\ run[r].mine \in BOOLEAN BY <1>1 DEF Turns
<1>8. wanted \in SUBSET Files BY <1>3
<1>9. q \in Writes BY <1>2, <1>5, <1>7, <1>8 DEF Writes
<1>10. Listing(q) BY <1>5 DEF Listing
<1>11. Sound(disk, q) BY <1>2, <1>9, <1>10 DEF Sound, States, NoTurn
<1>12. q.mine = run[r].mine OBVIOUS
<1> HIDE DEF q
<1> QED BY <1>1, <1>6, <1>11, <1>12, TurnStep

LEMMA WalkKeeps == ASSUME DiskInv, NEW r \in Runs, Walk(r) PROVE DiskInv'
<1> DEFINE q == [phase |-> "delete", key |-> run[r].key, mine |-> run[r].mine,
                 box |-> run[r].box, wanted |-> run[r].wanted, todo |-> Doomed(r)]
<1>1. run[r].phase = "write" /\ run[r].mirror /\ Set(r, q) /\ UNCHANGED <<disk, parked>>
  BY DEF Walk
<1>2. run[r] \in Writes /\ run[r] # NoTurn
  BY <1>1, PhaseType DEF DiskInv, WorkspaceTypeOK, States, NoTurn
<1>3. run[r].wanted = run[r].box.files
  BY <1>1 DEF DiskInv, ListingSound, Listing
<1>4. Doomed(r) \in SUBSET Files /\ Doomed(r) \intersect run[r].box.files = {}
  BY <1>2, <1>3 DEF Doomed, Writes, DiskInv, WorkspaceTypeOK
<1>5. q \in Deletions BY <1>2, <1>4 DEF Writes, Deletions
<1>6. Listing(q) BY <1>4 DEF Listing
<1>7. KnownIn(disk, q.box) BY <1>2, SoundNow DEF Sound
<1>8. Sound(disk, q) BY <1>5, <1>6, <1>7 DEF Sound, States, NoTurn
<1>9. q.mine = run[r].mine OBVIOUS
<1> HIDE DEF q
<1> QED BY <1>1, <1>2, <1>8, <1>9, TurnStep

(* One file less to write, or to delete. *)
LEMMA TodoLess ==
    ASSUME NEW q \in Writes \union Deletions, NEW t \in SUBSET q.todo, Listing(q)
    PROVE  LET p == [q EXCEPT !.todo = t] IN
           /\ p \in States \ {NoTurn} /\ p.mine = q.mine /\ p.box = q.box /\ Listing(p)
<1> DEFINE p == [q EXCEPT !.todo = t]
<1>1. CASE q \in Writes
  <2>1. /\ p \in Writes /\ p.mine = q.mine /\ p.box = q.box
        /\ p.wanted = q.wanted /\ p.mirror = q.mirror /\ q.phase = "write"
    BY <1>1 DEF Writes
  <2>2. p.phase = "write" BY <2>1 DEF Writes
  <2> QED BY <2>1, <2>2 DEF States, NoTurn, Listing
<1>2. CASE q \in Deletions
  <2>1. /\ p \in Deletions /\ p.mine = q.mine /\ p.box = q.box
        /\ p.todo = t /\ q.phase = "delete"
    BY <1>2 DEF Deletions
  <2>2. p.phase = "delete" BY <2>1 DEF Deletions
  <2>3. p.todo \intersect p.box.files = {} BY <2>1 DEF Listing
  <2> QED BY <2>1, <2>2, <2>3 DEF States, NoTurn, Listing
<1> QED BY <1>1, <1>2

(* One file of the copy back, written or deleted: the sandbox it goes from *)
(* still knows the disk, the others are marked if the disk has changed.    *)
LEMMA CopyStep ==
    ASSUME DiskInv, NEW r \in Runs, run[r] \in Writes \union Deletions,
           NEW t \in SUBSET run[r].todo, NEW s \in SUBSET Files,
           s \subseteq disk[run[r].key] \union run[r].box.files,
           disk' = [disk EXCEPT ![run[r].key] = s] \/ disk' = disk,
           run' = [(IF disk' = disk THEN run ELSE Disturbed(run[r].key, Runs \ {r}))
                     EXCEPT ![r] = [run[r] EXCEPT !.todo = t]],
           parked' = IF disk' = disk THEN parked ELSE Differs(parked, run[r].key)
    PROVE  DiskInv'
<1> DEFINE k == run[r].key
           q == [run[r] EXCEPT !.todo = t]
<1>1. run[r].phase # "none" BY DEF Writes, Deletions
<1>2. run[r] # NoTurn BY <1>1 DEF NoTurn
<1>3. Sound(disk, run[r]) /\ k \in SessionKeys BY <1>2, SoundNow
<1>4. run[r].box \in Boxes BY DEF Writes, Deletions
<1>5. q \in States \ {NoTurn} /\ q.mine = run[r].mine /\ q.box = run[r].box /\ Listing(q)
  BY <1>3, TodoLess DEF Sound
<1>6. disk \in [SessionKeys -> SUBSET Files] /\ run = [p \in Runs |-> run[p]]
  BY DEF DiskInv, WorkspaceTypeOK
<1>7. CASE disk' = disk
  <2>1. Sound(disk, q) BY <1>3, <1>5 DEF Sound
  <2>2. Set(r, q) /\ UNCHANGED <<disk, parked>> BY <1>7 DEF Set
  <2> HIDE DEF q
  <2> QED BY <1>2, <1>5, <2>1, <2>2, TurnStep
<1>8. CASE disk' # disk
  <2>1. disk' = [disk EXCEPT ![k] = s] /\ parked' = Differs(parked, k) BY <1>8
  <2>2. Disturbed(k, Runs \ {r}) = [p \in Runs |-> Disturbed(k, Runs \ {r})[p]]
    BY DEF Disturbed
  <2>3. run' = [p \in Runs |-> IF p = r THEN q ELSE Disturbed(k, Runs \ {r})[p]]
    BY <1>8, <2>2
  <2>4. KnownIn(disk', q.box)
    <3>1. SUFFICES ASSUME q.box.of \in SessionKeys, q.box.alone
                   PROVE  disk'[q.box.of] \subseteq q.box.had
      BY DEF KnownIn
    <3>2. /\ disk[q.box.of] \subseteq q.box.had /\ q.box.files \subseteq q.box.had
      BY <1>3, <1>4, <1>5, <3>1, BoxType DEF Sound, KnownIn
    <3>3. CASE q.box.of = k
      <4>1. disk'[q.box.of] = s BY <1>3, <1>6, <2>1, <3>3
      <4> QED BY <1>5, <3>2, <3>3, <4>1
    <3>4. CASE q.box.of # k
      <4>1. disk'[q.box.of] = disk[q.box.of] BY <1>6, <2>1, <3>1, <3>4
      <4> QED BY <3>2, <4>1
    <3> QED BY <3>3, <3>4
  <2>5. Sound(disk', q) BY <1>5, <2>4 DEF Sound
  <2> DEFINE others == Runs \ {r}
  <2>6. \A p \in Runs \ others :
            run[p] # NoTurn /\ Sound(disk', run'[p]) /\ run'[p].mine = run[p].mine
    <3> HIDE DEF q
    <3> QED BY <1>2, <1>5, <2>3, <2>5
  <2>7. \A p \in others : run'[p] = Disturbed(k, others)[p] BY <2>3
  <2>8. run' = [p \in Runs |-> run'[p]] BY <2>3
  <2> HIDE DEF q, others, k
  <2>9. others \in SUBSET Runs BY DEF others
  <2> QED BY <1>3, <2>1, <2>6, <2>7, <2>8, <2>9, DiskStep
<1> QED BY <1>7, <1>8

LEMMA WriteFileKeeps == ASSUME DiskInv, NEW r \in Runs, WriteFile(r) PROVE DiskInv'
<1>1. run[r] \in Writes
  BY PhaseType DEF WriteFile, DiskInv, WorkspaceTypeOK, States
<1>2. run[r].key \in SessionKeys /\ run[r].box \in Boxes BY <1>1 DEF Writes
<1>3. PICK f \in run[r].todo, read \in BOOLEAN :
        /\ read => f \in run[r].box.files
        /\ disk' = IF read THEN [disk EXCEPT ![run[r].key] = @ \union {f}] ELSE disk
        /\ run' = [(IF disk' = disk THEN run ELSE Disturbed(run[r].key, Runs \ {r}))
                      EXCEPT ![r] = [run[r] EXCEPT !.todo = run[r].todo \ {f}]]
        /\ parked' = IF disk' = disk THEN parked ELSE Differs(parked, run[r].key)
  BY DEF WriteFile
<1> DEFINE k == run[r].key
           s == IF read THEN disk[k] \union {f} ELSE disk[k]
<1>4. disk[k] \in SUBSET Files /\ run[r].box.files \in SUBSET Files
  BY <1>2, BoxType DEF DiskInv, WorkspaceTypeOK
<1>5. s \in SUBSET Files /\ s \subseteq disk[k] \union run[r].box.files
  BY <1>3, <1>4
<1>6. disk' = [disk EXCEPT ![k] = s] \/ disk' = disk BY <1>3
<1>7. run[r].todo \ {f} \in SUBSET run[r].todo OBVIOUS
<1> HIDE DEF s
<1> QED BY <1>1, <1>3, <1>5, <1>6, <1>7, CopyStep

LEMMA DeleteFileKeeps == ASSUME DiskInv, NEW r \in Runs, DeleteFile(r) PROVE DiskInv'
<1>1. run[r] \in Deletions
  BY PhaseType DEF DeleteFile, DiskInv, WorkspaceTypeOK, States
<1>2. run[r].key \in SessionKeys BY <1>1 DEF Deletions
<1>3. PICK f \in run[r].todo :
        /\ disk' = [disk EXCEPT ![run[r].key] = @ \ {f}]
        /\ run' = [(IF disk' = disk THEN run ELSE Disturbed(run[r].key, Runs \ {r}))
                      EXCEPT ![r] = [run[r] EXCEPT !.todo = run[r].todo \ {f}]]
        /\ parked' = IF disk' = disk THEN parked ELSE Differs(parked, run[r].key)
  BY DEF DeleteFile
<1> DEFINE s == disk[run[r].key] \ {f}
<1>4. disk[run[r].key] \in SUBSET Files BY <1>2 DEF DiskInv, WorkspaceTypeOK
<1>5. s \in SUBSET Files /\ s \subseteq disk[run[r].key] \union run[r].box.files
  BY <1>4
<1>6. disk' = [disk EXCEPT ![run[r].key] = s] BY <1>3
<1>7. run[r].todo \ {f} \in SUBSET run[r].todo OBVIOUS
<1> HIDE DEF s
<1> QED BY <1>1, <1>3, <1>5, <1>6, <1>7, CopyStep

LEMMA RemoveSessionKeeps == ASSUME DiskInv, NEW k \in SessionKeys, RemoveSession(k) PROVE DiskInv'
<1>1. /\ disk' = [disk EXCEPT ![k] = {}] /\ parked' = Differs(parked, k)
      /\ run' = Disturbed(k, Runs)
  BY DEF RemoveSession
<1>2. run' = [r \in Runs |-> run'[r]] BY <1>1 DEF Disturbed
<1>3. {} \in SUBSET Files /\ Runs \in SUBSET Runs OBVIOUS
<1> QED BY <1>1, <1>2, <1>3, DiskStep

LEMMA StartKeeps == ASSUME DiskInv, NEW r \in Runs, NEW k \in SessionKeys, Start(r, k) PROVE DiskInv'
<1>1. run[r] = NoTurn /\ UNCHANGED disk
      /\ parked' = IF Claimable THEN NoBox ELSE parked
  BY DEF Start
<1>2. PICK mine \in BOOLEAN, attached \in BOOLEAN :
         /\ mine => Claimable
         /\ attached => Claimable /\ parked.open
         /\ Set(r, [phase |-> "turn", key |-> k, mine |-> mine, attached |-> attached,
                    staged |-> FALSE, box |-> IF attached THEN parked ELSE NoBox])
  BY DEF Start
<1> DEFINE b == IF attached THEN parked ELSE NoBox
           q == [phase |-> "turn", key |-> k, mine |-> mine, attached |-> attached,
                 staged |-> FALSE, box |-> b]
<1>3. /\ disk \in [SessionKeys -> SUBSET Files] /\ parked \in AnyBox /\ OneClaim
      /\ run = [p \in Runs |-> run[p]] /\ KnownIn(disk, parked)
  BY DEF DiskInv, WorkspaceTypeOK, AnyBox, KnowsTheDisk, Known, KnownIn
<1>4. NoBox \in AnyBox /\ KnownIn(disk, NoBox) BY NoBoxType DEF KnownIn
<1>5. b \in AnyBox /\ KnownIn(disk, b) BY <1>3, <1>4
<1>6. Set(r, q) BY <1>2
<1> HIDE DEF b
<1>7. q \in Turns BY <1>5 DEF Turns, AnyBox
<1>8. Sound(disk, q) BY <1>5, <1>7 DEF Sound, States, Listing, NoTurn
<1>9. q.mine = mine OBVIOUS
<1> HIDE DEF q
<1>10. run' = [p \in Runs |-> IF p = r THEN q ELSE run[p]] BY <1>3, <1>6 DEF Set
<1>11. \A p \in Runs : run'[p] = NoTurn \/ Sound(disk', run'[p])
  BY <1>1, <1>8, <1>10, SoundNow
<1>12. parked' \in AnyBox /\ KnownIn(disk', parked') BY <1>1, <1>3, <1>4
<1>13. OneClaim'
  <2>1. SUFFICES ASSUME NEW p \in Runs, run'[p] # NoTurn, run'[p].mine
                 PROVE  /\ ~parked'.open
                        /\ \A o \in Runs \ {p} : run'[o] # NoTurn => ~run'[o].mine
    BY DEF OneClaim
  <2>2. CASE p = r
    <3>1. Claimable BY <1>2, <1>9, <1>10, <2>1, <2>2
    <3>2. ~parked'.open BY <1>1, <3>1, NoBoxType
    <3> QED BY <1>10, <2>2, <3>1, <3>2 DEF Claimable, Unclaimed
  <2>3. CASE p # r
    <3>1. run[p] # NoTurn /\ run[p].mine BY <1>10, <2>1, <2>3
    <3>2. ~parked.open /\ \A o \in Runs \ {p} : run[o] # NoTurn => ~run[o].mine
      BY <1>3, <3>1 DEF OneClaim
    <3>3. ~Claimable BY <3>1 DEF Claimable, Unclaimed
    <3> QED BY <1>1, <1>2, <1>9, <1>10, <2>3, <3>2, <3>3
  <2> QED BY <2>2, <2>3
<1>14. run' = [p \in Runs |-> run'[p]] BY <1>10
<1> QED BY <1>1, <1>3, <1>11, <1>12, <1>13, <1>14, Assemble

LEMMA FinishKeeps == ASSUME DiskInv, NEW r \in Runs, Finish(r) PROVE DiskInv'
<1>1. /\ run[r] # NoTurn /\ disk' = disk /\ Set(r, NoTurn)
      /\ (run[r].mine /\ parked' = run[r].box) \/ parked' = parked
  BY DEF Finish, Over, NoTurn
<1>2. /\ disk \in [SessionKeys -> SUBSET Files] /\ parked \in AnyBox /\ OneClaim
      /\ run = [p \in Runs |-> run[p]] /\ KnownIn(disk, parked)
  BY DEF DiskInv, WorkspaceTypeOK, AnyBox, KnowsTheDisk, Known, KnownIn
<1>3. run' = [p \in Runs |-> IF p = r THEN NoTurn ELSE run[p]] BY <1>1, <1>2 DEF Set
<1>4. parked' \in AnyBox /\ KnownIn(disk', parked')
  BY <1>1, <1>2, SoundNow DEF Sound
<1>5. \A p \in Runs : run'[p] = NoTurn \/ Sound(disk', run'[p])
  BY <1>1, <1>3, SoundNow
<1>6. OneClaim'
  <2>1. CASE parked' = parked BY <1>2, <1>3, <2>1, KeepsClaim
  <2>2. CASE run[r].mine
    <3>1. \A p \in Runs \ {r} : run[p] # NoTurn => ~run[p].mine
      BY <1>1, <1>2, <2>2 DEF OneClaim
    <3>2. \A p \in Runs : run'[p] # NoTurn => ~run'[p].mine BY <1>3, <3>1
    <3> QED BY <3>2 DEF OneClaim
  <2> QED BY <1>1, <2>1, <2>2
<1>7. run' = [p \in Runs |-> run'[p]] BY <1>3
<1> QED BY <1>1, <1>2, <1>4, <1>5, <1>6, <1>7, Assemble

(* Between the turns. *)
LEMMA ParkedKeeps ==
    ASSUME DiskInv, Evict \/ \E f \in Files : Background(f) PROVE DiskInv'
<1>1. disk' = disk /\ run' = run /\ parked.open BY DEF Evict, Background
<1>2. /\ disk \in [SessionKeys -> SUBSET Files] /\ parked \in AnyBox /\ OneClaim
      /\ run = [p \in Runs |-> run[p]] /\ KnownIn(disk, parked)
  BY DEF DiskInv, WorkspaceTypeOK, AnyBox, KnowsTheDisk, Known, KnownIn
<1>3. parked' \in AnyBox /\ KnownIn(disk, parked')
  <2>1. CASE Evict BY <2>1, NoBoxType DEF Evict, KnownIn
  <2>2. ASSUME NEW f \in Files, Background(f) PROVE parked' \in AnyBox /\ KnownIn(disk, parked')
    <3>1. parked \in Boxes BY <1>1, <1>2, BoxCases
    <3>2. parked.files \union {f} \in SUBSET Files BY <3>1, BoxType
    <3> QED BY <1>2, <2>2, <3>1, <3>2, WithType, WithKnown, BoxType DEF Background
  <2> QED BY <2>1, <2>2
<1>4. \A p \in Runs : run'[p] = NoTurn \/ Sound(disk', run'[p]) BY <1>1, SoundNow
<1>5. OneClaim' BY <1>1, <1>2, KeepsClaim
<1> QED BY <1>1, <1>2, <1>3, <1>4, <1>5, Assemble

-----------------------------------------------------------------------------
(* The theorems.                                                           *)

LEMMA InvInit == ASSUME WorkspaceInit PROVE DiskInv
<1>1. disk \in [SessionKeys -> SUBSET Files] BY DEF WorkspaceInit
<1>2. run \in [Runs -> States] /\ \A r \in Runs : run[r] = NoTurn BY DEF WorkspaceInit, States
<1>3. parked \in AnyBox /\ ~parked.open BY NoBoxType DEF WorkspaceInit
<1>4. WorkspaceTypeOK BY <1>1, <1>2, <1>3 DEF WorkspaceTypeOK, OneClaim, States, AnyBox
<1>5. KnowsTheDisk BY <1>2, <1>3 DEF KnowsTheDisk, Known
<1>6. ListingSound BY <1>2, IdleListing DEF ListingSound
<1> QED BY <1>4, <1>5, <1>6 DEF DiskInv

LEMMA InvNext == ASSUME DiskInv, [WorkspaceNext]_workspaceVars PROVE DiskInv'
<1>1. CASE UNCHANGED workspaceVars
  BY <1>1 DEF workspaceVars, DiskInv, WorkspaceTypeOK, OneClaim, KnowsTheDisk, Known, ListingSound
<1>2. CASE WorkspaceNext
  BY <1>2, StartKeeps, StageKeeps, FilesKeep, BoxOpensOrGoes, ListKeeps, WriteFileKeeps,
     WalkKeeps, DeleteFileKeeps, FinishKeeps, ParkedKeeps, RemoveSessionKeeps
  DEF WorkspaceNext
<1> QED BY <1>1, <1>2

LEMMA Invariance == WorkspaceSpec => []DiskInv
BY InvInit, InvNext, PTL DEF WorkspaceSpec

(* The variables keep their types, and one turn at a time has the claim.   *)
THEOREM WorkspaceTypeCorrect == WorkspaceSpec => []WorkspaceTypeOK
<1>1. DiskInv => WorkspaceTypeOK BY DEF DiskInv
<1> QED BY <1>1, Invariance, PTL

(* stageFiles and the hand-over from turn to turn: a staged sandbox has    *)
(* held every file its session has on the disk.                            *)
THEOREM StagedSandboxKnowsTheDisk == WorkspaceSpec => []KnowsTheDisk
<1>1. DiskInv => KnowsTheDisk BY DEF DiskInv
<1> QED BY <1>1, Invariance, PTL

(* syncBack: what the mirror deletes from the disk, the turn had deleted   *)
(* from its sandbox.                                                       *)
THEOREM MirrorDeletesOnPurpose == WorkspaceSpec => DeletedOnPurpose
<1>1. ASSUME DiskInv, [WorkspaceNext]_workspaceVars, NEW r \in Runs, NEW f \in Files, Deletes(r, f),
             run[r].box.of = run[r].key, run[r].box.alone
      PROVE  f \in run[r].box.had \ run[r].box.files
  <2>1. run[r] \in Deletions /\ run[r] # NoTurn
    BY <1>1, PhaseType DEF Deletes, DiskInv, WorkspaceTypeOK, States, NoTurn
  <2>2. f \notin run[r].box.files
    BY <1>1 DEF Deletes, DiskInv, ListingSound, Listing
  <2>3. run[r].key \in SessionKeys /\ run[r].box.open
    BY <2>1, BoxType DEF Deletions
  <2>4. disk[run[r].key] \subseteq run[r].box.had
    BY <1>1, <2>1, <2>3, SoundNow DEF Sound, KnownIn
  <2> QED BY <1>1, <2>2, <2>4 DEF Deletes
<1>2. DiskInv /\ [WorkspaceNext]_workspaceVars => [OnPurpose]_workspaceVars BY <1>1 DEF OnPurpose
<1> QED BY <1>2, Invariance, PTL DEF WorkspaceSpec, DeletedOnPurpose
----------------------------------------------------------------

-----------------------------------------------------------------------------
(* Sessions: the states of a call.                                         *)

Asked == Projects \union {NoProject}
RowCalls == [op : {"context"}, key : Keys, new : BOOLEAN, turn : BOOLEAN, project : Projects]
    \union [op : {"row"}, key : Keys, new : BOOLEAN, turn : BOOLEAN, project : Asked]
    \union [op : {"lines"}, key : Keys, new : BOOLEAN, turn : BOOLEAN, project : Asked, alone : BOOLEAN]
SaveCalls == [op : {"save"}, key : Keys, new : BOOLEAN, project : Asked, alone : BOOLEAN,
              lines : Seq(Requests)]
InsertCalls == [op : {"insert"}, key : Keys, new : BOOLEAN, project : Asked, alone : BOOLEAN,
                lines : Seq(Requests), already : Nat]
SavedCalls == [op : {"saved"}, key : Keys, new : BOOLEAN, project : Asked, alone : BOOLEAN,
               lines : Seq(Requests)]
OtherCalls == [op : {"none"}] \union [op : {"assign"}, key : Keys, project : Projects]
    \union [op : {"remove"}, key : Keys]
ListCalls == [op : {"list"}, project : Projects, rest : SUBSET Keys]
ReleaseCalls == [op : {"release"}, project : Projects, page : SUBSET Keys, rest : SUBSET Keys,
                 more : BOOLEAN]
PagingCalls == ListCalls \union ReleaseCalls
CallStates == RowCalls \union SaveCalls \union InsertCalls \union SavedCalls \union OtherCalls \union PagingCalls

\* A transcript; t continues s; what the next load gives for it.
Transcript(f) == f \in [DOMAIN f -> Requests] /\ DOMAIN f \subseteq 0 .. (MaxLines - 1)
Opens(s, t) == Len(s) <= Len(t) /\ \A i \in 1 .. Len(s) : s[i] = t[i]
LineCount(f) == Cardinality(DOMAIN f)

\* What holds of call q when its session's transcript is f, and undisturbed.
SaveOK(q, f) ==
    /\ q.op = "insert" => q.already <= LineCount(f)
    /\ q.op = "remove" => f = NoLines
    /\ q.op \in {"save", "insert"} /\ q.alone = TRUE => Opens(Sorted(f), q.lines)
    /\ q.op = "insert" /\ q.alone = TRUE => q.already = LineCount(f)
    /\ q.op = "saved" /\ q.alone = TRUE => Sorted(f) = q.lines
CallFits(q, E, R) ==
    /\ q \in CallStates
    /\ q.op \in {"save", "insert", "saved"} => Len(q.lines) <= MaxLines
    /\ q.op \in {"save", "insert", "saved", "remove"} /\ q.key \notin R => SaveOK(q, E[q.key])
\* A session's row and lines, when no save and deletion of it overlapped.
TranscriptOK(r, f, undisturbed) ==
    /\ r \in Projects \union {NoProject, NoRow}
    /\ Transcript(f)
    /\ undisturbed => Dense(f) /\ (r = NoRow => f = NoLines)
LinesInv ==
    /\ row = [k \in Keys |-> row[k]] /\ entries = [k \in Keys |-> entries[k]]
    /\ request = [p \in Requests |-> request[p]]
    /\ project \in [Projects -> {"unborn", "live", "gone"}]
    /\ raced \subseteq Keys /\ left \in [Projects -> SUBSET Keys]
    /\ \A k \in Keys : TranscriptOK(row[k], entries[k], k \notin raced)
    /\ \A p \in Requests : CallFits(request[p], entries, raced)

\* The deletion q of project j still has session k before it.
IsPaging(q) == q.op \in {"list", "release"}
Before(q, j, k) ==
    /\ IsPaging(q) /\ q.project = j
    /\ k \in q.rest \/ (q.op = "release" /\ k \in q.page)
\* The last page has been read: the rest need not be read.
LastPage(q, j, k) == q.op = "release" /\ q.more = FALSE /\ q.project = j /\ k \in q.rest
ReleaseInv ==
    /\ \A p \in Requests : IsPaging(request[p]) => project[request[p].project] = "gone"
    /\ \A j \in Projects, k \in Keys : project[j] = "gone" /\ row[k] = j /\ k \notin left[j] =>
         /\ \E p \in Requests : Before(request[p], j, k)
         /\ \A p \in Requests : ~LastPage(request[p], j, k)

-----------------------------------------------------------------------------
(* Transcripts.                                                            *)

LEMMA Interval0 ==
    ASSUME NEW n \in Nat
    PROVE  IsFiniteSet(0 .. (n - 1)) /\ Cardinality(0 .. (n - 1)) = n
BY FS_Interval

LEMMA LineCounts ==
    ASSUME NEW f, Transcript(f)
    PROVE  IsFiniteSet(DOMAIN f) /\ LineCount(f) \in Nat
<1>1. IsFiniteSet(0 .. (MaxLines - 1)) BY SessionsAssumption, Interval0
<1> QED BY <1>1, FS_Subset, FS_CardinalityType DEF Transcript, LineCount

\* The n-th of a finite set of numbers, by its least counterexample.
Nth(D, n) == \E i \in D : Cardinality({j \in D : j < i}) = n - 1
LEMMA NthNext ==
    ASSUME NEW D, D \subseteq Nat, IsFiniteSet(D), NEW n \in Nat, n >= 1, n < Cardinality(D), Nth(D, n)
    PROVE  Nth(D, n + 1)
<1>1. PICK i \in D : Cardinality({j \in D : j < i}) = n - 1 BY DEF Nth
<1>2. \A j \in D : j \in Nat OBVIOUS
<1>3. PICK B : B = {j \in D : j < i} OBVIOUS
<1>4. IsFiniteSet(B) /\ Cardinality(B) = n - 1 BY <1>1, <1>3, FS_Subset
<1>5. IsFiniteSet(B \union {i}) /\ Cardinality(B \union {i}) = n
  <2>1. i \notin B BY <1>3
  <2>2. /\ IsFiniteSet(B \union {i})
        /\ Cardinality(B \union {i}) = IF i \in B THEN Cardinality(B) ELSE Cardinality(B) + 1
    BY <1>4, FS_AddElement, Zenon
  <2> QED BY <1>4, <2>1, <2>2
<1>6. PICK T : T = {j \in D : j > i} OBVIOUS
<1>7. T # {}
  <2> SUFFICES ASSUME T = {} PROVE FALSE OBVIOUS
  <2>1. D = B \union {i}
    <3> SUFFICES ASSUME NEW j \in D, j # i PROVE j \in B BY <1>3
    <3>1. ~(j > i) BY <1>6
    <3> QED BY <1>3, <1>2, <3>1
  <2> QED BY <1>5, <2>1
<1>8. PICK k \in T : \A j \in T : k <= j BY <1>6, <1>7, LeastNumber
<1>9. {j \in D : j < k} = B \union {i}
  <2>1. k \in D /\ k > i BY <1>6
  <2>2. ASSUME NEW j \in D PROVE j < k <=> j < i \/ j = i
    <3>1. j > i => k <= j BY <1>6, <1>8
    <3> QED BY <1>2, <2>1, <3>1
  <2> QED BY <1>3, <2>1, <2>2
<1>10. k \in D /\ Cardinality({j \in D : j < k}) = (n + 1) - 1 BY <1>5, <1>6, <1>8, <1>9
<1> QED BY <1>10 DEF Nth

LEMMA NthThere ==
    ASSUME NEW D, D \subseteq Nat, IsFiniteSet(D), NEW m \in 1 .. Cardinality(D)
    PROVE  Nth(D, m)
<1> SUFFICES ASSUME ~Nth(D, m) PROVE FALSE OBVIOUS
<1>1. Cardinality(D) \in Nat BY FS_CardinalityType
<1>2. PICK T : T = {n \in 1 .. Cardinality(D) : ~Nth(D, n)} OBVIOUS
<1>3. T # {} /\ T \subseteq Nat BY <1>1, <1>2
<1>4. PICK n \in T : \A k \in T : n <= k BY <1>3, LeastNumber
<1>5. n \in 1 .. Cardinality(D) /\ ~Nth(D, n) BY <1>2, <1>4
<1>6. CASE n = 1
  <2>1. D # {}
    <3> SUFFICES ASSUME D = {} PROVE FALSE OBVIOUS
    <3>1. Cardinality(D) = 0 BY FS_EmptySet, Zenon
    <3> QED BY <1>5, <3>1
  <2>2. PICK i \in D : \A j \in D : i <= j BY <2>1, LeastNumber
  <2>3. {j \in D : j < i} = {}
    <3> SUFFICES ASSUME NEW j \in D, j < i PROVE FALSE OBVIOUS
    <3>1. i <= j /\ i \in Nat /\ j \in Nat BY <2>2
    <3> QED BY <3>1
  <2>4. Cardinality({j \in D : j < i}) = 0 BY <2>3, FS_EmptySet, Zenon
  <2>5. Nth(D, 1) BY <2>4 DEF Nth
  <2> QED BY <1>5, <1>6, <2>5
<1>7. CASE n # 1
  <2>1. PICK k : k = n - 1 OBVIOUS
  <2>2. k \in Nat /\ k >= 1 /\ k < Cardinality(D) /\ k + 1 = n /\ k \in 1 .. Cardinality(D) /\ ~(n <= k)
    BY <1>1, <1>5, <1>7, <2>1
  <2>3. Nth(D, k) BY <1>2, <1>4, <2>2
  <2>4. Nth(D, k + 1) BY <2>2, <2>3, NthNext
  <2> QED BY <1>5, <2>2, <2>4
<1> QED BY <1>6, <1>7

\* load() gives every line.
LEMMA SortedFacts ==
    ASSUME NEW f, Transcript(f)
    PROVE  Sorted(f) \in Seq(Requests) /\ Len(Sorted(f)) = LineCount(f)
<1>1. PICK c : c = Cardinality(DOMAIN f) OBVIOUS
<1>2. IsFiniteSet(DOMAIN f) /\ c \in Nat /\ LineCount(f) = c BY <1>1, LineCounts DEF LineCount
<1>3. DOMAIN f \subseteq Nat BY DEF Transcript
<1>4. ASSUME NEW n \in 1 .. c
      PROVE  f[CHOOSE i \in DOMAIN f : Cardinality({j \in DOMAIN f : j < i}) = n - 1] \in Requests
  <2>1. \E i \in DOMAIN f : Cardinality({j \in DOMAIN f : j < i}) = n - 1
    BY <1>1, <1>2, <1>3, NthThere DEF Nth
  <2>2. (CHOOSE i \in DOMAIN f : Cardinality({j \in DOMAIN f : j < i}) = n - 1) \in DOMAIN f
    BY <2>1
  <2> QED BY <2>2 DEF Transcript
<1>5. Sorted(f) = [n \in 1 .. c |->
                    f[CHOOSE i \in DOMAIN f : Cardinality({j \in DOMAIN f : j < i}) = n - 1]]
  BY <1>1 DEF Sorted
<1>6. Sorted(f) \in [1 .. c -> Requests] BY <1>4, <1>5
<1>7. Sorted(f) \in Seq(Requests) BY <1>2, <1>6
<1> QED BY <1>2, <1>6, <1>7

\* Without a gap, the line numbered n - 1 is the n-th.
LEMMA SortedDense ==
    ASSUME NEW f, Transcript(f), Dense(f), NEW n \in 1 .. LineCount(f)
    PROVE  Sorted(f)[n] = f[n - 1]
<1>1. PICK c : c = LineCount(f) OBVIOUS
<1>2. c \in Nat /\ DOMAIN f = 0 .. (c - 1) /\ n \in 1 .. c BY <1>1, LineCounts DEF Dense, LineCount
<1>3. ASSUME NEW i \in DOMAIN f PROVE Cardinality({j \in DOMAIN f : j < i}) = i
  <2>1. {j \in DOMAIN f : j < i} = 0 .. (i - 1) /\ i \in Nat BY <1>2
  <2> QED BY <2>1, Interval0
<1>4. n - 1 \in DOMAIN f /\ \A i \in DOMAIN f : i \in Nat BY <1>2
<1>5. (CHOOSE i \in DOMAIN f : Cardinality({j \in DOMAIN f : j < i}) = n - 1) = n - 1
  <2>1. \E i \in DOMAIN f : Cardinality({j \in DOMAIN f : j < i}) = n - 1 BY <1>3, <1>4
  <2>2. PICK h : h = CHOOSE i \in DOMAIN f : Cardinality({j \in DOMAIN f : j < i}) = n - 1 OBVIOUS
  <2>3. h \in DOMAIN f /\ Cardinality({j \in DOMAIN f : j < h}) = n - 1 BY <2>1, <2>2
  <2> QED BY <1>3, <2>2, <2>3
<1>6. Sorted(f)[n] =
        f[CHOOSE i \in DOMAIN f : Cardinality({j \in DOMAIN f : j < i}) = n - 1]
  BY <1>1, <1>2 DEF Sorted, LineCount
<1> QED BY <1>5, <1>6

LEMMA Empty ==
    /\ Transcript(NoLines) /\ Dense(NoLines) /\ LineCount(NoLines) = 0
    /\ Sorted(NoLines) = <<>>
<1>1. DOMAIN NoLines = {} /\ NoLines \in [DOMAIN NoLines -> Requests] BY DEF NoLines
<1>2. Cardinality({}) = 0 BY FS_EmptySet
<1>3. Transcript(NoLines) /\ LineCount(NoLines) = 0 BY <1>1, <1>2 DEF Transcript, LineCount
<1>4. Dense(NoLines) BY <1>1, <1>2 DEF Dense
<1>5. Sorted(NoLines) \in Seq(Requests) /\ Len(Sorted(NoLines)) = 0 BY <1>3, SortedFacts
<1> QED BY <1>3, <1>4, <1>5

-----------------------------------------------------------------------------
(* Calls.                                                                  *)

LEMMA CallKinds ==
    ASSUME NEW q \in CallStates
    PROVE  /\ q.op = "save" => q \in SaveCalls
           /\ q.op = "insert" => q \in InsertCalls
           /\ q.op = "saved" => q \in SavedCalls
           /\ q.op \in {"context", "row", "lines"} => q \in RowCalls
           /\ q.op \in {"none", "assign", "remove"} => q \in OtherCalls
           /\ q.op = "list" => q \in ListCalls
           /\ q.op = "release" => q \in ReleaseCalls
BY DEF CallStates, RowCalls, SaveCalls, InsertCalls, SavedCalls, OtherCalls, PagingCalls, ListCalls,
       ReleaseCalls

PlainCalls == RowCalls \union [op : {"none"}] \union [op : {"assign"}, key : Keys, project : Projects]
LEMMA PlainFits ==
    ASSUME NEW q \in PlainCalls, NEW E, NEW R
    PROVE  CallFits(q, E, R) /\ ~IsPaging(q)
<1>1. q \in CallStates BY DEF PlainCalls, CallStates, OtherCalls
<1>2. q.op \in {"context", "row", "lines", "none", "assign"} BY DEF PlainCalls, RowCalls
<1> QED BY <1>1, <1>2 DEF CallFits, IsPaging

LEMMA NoCallFits == ASSUME NEW E, NEW R PROVE CallFits(NoCall, E, R) /\ ~IsPaging(NoCall)
<1>1. NoCall \in PlainCalls BY DEF NoCall, PlainCalls
<1> QED BY <1>1, PlainFits

LEMMA PagingFits ==
    ASSUME NEW q \in PagingCalls, NEW E, NEW R
    PROVE  CallFits(q, E, R) /\ IsPaging(q)
<1>1. q \in CallStates BY DEF CallStates
<1>2. q.op \in {"list", "release"} BY DEF PagingCalls, ListCalls, ReleaseCalls
<1> QED BY <1>1, <1>2 DEF CallFits, IsPaging

LEMMA CallNow ==
    ASSUME LinesInv, NEW p \in Requests
    PROVE  CallFits(request[p], entries, raced) /\ request[p] \in CallStates
BY DEF LinesInv, CallFits

LEMMA TranscriptNow ==
    ASSUME LinesInv, NEW k \in Keys
    PROVE  /\ TranscriptOK(row[k], entries[k], k \notin raced) /\ Transcript(entries[k])
           /\ LineCount(entries[k]) \in Nat
           /\ Sorted(entries[k]) \in Seq(Requests) /\ Len(Sorted(entries[k])) = LineCount(entries[k])
<1>1. TranscriptOK(row[k], entries[k], k \notin raced) BY DEF LinesInv
<1>2. Transcript(entries[k]) BY <1>1 DEF TranscriptOK
<1> QED BY <1>1, <1>2, LineCounts, SortedFacts

\* A call takes a step of its own that changes no row and no line.
Steps(p, q) == request' = [request EXCEPT ![p] = q]
LEMMA CallSteps ==
    ASSUME LinesInv, NEW p \in Requests, NEW q, CallFits(q, entries, raced), Steps(p, q),
           UNCHANGED <<row, entries, raced>>, project' \in [Projects -> {"unborn", "live", "gone"}],
           left' \in [Projects -> SUBSET Keys]
    PROVE  LinesInv'
<1>1. request' = [o \in Requests |-> IF o = p THEN q ELSE request[o]] BY DEF LinesInv, Steps
<1>2. \A o \in Requests : CallFits(request'[o], entries', raced') BY <1>1 DEF LinesInv
<1>3. request' = [o \in Requests |-> request'[o]] BY <1>1
<1> QED BY <1>2, <1>3 DEF LinesInv

\* A call that another save, or a deletion, of its session disturbed.
NoLongerAlone(q) == [q EXCEPT !.alone = FALSE]
LEMMA NoLongerAloneFits ==
    ASSUME NEW q, q.op \in {"lines", "save", "insert", "saved"}, NEW E, NEW R, CallFits(q, E, R),
           NEW F, NEW S,
           q.op = "insert" /\ q.key \notin S => q.already <= LineCount(F[q.key])
    PROVE  CallFits(NoLongerAlone(q), F, S) /\ ~IsPaging(NoLongerAlone(q))
<1>1. q \in CallStates BY DEF CallFits
<1>2. CASE q.op = "lines"
  <2>1. q \in [op : {"lines"}, key : Keys, new : BOOLEAN, turn : BOOLEAN, project : Asked, alone : BOOLEAN]
    BY <1>1, <1>2, CallKinds DEF RowCalls
  <2>2. NoLongerAlone(q) \in RowCalls BY <2>1 DEF NoLongerAlone, RowCalls
  <2> QED BY <2>2, PlainFits DEF PlainCalls
<1>3. CASE q.op = "save"
  <2>1. q \in SaveCalls /\ Len(q.lines) <= MaxLines BY <1>1, <1>3, CallKinds DEF CallFits
  <2>2. NoLongerAlone(q) \in SaveCalls /\ NoLongerAlone(q).lines = q.lines /\ NoLongerAlone(q).op = "save"
        /\ NoLongerAlone(q).alone = FALSE
    BY <2>1 DEF NoLongerAlone, SaveCalls
  <2>3. FALSE # TRUE OBVIOUS
  <2> QED BY <2>1, <2>2, <2>3 DEF CallFits, SaveOK, IsPaging, CallStates
<1>4. CASE q.op = "insert"
  <2>1. q \in InsertCalls /\ Len(q.lines) <= MaxLines BY <1>1, <1>4, CallKinds DEF CallFits
  <2>2. NoLongerAlone(q) \in InsertCalls /\ NoLongerAlone(q).lines = q.lines /\ NoLongerAlone(q).op = "insert"
        /\ NoLongerAlone(q).alone = FALSE /\ NoLongerAlone(q).already = q.already /\ NoLongerAlone(q).key = q.key
    BY <2>1 DEF NoLongerAlone, InsertCalls
  <2>3. FALSE # TRUE OBVIOUS
  <2> QED BY <1>4, <2>1, <2>2, <2>3 DEF CallFits, SaveOK, IsPaging, CallStates
<1>5. CASE q.op = "saved"
  <2>1. q \in SavedCalls /\ Len(q.lines) <= MaxLines BY <1>1, <1>5, CallKinds DEF CallFits
  <2>2. NoLongerAlone(q) \in SavedCalls /\ NoLongerAlone(q).lines = q.lines /\ NoLongerAlone(q).op = "saved"
        /\ NoLongerAlone(q).alone = FALSE
    BY <2>1 DEF NoLongerAlone, SavedCalls
  <2>3. FALSE # TRUE OBVIOUS
  <2> QED BY <2>1, <2>2, <2>3 DEF CallFits, SaveOK, IsPaging, CallStates
<1> QED BY <1>2, <1>3, <1>4, <1>5

-----------------------------------------------------------------------------
(* Turns: what does not touch the tables.                                  *)

LEMMA PlainStep ==
    ASSUME LinesInv, NEW p \in Requests, NEW q \in PlainCalls, Steps(p, q), UNCHANGED <<stored, raced, left>>
    PROVE  LinesInv' /\ ~IsPaging(q)
<1>1. CallFits(q, entries, raced) /\ ~IsPaging(q) BY PlainFits
<1> QED BY <1>1, CallSteps DEF LinesInv, stored

Quietly(p) == /\ UNCHANGED <<stored, raced, left>>
              /\ ~IsPaging(request[p])
              /\ \E q : Steps(p, q) /\ ~IsPaging(q)

LEMMA NoCallQuiet == ASSUME NEW p, request[p] = NoCall PROVE ~IsPaging(request[p])
BY DEF NoCall, IsPaging

LEMMA TurnKeeps ==
    ASSUME LinesInv, NEW p \in Requests, NEW k \in Keys, NEW j \in Projects \union {NoProject}, Turn(p, k, j)
    PROVE  LinesInv' /\ Quietly(p)
<1>1. PICK asked : asked = IF row[k] = NoRow THEN j ELSE NoProject OBVIOUS
<1>2. PICK q : q = [op |-> IF asked = NoProject THEN "row" ELSE "context", key |-> k,
                    new |-> row[k] = NoRow, turn |-> TRUE, project |-> asked]
  OBVIOUS
<1>3. request[p] = NoCall /\ Steps(p, q) /\ UNCHANGED <<stored, raced, left>>
  BY <1>1, <1>2 DEF Turn, Begin, Steps
<1>4. (row[k] = NoRow) \in BOOLEAN /\ TRUE \in BOOLEAN /\ asked \in Asked /\ (asked = NoProject \/ asked \in Projects)
  BY <1>1 DEF Asked
<1>5. q \in RowCalls
  <2>1. CASE asked = NoProject
    <3>1. q = [op |-> "row", key |-> k, new |-> row[k] = NoRow, turn |-> TRUE, project |-> asked]
      BY <1>2, <2>1
    <3> QED BY <1>4, <3>1 DEF RowCalls
  <2>2. CASE asked # NoProject
    <3>1. q = [op |-> "context", key |-> k, new |-> row[k] = NoRow, turn |-> TRUE, project |-> asked]
      BY <1>2, <2>2
    <3> QED BY <1>4, <2>2, <3>1 DEF RowCalls
  <2> QED BY <2>1, <2>2
<1>6. LinesInv' /\ ~IsPaging(q) BY <1>3, <1>5, PlainStep DEF PlainCalls
<1> QED BY <1>3, <1>6, NoCallQuiet DEF Quietly

LEMMA ContextKeeps == ASSUME LinesInv, NEW p \in Requests, Context(p) PROVE LinesInv' /\ Quietly(p)
<1>1. PICK q : q = request[p] OBVIOUS
<1>2. q.op = "context" /\ q \in CallStates BY <1>1, CallNow DEF Context
<1>3. q \in [op : {"context"}, key : Keys, new : BOOLEAN, turn : BOOLEAN, project : Projects]
  BY <1>2, CallKinds DEF RowCalls
<1>4. PICK j : j = IF project[q.project] = "live" THEN q.project ELSE NoProject OBVIOUS
<1>5. PICK r : r = [q EXCEPT !.op = "row", !.project = j] OBVIOUS
<1>6. j \in Asked BY <1>3, <1>4 DEF Asked
<1>7. r \in PlainCalls BY <1>3, <1>5, <1>6 DEF PlainCalls, RowCalls
<1>8. Steps(p, r) /\ UNCHANGED <<stored, raced, left>> BY <1>1, <1>4, <1>5 DEF Context, Go, Steps
<1>9. LinesInv' /\ ~IsPaging(r) BY <1>7, <1>8, PlainStep
<1> QED BY <1>1, <1>2, <1>8, <1>9 DEF Quietly, IsPaging

LEMMA CompactKeeps ==
    ASSUME LinesInv, NEW p \in Requests, NEW k \in Keys, Compact(p, k)
    PROVE  LinesInv' /\ Quietly(p)
<1>1. PICK r : r = [op |-> "row", key |-> k, new |-> FALSE, turn |-> FALSE, project |-> NoProject] OBVIOUS
<1>2. r \in PlainCalls BY <1>1 DEF PlainCalls, RowCalls, Asked
<1>3. request[p] = NoCall /\ Steps(p, r) /\ UNCHANGED <<stored, raced, left>> BY <1>1 DEF Compact, Begin, Steps
<1>4. LinesInv' /\ ~IsPaging(r) BY <1>2, <1>3, PlainStep
<1> QED BY <1>3, <1>4, NoCallQuiet DEF Quietly

LEMMA MoveToKeeps ==
    ASSUME LinesInv, NEW p \in Requests, NEW k \in Keys, NEW j \in Projects, MoveTo(p, k, j)
    PROVE  LinesInv' /\ Quietly(p)
<1>1. PICK r : r = [op |-> "assign", key |-> k, project |-> j] OBVIOUS
<1>2. r \in PlainCalls BY <1>1 DEF PlainCalls
<1>3. request[p] = NoCall /\ Steps(p, r) /\ UNCHANGED <<stored, raced, left>> BY <1>1 DEF MoveTo, Begin, Steps
<1>4. LinesInv' /\ ~IsPaging(r) BY <1>2, <1>3, PlainStep
<1> QED BY <1>3, <1>4, NoCallQuiet DEF Quietly

LEMMA ElsewhereNat == ASSUME LinesInv, NEW k PROVE Elsewhere(k) \in Nat
<1>1. PICK T : T = UNION {{o} \X DOMAIN entries[o] : o \in Keys \ {k}} OBVIOUS
<1>2. T \subseteq Keys \X (0 .. (MaxLines - 1))
  <2> SUFFICES ASSUME NEW o \in Keys, NEW i \in DOMAIN entries[o]
               PROVE  i \in 0 .. (MaxLines - 1)
    BY <1>1
  <2>1. Transcript(entries[o]) BY TranscriptNow
  <2> QED BY <2>1 DEF Transcript
<1>3. IsFiniteSet(Keys \X (0 .. (MaxLines - 1))) BY SessionsAssumption, Interval0, FS_Product
<1>4. IsFiniteSet(T) /\ Cardinality(T) \in Nat BY <1>2, <1>3, FS_Subset, FS_CardinalityType
<1> QED BY <1>1, <1>4 DEF Elsewhere

Longer(s, p, n, t) == t = s \o [i \in 1 .. n |-> p]
LEMMA Lengthened ==
    ASSUME NEW s \in Seq(Requests), NEW p \in Requests, NEW n \in 1 .. 2, NEW t, Longer(s, p, n, t)
    PROVE  /\ t \in Seq(Requests) /\ Len(t) = Len(s) + n /\ Len(s) \in Nat
           /\ \A u \in Seq(Requests) : Opens(u, s) => Opens(u, t)
<1>1. PICK x : x = [i \in 1 .. n |-> p] OBVIOUS
<1>2. n \in Nat /\ x \in [1 .. n -> Requests] BY <1>1
<1>3. x \in Seq(Requests) BY <1>2
<1>4. Len(x) = n BY <1>2, <1>3
<1>5. t \in Seq(Requests) /\ Len(t) = Len(s) + n /\ Len(s) \in Nat BY <1>1, <1>3, <1>4 DEF Longer
<1>6. \A i \in 1 .. Len(s) : t[i] = s[i] BY <1>1, <1>3 DEF Longer
<1>7. ASSUME NEW u \in Seq(Requests), Opens(u, s) PROVE Opens(u, t)
  <2>1. Len(u) \in Nat /\ Len(u) <= Len(s) /\ \A i \in 1 .. Len(u) : u[i] = s[i] BY <1>7 DEF Opens
  <2>2. \A i \in 1 .. Len(u) : i \in 1 .. Len(s) BY <1>5, <2>1
  <2> QED BY <1>2, <1>5, <1>6, <2>1, <2>2 DEF Opens
<1> QED BY <1>5, <1>7

\* The prompt: whatever was loaded, with the call's own lines after it.
PromptedWith(p, q, a, ls) ==
    /\ Prompted(p, q, a, ls) /\ UNCHANGED <<stored, raced, left>>
    /\ q.key \in Keys /\ q.new \in BOOLEAN /\ q.project \in Asked /\ a \in BOOLEAN /\ ls \in Seq(Requests)
    /\ q.key \notin raced /\ a = TRUE => Opens(Sorted(entries[q.key]), ls)
LEMMA PromptedKeeps ==
    ASSUME LinesInv, NEW p \in Requests, ~IsPaging(request[p]), NEW q, NEW a, NEW ls, PromptedWith(p, q, a, ls)
    PROVE  LinesInv' /\ Quietly(p)
<1>1. CASE request' = [request EXCEPT ![p] = NoCall]
  <2>1. Steps(p, NoCall) /\ UNCHANGED <<stored, raced, left>> BY <1>1 DEF Steps, PromptedWith
  <2>2. CallFits(NoCall, entries, raced) /\ ~IsPaging(NoCall) BY NoCallFits
  <2>3. LinesInv' BY <2>1, <2>2, CallSteps DEF LinesInv, stored
  <2> QED BY <2>1, <2>2, <2>3 DEF Quietly
<1>2. ASSUME NEW n \in 1 .. 2, Len(ls) + n + Elsewhere(q.key) <= MaxLines, NEW r,
             r = [op |-> "save", key |-> q.key, new |-> q.new, project |-> q.project, alone |-> a,
                  lines |-> ls \o [i \in 1 .. n |-> p]],
             request' = [request EXCEPT ![p] = r]
      PROVE  LinesInv' /\ Quietly(p)
  <2>1. PICK t : t = ls \o [i \in 1 .. n |-> p] OBVIOUS
  <2>2. /\ q.key \in Keys /\ q.new \in BOOLEAN /\ q.project \in Asked /\ a \in BOOLEAN /\ ls \in Seq(Requests)
        /\ q.key \notin raced /\ a = TRUE => Opens(Sorted(entries[q.key]), ls)
    BY Zenon DEF PromptedWith
  <2>3. /\ t \in Seq(Requests) /\ Len(t) = Len(ls) + n /\ Len(ls) \in Nat
        /\ \A u \in Seq(Requests) : Opens(u, ls) => Opens(u, t)
    <3>1. Longer(ls, p, n, t) BY <2>1 DEF Longer
    <3> QED BY <2>2, <3>1, Lengthened
  <2>4. Len(t) <= MaxLines BY <1>2, <2>3, ElsewhereNat, SessionsAssumption
  <2>5. /\ r \in SaveCalls /\ r.op = "save" /\ r.key = q.key /\ r.alone = a /\ r.lines = t
    BY <1>2, <2>1, <2>2, <2>3 DEF SaveCalls
  <2>6. q.key \notin raced /\ a = TRUE => Opens(Sorted(entries[q.key]), t) BY <2>2, <2>3, TranscriptNow
  <2>7. CallFits(r, entries, raced) /\ ~IsPaging(r)
    BY <2>4, <2>5, <2>6 DEF CallFits, SaveOK, IsPaging, CallStates
  <2>8. Steps(p, r) /\ UNCHANGED <<stored, raced, left>> BY <1>2 DEF Steps, PromptedWith
  <2>9. LinesInv' BY <2>7, <2>8, CallSteps DEF LinesInv, stored
  <2> QED BY <2>7, <2>8, <2>9 DEF Quietly
<1> QED BY <1>1, <1>2 DEF PromptedWith, Prompted, End, Go

LEMMA LoadRowKeeps == ASSUME LinesInv, NEW p \in Requests, LoadRow(p) PROVE LinesInv' /\ Quietly(p)
<1>1. PICK q : q = request[p] OBVIOUS
<1>2. q.op = "row" /\ q \in CallStates /\ UNCHANGED <<stored, raced, left>> BY <1>1, CallNow DEF LoadRow
<1>3. q \in [op : {"row"}, key : Keys, new : BOOLEAN, turn : BOOLEAN, project : Asked]
  BY <1>2, CallKinds DEF RowCalls
<1>4. ~IsPaging(request[p]) BY <1>1, <1>2 DEF IsPaging
<1>5. CASE row[q.key] = NoRow
  <2>1. Prompted(p, q, TRUE, <<>>) BY <1>1, <1>5 DEF LoadRow
  <2>2. q.key \notin raced => entries[q.key] = NoLines BY <1>3, <1>5, TranscriptNow DEF TranscriptOK
  <2>3. q.key \notin raced => Opens(Sorted(entries[q.key]), <<>>) BY <2>2, Empty DEF Opens
  <2>4. <<>> \in Seq(Requests) OBVIOUS
  <2>5. PromptedWith(p, q, TRUE, <<>>) BY <1>2, <1>3, <2>1, <2>3, <2>4 DEF PromptedWith
  <2> QED BY <1>4, <2>5, PromptedKeeps
<1>6. CASE row[q.key] # NoRow
  <2>1. PICK r : r = [op |-> "lines", key |-> q.key, new |-> q.new, turn |-> q.turn, project |-> q.project,
                      alone |-> TRUE]
    OBVIOUS
  <2>2. r \in PlainCalls BY <1>3, <2>1 DEF PlainCalls, RowCalls
  <2>3. Steps(p, r) BY <1>1, <1>6, <2>1 DEF LoadRow, Go, Steps
  <2> QED BY <1>2, <1>4, <2>2, <2>3, PlainStep DEF Quietly
<1> QED BY <1>5, <1>6

LEMMA LoadLinesKeeps == ASSUME LinesInv, NEW p \in Requests, LoadLines(p) PROVE LinesInv' /\ Quietly(p)
<1>1. PICK q : q = request[p] OBVIOUS
<1>2. PICK ls : ls = Sorted(entries[q.key]) OBVIOUS
<1>3. q.op = "lines" /\ q \in CallStates /\ UNCHANGED <<stored, raced, left>> /\ Prompted(p, q, q.alone, ls)
  BY <1>1, <1>2, CallNow DEF LoadLines
<1>4. q \in [op : {"lines"}, key : Keys, new : BOOLEAN, turn : BOOLEAN, project : Asked, alone : BOOLEAN]
  BY <1>3, CallKinds DEF RowCalls
<1>5. ~IsPaging(request[p]) BY <1>1, <1>3 DEF IsPaging
<1>6. ls \in Seq(Requests) /\ Len(ls) \in Nat BY <1>2, <1>4, TranscriptNow
<1>7. Opens(ls, ls) BY <1>6 DEF Opens
<1>8. PromptedWith(p, q, q.alone, ls) BY <1>2, <1>3, <1>4, <1>6, <1>7 DEF PromptedWith
<1> QED BY <1>5, <1>8, PromptedKeeps

LEMMA CountKeeps == ASSUME LinesInv, NEW p \in Requests, Count(p) PROVE LinesInv' /\ Quietly(p)
<1>1. PICK q : q = request[p] OBVIOUS
<1>2. PICK c : c = LineCount(entries[q.key]) OBVIOUS
<1>3. PICK r : r = [op |-> "insert", key |-> q.key, new |-> q.new, project |-> q.project, alone |-> q.alone,
                    lines |-> q.lines, already |-> c]
  OBVIOUS
<1>4. q.op = "save" /\ CallFits(q, entries, raced) /\ UNCHANGED <<stored, raced, left>> /\ Steps(p, r)
  BY <1>1, <1>2, <1>3, CallNow DEF Count, Go, Steps, Counted, Already, LineCount
<1>5. q \in SaveCalls /\ Len(q.lines) <= MaxLines BY <1>4, CallKinds DEF CallFits
<1>6. c \in Nat BY <1>2, <1>5, TranscriptNow DEF SaveCalls
<1>7. /\ r \in InsertCalls /\ r.op = "insert" /\ r.key = q.key /\ r.alone = q.alone /\ r.lines = q.lines
      /\ r.already = c
  BY <1>3, <1>5, <1>6 DEF SaveCalls, InsertCalls
<1>8. q.key \notin raced => SaveOK(q, entries[q.key]) BY <1>4 DEF CallFits
<1>9. r.key \notin raced => SaveOK(r, entries[r.key])
  <2> SUFFICES ASSUME r.key \notin raced PROVE SaveOK(r, entries[r.key]) OBVIOUS
  <2>1. r.already <= LineCount(entries[r.key]) /\ r.already = LineCount(entries[r.key]) BY <1>2, <1>6, <1>7
  <2>2. r.alone = TRUE => Opens(Sorted(entries[r.key]), r.lines) BY <1>4, <1>7, <1>8 DEF SaveOK
  <2> QED BY <1>7, <2>1, <2>2 DEF SaveOK
<1>10. CallFits(r, entries, raced) /\ ~IsPaging(r) BY <1>5, <1>7, <1>9 DEF CallFits, IsPaging, CallStates
<1>11. LinesInv' BY <1>4, <1>10, CallSteps DEF LinesInv, stored
<1> QED BY <1>1, <1>4, <1>10, <1>11 DEF Quietly, IsPaging

-----------------------------------------------------------------------------
(* What changes a session's place in the list.                             *)

PagedOn(r, k, behind) == [r EXCEPT !.rest = IF behind THEN r.rest \union {k} ELSE r.rest \ {k}]
LEMMA PagedOnFacts ==
    ASSUME NEW r \in PagingCalls, NEW k \in Keys, NEW behind \in BOOLEAN
    PROVE  LET s == PagedOn(r, k, behind) IN
           /\ s \in PagingCalls /\ s.op = r.op /\ s.project = r.project
           /\ s.op = "release" => s.page = r.page /\ s.more = r.more
           /\ \A x : x # k => (x \in s.rest <=> x \in r.rest)
<1>1. PICK u : u = IF behind THEN r.rest \union {k} ELSE r.rest \ {k} OBVIOUS
<1>2. PICK s : s = PagedOn(r, k, behind) OBVIOUS
<1>3. s = [r EXCEPT !.rest = u] BY <1>1, <1>2 DEF PagedOn
<1>4. r.rest \in SUBSET Keys BY DEF PagingCalls, ListCalls, ReleaseCalls
<1>5. u \in SUBSET Keys /\ \A x : x # k => (x \in u <=> x \in r.rest) BY <1>1, <1>4
<1>6. CASE r \in ListCalls
  <2>1. s \in ListCalls /\ s.op = "list" /\ s.project = r.project /\ s.rest = u /\ r.op = "list"
    BY <1>3, <1>5, <1>6 DEF ListCalls
  <2> QED BY <1>2, <1>5, <2>1 DEF PagingCalls
<1>7. CASE r \in ReleaseCalls
  <2>1. s \in ReleaseCalls /\ s.op = r.op /\ s.project = r.project /\ s.rest = u /\ s.page = r.page /\ s.more = r.more
    BY <1>3, <1>5, <1>7 DEF ReleaseCalls
  <2> QED BY <1>2, <1>5, <2>1 DEF PagingCalls
<1> QED BY <1>6, <1>7 DEF PagingCalls

LEMMA PagingIs ==
    ASSUME LinesInv, NEW p \in Requests
    PROVE  /\ p \in Paging <=> IsPaging(request[p])
           /\ IsPaging(request[p]) => request[p] \in PagingCalls
BY CallNow, CallKinds DEF Paging, IsPaging, PagingCalls

\* r2 is the deletion r, which x is behind or before as it was.
SameBut(r, r2, k) ==
    /\ r2 \in PagingCalls /\ r2.op = r.op /\ r2.project = r.project
    /\ r2.op = "release" => r2.page = r.page /\ r2.more = r.more
    /\ \A x : x # k => (x \in r2.rest <=> x \in r.rest)
LEMMA SameButFacts ==
    ASSUME NEW r, NEW r2, NEW k, SameBut(r, r2, k), NEW x, x # k, NEW j
    PROVE  (Before(r2, j, x) <=> Before(r, j, x)) /\ (LastPage(r2, j, x) <=> LastPage(r, j, x))
BY DEF SameBut, Before, LastPage, IsPaging

LEMMA BumpFacts ==
    ASSUME LinesInv, NEW k \in Keys, NEW f, Bump(k, f)
    PROVE  /\ request' = [p \in Requests |-> request'[p]]
           /\ \A p \in Requests : ~IsPaging(request[p]) => request'[p] = f[p]
           /\ \A p \in Requests : IsPaging(request[p]) => SameBut(request[p], request'[p], k)
           /\ left' \in [Projects -> SUBSET Keys]
           /\ \A j \in Projects : left[j] \subseteq left'[j]
           /\ \A j \in Projects : row[k] = j /\ (\E p \in Requests : IsPaging(request[p]) /\ request[p].project = j)
                                    => k \in left'[j]
<1>1. PICK b \in BOOLEAN : request' = Moved(k, f, b) BY DEF Bump
<1>2. request' = [p \in Requests |-> IF p \in Paging THEN PagedOn(request[p], k, b) ELSE f[p]]
  BY <1>1 DEF Moved, PagedOn
<1>3. request' = [p \in Requests |-> request'[p]] BY <1>2
<1>4. ASSUME NEW p \in Requests, ~IsPaging(request[p]) PROVE request'[p] = f[p] BY <1>2, <1>4, PagingIs
<1>5. ASSUME NEW p \in Requests, IsPaging(request[p]) PROVE SameBut(request[p], request'[p], k)
  <2>1. request'[p] = PagedOn(request[p], k, b) /\ request[p] \in PagingCalls BY <1>2, <1>5, PagingIs
  <2> QED BY <2>1, PagedOnFacts DEF SameBut
<1>6. left \in [Projects -> SUBSET Keys] BY DEF LinesInv
<1>7. left' = [j \in Projects |-> IF k \in In(j) /\ \E p \in Paging : request[p].project = j
                                  THEN left[j] \union {k} ELSE left[j]]
  BY DEF Bump
<1>8. left' \in [Projects -> SUBSET Keys] /\ \A j \in Projects : left[j] \subseteq left'[j] BY <1>6, <1>7
<1>9. ASSUME NEW j \in Projects, row[k] = j, NEW p \in Requests, IsPaging(request[p]), request[p].project = j
      PROVE  k \in left'[j]
  <2>1. p \in Paging /\ k \in In(j) BY <1>9, PagingIs DEF In
  <2> QED BY <1>7, <1>9, <2>1
<1> QED BY <1>3, <1>4, <1>5, <1>8, <1>9

\* A place changes, and calls that are not paging take the steps of f.
LEMMA BumpKeepsLines ==
    ASSUME LinesInv, NEW k \in Keys, NEW f, Bump(k, f), project' = project, raced' \subseteq Keys,
           row' = [x \in Keys |-> row'[x]], entries' = [x \in Keys |-> entries'[x]],
           \A x \in Keys : TranscriptOK(row'[x], entries'[x], x \notin raced'),
           \A p \in Requests : ~IsPaging(request[p]) => CallFits(f[p], entries', raced')
    PROVE  LinesInv'
<1>1. ASSUME NEW p \in Requests PROVE CallFits(request'[p], entries', raced')
  <2>1. CASE ~IsPaging(request[p])
    <3>1. request'[p] = f[p] BY <2>1, BumpFacts
    <3> QED BY <2>1, <3>1
  <2>2. CASE IsPaging(request[p])
    <3>1. request'[p] \in PagingCalls BY <2>2, BumpFacts DEF SameBut
    <3> QED BY <3>1, PagingFits
  <2> QED BY <2>1, <2>2
<1>2. request' = [p \in Requests |-> request'[p]] /\ left' \in [Projects -> SUBSET Keys] BY BumpFacts
<1> QED BY <1>1, <1>2 DEF LinesInv

LEMMA BumpKeepsRelease ==
    ASSUME LinesInv, ReleaseInv, NEW k \in Keys, NEW f, Bump(k, f), project' = project,
           \A x \in Keys, j \in Projects : row'[x] = j => row[x] = j,
           \A p \in Requests : ~IsPaging(request[p]) => ~IsPaging(f[p])
    PROVE  ReleaseInv'
<1>1. \A p \in Requests : IsPaging(request'[p]) => IsPaging(request[p])
  BY BumpFacts
<1>2. ASSUME NEW p \in Requests, IsPaging(request'[p]) PROVE project'[request'[p].project] = "gone"
  <2>1. IsPaging(request[p]) /\ request'[p].project = request[p].project
    BY <1>1, <1>2, BumpFacts DEF SameBut
  <2> QED BY <2>1 DEF ReleaseInv
<1>3. ASSUME NEW j \in Projects, NEW x \in Keys, project'[j] = "gone", row'[x] = j, x \notin left'[j]
      PROVE  /\ \E p \in Requests : Before(request'[p], j, x)
             /\ \A p \in Requests : ~LastPage(request'[p], j, x)
  <2>1. project[j] = "gone" /\ row[x] = j /\ x \notin left[j] BY <1>3, BumpFacts
  <2>2. PICK p \in Requests : Before(request[p], j, x) BY <2>1 DEF ReleaseInv
  <2>3. IsPaging(request[p]) /\ request[p].project = j BY <2>2 DEF Before
  <2>4. x # k BY <1>3, <2>1, <2>3, BumpFacts
  <2>5. \A o \in Requests : IsPaging(request[o]) => SameBut(request[o], request'[o], k) BY BumpFacts
  <2>6. Before(request'[p], j, x) BY <2>2, <2>3, <2>4, <2>5, SameButFacts
  <2>7. ASSUME NEW o \in Requests, LastPage(request'[o], j, x) PROVE FALSE
    <3>1. IsPaging(request'[o]) BY <2>7 DEF LastPage, IsPaging
    <3>2. SameBut(request[o], request'[o], k) BY <1>1, <2>5, <3>1
    <3>3. LastPage(request[o], j, x) BY <2>4, <2>7, <3>2, SameButFacts
    <3> QED BY <2>1, <3>3 DEF ReleaseInv
  <2> QED BY <2>6, <2>7
<1> QED BY <1>2, <1>3 DEF ReleaseInv

LEMMA TouchKeeps ==
    ASSUME LinesInv, ReleaseInv, NEW k \in Keys, Touch(k) PROVE LinesInv' /\ ReleaseInv'
<1>1. Bump(k, request) /\ UNCHANGED <<row, entries, project, raced>> BY DEF Touch, stored
<1>2. \A x \in Keys : TranscriptOK(row'[x], entries'[x], x \notin raced') BY <1>1 DEF LinesInv
<1>3. \A p \in Requests : CallFits(request[p], entries', raced') BY <1>1, CallNow
<1>4. raced' \subseteq Keys /\ row' = [x \in Keys |-> row'[x]] /\ entries' = [x \in Keys |-> entries'[x]]
  BY <1>1 DEF LinesInv
<1>5. LinesInv' BY <1>1, <1>2, <1>3, <1>4, BumpKeepsLines
<1>6. ReleaseInv' BY <1>1, BumpKeepsRelease
<1> QED BY <1>5, <1>6

-----------------------------------------------------------------------------
(* save() and remove().                                                    *)

Inserts(f, a, ls, g) ==
    /\ (a .. (Len(ls) - 1)) \intersect DOMAIN f = {}
    /\ g = [i \in DOMAIN f \union (a .. (Len(ls) - 1)) |->
              IF i \in a .. (Len(ls) - 1) THEN ls[i + 1] ELSE f[i]]
LEMMA Insertion ==
    ASSUME NEW f, Transcript(f), NEW ls \in Seq(Requests), Len(ls) <= MaxLines, NEW a \in Nat, NEW g,
           Inserts(f, a, ls, g)
    PROVE  /\ Transcript(g) /\ LineCount(f) <= LineCount(g) /\ LineCount(f) \in Nat /\ LineCount(g) \in Nat
           /\ Dense(f) /\ a <= LineCount(f) => Dense(g)
           /\ Dense(f) /\ a = LineCount(f) /\ Opens(Sorted(f), ls) => Sorted(g) = ls
<1>1. PICK n : n = Len(ls) OBVIOUS
<1>2. PICK F : F = a .. (n - 1) OBVIOUS
<1>3. PICK c : c = LineCount(f) OBVIOUS
<1>4. n \in Nat /\ n <= MaxLines /\ MaxLines \in Nat BY <1>1, SessionsAssumption
<1>5. /\ F \intersect DOMAIN f = {} /\ g = [i \in DOMAIN f \union F |-> IF i \in F THEN ls[i + 1] ELSE f[i]]
  BY <1>1, <1>2 DEF Inserts
<1>6. DOMAIN f \subseteq 0 .. (MaxLines - 1) /\ \A i \in DOMAIN f : f[i] \in Requests BY DEF Transcript
<1>7. DOMAIN g = DOMAIN f \union F /\ F \subseteq 0 .. (MaxLines - 1) /\ \A i \in F : i + 1 \in 1 .. n
  BY <1>2, <1>4, <1>5
<1>8. \A i \in F : ls[i + 1] \in Requests BY <1>1, <1>7
<1>9. Transcript(g)
  <2>1. \A i \in DOMAIN g : g[i] \in Requests BY <1>5, <1>6, <1>7, <1>8
  <2>2. g = [i \in DOMAIN g |-> g[i]] BY <1>5
  <2> QED BY <1>6, <1>7, <2>1, <2>2 DEF Transcript
<1>10. c \in Nat /\ LineCount(g) \in Nat /\ IsFiniteSet(DOMAIN g) BY <1>3, <1>9, LineCounts
<1>11. c <= LineCount(g) BY <1>3, <1>7, <1>10, FS_Subset DEF LineCount
<1>12. ASSUME Dense(f), a <= c
       PROVE  Dense(g) /\ (n > c => a = c /\ DOMAIN g = 0 .. (n - 1)) /\ (n <= c => DOMAIN g = DOMAIN f)
  <2>1. DOMAIN f = 0 .. (c - 1) BY <1>3, <1>12 DEF Dense, LineCount
  <2>2. CASE F = {}
    <3>1. DOMAIN g = DOMAIN f BY <1>7, <2>2
    <3>2. n <= c
      <4>1. ~(a <= n - 1)
        <5> SUFFICES ASSUME a <= n - 1 PROVE FALSE OBVIOUS
        <5>1. a \in F BY <1>2, <1>4
        <5> QED BY <2>2, <5>1
      <4> QED BY <1>4, <1>10, <1>12, <4>1
    <3> QED BY <1>3, <1>4, <1>10, <1>12, <3>1, <3>2 DEF Dense
  <2>3. CASE F # {}
    <3>1. a \in F /\ a <= n - 1 BY <1>2, <1>4, <2>3
    <3>2. a \notin DOMAIN f BY <1>5, <3>1
    <3>3. a = c BY <1>10, <1>12, <2>1, <3>2
    <3>4. DOMAIN g = 0 .. (n - 1) BY <1>2, <1>4, <1>7, <1>10, <2>1, <3>1, <3>3
    <3>5. Cardinality(DOMAIN g) = n BY <1>4, <3>4, Interval0
    <3>6. n > c BY <1>4, <1>10, <3>1, <3>3
    <3> QED BY <1>4, <1>10, <3>3, <3>4, <3>5, <3>6 DEF Dense
  <2> QED BY <2>2, <2>3
<1>13. ASSUME Dense(f), a = c, Opens(Sorted(f), ls) PROVE Sorted(g) = ls
  <2>1. Dense(g) /\ (n > c => DOMAIN g = 0 .. (n - 1)) /\ (n <= c => DOMAIN g = DOMAIN f)
    BY <1>10, <1>12, <1>13
  <2>2. Len(Sorted(f)) = c /\ c <= n /\ \A i \in 1 .. c : Sorted(f)[i] = ls[i]
    BY <1>1, <1>3, <1>13, SortedFacts DEF Opens
  <2>3. LineCount(g) = n
    <3>1. CASE n > c
      <4>1. DOMAIN g = 0 .. (n - 1) BY <2>1, <3>1
      <4> QED BY <1>4, <4>1, Interval0 DEF LineCount
    <3>2. CASE n <= c
      <4>1. DOMAIN g = DOMAIN f /\ n = c BY <1>4, <1>10, <2>1, <2>2, <3>2
      <4> QED BY <1>3, <4>1 DEF LineCount
    <3> QED BY <1>4, <1>10, <3>1, <3>2
  <2>4. ASSUME NEW i \in 1 .. n PROVE Sorted(g)[i] = ls[i]
    <3>1. Sorted(g)[i] = g[i - 1] BY <1>9, <2>1, <2>3, SortedDense
    <3>2. CASE i <= c
      <4>1. i \in 1 .. c /\ i - 1 \in DOMAIN f
        <5>1. DOMAIN f = 0 .. (c - 1) BY <1>3, <1>13 DEF Dense, LineCount
        <5> QED BY <1>4, <1>10, <3>2, <5>1
      <4>2. i - 1 \notin F BY <1>5, <4>1
      <4>3. g[i - 1] = f[i - 1] BY <1>5, <4>1, <4>2
      <4>4. Sorted(f)[i] = f[i - 1] BY <1>3, <1>13, <4>1, SortedDense
      <4> QED BY <2>2, <3>1, <4>1, <4>3, <4>4
    <3>3. CASE i > c
      <4>1. i - 1 \in F /\ (i - 1) + 1 = i BY <1>2, <1>4, <1>10, <1>13, <3>3
      <4> QED BY <1>5, <3>1, <4>1
    <3> QED BY <1>4, <1>10, <3>2, <3>3
  <2>5. Sorted(g) \in Seq(Requests) /\ Len(Sorted(g)) = n BY <1>9, <2>3, SortedFacts
  <2> QED BY <1>1, <2>4, <2>5
<1> QED BY <1>3, <1>9, <1>10, <1>11, <1>12, <1>13

\* What a save or a deletion of session k makes of another call.
Alongside(k, q) == IF q.op \in {"lines", "save", "insert", "saved"} /\ q.key = k THEN NoLongerAlone(q) ELSE q
LEMMA OthersFit ==
    ASSUME LinesInv, NEW k \in Keys, NEW o \in Requests, NEW E, NEW R,
           \A x \in Keys : x # k => E[x] = entries[x] /\ (x \in R <=> x \in raced),
           NEW q, q = request[o],
           q.op = "insert" /\ q.key = k /\ k \notin R => q.already <= LineCount(E[k]),
           q.op = "remove" /\ q.key = k /\ k \notin R => E[k] = NoLines
    PROVE  CallFits(Alongside(k, q), E, R) /\ (IsPaging(Alongside(k, q)) => IsPaging(q))
<1>1. CallFits(q, entries, raced) /\ q \in CallStates BY CallNow
<1>2. CASE q.op \in {"lines", "save", "insert", "saved"} /\ q.key = k
  <2>1. q.op = "insert" /\ q.key \notin R => q.already <= LineCount(E[q.key]) BY <1>2
  <2>2. Alongside(k, q) = NoLongerAlone(q) BY <1>2 DEF Alongside
  <2> QED BY <1>1, <1>2, <2>1, <2>2, NoLongerAloneFits
<1>3. CASE q.op \in {"save", "insert", "saved", "remove"} /\ q.key # k
  <2>1. Alongside(k, q) = q BY <1>3 DEF Alongside
  <2>2. q.key \in Keys BY <1>1, <1>3, CallKinds DEF SaveCalls, InsertCalls, SavedCalls, OtherCalls
  <2>3. E[q.key] = entries[q.key] /\ (q.key \in R <=> q.key \in raced) BY <1>3, <2>2
  <2> QED BY <1>1, <2>1, <2>3 DEF CallFits
<1>4. CASE q.op = "remove" /\ q.key = k
  <2>1. Alongside(k, q) = q BY <1>4 DEF Alongside
  <2>2. k \notin R => SaveOK(q, E[k]) BY <1>4 DEF SaveOK
  <2> QED BY <1>1, <1>4, <2>1, <2>2 DEF CallFits
<1>5. CASE q.op \notin {"save", "insert", "saved", "remove"} /\ ~(q.op = "lines" /\ q.key = k)
  <2>1. Alongside(k, q) = q BY <1>5 DEF Alongside
  <2> QED BY <1>1, <1>5, <2>1 DEF CallFits
<1> QED BY <1>2, <1>3, <1>4, <1>5

LEMMA NotAloneIs ==
    ASSUME NEW k, NEW p, NEW q, NEW o \in Requests
    PROVE  NotAlone(k, p, q)[o] = IF o = p THEN q ELSE Alongside(k, request[o])
BY DEF NotAlone, Calls, Alongside, NoLongerAlone

\* The two names are neither projects nor each other.
LEMMA Places == NoRow # NoProject /\ NoRow \notin Projects /\ NoProject \notin Projects
BY SessionsAssumption DEF NoRow, NoProject

\* A call ends without a change of its own.
LEMMA EndKeeps ==
    ASSUME LinesInv, NEW p \in Requests, End(p), UNCHANGED <<row, entries, raced>>,
           project' \in [Projects -> {"unborn", "live", "gone"}], left' \in [Projects -> SUBSET Keys]
    PROVE  LinesInv' /\ Steps(p, NoCall) /\ ~IsPaging(NoCall)
<1>1. Steps(p, NoCall) BY DEF End, Steps
<1>2. CallFits(NoCall, entries, raced) /\ ~IsPaging(NoCall) BY NoCallFits
<1> QED BY <1>1, <1>2, CallSteps

LEMMA SavedFits ==
    ASSUME NEW q \in InsertCalls, Len(q.lines) <= MaxLines, NEW E, NEW R, NEW r,
           r = [op |-> "saved", key |-> q.key, new |-> q.new, project |-> q.project,
                alone |-> q.alone, lines |-> IF q.alone THEN q.lines ELSE <<>>],
           q.key \notin R /\ q.alone = TRUE => Sorted(E[q.key]) = q.lines
    PROVE  CallFits(r, E, R) /\ ~IsPaging(r)
<1>1. PICK ls : ls = IF q.alone THEN q.lines ELSE <<>> OBVIOUS
<1>2. q.lines \in Seq(Requests) /\ q.alone \in BOOLEAN BY DEF InsertCalls
<1>3. ls \in Seq(Requests) /\ Len(ls) <= MaxLines
  <2>1. CASE q.alone = TRUE
    <3>1. ls = q.lines BY <1>1, <2>1
    <3> QED BY <1>2, <3>1
  <2>2. CASE q.alone = FALSE
    <3>1. ls = <<>> BY <1>1, <2>2
    <3> QED BY <3>1, SessionsAssumption
  <2> QED BY <1>2, <2>1, <2>2
<1>4. r = [op |-> "saved", key |-> q.key, new |-> q.new, project |-> q.project, alone |-> q.alone, lines |-> ls]
  BY <1>1
<1>5. r \in SavedCalls /\ r.op = "saved" /\ r.key = q.key /\ r.alone = q.alone /\ r.lines = ls
  BY <1>2, <1>3, <1>4 DEF InsertCalls, SavedCalls
<1>6. q.alone = TRUE => ls = q.lines BY <1>1
<1>7. r.key \notin R => SaveOK(r, E[r.key]) BY <1>5, <1>6 DEF SaveOK
<1> QED BY <1>3, <1>5, <1>7 DEF CallFits, CallStates, IsPaging

LEMMA CommitKeeps ==
    ASSUME LinesInv, ReleaseInv, NEW p \in Requests, Commit(p)
    PROVE  LinesInv' /\ (Quietly(p) \/ ReleaseInv')
<1>1. PICK q : q = request[p] OBVIOUS
<1>2. q.op = "insert" /\ CallFits(q, entries, raced) BY <1>1, CallNow DEF Commit
<1>3. q \in InsertCalls /\ Len(q.lines) <= MaxLines BY <1>2, CallKinds DEF CallFits
<1>4. PICK k : k = q.key OBVIOUS
<1>5. k \in Keys /\ q.lines \in Seq(Requests) /\ q.already \in Nat BY <1>3, <1>4 DEF InsertCalls
<1>6. CASE Fresh(q) \intersect DOMAIN entries[k] # {}
  <2>1. End(p) /\ UNCHANGED <<stored, raced, left>> BY <1>1, <1>4, <1>6 DEF Commit
  <2>2. LinesInv' /\ Steps(p, NoCall) /\ ~IsPaging(NoCall) BY <2>1, EndKeeps DEF LinesInv, stored
  <2> QED BY <1>1, <1>2, <2>1, <2>2 DEF Quietly, IsPaging
<1>7. CASE Fresh(q) \intersect DOMAIN entries[k] = {}
  <2>1. PICK g : g = Inserted(q) OBVIOUS
  <2>2. PICK r : r = [op |-> "saved", key |-> q.key, new |-> q.new, project |-> q.project,
                      alone |-> q.alone, lines |-> IF q.alone THEN q.lines ELSE <<>>]
    OBVIOUS
  <2>3. PICK f : f = NotAlone(k, p, r) OBVIOUS
  <2>4. /\ entries' = [entries EXCEPT ![k] = g]
        /\ row' = [row EXCEPT ![k] = IF row[k] = NoRow THEN NoProject ELSE row[k]]
        /\ Bump(k, f)
        /\ raced' = IF Calls(k, {"remove"}) = {} THEN raced ELSE raced \union {k}
        /\ UNCHANGED project
    BY <1>1, <1>4, <1>7, <2>1, <2>2, <2>3 DEF Commit
  <2>5. Inserts(entries[k], q.already, q.lines, g)
    BY <1>4, <1>7, <2>1 DEF Inserts, Inserted, Fresh
  <2>6. Transcript(entries[k]) /\ TranscriptOK(row[k], entries[k], k \notin raced) BY <1>5, TranscriptNow
  <2>7. /\ Transcript(g) /\ LineCount(entries[k]) <= LineCount(g)
        /\ LineCount(entries[k]) \in Nat /\ LineCount(g) \in Nat
        /\ Dense(entries[k]) /\ q.already <= LineCount(entries[k]) => Dense(g)
        /\ Dense(entries[k]) /\ q.already = LineCount(entries[k]) /\ Opens(Sorted(entries[k]), q.lines)
             => Sorted(g) = q.lines
    BY <1>3, <1>5, <2>5, <2>6, Insertion
  <2>8. /\ row' = [x \in Keys |-> row'[x]] /\ entries' = [x \in Keys |-> entries'[x]]
        /\ entries'[k] = g /\ row'[k] = IF row[k] = NoRow THEN NoProject ELSE row[k]
        /\ \A x \in Keys : x # k => entries'[x] = entries[x] /\ row'[x] = row[x]
    BY <1>5, <2>4 DEF LinesInv
  <2>9. /\ raced' \subseteq Keys /\ \A x \in Keys : x # k => (x \in raced' <=> x \in raced)
        /\ k \notin raced' => k \notin raced /\ Calls(k, {"remove"}) = {}
    BY <1>5, <2>4 DEF LinesInv
  <2>10. k \notin raced' => Dense(entries[k]) /\ SaveOK(q, entries[k])
    BY <1>2, <1>4, <2>6, <2>9 DEF TranscriptOK, CallFits
  <2>11. \A x \in Keys : TranscriptOK(row'[x], entries'[x], x \notin raced')
    <3> TAKE x \in Keys
    <3>1. CASE x = k
      <4>1. row'[k] \in Projects \union {NoProject, NoRow} /\ row'[k] # NoRow
        BY <2>6, <2>8, Places DEF TranscriptOK
      <4>2. k \notin raced' => Dense(g) BY <1>2, <2>7, <2>10 DEF SaveOK
      <4> QED BY <2>7, <2>8, <3>1, <4>1, <4>2 DEF TranscriptOK
    <3>2. CASE x # k
      <4>1. TranscriptOK(row[x], entries[x], x \notin raced) BY TranscriptNow
      <4> QED BY <2>8, <2>9, <3>2, <4>1 DEF TranscriptOK
    <3> QED BY <3>1, <3>2
  <2>12. CallFits(r, entries', raced') /\ ~IsPaging(r)
    <3>1. k \notin raced' /\ q.alone = TRUE => Sorted(g) = q.lines BY <1>2, <2>7, <2>10 DEF SaveOK
    <3> QED BY <1>3, <1>4, <2>2, <2>8, <3>1, SavedFits
  <2>13. ASSUME NEW o \in Requests, ~IsPaging(request[o])
         PROVE  CallFits(f[o], entries', raced') /\ ~IsPaging(f[o])
    <3>1. CASE o = p
      <4>1. f[o] = r BY <2>3, <3>1, NotAloneIs
      <4> QED BY <2>12, <4>1
    <3>2. CASE o # p
      <4>1. PICK s : s = request[o] OBVIOUS
      <4>2. f[o] = Alongside(k, s) BY <2>3, <3>2, <4>1, NotAloneIs
      <4>3. s.op = "insert" /\ s.key = k /\ k \notin raced' => s.already <= LineCount(entries'[k])
        <5> SUFFICES ASSUME s.op = "insert", s.key = k, k \notin raced'
                     PROVE  s.already <= LineCount(entries'[k])
          OBVIOUS
        <5>1. CallFits(s, entries, raced) /\ s \in CallStates BY <4>1, CallNow
        <5>2. s.already <= LineCount(entries[k]) BY <2>9, <5>1 DEF CallFits, SaveOK
        <5>3. s.already \in Nat BY <5>1, CallKinds DEF InsertCalls
        <5> QED BY <2>7, <2>8, <5>2, <5>3
      <4>4. s.op = "remove" /\ s.key = k /\ k \notin raced' => entries'[k] = NoLines
        <5>1. s.op = "remove" /\ s.key = k => o \in Calls(k, {"remove"}) BY <4>1 DEF Calls
        <5> QED BY <2>9, <5>1
      <4>5. CallFits(Alongside(k, s), entries', raced') /\ (IsPaging(Alongside(k, s)) => IsPaging(s))
        BY <1>5, <2>8, <2>9, <4>1, <4>3, <4>4, OthersFit
      <4> QED BY <2>13, <4>1, <4>2, <4>5
    <3> QED BY <3>1, <3>2
  <2>14. LinesInv' BY <1>5, <2>4, <2>8, <2>9, <2>11, <2>13, BumpKeepsLines
  <2>15. \A x \in Keys, j \in Projects : row'[x] = j => row[x] = j BY <2>8, Places
  <2>16. ReleaseInv' BY <1>5, <2>4, <2>13, <2>15, BumpKeepsRelease
  <2> QED BY <2>14, <2>16
<1> QED BY <1>6, <1>7

-----------------------------------------------------------------------------
(* Deletions of projects.                                                  *)

\* No deletion of a project takes a step.
PagingSame == \A o \in Requests : IsPaging(request[o]) \/ IsPaging(request'[o]) => request'[o] = request[o]
LEMMA ReleaseSame ==
    ASSUME ReleaseInv, PagingSame, project' = project,
           \A j \in Projects, k \in Keys :
             project[j] = "gone" /\ row'[k] = j /\ k \notin left'[j] => row[k] = j /\ k \notin left[j]
    PROVE  ReleaseInv'
<1>1. ASSUME NEW p \in Requests, IsPaging(request'[p]) PROVE project'[request'[p].project] = "gone"
  <2>1. request'[p] = request[p] BY <1>1 DEF PagingSame
  <2> QED BY <1>1, <2>1 DEF ReleaseInv
<1>2. ASSUME NEW j \in Projects, NEW k \in Keys, project'[j] = "gone", row'[k] = j, k \notin left'[j]
      PROVE  /\ \E p \in Requests : Before(request'[p], j, k)
             /\ \A p \in Requests : ~LastPage(request'[p], j, k)
  <2>1. project[j] = "gone" /\ row[k] = j /\ k \notin left[j] BY <1>2
  <2>2. PICK p \in Requests : Before(request[p], j, k) BY <2>1 DEF ReleaseInv
  <2>3. request'[p] = request[p] BY <2>2 DEF PagingSame, Before
  <2>4. ASSUME NEW o \in Requests, LastPage(request'[o], j, k) PROVE FALSE
    <3>1. IsPaging(request'[o]) BY <2>4 DEF LastPage, IsPaging
    <3>2. request'[o] = request[o] BY <3>1 DEF PagingSame
    <3> QED BY <2>1, <2>4, <3>2 DEF ReleaseInv
  <2> QED BY <2>2, <2>3, <2>4
<1> QED BY <1>1, <1>2 DEF ReleaseInv

LEMMA StepsSame ==
    ASSUME LinesInv, NEW p \in Requests, NEW q, Steps(p, q), ~IsPaging(request[p]), ~IsPaging(q)
    PROVE  PagingSame
<1>1. request' = [o \in Requests |-> IF o = p THEN q ELSE request[o]] BY DEF LinesInv, Steps
<1> QED BY <1>1 DEF PagingSame

LEMMA QuietKeeps == ASSUME LinesInv, ReleaseInv, NEW p \in Requests, Quietly(p) PROVE ReleaseInv'
<1>1. PICK q : Steps(p, q) /\ ~IsPaging(q) BY DEF Quietly
<1>2. PagingSame BY <1>1, StepsSame DEF Quietly
<1> QED BY <1>2, ReleaseSame DEF Quietly, stored

LEMMA TitleKeeps == ASSUME LinesInv, ReleaseInv, NEW p \in Requests, Title(p) PROVE LinesInv' /\ ReleaseInv'
<1>1. PICK q : q = request[p] OBVIOUS
<1>2. q.op = "saved" /\ q \in CallStates /\ ~IsPaging(q) BY <1>1, CallNow DEF Title, IsPaging
<1>3. q \in SavedCalls BY <1>2, CallKinds
<1>4. PICK r : r = IF q.project = NoProject THEN NoCall
                   ELSE [op |-> "assign", key |-> q.key, project |-> q.project]
  OBVIOUS
<1>5. r \in PlainCalls
  <2>1. CASE q.project = NoProject BY <1>4, <2>1 DEF PlainCalls, NoCall
  <2>2. CASE q.project # NoProject
    <3>1. q.project \in Projects /\ q.key \in Keys BY <1>3, <2>2 DEF SavedCalls, Asked
    <3> QED BY <1>4, <2>2, <3>1 DEF PlainCalls
  <2> QED BY <2>1, <2>2
<1>6. UNCHANGED <<stored, raced>> BY DEF Title
<1>7. CASE Steps(p, r) /\ UNCHANGED left
  <2>1. LinesInv' /\ ~IsPaging(r) BY <1>5, <1>6, <1>7, PlainStep
  <2>2. Quietly(p) BY <1>1, <1>2, <1>6, <1>7, <2>1 DEF Quietly
  <2> QED BY <2>1, <2>2, QuietKeeps
<1>8. CASE Bump(q.key, [request EXCEPT ![p] = r])
  <2>1. PICK f : f = [request EXCEPT ![p] = r] OBVIOUS
  <2>2. f = [o \in Requests |-> IF o = p THEN r ELSE request[o]] BY <2>1 DEF LinesInv
  <2>3. UNCHANGED <<row, entries, project, raced>> BY <1>6 DEF stored
  <2>4. ASSUME NEW o \in Requests, ~IsPaging(request[o])
        PROVE  CallFits(f[o], entries', raced') /\ ~IsPaging(f[o])
    <3>1. CallFits(r, entries, raced) /\ ~IsPaging(r) BY <1>5, PlainFits
    <3>2. CallFits(request[o], entries, raced) BY CallNow
    <3> QED BY <2>2, <2>3, <2>4, <3>1, <3>2
  <2>5. \A x \in Keys : TranscriptOK(row'[x], entries'[x], x \notin raced') BY <2>3 DEF LinesInv
  <2>6. raced' \subseteq Keys /\ row' = [x \in Keys |-> row'[x]] /\ entries' = [x \in Keys |-> entries'[x]]
    BY <2>3 DEF LinesInv
  <2>7. q.key \in Keys /\ Bump(q.key, f) BY <1>3, <1>8, <2>1 DEF SavedCalls
  <2>8. LinesInv' BY <2>3, <2>4, <2>5, <2>6, <2>7, BumpKeepsLines
  <2>9. ReleaseInv' BY <2>3, <2>4, <2>7, BumpKeepsRelease
  <2> QED BY <2>8, <2>9
<1> QED BY <1>1, <1>4, <1>7, <1>8 DEF Title, Go, Steps

\* A row changes, and no line.
LEMMA RowKeepsLines ==
    ASSUME LinesInv, NEW k \in Keys, row' = [row EXCEPT ![k] = row'[k]], row'[k] \in Projects \union {NoProject, NoRow},
           row'[k] = NoRow /\ k \notin raced => entries[k] = NoLines, UNCHANGED <<entries, raced>>
    PROVE  /\ row' = [x \in Keys |-> row'[x]] /\ entries' = [x \in Keys |-> entries'[x]]
           /\ \A x \in Keys : TranscriptOK(row'[x], entries'[x], x \notin raced')
<1>1. row' = [x \in Keys |-> row'[x]] /\ \A x \in Keys : x # k => row'[x] = row[x] BY DEF LinesInv
<1>2. ASSUME NEW x \in Keys PROVE TranscriptOK(row'[x], entries'[x], x \notin raced')
  <2>1. TranscriptOK(row[x], entries[x], x \notin raced) BY TranscriptNow
  <2>2. CASE x = k BY <2>1, <2>2 DEF TranscriptOK
  <2>3. CASE x # k BY <1>1, <2>1, <2>3
  <2> QED BY <2>2, <2>3
<1> QED BY <1>1, <1>2 DEF LinesInv

LEMMA OutIs ==
    ASSUME LinesInv, NEW k
    PROVE  /\ Out(k) \in [Projects -> SUBSET Keys]
           /\ \A j \in Projects : Out(k)[j] = left[j] \ {k}
<1>1. left \in [Projects -> SUBSET Keys] BY DEF LinesInv
<1> QED BY <1>1 DEF Out

\* The calls as they are, after a change of rows alone.
LEMMA RowsStep ==
    ASSUME LinesInv, NEW p, NEW q, CallFits(q, entries, raced), Steps(p, q) \/ request' = request,
           UNCHANGED <<entries, raced, project>>, left' \in [Projects -> SUBSET Keys],
           row' = [x \in Keys |-> row'[x]], \A x \in Keys : TranscriptOK(row'[x], entries'[x], x \notin raced')
    PROVE  LinesInv'
<1>1. request' = [o \in Requests |-> request'[o]] /\ \A o \in Requests : request'[o] = q \/ request'[o] = request[o]
  BY DEF LinesInv, Steps
<1>2. \A o \in Requests : CallFits(request'[o], entries', raced') BY <1>1, CallNow
<1> QED BY <1>1, <1>2 DEF LinesInv

LEMMA AssignKeeps == ASSUME LinesInv, ReleaseInv, NEW p \in Requests, Assign(p) PROVE LinesInv' /\ ReleaseInv'
<1>1. PICK q : q = request[p] OBVIOUS
<1>2. q.op = "assign" /\ q \in CallStates /\ ~IsPaging(q) /\ End(p) /\ UNCHANGED <<entries, project, raced>>
  BY <1>1, CallNow DEF Assign, IsPaging
<1>3. q \in OtherCalls BY <1>2, CallKinds
<1>4. PICK k : k = q.key OBVIOUS
<1>5. PICK j : j = q.project OBVIOUS
<1>6. k \in Keys /\ j \in Projects BY <1>2, <1>3, <1>4, <1>5 DEF OtherCalls
<1>7. Steps(p, NoCall) /\ CallFits(NoCall, entries, raced) /\ ~IsPaging(NoCall)
  BY <1>2, NoCallFits DEF End, Steps
<1>8. PagingSame BY <1>1, <1>2, <1>7, StepsSame
<1>9. CASE row[k] = NoRow
  <2>1. UNCHANGED <<row, left>> BY <1>1, <1>4, <1>9 DEF Assign
  <2>2. Quietly(p) BY <1>1, <1>2, <1>7, <2>1 DEF Quietly, stored
  <2>3. LinesInv' BY <1>2, <2>1, EndKeeps DEF LinesInv
  <2> QED BY <2>2, <2>3, QuietKeeps
<1>10. CASE row[k] # NoRow
  <2>1. /\ row' = [row EXCEPT ![k] = j]
        /\ left' = [Out(k) EXCEPT ![j] = IF project[j] = "gone" THEN Out(k)[j] \union {k} ELSE Out(k)[j]]
    BY <1>1, <1>4, <1>5, <1>10 DEF Assign
  <2>2. Out(k) \in [Projects -> SUBSET Keys] /\ \A i \in Projects : Out(k)[i] = left[i] \ {k} BY OutIs
  <2>3. left' \in [Projects -> SUBSET Keys] /\ (\A i \in Projects : left[i] \subseteq left'[i] \union {k})
        /\ (project[j] = "gone" => k \in left'[j])
    BY <1>6, <2>1, <2>2
  <2>4. row = [x \in Keys |-> row[x]] BY DEF LinesInv
  <2>5. row'[k] = j /\ row' = [row EXCEPT ![k] = row'[k]] /\ \A x \in Keys : x # k => row'[x] = row[x]
    BY <1>6, <2>1, <2>4
  <2>6. /\ row' = [x \in Keys |-> row'[x]]
        /\ \A x \in Keys : TranscriptOK(row'[x], entries'[x], x \notin raced')
    BY <1>2, <1>6, <2>5, RowKeepsLines, Places
  <2>7. LinesInv' BY <1>2, <1>7, <2>3, <2>6, RowsStep
  <2>8. \A i \in Projects, x \in Keys : project[i] = "gone" /\ row'[x] = i /\ x \notin left'[i] => row[x] = i /\ x \notin left[i]
    <3> SUFFICES ASSUME NEW i \in Projects, NEW x \in Keys, project[i] = "gone", row'[x] = i, x \notin left'[i]
                 PROVE  row[x] = i /\ x \notin left[i]
      OBVIOUS
    <3>1. x # k BY <2>3, <2>5
    <3> QED BY <2>3, <2>5, <3>1
  <2>9. ReleaseInv' BY <1>2, <1>8, <2>8, ReleaseSame
  <2> QED BY <2>7, <2>9
<1> QED BY <1>9, <1>10

LEMMA UngroupKeeps == ASSUME LinesInv, ReleaseInv, NEW k \in Keys, Ungroup(k) PROVE LinesInv' /\ ReleaseInv'
<1>1. /\ row' = [row EXCEPT ![k] = NoProject] /\ left' = Out(k)
      /\ UNCHANGED <<entries, project, request, raced>>
  BY DEF Ungroup
<1>2. left' \in [Projects -> SUBSET Keys] /\ \A j \in Projects : left'[j] = left[j] \ {k} BY <1>1, OutIs
<1>3. row'[k] = NoProject /\ row' = [row EXCEPT ![k] = row'[k]] /\ \A x \in Keys : x # k => row'[x] = row[x]
  BY <1>1 DEF LinesInv
<1>4. /\ row' = [x \in Keys |-> row'[x]]
      /\ \A x \in Keys : TranscriptOK(row'[x], entries'[x], x \notin raced')
  BY <1>1, <1>3, RowKeepsLines, Places
<1>5. CallFits(NoCall, entries, raced) BY NoCallFits
<1>6. LinesInv' BY <1>1, <1>2, <1>4, <1>5, RowsStep
<1>7. PagingSame BY <1>1 DEF PagingSame
<1>8. \A j \in Projects, x \in Keys : row'[x] = j /\ x \notin left'[j] => row[x] = j /\ x \notin left[j]
  BY <1>2, <1>3, Places
<1>9. ReleaseInv' BY <1>1, <1>7, <1>8, ReleaseSame
<1> QED BY <1>9, <1>6

LEMMA RemoveEntriesKeeps ==
    ASSUME LinesInv, ReleaseInv, NEW p \in Requests, NEW k \in Keys, RemoveEntries(p, k)
    PROVE  LinesInv' /\ ReleaseInv'
<1>1. PICK r : r = [op |-> "remove", key |-> k] OBVIOUS
<1>2. /\ request[p] = NoCall /\ request' = NotAlone(k, p, r) /\ entries' = [entries EXCEPT ![k] = NoLines]
      /\ raced' = IF Calls(k, {"insert"}) = {} THEN raced \ {k} ELSE raced \union {k}
      /\ UNCHANGED <<row, project, left>>
  BY <1>1 DEF RemoveEntries, Emptied
<1>3. entries' = [x \in Keys |-> entries'[x]] /\ entries'[k] = NoLines /\ \A x \in Keys : x # k => entries'[x] = entries[x]
  BY <1>2 DEF LinesInv
<1>4. /\ raced' \subseteq Keys /\ \A x \in Keys : x # k => (x \in raced' <=> x \in raced)
      /\ k \notin raced' => Calls(k, {"insert"}) = {}
  BY <1>2 DEF LinesInv
<1>5. ASSUME NEW x \in Keys PROVE TranscriptOK(row'[x], entries'[x], x \notin raced')
  <2>1. TranscriptOK(row[x], entries[x], x \notin raced) BY TranscriptNow
  <2>2. CASE x = k BY <1>2, <1>3, <2>1, <2>2, Empty DEF TranscriptOK
  <2>3. CASE x # k BY <1>2, <1>3, <1>4, <2>1, <2>3 DEF TranscriptOK
  <2> QED BY <2>2, <2>3
<1>6. CallFits(r, entries', raced') /\ ~IsPaging(r)
  <2>1. r \in CallStates /\ r.op = "remove" /\ r.key = k BY <1>1 DEF CallStates, OtherCalls
  <2> QED BY <1>3, <2>1 DEF CallFits, SaveOK, IsPaging
<1>7. request'[p] = r /\ \A o \in Requests : o # p => request'[o] = Alongside(k, request[o]) BY <1>2, NotAloneIs
<1>8. ASSUME NEW o \in Requests, o # p
      PROVE  CallFits(request'[o], entries', raced') /\ (IsPaging(request'[o]) => IsPaging(request[o]))
  <2>1. PICK s : s = request[o] OBVIOUS
  <2>2. request'[o] = Alongside(k, s) BY <1>7, <1>8, <2>1
  <2>3. s.op = "insert" /\ s.key = k /\ k \notin raced' => s.already <= LineCount(entries'[k])
    <3>1. s.op = "insert" /\ s.key = k => o \in Calls(k, {"insert"}) BY <2>1 DEF Calls
    <3> QED BY <1>4, <3>1
  <2>4. CallFits(Alongside(k, s), entries', raced') /\ (IsPaging(Alongside(k, s)) => IsPaging(s))
    BY <1>3, <1>4, <2>1, <2>3, OthersFit
  <2> QED BY <2>1, <2>2, <2>4
<1>9. request' = [o \in Requests |-> request'[o]] BY <1>2 DEF NotAlone
<1>10. LinesInv'
  <2>1. \A o \in Requests : CallFits(request'[o], entries', raced') BY <1>6, <1>7, <1>8
  <2> QED BY <1>2, <1>3, <1>4, <1>5, <1>9, <2>1 DEF LinesInv
<1>11. PagingSame
  <2> SUFFICES ASSUME NEW o \in Requests, IsPaging(request[o]) \/ IsPaging(request'[o])
               PROVE  request'[o] = request[o]
    BY DEF PagingSame
  <2>1. o # p BY <1>2, <1>6, <1>7, NoCallQuiet
  <2>2. IsPaging(request[o]) BY <1>8, <2>1
  <2> QED BY <1>7, <2>1, <2>2 DEF Alongside, IsPaging
<1>12. ReleaseInv' BY <1>2, <1>11, ReleaseSame
<1> QED BY <1>10, <1>12

LEMMA RemoveRowKeeps ==
    ASSUME LinesInv, ReleaseInv, NEW p \in Requests, RemoveRow(p)
    PROVE  LinesInv' /\ ReleaseInv'
<1>1. PICK q : q = request[p] OBVIOUS
<1>2. q.op = "remove" /\ CallFits(q, entries, raced) /\ q \in CallStates /\ ~IsPaging(q)
  BY <1>1, CallNow DEF RemoveRow, IsPaging
<1>3. PICK k : k = q.key OBVIOUS
<1>4. k \in Keys BY <1>2, <1>3, CallKinds DEF OtherCalls
<1>5. row' = [row EXCEPT ![k] = NoRow] /\ left' = Out(k) /\ End(p) /\ UNCHANGED <<entries, project, raced>>
  BY <1>1, <1>3 DEF RemoveRow
<1>6. left' \in [Projects -> SUBSET Keys] /\ \A j \in Projects : left'[j] = left[j] \ {k} BY <1>5, OutIs
<1>7. row'[k] = NoRow /\ row' = [row EXCEPT ![k] = row'[k]] /\ \A x \in Keys : x # k => row'[x] = row[x]
  BY <1>4, <1>5 DEF LinesInv
<1>8. k \notin raced => entries[k] = NoLines BY <1>2, <1>3 DEF CallFits, SaveOK
<1>9. /\ row' = [x \in Keys |-> row'[x]]
      /\ \A x \in Keys : TranscriptOK(row'[x], entries'[x], x \notin raced')
  BY <1>4, <1>5, <1>7, <1>8, RowKeepsLines
<1>10. Steps(p, NoCall) /\ CallFits(NoCall, entries, raced) /\ ~IsPaging(NoCall)
  BY <1>5, NoCallFits DEF End, Steps
<1>11. LinesInv' BY <1>5, <1>6, <1>9, <1>10, RowsStep
<1>12. PagingSame BY <1>1, <1>2, <1>10, StepsSame
<1>13. \A j \in Projects, x \in Keys : row'[x] = j /\ x \notin left'[j] => row[x] = j /\ x \notin left[j]
  BY <1>6, <1>7, Places
<1>14. ReleaseInv' BY <1>5, <1>12, <1>13, ReleaseSame
<1> QED BY <1>11, <1>14

LEMMA CreateKeeps ==
    ASSUME LinesInv, ReleaseInv, NEW j \in Projects, CreateProject(j)
    PROVE  LinesInv' /\ ReleaseInv'
<1>1. project \in [Projects -> {"unborn", "live", "gone"}] BY DEF LinesInv
<1>2. project' \in [Projects -> {"unborn", "live", "gone"}] /\ \A i \in Projects : project'[i] = "gone" <=> project[i] = "gone"
  BY <1>1 DEF CreateProject
<1>3. UNCHANGED <<row, entries, request, raced, left>> BY DEF CreateProject
<1>4. LinesInv' BY <1>2, <1>3 DEF LinesInv
<1>5. ASSUME NEW p \in Requests, IsPaging(request[p]) PROVE request[p].project \in Projects
  BY <1>5, PagingIs DEF PagingCalls, ListCalls, ReleaseCalls
<1>6. ReleaseInv' BY <1>2, <1>3, <1>5 DEF ReleaseInv
<1> QED BY <1>4, <1>6

LEMMA DeleteKeeps ==
    ASSUME LinesInv, ReleaseInv, NEW p \in Requests, NEW j \in Projects, DeleteProject(p, j)
    PROVE  LinesInv' /\ ReleaseInv'
<1>1. PICK r : r = [op |-> "list", project |-> j, rest |-> Keys] OBVIOUS
<1>2. r \in PagingCalls BY <1>1 DEF PagingCalls, ListCalls
<1>3. /\ project[j] = "live" /\ project' = [project EXCEPT ![j] = "gone"] /\ request[p] = NoCall /\ Steps(p, r)
      /\ UNCHANGED <<row, entries, raced, left>>
  BY <1>1 DEF DeleteProject, Begin, Steps
<1>4. project \in [Projects -> {"unborn", "live", "gone"}] /\ left \in [Projects -> SUBSET Keys] BY DEF LinesInv
<1>5. /\ project' \in [Projects -> {"unborn", "live", "gone"}] /\ project'[j] = "gone"
      /\ \A i \in Projects : i # j => project'[i] = project[i]
  BY <1>3, <1>4
<1>6. CallFits(r, entries, raced) BY <1>2, PagingFits
<1>7. LinesInv' BY <1>3, <1>4, <1>5, <1>6, CallSteps
<1>8. request'[p] = r /\ \A o \in Requests : o # p => request'[o] = request[o] BY <1>3 DEF LinesInv, Steps
<1>9. ASSUME NEW o \in Requests, IsPaging(request'[o]) PROVE project'[request'[o].project] = "gone"
  <2>1. CASE o = p BY <1>1, <1>5, <1>8, <2>1
  <2>2. CASE o # p
    <3>1. IsPaging(request[o]) /\ request'[o] = request[o] BY <1>8, <1>9, <2>2
    <3>2. request[o].project \in Projects BY <3>1, PagingIs DEF PagingCalls, ListCalls, ReleaseCalls
    <3>3. project[request[o].project] = "gone" BY <3>1 DEF ReleaseInv
    <3> QED BY <1>5, <3>1, <3>2, <3>3
  <2> QED BY <2>1, <2>2
<1>10. ASSUME NEW i \in Projects, NEW k \in Keys, project'[i] = "gone", row'[k] = i, k \notin left'[i]
       PROVE  /\ \E o \in Requests : Before(request'[o], i, k)
              /\ \A o \in Requests : ~LastPage(request'[o], i, k)
  <2>1. ~LastPage(r, i, k) BY <1>1 DEF LastPage
  <2>2. CASE i = j
    <3>1. Before(request'[p], i, k) BY <1>1, <1>8, <2>2 DEF Before, IsPaging
    <3>2. ASSUME NEW o \in Requests, LastPage(request'[o], i, k) PROVE FALSE
      <4>1. o # p BY <1>8, <2>1, <3>2
      <4>2. LastPage(request[o], i, k) BY <1>8, <3>2, <4>1
      <4>3. IsPaging(request[o]) /\ request[o].project = j BY <2>2, <4>2 DEF LastPage, IsPaging
      <4>4. project[j] = "gone" BY <4>3 DEF ReleaseInv
      <4> QED BY <1>3, <4>4
    <3> QED BY <3>1, <3>2
  <2>3. CASE i # j
    <3>1. project[i] = "gone" /\ row[k] = i /\ k \notin left[i] BY <1>3, <1>5, <1>10, <2>3
    <3>2. PICK o \in Requests : Before(request[o], i, k) BY <3>1 DEF ReleaseInv
    <3>3. o # p BY <1>3, <3>2, NoCallQuiet DEF Before
    <3>4. Before(request'[o], i, k) BY <1>8, <3>2, <3>3
    <3>5. \A u \in Requests : ~LastPage(request'[u], i, k) BY <1>8, <2>1, <3>1 DEF ReleaseInv
    <3> QED BY <3>4, <3>5
  <2> QED BY <2>2, <2>3
<1>11. ReleaseInv' BY <1>9, <1>10 DEF ReleaseInv
<1> QED BY <1>7, <1>11

\* A deletion takes a step: what it still has before it, it has before it after
\* the step, unless the session is out or in left.
PagingStep(p, r) ==
    /\ Steps(p, r) /\ project' = project
    /\ IsPaging(request[p]) /\ (IsPaging(r) => r.project = request[p].project)
    /\ \A j \in Projects, k \in Keys : row'[k] = j /\ k \notin left'[j] =>
         /\ row[k] = j /\ k \notin left[j]
         /\ ~LastPage(request[p], j, k) => ~LastPage(r, j, k)
         /\ Before(request[p], j, k) /\ ~LastPage(request[p], j, k) => Before(r, j, k)
LEMMA PagingStepKeeps ==
    ASSUME LinesInv, ReleaseInv, NEW p \in Requests, NEW r, PagingStep(p, r)
    PROVE  ReleaseInv'
<1>1. request'[p] = r /\ \A o \in Requests : o # p => request'[o] = request[o]
  BY DEF LinesInv, Steps, PagingStep
<1>2. project' = project /\ IsPaging(request[p]) /\ (IsPaging(r) => r.project = request[p].project)
  BY DEF PagingStep
<1>3. \A o \in Requests : IsPaging(request'[o]) => project'[request'[o].project] = "gone"
  BY <1>1, <1>2 DEF ReleaseInv
<1>4. ASSUME NEW j \in Projects, NEW k \in Keys, project'[j] = "gone", row'[k] = j, k \notin left'[j]
      PROVE  /\ \E o \in Requests : Before(request'[o], j, k)
             /\ \A o \in Requests : ~LastPage(request'[o], j, k)
  <2>1. /\ row[k] = j /\ k \notin left[j] /\ project[j] = "gone"
        /\ ~LastPage(request[p], j, k) => ~LastPage(r, j, k)
        /\ Before(request[p], j, k) /\ ~LastPage(request[p], j, k) => Before(r, j, k)
    BY <1>4 DEF PagingStep
  <2>2. \A o \in Requests : ~LastPage(request[o], j, k) BY <2>1 DEF ReleaseInv
  <2>3. PICK o \in Requests : Before(request[o], j, k) BY <2>1 DEF ReleaseInv
  <2>4. Before(request'[o], j, k) BY <1>1, <2>1, <2>2, <2>3
  <2> QED BY <1>1, <2>1, <2>2, <2>4
<1> QED BY <1>3, <1>4 DEF ReleaseInv

LEMMA ListPageKeeps == ASSUME LinesInv, ReleaseInv, NEW p \in Requests, List(p) PROVE LinesInv' /\ ReleaseInv'
<1>1. PICK q : q = request[p] OBVIOUS
<1>2. q.op = "list" /\ q \in CallStates /\ UNCHANGED <<stored, raced, left>> /\ UNCHANGED <<row, entries, project>>
  BY <1>1, CallNow DEF List, stored
<1>3. q \in ListCalls BY <1>2, CallKinds
<1>4. PICK L : L = Listed(q) OBVIOUS
<1>5. PICK page \in SUBSET L, passed \in SUBSET (q.rest \ L) :
         /\ Cardinality(page) = Page \/ (page = L /\ Cardinality(page) <= Page)
         /\ Go(p, [op |-> "release", project |-> q.project, page |-> page,
                   rest |-> q.rest \ (page \union passed), more |-> HasMore(q)])
  BY <1>1, <1>4 DEF List
<1>6. PICK m : m = HasMore(q) OBVIOUS
<1>7. PICK rest : rest = q.rest \ (page \union passed) OBVIOUS
<1>8. PICK r : r = [op |-> "release", project |-> q.project, page |-> page, rest |-> rest, more |-> m] OBVIOUS
<1>9. Steps(p, r) BY <1>5, <1>6, <1>7, <1>8 DEF Go, Steps
<1>10. q.rest \subseteq Keys /\ q.project \in Projects BY <1>3 DEF ListCalls
<1>11. L = q.rest \intersect {k \in Keys : row[k] = q.project} BY <1>4 DEF Listed, In
<1>12. m \in BOOLEAN /\ m = (Cardinality(L) > Page) BY <1>4, <1>6 DEF HasMore
<1>13. r \in PagingCalls BY <1>7, <1>8, <1>10, <1>11, <1>12 DEF PagingCalls, ReleaseCalls
<1>14. CallFits(r, entries, raced) BY <1>13, PagingFits
<1>15. LinesInv' BY <1>2, <1>9, <1>14, CallSteps DEF LinesInv
<1>16. m = FALSE => page = L
  <2> SUFFICES ASSUME m = FALSE, page # L PROVE FALSE OBVIOUS
  <2>1. IsFiniteSet(L) BY <1>10, <1>11, FS_Subset, SessionsAssumption
  <2>2. Cardinality(L) \in Nat /\ Cardinality(page) \in Nat /\ Cardinality(page) <= Cardinality(L)
        /\ Cardinality(page) # Cardinality(L)
    BY <2>1, FS_Subset, FS_CardinalityType
  <2>3. Cardinality(page) = Page /\ Page \in Nat BY <1>5, SessionsAssumption
  <2>4. ~(Cardinality(L) > Page) BY <1>12
  <2> QED BY <2>2, <2>3, <2>4
<1>17. IsPaging(request[p]) /\ r.project = request[p].project BY <1>1, <1>2, <1>8 DEF IsPaging
<1>18. ASSUME NEW j \in Projects, NEW k \in Keys, row[k] = j
       PROVE  /\ ~LastPage(r, j, k)
              /\ Before(request[p], j, k) => Before(r, j, k)
  <2>1. CASE j # q.project BY <1>1, <1>8, <2>1 DEF LastPage, Before
  <2>2. CASE j = q.project
    <3>1. k \in q.rest => k \in L BY <1>11, <1>18, <2>2
    <3>2. ~LastPage(r, j, k) BY <1>7, <1>8, <1>16, <3>1 DEF LastPage
    <3>3. Before(request[p], j, k) => k \in q.rest BY <1>1, <1>2 DEF Before
    <3>4. k \in q.rest => k \in page \/ k \in rest BY <1>7, <3>1
    <3>5. Before(r, j, k) <=> (k \in rest \/ k \in page) BY <1>8, <2>2 DEF Before, IsPaging
    <3> QED BY <3>2, <3>3, <3>4, <3>5
  <2> QED BY <2>1, <2>2
<1>19. PagingStep(p, r) BY <1>2, <1>9, <1>17, <1>18 DEF PagingStep
<1>20. ReleaseInv' BY <1>19, PagingStepKeeps
<1> QED BY <1>15, <1>20

\* The page is through: the next one is listed, or the deletion is over.
LEMMA PageThrough ==
    ASSUME LinesInv, ReleaseInv, NEW p \in Requests, NEW q, q = request[p], q.op = "release", q.page = {},
           IF q.more THEN Go(p, [op |-> "list", project |-> q.project, rest |-> q.rest]) ELSE End(p),
           UNCHANGED <<row, left, entries, project, raced>>
    PROVE  LinesInv' /\ ReleaseInv'
<1>1. q \in ReleaseCalls BY CallNow, CallKinds
<1>2. q.more \in BOOLEAN /\ q.project \in Projects /\ q.rest \in SUBSET Keys BY <1>1 DEF ReleaseCalls
<1>3. IsPaging(request[p]) BY DEF IsPaging
<1>4. CASE q.more = TRUE
  <2>1. PICK r : r = [op |-> "list", project |-> q.project, rest |-> q.rest] OBVIOUS
  <2>2. r \in PagingCalls /\ Steps(p, r) BY <1>2, <1>4, <2>1 DEF PagingCalls, ListCalls, Go, Steps
  <2>3. LinesInv' BY <2>2, PagingFits, CallSteps DEF LinesInv
  <2>4. \A j, k : ~LastPage(r, j, k) /\ (Before(request[p], j, k) => Before(r, j, k))
    BY <2>1 DEF LastPage, Before, IsPaging
  <2>5. PagingStep(p, r) BY <1>3, <2>1, <2>2, <2>4 DEF PagingStep
  <2> QED BY <2>3, <2>5, PagingStepKeeps
<1>5. CASE q.more = FALSE
  <2>1. End(p) BY <1>5
  <2>2. LinesInv' /\ Steps(p, NoCall) /\ ~IsPaging(NoCall) BY <2>1, EndKeeps DEF LinesInv
  <2>3. \A j, k : ~LastPage(NoCall, j, k) BY <2>2 DEF LastPage, IsPaging
  <2>4. \A j, k : Before(request[p], j, k) => LastPage(request[p], j, k) BY <1>5 DEF LastPage, Before
  <2>5. PagingStep(p, NoCall) BY <1>3, <2>2, <2>3, <2>4 DEF PagingStep
  <2> QED BY <2>2, <2>5, PagingStepKeeps
<1> QED BY <1>2, <1>4, <1>5

\* A session of the page is patched, or passed over.
LEMMA PagePatch ==
    ASSUME LinesInv, ReleaseInv, NEW p \in Requests, NEW q, q = request[p], q.op = "release", NEW k \in q.page,
           NEW done \in BOOLEAN,
           row' = IF done /\ row[k] # NoRow THEN [row EXCEPT ![k] = NoProject] ELSE row,
           left' = IF done THEN Out(k)
                   ELSE [left EXCEPT ![q.project] = left[q.project] \union ({k} \intersect In(q.project))],
           Go(p, [q EXCEPT !.page = q.page \ {k}]),
           UNCHANGED <<entries, project, raced>>
    PROVE  LinesInv' /\ ReleaseInv'
<1>1. q \in ReleaseCalls BY CallNow, CallKinds
<1>2. q.page \in SUBSET Keys /\ q.project \in Projects /\ k \in Keys BY <1>1 DEF ReleaseCalls
<1>3. PICK r : r = [q EXCEPT !.page = q.page \ {k}] OBVIOUS
<1>4. /\ r \in ReleaseCalls /\ r.op = "release" /\ r.project = q.project /\ r.page = q.page \ {k}
      /\ r.rest = q.rest /\ r.more = q.more
  BY <1>1, <1>2, <1>3 DEF ReleaseCalls
<1>5. Steps(p, r) /\ CallFits(r, entries, raced) BY <1>3, <1>4, PagingFits DEF Go, Steps, PagingCalls
<1>6. IsPaging(request[p]) /\ r.project = request[p].project BY <1>4 DEF IsPaging
<1>7. \A j, x : LastPage(r, j, x) => LastPage(request[p], j, x) BY <1>4 DEF LastPage
<1>8. \A j, x : Before(request[p], j, x) /\ (x # k \/ j # q.project) => Before(r, j, x)
  BY <1>4 DEF Before, IsPaging
<1>9. CASE done = TRUE
  <2>1. left' \in [Projects -> SUBSET Keys] /\ \A j \in Projects : left'[j] = left[j] \ {k} BY <1>9, OutIs
  <2>2. row = [x \in Keys |-> row[x]] BY DEF LinesInv
  <2>3. row' = [row EXCEPT ![k] = row'[k]] /\ (row'[k] = NoProject \/ (row'[k] = NoRow /\ row[k] = NoRow))
        /\ \A x \in Keys : x # k => row'[x] = row[x]
    <3>1. CASE row[k] = NoRow
      <4>1. row' = row BY <3>1
      <4> QED BY <1>2, <2>2, <3>1, <4>1
    <3>2. CASE row[k] # NoRow
      <4>1. row' = [row EXCEPT ![k] = NoProject] BY <1>9, <3>2
      <4> QED BY <1>2, <2>2, <4>1
    <3> QED BY <3>1, <3>2
  <2>4. row'[k] = NoRow /\ k \notin raced => entries[k] = NoLines
    BY <1>2, <2>3, Places, TranscriptNow DEF TranscriptOK
  <2>5. /\ row' = [x \in Keys |-> row'[x]]
        /\ \A x \in Keys : TranscriptOK(row'[x], entries'[x], x \notin raced')
    BY <1>2, <2>3, <2>4, RowKeepsLines
  <2>6. LinesInv' BY <1>5, <2>1, <2>5, RowsStep
  <2>7. \A j \in Projects, x \in Keys : row'[x] = j /\ x \notin left'[j] => row[x] = j /\ x \notin left[j] /\ x # k
    BY <2>1, <2>3, Places
  <2>8. PagingStep(p, r) BY <1>5, <1>6, <1>7, <1>8, <2>7 DEF PagingStep
  <2> QED BY <2>6, <2>8, PagingStepKeeps
<1>10. CASE done = FALSE
  <2>1. row' = row /\ left' = [left EXCEPT ![q.project] = left[q.project] \union ({k} \intersect In(q.project))]
    BY <1>10
  <2>2. left \in [Projects -> SUBSET Keys] BY DEF LinesInv
  <2>3. /\ left' \in [Projects -> SUBSET Keys] /\ \A j \in Projects : left[j] \subseteq left'[j]
        /\ k \in In(q.project) => k \in left'[q.project]
    <3>1. PICK v : v = left[q.project] \union ({k} \intersect In(q.project)) OBVIOUS
    <3>2. v \subseteq Keys /\ left[q.project] \subseteq v /\ (k \in In(q.project) => k \in v)
      BY <1>2, <2>2, <3>1
    <3>3. left' = [left EXCEPT ![q.project] = v] BY <2>1, <3>1
    <3>4. left'[q.project] = v /\ \A j \in Projects : j # q.project => left'[j] = left[j] BY <1>2, <2>2, <3>3
    <3>5. left' \in [Projects -> SUBSET Keys] BY <1>2, <2>2, <3>2, <3>3
    <3>6. \A j \in Projects : left[j] \subseteq left'[j] BY <3>2, <3>4
    <3> QED BY <3>2, <3>4, <3>5, <3>6
  <2>4. LinesInv' BY <1>5, <2>1, <2>3, CallSteps DEF LinesInv
  <2>5. \A j \in Projects, x \in Keys : row'[x] = j /\ x \notin left'[j] =>
          row[x] = j /\ x \notin left[j] /\ (x # k \/ j # q.project)
    BY <2>1, <2>3 DEF In
  <2>6. PagingStep(p, r) BY <1>5, <1>6, <1>7, <1>8, <2>5 DEF PagingStep
  <2> QED BY <2>4, <2>6, PagingStepKeeps
<1> QED BY <1>9, <1>10

LEMMA ReleaseKeeps == ASSUME LinesInv, ReleaseInv, NEW p \in Requests, Release(p) PROVE LinesInv' /\ ReleaseInv'
<1>1. PICK q : q = request[p] OBVIOUS
<1>2. q.op = "release" /\ UNCHANGED <<entries, project, raced>> BY <1>1 DEF Release
<1>3. CASE /\ q.page = {}
           /\ IF q.more THEN Go(p, [op |-> "list", project |-> q.project, rest |-> q.rest]) ELSE End(p)
           /\ UNCHANGED <<row, left>>
  BY <1>1, <1>2, <1>3, PageThrough
<1>4. CASE \E k \in q.page, done \in BOOLEAN :
          /\ row' = IF done /\ row[k] # NoRow
                    THEN [row EXCEPT ![k] = NoProject] ELSE row
          /\ left' = IF done THEN Out(k)
                     ELSE [left EXCEPT ![q.project] = left[q.project] \union ({k} \intersect In(q.project))]
          /\ Go(p, [q EXCEPT !.page = q.page \ {k}])
  BY <1>1, <1>2, <1>4, PagePatch
<1> QED BY <1>1, <1>3, <1>4 DEF Release

LEMMA AbandonKeeps == ASSUME LinesInv, ReleaseInv, NEW p \in Requests, Abandon(p) PROVE LinesInv' /\ ReleaseInv'
<1>1. PICK q : q = request[p] OBVIOUS
<1>2. /\ End(p) /\ UNCHANGED <<stored, raced>> /\ UNCHANGED <<row, entries, project>>
      /\ left' = IF p \in Paging THEN [left EXCEPT ![q.project] = In(q.project)] ELSE left
  BY <1>1 DEF Abandon, stored
<1>3. left \in [Projects -> SUBSET Keys] /\ project \in [Projects -> {"unborn", "live", "gone"}] BY DEF LinesInv
<1>4. CASE ~IsPaging(q)
  <2>1. left' = left BY <1>1, <1>2, <1>4, PagingIs
  <2>2. LinesInv' /\ Steps(p, NoCall) /\ ~IsPaging(NoCall) BY <1>2, <1>3, <2>1, EndKeeps
  <2>3. Quietly(p) BY <1>1, <1>2, <1>4, <2>1, <2>2 DEF Quietly
  <2> QED BY <2>2, <2>3, QuietKeeps
<1>5. CASE IsPaging(q)
  <2>1. left' = [left EXCEPT ![q.project] = In(q.project)] BY <1>1, <1>2, <1>5, PagingIs
  <2>2. q.project \in Projects BY <1>1, <1>5, PagingIs DEF PagingCalls, ListCalls, ReleaseCalls
  <2>3. In(q.project) \subseteq Keys BY DEF In
  <2>4. /\ left' \in [Projects -> SUBSET Keys] /\ left'[q.project] = In(q.project)
        /\ \A j \in Projects : j # q.project => left'[j] = left[j]
    BY <1>3, <2>1, <2>2, <2>3
  <2>5. LinesInv' /\ Steps(p, NoCall) /\ ~IsPaging(NoCall) BY <1>2, <1>3, <2>4, EndKeeps
  <2>6. \A j, k : ~LastPage(NoCall, j, k) BY <2>5 DEF LastPage, IsPaging
  <2>7. ASSUME NEW j \in Projects, NEW k \in Keys, row'[k] = j, k \notin left'[j]
        PROVE  j # q.project /\ row[k] = j /\ k \notin left[j]
    BY <1>2, <2>4, <2>7 DEF In
  <2>8. \A j, k : Before(request[p], j, k) => j = q.project BY <1>1 DEF Before
  <2>9. PagingStep(p, NoCall) BY <1>1, <1>2, <1>5, <2>5, <2>6, <2>7, <2>8 DEF PagingStep
  <2> QED BY <2>5, <2>9, PagingStepKeeps
<1> QED BY <1>4, <1>5

-----------------------------------------------------------------------------
\* A call that takes a quiet step keeps both.
LEMMA SessionsStep ==
    ASSUME LinesInv, ReleaseInv, [SessionsNext]_sessionsVars PROVE LinesInv' /\ ReleaseInv'
<1>1. ASSUME NEW p \in Requests, LinesInv' /\ Quietly(p) PROVE LinesInv' /\ ReleaseInv'
  BY <1>1, QuietKeeps
<1>2. ASSUME NEW p \in Requests, NEW k \in Keys, NEW j \in Projects \union {NoProject}, Turn(p, k, j)
      PROVE  LinesInv' /\ ReleaseInv'
  BY <1>1, <1>2, TurnKeeps
<1>3. ASSUME NEW p \in Requests, NEW k \in Keys, NEW j \in Projects, MoveTo(p, k, j)
      PROVE  LinesInv' /\ ReleaseInv'
  BY <1>1, <1>3, MoveToKeeps
<1>4. ASSUME NEW p \in Requests, NEW k \in Keys, Compact(p, k) PROVE LinesInv' /\ ReleaseInv'
  BY <1>1, <1>4, CompactKeeps
<1>5. ASSUME NEW p \in Requests, Context(p) PROVE LinesInv' /\ ReleaseInv' BY <1>1, <1>5, ContextKeeps
<1>6. ASSUME NEW p \in Requests, LoadRow(p) PROVE LinesInv' /\ ReleaseInv' BY <1>1, <1>6, LoadRowKeeps
<1>7. ASSUME NEW p \in Requests, LoadLines(p) PROVE LinesInv' /\ ReleaseInv' BY <1>1, <1>7, LoadLinesKeeps
<1>8. ASSUME NEW p \in Requests, Count(p) PROVE LinesInv' /\ ReleaseInv' BY <1>1, <1>8, CountKeeps
<1>9. ASSUME NEW p \in Requests, Commit(p) PROVE LinesInv' /\ ReleaseInv' BY <1>1, <1>9, CommitKeeps
<1>10. ASSUME UNCHANGED sessionsVars PROVE LinesInv' /\ ReleaseInv'
  <2>1. UNCHANGED <<row, entries, project, request, raced, left>> BY <1>10 DEF sessionsVars, stored
  <2>2. PagingSame BY <2>1 DEF PagingSame
  <2>3. ReleaseInv' BY <2>1, <2>2, ReleaseSame
  <2> QED BY <2>1, <2>3 DEF LinesInv
<1> QED
  BY <1>2, <1>3, <1>4, <1>5, <1>6, <1>7, <1>8, <1>9, <1>10, RemoveEntriesKeeps, TitleKeeps, AssignKeeps,
     RemoveRowKeeps, DeleteKeeps, ListPageKeeps, ReleaseKeeps, AbandonKeeps, TouchKeeps, UngroupKeeps, CreateKeeps, Zenon
  DEF SessionsNext

LEMMA SessionsStart == ASSUME SessionsInit PROVE LinesInv /\ ReleaseInv
<1>1. /\ row = [k \in Keys |-> NoRow] /\ entries = [k \in Keys |-> NoLines]
      /\ project = [j \in Projects |-> "unborn"] /\ request = [p \in Requests |-> NoCall]
      /\ raced = {} /\ left = [j \in Projects |-> {}]
  BY DEF SessionsInit
<1>2. \A k \in Keys : TranscriptOK(row[k], entries[k], k \notin raced) BY <1>1, Empty DEF TranscriptOK
<1>3. \A p \in Requests : CallFits(request[p], entries, raced) /\ ~IsPaging(request[p]) BY <1>1, NoCallFits
<1>4. project \in [Projects -> {"unborn", "live", "gone"}] /\ left \in [Projects -> SUBSET Keys] /\ raced \subseteq Keys
  BY <1>1
<1>5. row = [k \in Keys |-> row[k]] /\ entries = [k \in Keys |-> entries[k]] /\ request = [p \in Requests |-> request[p]]
  BY <1>1
<1>6. LinesInv BY <1>2, <1>3, <1>4, <1>5 DEF LinesInv
<1>7. \A j \in Projects : project[j] # "gone" BY <1>1
<1>8. ReleaseInv BY <1>3, <1>7 DEF ReleaseInv
<1> QED BY <1>6, <1>8

LEMMA SessionsTyping == ASSUME LinesInv PROVE SessionsTypeOK
<1>1. ASSUME NEW k \in Keys
      PROVE  /\ row[k] \in Projects \union {NoProject, NoRow}
             /\ DOMAIN entries[k] \subseteq 0 .. (MaxLines - 1)
             /\ k \notin raced => Dense(entries[k]) /\ (row[k] = NoRow => entries[k] = NoLines)
  BY TranscriptNow DEF TranscriptOK, Transcript
<1>2. ASSUME NEW p \in Paging PROVE request[p].rest \subseteq Keys /\ request[p].project \in Projects
  <2>1. p \in Requests BY DEF Paging
  <2>2. request[p] \in PagingCalls BY <2>1, PagingIs
  <2> QED BY <2>2 DEF PagingCalls, ListCalls, ReleaseCalls
<1> QED BY <1>1, <1>2 DEF SessionsTypeOK, LinesInv

LEMMA SessionsWhole == ASSUME LinesInv, ReleaseInv PROVE StoredWhole
<1>1. ASSUME NEW p \in Requests, request[p].op = "saved", request[p].alone = TRUE, request[p].key \notin raced
      PROVE  Sorted(entries[request[p].key]) = request[p].lines
  BY <1>1, CallNow DEF CallFits, SaveOK
<1>2. SavedWhole
  <2>1. \A p \in Requests : request[p].op = "saved" => request[p].alone \in BOOLEAN
    BY CallNow, CallKinds DEF SavedCalls
  <2> QED BY <1>1, <2>1 DEF SavedWhole
<1>3. ASSUME NEW j \in Projects, project[j] = "gone", \A p \in Paging : request[p].project # j, NEW k \in In(j)
      PROVE  k \in left[j]
  <2> SUFFICES ASSUME k \notin left[j] PROVE FALSE OBVIOUS
  <2>1. k \in Keys /\ row[k] = j BY DEF In
  <2>2. PICK p \in Requests : Before(request[p], j, k) BY <1>3, <2>1 DEF ReleaseInv
  <2>3. p \in Paging /\ request[p].project = j BY <2>2, PagingIs DEF Before
  <2> QED BY <1>3, <2>3
<1>4. Released BY <1>3 DEF Released
<1> QED BY <1>2, <1>4 DEF StoredWhole

\* The variables of the sessions keep their types, and transcripts have no gap,
\* whatever turns, compactions, patches and deletions come between each other's
\* statements.
THEOREM SessionsTyped == SessionsSpec => []SessionsTypeOK
<1>1. SessionsInit => LinesInv /\ ReleaseInv BY SessionsStart
<1>2. LinesInv /\ ReleaseInv /\ [SessionsNext]_sessionsVars => LinesInv' /\ ReleaseInv' BY SessionsStep
<1>3. LinesInv /\ ReleaseInv => SessionsTypeOK BY SessionsTyping
<1> QED BY <1>1, <1>2, <1>3, PTL DEF SessionsSpec

\* save() stores an undisturbed turn whole, and the deletion of a project takes
\* every session out of it that stayed where it was in the list.
THEOREM SessionsStoredWhole == SessionsSpec => []StoredWhole
<1>1. SessionsInit => LinesInv /\ ReleaseInv BY SessionsStart
<1>2. LinesInv /\ ReleaseInv /\ [SessionsNext]_sessionsVars => LinesInv' /\ ReleaseInv' BY SessionsStep
<1>3. LinesInv /\ ReleaseInv => StoredWhole BY SessionsWhole
<1> QED BY <1>1, <1>2, <1>3, PTL DEF SessionsSpec
=============================================================================
