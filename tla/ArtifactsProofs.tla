-------------------------- MODULE ArtifactsProofs --------------------------
(* Proofs about Artifacts, for any artifacts, tokens and requests. *)
EXTENDS Artifacts, FiniteSetTheorems, TLAPS

(* A record as it is stored, or (Fresh) about to be: its versions with     *)
(* files are versions it has had, and the newest maxVersions of them.      *)
AnyRecord ==
    [state : {"live"}, version : 0 .. MaxVersion, kept : SUBSET Versions,
     share : Tokens \union {NoToken}, market : BOOLEAN]
GoodRecord(r) ==
    /\ \A n \in r.kept : n <= r.version
    /\ Cardinality(r.kept) <= Keep
    /\ r.market => r.share # NoToken

(* The requests in progress, by what they carry.                           *)
LinkedOps == {"unlink", "check", "restore", "point", "share", "clear", "forget", "resolve", "stale"}
Plain == [op : {"read", "delete", "wipe"}, on : ArtifactIds]
Linked == [op : LinkedOps, on : ArtifactIds, token : Tokens]
Listed == [op : {"market"}, on : ArtifactIds, token : Tokens, market : BOOLEAN]
Pruning == [op : {"prune"}, on : ArtifactIds, old : (SUBSET Versions) \ {{}}]
Committing == [op : {"files", "put"}, on : ArtifactIds, base : AnyRecord \union {Unborn},
               next : AnyRecord]
AnyRequest == {Idle} \union Plain \union Linked \union Listed \union Pruning \union Committing

GoodCommit(q) ==
    /\ GoodRecord(q.next) /\ q.next.version < MaxVersion
    /\ \/ q.base = Unborn /\ q.next = Fresh
       \/ q.base = q.next /\ q.next.version > 0

Shapes ==
    /\ record \in [ArtifactIds -> AnyRecord \union {Unborn, Gone}]
    /\ files \in [ArtifactIds -> SUBSET Versions]
    /\ pointer \in [Tokens -> ArtifactIds \union {Nowhere}]
    /\ revoked \subseteq drawn /\ drawn \subseteq Tokens
    /\ raced \subseteq ArtifactIds
    /\ request \in [Requests -> AnyRequest]
RecordsGood ==
    \A a \in ArtifactIds : Live(a) => GoodRecord(record[a]) /\ record[a].version > 0
CommitsGood ==
    \A p \in Requests : request[p].op \in {"files", "put"} => GoodCommit(request[p])

(* Before an artifact is stored only the request that creates it is there, *)
(* and no link leads to it.                                                *)
Quiet(q) ==
    q # Idle /\ record[q.on] = Unborn => q.op \in {"files", "put"} /\ q.base = Unborn
UnbornQuiet == \A p \in Requests : Quiet(request[p])
PointersBorn == \A t \in Tokens : pointer[t] # Nowhere => record[pointer[t]] # Unborn

(* What a request under way knows of an artifact nobody raced on: what it  *)
(* removes is neither kept nor coming, ...                                 *)
OldIsOld(q) ==
    q.op = "prune" /\ q.on \notin raced /\ Live(q.on) =>
      \A n \in q.old : n \notin record[q.on].kept /\ n < record[q.on].version
WipesTheGone(q) == q.op = "wipe" /\ q.on \notin raced => record[q.on] = Gone

(* ... versions only grow, and the files of the one it is about to record  *)
(* are there as long as the record is the one it read, ...                 *)
BaseIsPast(q) ==
    q.op \in {"files", "put"} /\ q.on \notin raced /\ Live(q.on) /\ q.base # Unborn =>
      q.base.version <= record[q.on].version
Current(q) ==
    \/ record[q.on] = Unborn
    \/ Live(q.on) /\ q.base # Unborn /\ q.base.version = record[q.on].version
FilesReady(q) ==
    q.op = "put" /\ q.on \notin raced /\ Current(q) => q.next.version + 1 \in files[q.on]

(* ... the pointer leads where the record is about to say, and is not      *)
(* forgotten before the record has dropped it.                             *)
PointerFirst(q) == q.op = "share" /\ q.on \notin raced => pointer[q.token] = q.on
RecordFirst(q) == q.op = "forget" /\ q.on \notin raced => Share(q.on) # q.token

Knows(q) ==
    /\ OldIsOld(q) /\ WipesTheGone(q) /\ BaseIsPast(q) /\ FilesReady(q)
    /\ PointerFirst(q) /\ RecordFirst(q)
Known == \A p \in Requests : Knows(request[p])

(* A token belongs to the artifact it was drawn for.                       *)
Visits == {"resolve", "stale"}
Mentions(q, t) ==
    \/ q.op \in LinkedOps \union {"market"} /\ q.token = t
    \/ q.op \in {"files", "put"} /\ q.next.share = t
OwnedBy(f) ==
    /\ \A t \in Tokens : pointer[t] # Nowhere => t \in drawn /\ f[t] = pointer[t]
    /\ \A a \in ArtifactIds : Share(a) # NoToken => Share(a) \in drawn /\ f[Share(a)] = a
    /\ \A p \in Requests, t \in Tokens :
         Mentions(request[p], t) => t \in drawn /\ f[t] = request[p].on
Owned == \E f \in [Tokens -> ArtifactIds \union {Nowhere}] : OwnedBy(f)

(* Until a new link is in the record nothing but visitors has its token.   *)
New == {"point", "share"}
FreshToken(p) ==
    request[p].op \in New =>
      /\ request[p].token \notin revoked
      /\ Share(request[p].on) # request[p].token
      /\ \A o \in Requests \ {p} :
           Mentions(request[o], request[p].token) => request[o].op \in Visits
TokensFresh == \A p \in Requests : FreshToken(p)

Inv == /\ Shapes /\ RecordsGood /\ CommitsGood /\ UnbornQuiet /\ PointersBorn /\ Known
       /\ Owned /\ TokensFresh /\ VersionsReadable /\ LinkWorks /\ RevokedStays
-----------------------------------------------------------------------------
(* Sets of versions.                                                       *)
LEMMA VersionsFinite ==
    ASSUME NEW S \in SUBSET Versions
    PROVE  IsFiniteSet(S) /\ Cardinality(S) \in Nat /\ S \in SUBSET Nat
<1>1. Versions \in SUBSET Nat /\ 1 \in Int /\ MaxVersion \in Int
  BY ArtifactsAssumption DEF Versions
<1>2. IsFiniteSet(Versions) BY <1>1, FS_Interval DEF Versions
<1>3. IsFiniteSet(S) BY <1>2, FS_Subset
<1>4. Cardinality(S) \in Nat BY <1>3, FS_CardinalityType
<1> QED BY <1>1, <1>3, <1>4

(* Versions have a least one: of the sets of versions below a version of   *)
(* S, one has no strict subset among them.                                 *)
LEMMA HasMin ==
    ASSUME NEW S \in SUBSET Versions, S # {}
    PROVE  Min(S) \in S /\ \A y \in S : Min(S) <= y
<1> DEFINE Below(x) == {y \in S : y < x}
           Cuts == {Below(x) : x \in S}
<1>1. IsFiniteSet(S) /\ S \in SUBSET Nat BY VersionsFinite
<1>2. IsWellFoundedOn(StrictSubsetOrdering(S), SUBSET S)
  BY <1>1, FS_StrictSubsetOrderingWellFounded, FS_FiniteSubsetsOfFinite
<1>3. Cuts \subseteq SUBSET S /\ Cuts # {} OBVIOUS
<1>4. PICK c \in Cuts : \A d \in Cuts : <<d, c>> \notin StrictSubsetOrdering(S)
  <2> HIDE DEF Cuts
  <2> QED BY <1>2, <1>3, WFMin
<1>5. PICK x \in S : c = Below(x) BY <1>4
<1>6. ASSUME NEW y \in S, ~(x <= y) PROVE FALSE
  <2>1. y < x BY <1>1, <1>6
  <2>2. Below(y) \subseteq Below(x)
    <3>1. \A z \in S : z \in Nat /\ y \in Nat /\ x \in Nat BY <1>1
    <3>2. \A z \in S : z < y => z < x BY <2>1, <3>1
    <3> QED BY <3>2
  <2>3. y \in Below(x) /\ y \notin Below(y) BY <1>1, <2>1
  <2>4. <<Below(y), Below(x)>> \in StrictSubsetOrdering(S)
    BY <2>2, <2>3 DEF StrictSubsetOrdering
  <2> QED BY <1>4, <1>5, <2>4
<1> QED BY <1>6 DEF Min

(* The window holds at most k versions: all but its oldest are newer than  *)
(* that one, of which there are fewer than k.                              *)
LEMMA NewestBound ==
    ASSUME NEW all \in SUBSET Versions, NEW k \in Nat
    PROVE  /\ Newest(all, k) \subseteq all
           /\ Cardinality(Newest(all, k)) <= k
<1> DEFINE N == Newest(all, k)
           n == Min(N)
           above == {m \in all : m > n}
<1>1. N \subseteq all BY DEF Newest
<1>2. N \in SUBSET Versions /\ above \in SUBSET Versions BY <1>1
<1>3. /\ IsFiniteSet(N) /\ Cardinality(N) \in Nat /\ N \in SUBSET Nat
      /\ IsFiniteSet(above) /\ Cardinality(above) \in Nat
  BY <1>2, VersionsFinite
<1>4. CASE N = {} BY <1>1, <1>4, FS_EmptySet
<1>5. CASE N # {}
  <2>1. n \in N /\ \A y \in N : n <= y BY <1>2, <1>5, HasMin
  <2>2. Cardinality(above) < k BY <2>1 DEF Newest
  <2>3. N \ {n} \in SUBSET above BY <1>1, <1>3, <2>1
  <2>4. Cardinality(N \ {n}) <= Cardinality(above) BY <1>3, <2>3, FS_Subset
  <2>5. Cardinality(N \ {n}) = Cardinality(N) - 1 BY <1>3, <2>1, FS_RemoveElement
  <2> HIDE DEF N, n, above
  <2> QED BY <1>1, <1>3, <2>2, <2>4, <2>5 DEF N
<1> QED BY <1>4, <1>5

(* What commitVersion makes of a record.                                   *)
Next1(r) == [r EXCEPT !.version = @ + 1, !.kept = Kept(r)]
LEMMA Committed ==
    ASSUME NEW r \in AnyRecord, GoodRecord(r), r.version < MaxVersion
    PROVE  /\ Next1(r) \in AnyRecord /\ GoodRecord(Next1(r))
           /\ Next1(r).version = r.version + 1 /\ Next1(r).version > 0
           /\ Next1(r).kept = Kept(r) /\ Next1(r).share = r.share
           /\ Kept(r) \subseteq r.kept \union {r.version + 1}
           /\ r.version + 1 \in Kept(r)
<1> DEFINE v == r.version + 1
           all == r.kept \union {v}
<1>1. r.version \in 0 .. MaxVersion /\ r.kept \in SUBSET Versions BY DEF AnyRecord
<1>2. v \in Versions /\ all \in SUBSET Versions /\ \A m \in all : m <= v
  <2>1. v \in Versions /\ r.version \in Nat BY <1>1, ArtifactsAssumption DEF Versions
  <2>2. \A m \in r.kept : m \in Nat /\ m <= r.version
    BY <1>1, ArtifactsAssumption DEF Versions, GoodRecord
  <2> QED BY <1>1, <2>1, <2>2
<1>3. Kept(r) = Newest(all, Keep) /\ Keep \in Nat /\ Keep > 0
  BY ArtifactsAssumption DEF Kept
<1>4. Kept(r) \subseteq all /\ Cardinality(Kept(r)) <= Keep BY <1>2, <1>3, NewestBound
<1>5. {m \in all : m > v} = {} BY <1>1, <1>2 DEF Versions
<1>6. v \in Kept(r) BY <1>3, <1>5, FS_EmptySet DEF Newest
<1>7. Kept(r) \in SUBSET Versions /\ \A n \in Kept(r) : n <= v BY <1>2, <1>4
<1> HIDE DEF v
<1>8. /\ Next1(r).version = v /\ Next1(r).kept = Kept(r)
      /\ Next1(r).share = r.share /\ Next1(r).market = r.market
  BY DEF Next1, AnyRecord, v
<1>9. v \in 0 .. MaxVersion /\ v > 0 BY <1>2, ArtifactsAssumption DEF Versions
<1>10. Next1(r) \in AnyRecord BY <1>7, <1>9 DEF AnyRecord, Next1, v
<1>11. GoodRecord(Next1(r)) BY <1>4, <1>7, <1>8 DEF GoodRecord
<1> QED BY <1>4, <1>6, <1>8, <1>9, <1>10, <1>11 DEF v

LEMMA FreshRecord ==
    /\ Fresh \in AnyRecord /\ GoodRecord(Fresh) /\ Fresh.version = 0 /\ Fresh.kept = {}
    /\ Fresh.share = NoToken /\ Fresh.version < MaxVersion
<1>1. Cardinality({}) = 0 BY FS_EmptySet
<1>2. 0 \in 0 .. MaxVersion /\ 0 <= Keep BY ArtifactsAssumption
<1>3. Fresh \in AnyRecord BY <1>2 DEF Fresh, AnyRecord
<1>4. GoodRecord(Fresh) BY <1>1, <1>2 DEF GoodRecord, Fresh
<1> QED BY <1>3, <1>4, ArtifactsAssumption DEF Fresh
-----------------------------------------------------------------------------
(* Records and requests by kind.                                           *)
LEMMA RecordKinds ==
    /\ \A r \in AnyRecord : r # Unborn /\ r # Gone
    /\ Unborn # Gone
BY DEF AnyRecord, Unborn, Gone

LEMMA RecordStates ==
    ASSUME NEW r \in AnyRecord \union {Unborn, Gone}
    PROVE  /\ r \notin {Unborn, Gone} <=> r \in AnyRecord
           /\ (IF r \notin {Unborn, Gone} THEN r.share ELSE NoToken) \in Tokens \union {NoToken}
<1>1. r \notin {Unborn, Gone} <=> r \in AnyRecord BY RecordKinds
<1>2. r \in AnyRecord => r.share \in Tokens \union {NoToken} BY DEF AnyRecord
<1> QED BY <1>1, <1>2

LiveIsStored(a) ==
    /\ Live(a) <=> record[a] \in AnyRecord
    /\ ~Live(a) => record[a] = Unborn \/ record[a] = Gone
    /\ Live(a) => record[a] # Unborn /\ record[a] # Gone
    /\ Share(a) \in Tokens \union {NoToken}
LEMMA LiveRecords ==
    ASSUME Shapes, NEW a \in ArtifactIds PROVE LiveIsStored(a)
<1>1. record[a] \in AnyRecord \union {Unborn, Gone} BY DEF Shapes
<1> QED BY <1>1, RecordStates DEF Live, Share, LiveIsStored
LEMMA LiveRecordsNext ==
    ASSUME Shapes', NEW a \in ArtifactIds PROVE LiveIsStored(a)'
<1>1. record'[a] \in AnyRecord \union {Unborn, Gone} BY DEF Shapes
<1> QED BY <1>1, RecordStates DEF Live, Share, LiveIsStored

CommitOps == {"files", "put"}
PlainOps == {"read", "delete", "wipe"}
LEMMA RequestKinds ==
    ASSUME NEW q \in AnyRequest
    PROVE  /\ q.op = "none" <=> q = Idle
           /\ q # Idle => q.on \in ArtifactIds
           /\ q.op \in PlainOps <=> q \in Plain
           /\ q.op \in LinkedOps <=> q \in Linked
           /\ q.op = "market" <=> q \in Listed
           /\ q.op = "prune" <=> q \in Pruning
           /\ q.op \in CommitOps <=> q \in Committing
<1>1. CASE q = Idle
  BY <1>1 DEF Idle, PlainOps, LinkedOps, CommitOps, Plain, Linked, Listed, Pruning, Committing
<1>2. CASE q \in Plain
  BY <1>2 DEF Idle, PlainOps, LinkedOps, CommitOps, Plain, Linked, Listed, Pruning, Committing
<1>3. CASE q \in Linked
  BY <1>3 DEF Idle, PlainOps, LinkedOps, CommitOps, Plain, Linked, Listed, Pruning, Committing
<1>4. CASE q \in Listed
  BY <1>4 DEF Idle, PlainOps, LinkedOps, CommitOps, Plain, Linked, Listed, Pruning, Committing
<1>5. CASE q \in Pruning
  BY <1>5 DEF Idle, PlainOps, LinkedOps, CommitOps, Plain, Linked, Listed, Pruning, Committing
<1>6. CASE q \in Committing
  BY <1>6 DEF Idle, PlainOps, LinkedOps, CommitOps, Plain, Linked, Listed, Pruning, Committing
<1> QED BY <1>1, <1>2, <1>3, <1>4, <1>5, <1>6 DEF AnyRequest

-----------------------------------------------------------------------------
(* Tokens.  In every step but the one that draws a token, the tokens that  *)
(* a request, a record or a pointer has afterwards it had before, or the   *)
(* request that takes the step had them.                                   *)
Passed(p, q, t) ==
    /\ Mentions(request[p], t) /\ request[p].on = q.on
    /\ request[p].op \in Visits => q.op \in Visits
Given(p, a, t) ==
    Mentions(request[p], t) /\ request[p].on = a /\ request[p].op \notin Visits
StillNew(p, q) ==
    /\ request[p].op \in New /\ request[p].token = q.token /\ request[p].on = q.on
    /\ record' = record /\ revoked' = revoked
Handed(p, q) ==
    /\ request' = [request EXCEPT ![p] = q] /\ q \in AnyRequest /\ drawn' = drawn
    /\ q.op \in New => StillNew(p, q)
    /\ \A t \in Tokens : Mentions(q, t) =>
         Share(q.on) = t \/ (q.op \in Visits /\ pointer[t] = q.on) \/ Passed(p, q, t)
    /\ \A a \in ArtifactIds, t \in Tokens : Share(a)' = t => Share(a) = t \/ Given(p, a, t)
    /\ \A a \in ArtifactIds, t \in Tokens : pointer'[t] = a =>
         pointer[t] = a \/ Given(p, a, t)
    /\ \A t \in revoked' : t \in revoked \/ \E a \in ArtifactIds : Share(a) = t

LEMMA OthersKeep ==
    ASSUME Shapes, NEW p \in Requests, NEW q, request' = [request EXCEPT ![p] = q]
    PROVE  request'[p] = q /\ \A o \in Requests \ {p} : request'[o] = request[o]
BY DEF Shapes

LEMMA TokensHanded ==
    ASSUME Shapes, Shapes', Owned, TokensFresh, NEW p \in Requests, NEW q, Handed(p, q)
    PROVE  Owned' /\ TokensFresh'
<1> DEFINE r == request[p]
<1>1. request'[p] = q /\ \A o \in Requests \ {p} : request'[o] = request[o]
  BY OthersKeep DEF Handed
<1>2. PICK f \in [Tokens -> ArtifactIds \union {Nowhere}] : OwnedBy(f) BY DEF Owned
<1>3. /\ \A t \in Tokens : pointer[t] # Nowhere => t \in drawn /\ f[t] = pointer[t]
      /\ \A a \in ArtifactIds : Share(a) # NoToken => Share(a) \in drawn /\ f[Share(a)] = a
      /\ \A o \in Requests, t \in Tokens :
           Mentions(request[o], t) => t \in drawn /\ f[t] = request[o].on
  BY <1>2 DEF OwnedBy
<1>4. \A o \in Requests : request[o] \in AnyRequest BY DEF Shapes
<1>5. \A a \in ArtifactIds, t \in Tokens : Given(p, a, t) => t \in drawn /\ f[t] = a
  BY <1>3 DEF Given
<1>6. \A t \in Tokens : Mentions(q, t) => t \in drawn /\ f[t] = q.on
  <2> SUFFICES ASSUME NEW t \in Tokens, Mentions(q, t) PROVE t \in drawn /\ f[t] = q.on
    OBVIOUS
  <2>1. q # Idle BY DEF Mentions, Idle, LinkedOps
  <2>2. q.on \in ArtifactIds BY <2>1, RequestKinds DEF Handed
  <2>3. t # NoToken /\ q.on # Nowhere BY <2>2, NamesAssumption
  <2>4. CASE Share(q.on) = t BY <1>3, <2>2, <2>3, <2>4
  <2>5. CASE q.op \in Visits /\ pointer[t] = q.on BY <1>3, <2>3, <2>5
  <2>6. CASE Passed(p, q, t) BY <1>3, <2>6 DEF Passed
  <2> QED BY <2>4, <2>5, <2>6 DEF Handed
<1>7. OwnedBy(f)'
  <2>1. ASSUME NEW t \in Tokens, pointer'[t] # Nowhere
        PROVE  t \in drawn' /\ f[t] = pointer'[t]
    <3>1. pointer'[t] \in ArtifactIds BY <2>1 DEF Shapes
    <3>2. pointer[t] = pointer'[t] \/ Given(p, pointer'[t], t) BY <3>1 DEF Handed
    <3>3. drawn' = drawn BY DEF Handed
    <3> QED BY <1>3, <1>5, <2>1, <3>1, <3>2, <3>3
  <2>2. ASSUME NEW a \in ArtifactIds, NEW t, Share(a)' = t, t # NoToken
        PROVE  t \in drawn' /\ f[t] = a
    <3>1. t \in Tokens
      <4>1. Share(a)' \in Tokens \union {NoToken} BY LiveRecordsNext DEF LiveIsStored
      <4> QED BY <2>2, <4>1
    <3>2. Share(a) = t \/ Given(p, a, t) BY <2>2, <3>1 DEF Handed
    <3>3. drawn' = drawn BY DEF Handed
    <3> QED BY <1>3, <1>5, <2>2, <3>1, <3>2, <3>3
  <2>3. ASSUME NEW o \in Requests, NEW t \in Tokens, Mentions(request'[o], t)
        PROVE  t \in drawn' /\ f[t] = request'[o].on
    <3>1. drawn' = drawn BY DEF Handed
    <3>2. CASE o = p BY <1>1, <1>6, <2>3, <3>1, <3>2
    <3>3. CASE o # p BY <1>1, <1>3, <2>3, <3>1, <3>3
    <3> QED BY <3>2, <3>3
  <2>4. \A a \in ArtifactIds : Share(a)' # NoToken => Share(a)' \in drawn' /\ f[Share(a)'] = a
    BY <2>2
  <2> QED BY <2>1, <2>3, <2>4 DEF OwnedBy, Mentions
<1>8. Owned' BY <1>7 DEF Owned
<1>9. ASSUME NEW o \in Requests, NEW s, s = request[o], s.op \in New, o # p
      PROVE  /\ s.token \notin revoked' /\ Share(s.on)' # s.token
             /\ Mentions(q, s.token) => q.op \in Visits
  <2>1. s \in Linked /\ s.op \notin Visits /\ Mentions(s, s.token)
    BY <1>4, <1>9, RequestKinds DEF New, LinkedOps, Visits, Mentions
  <2>2. s.token \in Tokens /\ s.on \in ArtifactIds BY <2>1 DEF Linked
  <2>3. s.token \notin revoked /\ Share(s.on) # s.token
        /\ (Mentions(r, s.token) => r.op \in Visits)
    BY <1>9 DEF TokensFresh, FreshToken
  <2>4. f[s.token] = s.on BY <1>3, <1>9, <2>1, <2>2
  <2>5. \A a \in ArtifactIds : Share(a) # s.token
    BY <1>3, <2>2, <2>3, <2>4, NamesAssumption
  <2>6. s.token \notin revoked' BY <2>3, <2>5 DEF Handed
  <2>7. \A a \in ArtifactIds : ~Given(p, a, s.token) BY <2>3 DEF Given
  <2>8. Share(s.on)' # s.token BY <2>2, <2>5, <2>7 DEF Handed
  <2>9. ASSUME Mentions(q, s.token) PROVE q.op \in Visits
    <3>1. q # Idle BY <2>9 DEF Mentions, Idle, LinkedOps
    <3>2. q.on \in ArtifactIds BY <3>1, RequestKinds DEF Handed
    <3>3. q.op \in Visits \/ Passed(p, q, s.token) BY <2>2, <2>5, <2>9, <3>2 DEF Handed
    <3> QED BY <2>3, <3>3 DEF Passed
  <2> QED BY <2>6, <2>8, <2>9
<1>10. ASSUME NEW o \in Requests PROVE FreshToken(o)'
  <2>1. CASE o # p
    <3>1. PICK s : s = request[o] OBVIOUS
    <3>2. request'[o] = s BY <1>1, <2>1, <3>1
    <3>3. ASSUME s.op \in New
          PROVE  /\ s.token \notin revoked' /\ Share(s.on)' # s.token
                 /\ \A k \in Requests \ {o} : Mentions(request'[k], s.token) => request'[k].op \in Visits
      <4>1. \A k \in Requests \ {o} : Mentions(request[k], s.token) => request[k].op \in Visits
        BY <3>1, <3>3 DEF TokensFresh, FreshToken
      <4> QED BY <1>1, <1>9, <2>1, <3>1, <3>3, <4>1
    <3> QED BY <3>2, <3>3 DEF FreshToken, Mentions, Share, Live
  <2>2. CASE o = p
    <3>1. CASE q.op \notin New BY <1>1, <2>2, <3>1 DEF FreshToken
    <3>2. CASE q.op \in New
      <4>1. StillNew(p, q) BY <3>2 DEF Handed
      <4>2. FreshToken(p) /\ r.op \in New BY <4>1 DEF TokensFresh, StillNew
      <4>3. /\ q.token \notin revoked' /\ Share(q.on)' # q.token
            /\ \A k \in Requests \ {p} : Mentions(request'[k], q.token) => request'[k].op \in Visits
        BY <1>1, <4>1, <4>2 DEF FreshToken, StillNew, Share, Live
      <4> QED BY <1>1, <2>2, <4>3 DEF FreshToken, Mentions, Share, Live
    <3> QED BY <3>1, <3>2
  <2> QED BY <2>1, <2>2
<1> QED BY <1>8, <1>10 DEF TokensFresh

-----------------------------------------------------------------------------
(* What a step may do to a record while other requests are under way.      *)
SameVersions(a) ==
    /\ Live(a) /\ record'[a] \in AnyRecord
    /\ record'[a].version = record[a].version /\ record'[a].kept = record[a].kept
NewVersion(a) ==
    \/ record[a] = Unborn
    \/ /\ Live(a) /\ record'[a].version = record[a].version + 1
       /\ record'[a].kept \subseteq record[a].kept \union {record[a].version + 1}
Advance(a) ==
    \/ record'[a] = record[a]
    \/ record'[a] = Gone
    \/ SameVersions(a)
    \/ record'[a] \in AnyRecord /\ (a \in raced' \/ NewVersion(a))

FilesKept(s) ==
    s.op = "put" /\ s.on \notin raced' /\ Current(s) /\ s.next.version + 1 \in files[s.on] =>
      s.next.version + 1 \in files'[s.on]
PointerKept(s) ==
    s.op = "share" /\ s.on \notin raced' /\ pointer[s.token] = s.on => pointer'[s.token] = s.on
StaysDropped(s) ==
    s.op = "forget" /\ s.on \notin raced' /\ Share(s.on) # s.token => Share(s.on)' # s.token

LEMMA RecordNumbers ==
    ASSUME NEW r \in AnyRecord
    PROVE  r.version \in Nat /\ r.version <= MaxVersion /\ r.kept \in SUBSET Versions
           /\ r.kept \in SUBSET Nat
BY ArtifactsAssumption DEF AnyRecord, Versions

LEMMA CommitNumbers ==
    ASSUME NEW q \in AnyRequest, q.op \in CommitOps
    PROVE  /\ q.on \in ArtifactIds /\ q.next \in AnyRecord /\ q.base \in AnyRecord \union {Unborn}
           /\ q.next.version \in Nat
           /\ q.base # Unborn => q.base.version \in Nat
<1>1. q \in Committing BY RequestKinds
<1>2. q.on \in ArtifactIds /\ q.next \in AnyRecord /\ q.base \in AnyRecord \union {Unborn}
  BY <1>1 DEF Committing
<1> QED BY <1>2, RecordNumbers

(* What a request knows survives such a step of another one.               *)
LEMMA KnowledgeKeeps ==
    ASSUME Shapes, Shapes', raced \subseteq raced',
           NEW s \in AnyRequest, s # Idle, Quiet(s), Knows(s), Advance(s.on),
           FilesKept(s), PointerKept(s), StaysDropped(s)
    PROVE  Quiet(s)' /\ Knows(s)'
<1> DEFINE a == s.on
<1>1. a \in ArtifactIds BY RequestKinds
<1>2. LiveIsStored(a) /\ LiveIsStored(a)' BY <1>1, LiveRecords, LiveRecordsNext
<1>3. record'[a] = Unborn => record[a] = Unborn
  BY <1>2, RecordKinds DEF Advance, SameVersions
<1>4. Quiet(s)' BY <1>3 DEF Quiet
<1>5. OldIsOld(s)'
  <2> SUFFICES ASSUME s.op = "prune", a \notin raced', Live(a)', NEW n \in s.old
               PROVE  n \notin record'[a].kept /\ n < record'[a].version
    BY DEF OldIsOld
  <2>1. n \in Nat
    <3>1. s \in Pruning BY RequestKinds
    <3> QED BY <3>1, ArtifactsAssumption DEF Pruning, Versions
  <2>2. record[a] # Unborn BY DEF Quiet, Idle
  <2>3. Live(a) BY <1>2, <2>2, RecordKinds DEF LiveIsStored, Advance, SameVersions, NewVersion
  <2>4. n \notin record[a].kept /\ n < record[a].version BY <2>3 DEF Knows, OldIsOld
  <2>5. record[a].version \in Nat BY <1>2, <2>3, RecordNumbers DEF LiveIsStored
  <2>6. record'[a] # Gone BY <1>2 DEF LiveIsStored
  <2> QED BY <2>1, <2>2, <2>4, <2>5, <2>6 DEF Advance, SameVersions, NewVersion
<1>6. WipesTheGone(s)'
  <2> SUFFICES ASSUME s.op = "wipe", a \notin raced' PROVE record'[a] = Gone
    BY DEF WipesTheGone
  <2>1. record[a] = Gone BY DEF Knows, WipesTheGone
  <2> QED BY <1>2, <2>1, RecordKinds DEF LiveIsStored, Advance, SameVersions, NewVersion
<1>7. ASSUME s.op \in CommitOps, a \notin raced', Live(a)', s.base # Unborn
      PROVE  /\ s.base.version <= record'[a].version
             /\ s.base.version = record'[a].version => Live(a) /\ s.base.version = record[a].version
  <2>1. s.base.version \in Nat BY <1>7, CommitNumbers
  <2>2. record[a] # Unborn BY <1>7 DEF Quiet
  <2>3. Live(a) /\ record'[a] # Gone
    BY <1>2, <1>7, <2>2, RecordKinds DEF LiveIsStored, Advance, SameVersions, NewVersion
  <2>4. s.base.version <= record[a].version BY <1>7, <2>3 DEF Knows, BaseIsPast, CommitOps
  <2>5. record[a].version \in Nat BY <1>2, <2>3, RecordNumbers DEF LiveIsStored
  <2> QED BY <1>7, <2>1, <2>2, <2>3, <2>4, <2>5 DEF Advance, SameVersions, NewVersion
<1>8. BaseIsPast(s)' BY <1>7 DEF BaseIsPast, CommitOps
<1>9. FilesReady(s)'
  <2> SUFFICES ASSUME s.op = "put", a \notin raced', Current(s)'
               PROVE  s.next.version + 1 \in files'[a]
    BY DEF FilesReady
  <2>1. Current(s) BY <1>3, <1>7 DEF Current, CommitOps
  <2>2. s.next.version + 1 \in files[a] BY <2>1 DEF Knows, FilesReady
  <2> QED BY <2>1, <2>2 DEF FilesKept
<1>10. PointerFirst(s)' BY DEF Knows, PointerFirst, PointerKept
<1>11. RecordFirst(s)' BY DEF Knows, RecordFirst, StaysDropped
<1> QED BY <1>4, <1>5, <1>6, <1>8, <1>9, <1>10, <1>11 DEF Knows

(* A step of p that leaves the request q keeps the invariant if no other   *)
(* request is disturbed, the tokens keep their owners and q is in order.   *)
Calm(p, q) ==
    /\ request' = [request EXCEPT ![p] = q] /\ raced \subseteq raced'
    /\ \A a \in ArtifactIds : Advance(a)
    /\ \A o \in Requests \ {p} :
         FilesKept(request[o]) /\ PointerKept(request[o]) /\ StaysDropped(request[o])
Safe == VersionsReadable /\ LinkWorks /\ RevokedStays
LEMMA CalmKeeps ==
    ASSUME Inv, Shapes', NEW p \in Requests, NEW q, Calm(p, q), Owned', TokensFresh',
           q.op \in CommitOps => GoodCommit(q), Quiet(q)', Knows(q)',
           RecordsGood', PointersBorn', Safe'
    PROVE  Inv'
<1>1. request'[p] = q /\ \A o \in Requests \ {p} : request'[o] = request[o]
  BY OthersKeep DEF Calm, Inv
<1>2. ASSUME NEW o \in Requests, NEW s, s = request'[o] PROVE Quiet(s)' /\ Knows(s)'
  <2>1. CASE o = p BY <1>1, <1>2, <2>1
  <2>2. CASE o # p
    <3>1. s = request[o] BY <1>1, <1>2, <2>2
    <3>2. s \in AnyRequest BY <3>1 DEF Inv, Shapes
    <3>3. CASE s = Idle
      BY <3>3 DEF Idle, Quiet, Knows, OldIsOld, WipesTheGone, BaseIsPast, FilesReady,
                  PointerFirst, RecordFirst
    <3>4. CASE s # Idle
      <4>1. s.on \in ArtifactIds BY <3>2, <3>4, RequestKinds
      <4>2. Quiet(s) /\ Knows(s) BY <3>1 DEF Inv, UnbornQuiet, Known
      <4>3. FilesKept(s) /\ PointerKept(s) /\ StaysDropped(s) BY <2>2, <3>1 DEF Calm
      <4>4. Advance(s.on) /\ raced \subseteq raced' BY <4>1 DEF Calm
      <4>5. Shapes BY DEF Inv
      <4> QED BY <3>2, <3>4, <4>2, <4>3, <4>4, <4>5, KnowledgeKeeps
    <3> QED BY <3>3, <3>4
  <2> QED BY <2>1, <2>2
<1>3. UnbornQuiet' BY <1>2 DEF UnbornQuiet, Quiet
<1>4. Known'
  BY <1>2 DEF Known, Knows, OldIsOld, WipesTheGone, BaseIsPast, FilesReady, PointerFirst,
              RecordFirst, Current, Live, Share
<1>5. CommitsGood' BY <1>1 DEF Inv, CommitsGood, CommitOps
<1> QED BY <1>3, <1>4, <1>5 DEF Inv, Safe

Served(p, q) == Calm(p, q) /\ Handed(p, q)
LEMMA StepKeeps ==
    ASSUME Inv, Shapes', NEW p \in Requests, NEW q, Served(p, q),
           q.op \in CommitOps => GoodCommit(q), Quiet(q)', Knows(q)',
           RecordsGood', PointersBorn', Safe'
    PROVE  Inv'
<1>1. Owned' /\ TokensFresh' BY TokensHanded DEF Inv, Served
<1> QED BY <1>1, CalmKeeps DEF Served

(* A step that leaves the records alone.                                   *)
LEMMA RecordStill ==
    ASSUME Inv, record' = record, raced \subseteq raced'
    PROVE  /\ RecordsGood'
           /\ \A a \in ArtifactIds : Advance(a) /\ Share(a)' = Share(a)
           /\ \A s : StaysDropped(s)
           /\ files' = files => VersionsReadable'
           /\ revoked' = revoked => RevokedStays'
           /\ pointer' = pointer => LinkWorks' /\ PointersBorn'
BY DEF Inv, RecordsGood, Live, Share, Advance, StaysDropped, VersionsReadable, RevokedStays,
       LinkWorks, PointersBorn

(* A step that changes nothing but the request of p.                       *)
LEMMA QuietStep ==
    ASSUME Inv, NEW p \in Requests, NEW q \in AnyRequest,
           request' = [request EXCEPT ![p] = q],
           UNCHANGED <<record, files, pointer, drawn, revoked, raced>>,
           q.op \notin New, q.op \in CommitOps => GoodCommit(q), Quiet(q), Knows(q),
           \A t \in Tokens : Mentions(q, t) =>
             Share(q.on) = t \/ (q.op \in Visits /\ pointer[t] = q.on) \/ Passed(p, q, t)
    PROVE  Inv'
<1>1. Shapes' BY DEF Inv, Shapes
<1>2. Handed(p, q) BY DEF Handed, Share, Live
<1>3. \A s : FilesKept(s) /\ PointerKept(s) BY DEF FilesKept, PointerKept
<1>4. Served(p, q) BY <1>2, <1>3, RecordStill DEF Served, Calm, Handed
<1>5. Quiet(q)' BY DEF Quiet
<1>6. Knows(q)' BY DEF Knows, OldIsOld, WipesTheGone, BaseIsPast, FilesReady, PointerFirst,
              RecordFirst, Current, Live, Share
<1>7. RecordsGood' /\ PointersBorn' /\ Safe' BY RecordStill DEF Safe
<1> QED BY <1>1, <1>4, <1>5, <1>6, <1>7, StepKeeps

-----------------------------------------------------------------------------
(* The steps that only read.                                               *)
LEMMA KnowsNothing ==
    ASSUME NEW q, q.op \notin {"prune", "wipe", "files", "put", "share", "forget"}
    PROVE  Knows(q) /\ Knows(q)'
BY DEF Knows, OldIsOld, WipesTheGone, BaseIsPast, FilesReady, PointerFirst, RecordFirst

LEMMA IdleKnows ==
    /\ Idle \in AnyRequest /\ Idle.op = "none" /\ Quiet(Idle) /\ Quiet(Idle)'
    /\ Knows(Idle) /\ Knows(Idle)' /\ \A t : ~Mentions(Idle, t)
<1>1. Idle.op = "none" /\ Idle \in AnyRequest BY DEF Idle, AnyRequest
<1>2. Knows(Idle) /\ Knows(Idle)' BY <1>1, KnowsNothing
<1> QED BY <1>1, <1>2 DEF Quiet, Mentions, LinkedOps

LEMMA IdleStep ==
    ASSUME Inv, NEW p \in Requests, request' = [request EXCEPT ![p] = Idle],
           UNCHANGED <<record, files, pointer, drawn, revoked, raced>>
    PROVE  Inv'
<1>1. Idle.op \notin New /\ Idle.op \notin CommitOps BY IdleKnows DEF New, CommitOps
<1>2. Idle \in AnyRequest /\ Quiet(Idle) /\ Knows(Idle) /\ \A t : ~Mentions(Idle, t)
  BY IdleKnows
<1> QED BY <1>1, <1>2, QuietStep

(* A request on a live artifact that carries at most the share it read.    *)
LEMMA LookStep ==
    ASSUME Inv, NEW p \in Requests, NEW q \in Plain \union Linked \union Listed,
           request' = [request EXCEPT ![p] = q],
           UNCHANGED <<record, files, pointer, drawn, revoked, raced>>,
           q.op \notin New \union {"wipe", "forget"},
           record[q.on] # Unborn,
           q \notin Plain => \/ Share(q.on) = q.token
                             \/ q.op \in Visits /\ pointer[q.token] = q.on
                             \/ Passed(p, q, q.token)
    PROVE  Inv'
<1>1. q \in AnyRequest BY DEF AnyRequest
<1>2. q.op \in PlainOps \union LinkedOps \union {"market"}
  BY DEF Plain, Linked, Listed, PlainOps
<1>3. q.op \notin CommitOps /\ q.op # "prune" BY <1>2 DEF CommitOps, PlainOps, LinkedOps
<1>4. Knows(q) BY <1>3, KnowsNothing DEF New, CommitOps
<1>5. Quiet(q) BY DEF Quiet
<1>6. \A t \in Tokens : Mentions(q, t) => q.token = t /\ q \notin Plain
  BY <1>2, <1>3 DEF Mentions, CommitOps, LinkedOps, PlainOps, Plain
<1> QED BY <1>1, <1>3, <1>4, <1>5, <1>6, QuietStep

LEMMA CreateKeeps ==
    ASSUME Inv, NEW p \in Requests, NEW a \in ArtifactIds, Create(p, a) PROVE Inv'
<1> DEFINE q == [op |-> "files", on |-> a, base |-> Unborn, next |-> Fresh]
<1>1. q \in Committing /\ q.op = "files" /\ q.on = a /\ q.base = Unborn /\ q.next = Fresh
  BY FreshRecord DEF Committing
<1>2. request' = [request EXCEPT ![p] = q] BY DEF Create, Begin
<1> HIDE DEF q
<1>3. q \in AnyRequest BY <1>1 DEF AnyRequest
<1>4. GoodCommit(q) BY <1>1, FreshRecord DEF GoodCommit
<1>5. Quiet(q) BY <1>1 DEF Quiet
<1>6. Knows(q)
  BY <1>1 DEF Knows, OldIsOld, WipesTheGone, BaseIsPast, FilesReady, PointerFirst, RecordFirst
<1>7. \A t \in Tokens : ~Mentions(q, t)
  BY <1>1, FreshRecord, NamesAssumption DEF Mentions, LinkedOps
<1> QED BY <1>1, <1>2, <1>3, <1>4, <1>5, <1>6, <1>7, QuietStep DEF Create, New

LEMMA ReadAgainKeeps ==
    ASSUME Inv, NEW p \in Requests, ReadAgain(p) PROVE Inv'
<1> DEFINE a == request[p].on
           q == [op |-> "files", on |-> a, base |-> record[a], next |-> record[a]]
<1>1. CASE ~(Live(a) /\ record[a].version < MaxVersion) BY <1>1, IdleStep DEF ReadAgain, End
<1>2. CASE Live(a) /\ record[a].version < MaxVersion
  <2>1. request[p] \in AnyRequest /\ request[p].op = "read" BY DEF ReadAgain, Inv, Shapes
  <2>2. a \in ArtifactIds BY <2>1, RequestKinds DEF Plain, PlainOps
  <2>3. record[a] \in AnyRecord /\ record[a] # Unborn
    BY <1>2, <2>2, LiveRecords DEF LiveIsStored, Inv
  <2>4. q \in Committing /\ q.op = "files" /\ q.on = a /\ q.base = record[a] /\ q.next = record[a]
    BY <2>2, <2>3 DEF Committing
  <2>5. request' = [request EXCEPT ![p] = q] BY <1>2 DEF ReadAgain, Go
  <2> HIDE DEF q
  <2>6. q \in AnyRequest BY <2>4 DEF AnyRequest
  <2>7. GoodCommit(q) BY <1>2, <2>2, <2>4 DEF GoodCommit, Inv, RecordsGood
  <2>8. Quiet(q) BY <2>3, <2>4 DEF Quiet
  <2>9. Knows(q)
    <3>1. record[a].version <= record[a].version BY <2>3, RecordNumbers
    <3> QED BY <2>4, <3>1 DEF Knows, OldIsOld, WipesTheGone, BaseIsPast, FilesReady,
                               PointerFirst, RecordFirst
  <2>10. \A t \in Tokens : Mentions(q, t) => Share(q.on) = t
    BY <1>2, <2>4 DEF Mentions, LinkedOps, Share
  <2> QED BY <2>4, <2>5, <2>6, <2>7, <2>8, <2>9, <2>10, QuietStep DEF ReadAgain, New
<1> QED BY <1>1, <1>2

LEMMA LooksKeep ==
    ASSUME Inv, NEW p \in Requests, NEW a \in ArtifactIds,
           \/ Write(p, a) \/ Remove(p, a) \/ ShareAgain(p, a) \/ Revoke(p, a)
           \/ \E m \in BOOLEAN : Market(p, a, m)
    PROVE  Inv'
<1>1. Live(a)
  BY DEF Write, Remove, ShareAgain, Revoke, Market
<1>2. record[a] # Unborn /\ Share(a) \in Tokens \union {NoToken}
  BY <1>1, LiveRecords DEF LiveIsStored, Inv
<1>3. UNCHANGED <<record, files, pointer, drawn, revoked, raced>>
  BY DEF Write, Remove, ShareAgain, Revoke, Market
<1>4. ASSUME NEW q \in Plain, q.op \in {"read", "delete"}, q.on = a,
             request' = [request EXCEPT ![p] = q]
      PROVE  Inv'
  BY <1>2, <1>3, <1>4, LookStep DEF New
<1>5. ASSUME NEW q \in Linked \union Listed, q.op \in {"unlink", "check", "clear", "market"},
             q.on = a, q.token = Share(a), request' = [request EXCEPT ![p] = q]
      PROVE  Inv'
  BY <1>2, <1>3, <1>5, LookStep DEF New
<1>6. CASE Write(p, a)
  <2>1. [op |-> "read", on |-> a] \in Plain BY DEF Plain
  <2> QED BY <1>4, <1>6, <2>1 DEF Write, Begin
<1>7. CASE Remove(p, a)
  <2>1. CASE Share(a) # NoToken
    <3>1. [op |-> "unlink", on |-> a, token |-> Share(a)] \in Linked
      BY <1>2, <2>1 DEF Linked, LinkedOps
    <3> QED BY <1>5, <1>7, <2>1, <3>1 DEF Remove, Begin
  <2>2. CASE Share(a) = NoToken
    <3>1. [op |-> "delete", on |-> a] \in Plain BY DEF Plain
    <3> QED BY <1>4, <1>7, <2>2, <3>1 DEF Remove, Begin
  <2> QED BY <2>1, <2>2
<1>8. CASE ShareAgain(p, a)
  <2>1. [op |-> "check", on |-> a, token |-> Share(a)] \in Linked
    BY <1>2, <1>8 DEF Linked, LinkedOps, ShareAgain
  <2> QED BY <1>5, <1>8, <2>1 DEF ShareAgain, Begin
<1>9. CASE Revoke(p, a)
  <2>1. [op |-> "clear", on |-> a, token |-> Share(a)] \in Linked
    BY <1>2, <1>9 DEF Linked, LinkedOps, Revoke
  <2> QED BY <1>5, <1>9, <2>1 DEF Revoke, Begin, RevokeRequest, RevokeStart
<1>10. ASSUME NEW m \in BOOLEAN, Market(p, a, m) PROVE Inv'
  <2>1. [op |-> "market", on |-> a, token |-> Share(a), market |-> m] \in Listed
    BY <1>2, <1>10 DEF Listed, Market
  <2> QED BY <1>5, <1>10, <2>1 DEF Market, Begin
<1> QED BY <1>6, <1>7, <1>8, <1>9, <1>10

(* The request of p and what it is about, when it carries a token.         *)
LEMMA LinkedRequest ==
    ASSUME Inv, NEW p \in Requests, request[p].op \in LinkedOps
    PROVE  /\ request[p] \in Linked /\ request[p] # Idle
           /\ request[p].on \in ArtifactIds /\ request[p].token \in Tokens
           /\ Mentions(request[p], request[p].token)
           /\ record[request[p].on] # Unborn
<1>1. request[p] \in AnyRequest BY DEF Inv, Shapes
<1>2. request[p] \in Linked BY <1>1, RequestKinds
<1>3. request[p] # Idle BY DEF Idle, LinkedOps
<1>4. Quiet(request[p]) BY DEF Inv, UnbornQuiet
<1> QED BY <1>2, <1>3, <1>4 DEF Linked, Mentions, Quiet, LinkedOps

LEMMA CheckPointerKeeps ==
    ASSUME Inv, NEW p \in Requests, CheckPointer(p) PROVE Inv'
<1> DEFINE r == request[p]
           q == [r EXCEPT !.op = "restore"]
<1>1. r.op = "check" /\ r.op \in LinkedOps BY DEF CheckPointer, LinkedOps
<1>2. r \in Linked /\ r.token \in Tokens /\ Mentions(r, r.token) /\ record[r.on] # Unborn
  BY <1>1, LinkedRequest
<1>3. CASE pointer[r.token] # Nowhere BY <1>3, IdleStep DEF CheckPointer, End
<1>4. CASE pointer[r.token] = Nowhere
  <2>1. q \in Linked /\ q.op = "restore" /\ q.on = r.on /\ q.token = r.token
    BY <1>2 DEF Linked, LinkedOps
  <2>2. request' = [request EXCEPT ![p] = q] BY <1>4 DEF CheckPointer, Go
  <2> HIDE DEF q
  <2>3. Passed(p, q, q.token) BY <1>1, <1>2, <2>1 DEF Passed, Visits
  <2> QED BY <1>2, <2>1, <2>2, <2>3, LookStep DEF CheckPointer, New
<1> QED BY <1>3, <1>4

LEMMA VisitKeeps ==
    ASSUME Inv, NEW p \in Requests, NEW t \in Tokens, Visit(p, t) PROVE Inv'
<1> DEFINE q == [op |-> "resolve", on |-> pointer[t], token |-> t]
<1>1. pointer[t] \in ArtifactIds /\ record[pointer[t]] # Unborn
  BY DEF Visit, Inv, Shapes, PointersBorn
<1>2. q \in Linked /\ q.op = "resolve" /\ q.on = pointer[t] /\ q.token = t
  BY <1>1 DEF Linked, LinkedOps
<1>3. request' = [request EXCEPT ![p] = q] BY DEF Visit, Begin
<1> HIDE DEF q
<1> QED BY <1>1, <1>2, <1>3, LookStep DEF Visit, New, Visits

LEMMA ResolveKeeps ==
    ASSUME Inv, NEW p \in Requests, Resolve(p) PROVE Inv'
<1> DEFINE r == request[p]
           q == [r EXCEPT !.op = "stale"]
<1>1. r.op = "resolve" /\ r.op \in LinkedOps BY DEF Resolve, LinkedOps
<1>2. r \in Linked /\ r.token \in Tokens /\ Mentions(r, r.token) /\ record[r.on] # Unborn
  BY <1>1, LinkedRequest
<1>3. CASE Share(r.on) = r.token BY <1>3, IdleStep DEF Resolve, End
<1>4. CASE Share(r.on) # r.token
  <2>1. q \in Linked /\ q.op = "stale" /\ q.on = r.on /\ q.token = r.token
    BY <1>2 DEF Linked, LinkedOps
  <2>2. request' = [request EXCEPT ![p] = q] BY <1>4 DEF Resolve, Go
  <2> HIDE DEF q
  <2>3. Passed(p, q, q.token) BY <1>1, <1>2, <2>1 DEF Passed, Visits
  <2> QED BY <1>2, <2>1, <2>2, <2>3, LookStep DEF Resolve, New
<1> QED BY <1>3, <1>4

-----------------------------------------------------------------------------
(* The files of versions.                                                  *)
LEMMA CommitRequest ==
    ASSUME Inv, NEW p \in Requests, request[p].op \in CommitOps
    PROVE  /\ request[p] \in Committing /\ request[p] \in AnyRequest /\ request[p] # Idle
           /\ request[p].on \in ArtifactIds /\ request[p].next \in AnyRecord
           /\ request[p].next.version \in Nat
           /\ GoodCommit(request[p]) /\ Quiet(request[p]) /\ Knows(request[p])
<1>1. request[p] \in AnyRequest BY DEF Inv, Shapes
<1>2. request[p] \in Committing BY <1>1, RequestKinds
<1>3. request[p] # Idle BY DEF Idle, CommitOps
<1>4. GoodCommit(request[p]) BY DEF Inv, CommitsGood, CommitOps
<1>5. Quiet(request[p]) /\ Knows(request[p]) BY DEF Inv, UnbornQuiet, Known
<1> QED BY <1>1, <1>2, <1>3, <1>4, <1>5, CommitNumbers

LEMMA WriteFilesKeeps ==
    ASSUME Inv, NEW p \in Requests, WriteFiles(p) PROVE Inv'
<1> DEFINE r == request[p]
           a == r.on
           v == r.next.version + 1
<1>0. PICK q : q = [r EXCEPT !.op = "put"] OBVIOUS
<1>1. r.op = "files" /\ r.op \in CommitOps BY DEF WriteFiles, CommitOps
<1>2. /\ r \in Committing /\ r # Idle /\ a \in ArtifactIds
      /\ r.next \in AnyRecord /\ r.next.version \in Nat
      /\ GoodCommit(r) /\ Quiet(r) /\ Knows(r)
  BY <1>1, CommitRequest
<1>3. /\ q \in Committing /\ q.op = "put" /\ q.on = a /\ q.base = r.base /\ q.next = r.next
  BY <1>0, <1>2 DEF Committing
<1>4. /\ request' = [request EXCEPT ![p] = q]
      /\ files' = [files EXCEPT ![a] = files[a] \union {v}]
      /\ record' = record /\ pointer' = pointer /\ drawn' = drawn /\ revoked' = revoked
      /\ raced' = raced
  BY <1>0 DEF WriteFiles, Go, WrittenFiles, AllFiles
<1>5. v \in Versions BY <1>2, ArtifactsAssumption DEF GoodCommit, Versions
<1>6. q \in AnyRequest BY <1>3 DEF AnyRequest
<1>7. Shapes'
  <2>1. files' \in [ArtifactIds -> SUBSET Versions] BY <1>2, <1>4, <1>5 DEF Inv, Shapes
  <2> QED BY <1>4, <1>6, <2>1 DEF Inv, Shapes
<1>8. \A b \in ArtifactIds : files[b] \subseteq files'[b] BY <1>2, <1>4 DEF Inv, Shapes
<1>9. v \in files'[a] BY <1>2, <1>4 DEF Inv, Shapes
<1>10. Handed(p, q)
  <2>1. \A t \in Tokens : Mentions(q, t) => Passed(p, q, t)
    BY <1>1, <1>3 DEF Mentions, Passed, LinkedOps, Visits
  <2> QED BY <1>3, <1>4, <1>6, <2>1, RecordStill DEF Handed, New
<1>11. \A o \in Requests : FilesKept(request[o]) /\ PointerKept(request[o])
  <2> SUFFICES ASSUME NEW o \in Requests PROVE FilesKept(request[o]) /\ PointerKept(request[o])
    OBVIOUS
  <2>1. request[o].op = "put" => request[o].on \in ArtifactIds
    <3>1. request[o] \in AnyRequest BY DEF Inv, Shapes
    <3> QED BY <3>1, RequestKinds DEF Idle
  <2> QED BY <1>4, <1>8, <2>1 DEF FilesKept, PointerKept
<1>12. Served(p, q) BY <1>4, <1>10, <1>11, RecordStill DEF Served, Calm, Handed
<1>13. GoodCommit(q) BY <1>2, <1>3 DEF GoodCommit
<1>14. Quiet(q)' BY <1>1, <1>2, <1>3, <1>4 DEF Quiet
<1>15. Knows(q)'
  BY <1>1, <1>2, <1>3, <1>4, <1>9 DEF Knows, OldIsOld, WipesTheGone, BaseIsPast, FilesReady,
        PointerFirst, RecordFirst, Live
<1>16. VersionsReadable' BY <1>4, <1>8 DEF Inv, VersionsReadable, Live
<1> QED BY <1>4, <1>7, <1>12, <1>13, <1>14, <1>15, <1>16, RecordStill, StepKeeps DEF Safe

LEMMA PruneKeeps ==
    ASSUME Inv, NEW p \in Requests, Prune(p) PROVE Inv'
<1> DEFINE r == request[p]
           a == r.on
           n == Min(r.old)
<1>0. PICK q : q = IF Cardinality(r.old) = 1 THEN Idle ELSE [r EXCEPT !.old = @ \ {n}]
  OBVIOUS
<1>1. r.op = "prune" /\ r \in AnyRequest BY DEF Prune, Inv, Shapes
<1>2. r \in Pruning /\ r # Idle BY <1>1, RequestKinds DEF Idle
<1>3. a \in ArtifactIds /\ r.old \in SUBSET Versions /\ r.old # {} BY <1>2 DEF Pruning
<1>4. n \in r.old BY <1>3, HasMin
<1>5. PICK removed \in SUBSET {n} : files' = [files EXCEPT ![a] = @ \ removed]
  BY DEF Prune
<1>6. /\ request' = [request EXCEPT ![p] = q]
      /\ record' = record /\ pointer' = pointer /\ drawn' = drawn /\ revoked' = revoked
      /\ raced' = raced
  BY <1>0 DEF Prune, Go, End
<1>7. /\ Quiet(r) /\ OldIsOld(r) /\ record[a] # Unborn
  BY <1>1, <1>2 DEF Inv, UnbornQuiet, Known, Quiet, Knows
<1>8. q \in AnyRequest /\ Quiet(q)' /\ Knows(q)' /\ q.op \notin CommitOps \union New
      /\ \A t : ~Mentions(q, t)
  <2>1. CASE Cardinality(r.old) = 1 BY <1>0, <2>1, IdleKnows DEF New, CommitOps
  <2>2. CASE Cardinality(r.old) # 1
    <3>1. q = [r EXCEPT !.old = @ \ {n}] BY <1>0, <2>2
    <3>2. r.old # {n}
      <4>1. \A x : Cardinality({x}) = 1 BY FS_Singleton
      <4> QED BY <2>2, <4>1
    <3>3. r.old \ {n} # {} BY <1>4, <3>2
    <3>4. q \in Pruning /\ q.op = "prune" /\ q.on = a /\ q.old = r.old \ {n}
      BY <1>1, <1>2, <1>3, <3>1, <3>3 DEF Pruning
    <3>5. q \in AnyRequest BY <3>4 DEF AnyRequest
    <3>6. Quiet(q)' BY <1>6, <1>7, <3>4 DEF Quiet
    <3>7. Knows(q)'
      BY <1>1, <1>6, <1>7, <3>4 DEF Knows, OldIsOld, WipesTheGone, BaseIsPast, FilesReady,
                PointerFirst, RecordFirst, Live
    <3> QED BY <3>4, <3>5, <3>6, <3>7 DEF Mentions, LinkedOps, CommitOps, New
  <2> QED BY <2>1, <2>2
<1>9. Shapes'
  <2>1. files' \in [ArtifactIds -> SUBSET Versions] BY <1>3, <1>5 DEF Inv, Shapes
  <2> QED BY <1>6, <1>8, <2>1 DEF Inv, Shapes
<1>10. \A b \in ArtifactIds : \A m : m \in files[b] /\ m \notin files'[b] => b = a /\ m = n
  BY <1>3, <1>5 DEF Inv, Shapes
<1>11. Handed(p, q) BY <1>6, <1>8, RecordStill DEF Handed
<1>12. ASSUME a \notin raced, Live(a)
       PROVE  n \notin record[a].kept /\ n < record[a].version
  BY <1>1, <1>4, <1>7, <1>12 DEF OldIsOld
<1>13. ASSUME NEW s \in AnyRequest, s.op = "put", GoodCommit(s), s.on = a, a \notin raced,
              Current(s)
       PROVE  s.next.version + 1 # n
  <2>1. Live(a) /\ s.base # Unborn /\ s.base.version = record[a].version
    BY <1>7, <1>13 DEF Current
  <2>2. s.base = s.next BY <2>1, <1>13 DEF GoodCommit
  <2>3. n < record[a].version /\ n \in Nat
    BY <1>3, <1>4, <1>12, <1>13, <2>1, ArtifactsAssumption DEF Versions
  <2>4. s.next.version \in Nat BY <1>13, CommitNumbers DEF CommitOps
  <2> QED BY <2>1, <2>2, <2>3, <2>4
<1>14. ASSUME NEW o \in Requests, NEW s, s = request[o] PROVE FilesKept(s) /\ PointerKept(s)
  <2>1. PointerKept(s) BY <1>6 DEF PointerKept
  <2>2. s \in AnyRequest /\ (s.op = "put" => GoodCommit(s) /\ s.on \in ArtifactIds)
    BY <1>14, CommitRequest DEF Inv, Shapes, CommitOps
  <2>3. FilesKept(s) BY <1>6, <1>10, <1>13, <2>2 DEF FilesKept
  <2> QED BY <2>1, <2>3
<1>15. Served(p, q) BY <1>6, <1>11, <1>14, RecordStill DEF Served, Calm, Handed
<1>16. VersionsReadable' BY <1>6, <1>10, <1>12 DEF Inv, VersionsReadable, Live
<1> QED BY <1>6, <1>8, <1>9, <1>15, <1>16, RecordStill, StepKeeps DEF Safe

LEMMA WipeFilesKeeps ==
    ASSUME Inv, NEW p \in Requests, WipeFiles(p) PROVE Inv'
<1> DEFINE r == request[p]
           a == r.on
<1>1. r.op = "wipe" /\ r \in AnyRequest BY DEF WipeFiles, Inv, Shapes
<1>2. a \in ArtifactIds /\ r # Idle BY <1>1, RequestKinds DEF Idle
<1>3. /\ request' = [request EXCEPT ![p] = Idle] /\ files' = [files EXCEPT ![a] = {}]
      /\ record' = record /\ pointer' = pointer /\ drawn' = drawn /\ revoked' = revoked
      /\ raced' = raced
  BY DEF WipeFiles, End
<1>4. a \notin raced => record[a] = Gone
  BY <1>1 DEF Inv, Known, Knows, WipesTheGone
<1>5. Idle \in AnyRequest /\ Idle.op = "none" /\ Quiet(Idle)' /\ Knows(Idle)'
      /\ \A t : ~Mentions(Idle, t)
  BY IdleKnows
<1>6. Shapes'
  <2>1. files' \in [ArtifactIds -> SUBSET Versions] BY <1>2, <1>3 DEF Inv, Shapes
  <2> QED BY <1>3, <1>5, <2>1 DEF Inv, Shapes
<1>7. \A b \in ArtifactIds : b # a => files'[b] = files[b] BY <1>3 DEF Inv, Shapes
<1>8. Handed(p, Idle) BY <1>3, <1>5, RecordStill DEF Handed, New
<1>9. ASSUME NEW o \in Requests, NEW s, s = request[o] PROVE FilesKept(s) /\ PointerKept(s)
  <2>1. PointerKept(s) BY <1>3 DEF PointerKept
  <2>2. s.op = "put" => s.on \in ArtifactIds BY <1>9, CommitRequest DEF CommitOps
  <2>3. a \notin raced => ~Live(a) /\ record[a] # Unborn BY <1>4, RecordKinds DEF Live
  <2>4. FilesKept(s) BY <1>3, <1>7, <2>2, <2>3 DEF FilesKept, Current
  <2> QED BY <2>1, <2>4
<1>10. Served(p, Idle) BY <1>3, <1>8, <1>9, RecordStill DEF Served, Calm, Handed
<1>11. VersionsReadable' BY <1>3, <1>4, <1>7 DEF Inv, VersionsReadable, Live
<1>12. Idle.op \notin CommitOps BY <1>5 DEF CommitOps
<1> QED BY <1>3, <1>5, <1>6, <1>10, <1>11, <1>12, RecordStill, StepKeeps DEF Safe

-----------------------------------------------------------------------------
(* The steps that store a record.                                          *)
LEMMA StoreStep ==
    ASSUME Inv, NEW p \in Requests, NEW a \in ArtifactIds, NEW q \in AnyRequest,
           NEW w \in AnyRecord \union {Gone}, NEW t,
           record' = [record EXCEPT ![a] = w], request' = [request EXCEPT ![p] = q],
           files' = files, pointer' = pointer, drawn' = drawn,
           raced \subseteq raced', raced' \subseteq ArtifactIds,
           revoked' = revoked \/ revoked' = revoked \union ({Share(a)} \ {NoToken}),
           Advance(a), w \in AnyRecord => GoodRecord(w) /\ w.version > 0,
           q.op \notin New \union CommitOps, Quiet(q)', Knows(q)',
           \A u \in Tokens : Mentions(q, u) => Passed(p, q, u),
           a \notin raced' /\ w \in AnyRecord => w.version \in w.kept /\ w.kept \subseteq files[a],
           t = IF w = Gone THEN NoToken ELSE w.share,
           t \in Tokens => Share(a) = t \/ Given(p, a, t),
           a \notin raced' /\ t \in Tokens => pointer[t] = a /\ t \notin revoked',
           \A o \in Requests \ {p} : StaysDropped(request[o])
    PROVE  Inv'
<1>1. record'[a] = w /\ \A b \in ArtifactIds : b # a => record'[b] = record[b]
  BY DEF Inv, Shapes
<1>2. \A b \in ArtifactIds : b # a => Share(b)' = Share(b) /\ (Live(b)' <=> Live(b))
  BY <1>1 DEF Share, Live
<1>3. (Live(a)' <=> w \in AnyRecord) /\ Share(a)' = t
  BY <1>1, RecordKinds DEF Share, Live
<1>4. \A b \in ArtifactIds : LiveIsStored(b) BY LiveRecords DEF Inv
<1>5. revoked' \subseteq drawn /\ drawn \subseteq Tokens
  <2>1. PICK f \in [Tokens -> ArtifactIds \union {Nowhere}] : OwnedBy(f) BY DEF Inv, Owned
  <2>2. Share(a) # NoToken => Share(a) \in drawn BY <2>1 DEF OwnedBy
  <2> QED BY <2>2 DEF Inv, Shapes
<1>6. Shapes'
  <2>1. record' \in [ArtifactIds -> AnyRecord \union {Unborn, Gone}] BY DEF Inv, Shapes
  <2> QED BY <1>5, <2>1 DEF Inv, Shapes
<1>7. RecordsGood' BY <1>1, <1>2, <1>3 DEF Inv, RecordsGood
<1>8. PointersBorn' BY <1>1, RecordKinds DEF Inv, PointersBorn, Shapes
<1>9. \A b \in ArtifactIds : Advance(b) BY <1>1 DEF Advance
<1>10. Handed(p, q)
  <2>1. \A b \in ArtifactIds, u \in Tokens : Share(b)' = u => Share(b) = u \/ Given(p, b, u)
    BY <1>2, <1>3
  <2>2. \A u \in revoked' : u \in revoked \/ \E b \in ArtifactIds : Share(b) = u OBVIOUS
  <2> QED BY <2>1, <2>2 DEF Handed
<1>11. \A s : FilesKept(s) /\ PointerKept(s) BY DEF FilesKept, PointerKept
<1>12. Served(p, q) BY <1>9, <1>10, <1>11 DEF Served, Calm, Handed
<1>13. VersionsReadable' BY <1>1, <1>2, <1>3 DEF Inv, VersionsReadable
<1>14. t \in Tokens \union {NoToken} BY DEF AnyRecord
<1>15. LinkWorks' BY <1>2, <1>3, <1>14 DEF Inv, LinkWorks
<1>16. RevokedStays'
  <2>1. NoToken \notin revoked' BY <1>5, NamesAssumption
  <2>2. ASSUME NEW b \in ArtifactIds, b # a, b \notin raced, Share(b) \in revoked'
        PROVE  FALSE
    <3>1. Share(b) \notin revoked BY <2>2 DEF Inv, RevokedStays
    <3>2. Share(b) = Share(a) /\ Share(a) # NoToken BY <2>2, <3>1
    <3>3. PICK f \in [Tokens -> ArtifactIds \union {Nowhere}] : OwnedBy(f) BY DEF Inv, Owned
    <3> QED BY <2>2, <3>2, <3>3 DEF OwnedBy
  <2>3. a \notin raced' => Share(a)' \notin revoked' BY <1>3, <1>14, <2>1
  <2>4. ASSUME NEW b \in ArtifactIds \ raced' PROVE Share(b)' \notin revoked'
    <3>1. CASE b = a BY <2>3, <2>4, <3>1
    <3>2. CASE b # a BY <1>2, <2>2, <2>4, <3>2
    <3> QED BY <3>1, <3>2
  <2> QED BY <2>4 DEF RevokedStays
<1> QED BY <1>6, <1>7, <1>8, <1>12, <1>13, <1>15, <1>16, StepKeeps DEF Safe

LEMMA DeleteRecordKeeps ==
    ASSUME Inv, NEW p \in Requests, DeleteRecord(p) PROVE Inv'
<1> DEFINE r == request[p]
<1>1. PICK a : a = r.on OBVIOUS
<1>2. r.op = "delete" /\ r \in AnyRequest BY DEF DeleteRecord, Inv, Shapes
<1>3. a \in ArtifactIds BY <1>1, <1>2, RequestKinds DEF Idle
<1>4. /\ record' = [record EXCEPT ![a] = Gone] /\ files' = files /\ pointer' = pointer
      /\ drawn' = drawn /\ revoked' = revoked /\ raced' = raced
  BY <1>1 DEF DeleteRecord
<1>5. PICK q : q = IF Live(a) THEN [op |-> "wipe", on |-> a] ELSE Idle OBVIOUS
<1>6. request' = [request EXCEPT ![p] = q] BY <1>1, <1>5 DEF DeleteRecord, Go, End
<1>7. record'[a] = Gone BY <1>3, <1>4 DEF Inv, Shapes
<1>8. q \in AnyRequest /\ q.op \notin New \union CommitOps /\ Quiet(q)' /\ Knows(q)'
      /\ \A u : ~Mentions(q, u)
  <2>1. CASE ~Live(a) BY <1>5, <2>1, IdleKnows DEF New, CommitOps
  <2>2. CASE Live(a)
    <3>1. q.op = "wipe" /\ q.on = a /\ q \in Plain BY <1>3, <1>5, <2>2 DEF Plain
    <3>2. Quiet(q)' BY <1>7, <3>1, RecordKinds DEF Quiet
    <3>3. Knows(q)' BY <1>7, <3>1 DEF Knows, OldIsOld, WipesTheGone, BaseIsPast, FilesReady,
                                   PointerFirst, RecordFirst
    <3> QED BY <3>1, <3>2, <3>3 DEF AnyRequest, New, CommitOps, Mentions, LinkedOps
  <2> QED BY <2>1, <2>2
<1>9. ASSUME NEW o \in Requests, NEW s, s = request[o] PROVE StaysDropped(s)
  <2> SUFFICES ASSUME s.op = "forget", s.on \notin raced', Share(s.on) # s.token
               PROVE  Share(s.on)' # s.token
    BY DEF StaysDropped
  <2>1. s.token \in Tokens /\ s.on \in ArtifactIds BY <1>9, LinkedRequest DEF LinkedOps
  <2>2. CASE s.on = a BY <1>7, <2>1, <2>2, NamesAssumption DEF Share, Live
  <2>3. CASE s.on # a BY <1>4, <2>1, <2>3 DEF Inv, Shapes, Share, Live
  <2> QED BY <2>2, <2>3
<1>10. Advance(a) BY <1>7 DEF Advance
<1>11. Gone \notin AnyRecord BY RecordKinds
<1>12. raced' \subseteq ArtifactIds BY <1>4 DEF Inv, Shapes
<1>13. PICK t : t = IF Gone = Gone THEN NoToken ELSE Gone.share OBVIOUS
<1>14. t \notin Tokens BY <1>13, NamesAssumption
<1> QED BY <1>3, <1>4, <1>6, <1>8, <1>9, <1>10, <1>11, <1>12, <1>13, <1>14, StoreStep

LEMMA PutRecordKeeps ==
    ASSUME Inv, NEW p \in Requests, PutRecord(p) PROVE Inv'
<1> DEFINE r == request[p]
<1>1. PICK a, nx : a = r.on /\ nx = r.next OBVIOUS
<1>2. r.op = "put" /\ r.op \in CommitOps BY DEF PutRecord, CommitOps
<1>3. /\ a \in ArtifactIds /\ nx \in AnyRecord /\ nx.version \in Nat
      /\ GoodCommit(r) /\ Quiet(r) /\ Knows(r)
  BY <1>1, <1>2, CommitRequest
<1>4. PICK w : w = Next1(nx) OBVIOUS
<1>5. GoodRecord(nx) /\ nx.version < MaxVersion BY <1>1, <1>3 DEF GoodCommit
<1>6. /\ w \in AnyRecord /\ GoodRecord(w) /\ w.version = nx.version + 1 /\ w.version > 0
      /\ w.kept = Kept(nx) /\ w.share = nx.share
      /\ Kept(nx) \subseteq nx.kept \union {nx.version + 1} /\ nx.version + 1 \in Kept(nx)
  BY <1>3, <1>4, <1>5, Committed
<1>7. /\ record' = [record EXCEPT ![a] = w] /\ files' = files /\ pointer' = pointer
      /\ drawn' = drawn /\ revoked' = revoked
      /\ raced' = IF record[a] # r.base THEN raced \union {a} ELSE raced
  BY <1>1, <1>4 DEF PutRecord, Race, Next1
<1>8. PICK q : q = IF nx.kept \subseteq Kept(nx) THEN Idle
                   ELSE [op |-> "prune", on |-> a, old |-> nx.kept \ Kept(nx)]
  OBVIOUS
<1>9. request' = [request EXCEPT ![p] = q] BY <1>1, <1>8 DEF PutRecord, Go, End
<1>10. record'[a] = w BY <1>3, <1>7 DEF Inv, Shapes
<1>11. q \in AnyRequest /\ q.op \notin New \union CommitOps /\ Quiet(q)' /\ Knows(q)'
       /\ \A u : ~Mentions(q, u)
  <2>1. CASE nx.kept \subseteq Kept(nx) BY <1>8, <2>1, IdleKnows DEF New, CommitOps
  <2>2. CASE ~(nx.kept \subseteq Kept(nx))
    <3>1. nx.kept \in SUBSET Versions /\ nx.kept \in SUBSET Nat BY <1>3, RecordNumbers
    <3>2. q.op = "prune" /\ q.on = a /\ q.old = nx.kept \ Kept(nx) /\ q \in Pruning
      BY <1>3, <1>8, <2>2, <3>1 DEF Pruning
    <3>3. Quiet(q)' BY <1>6, <1>10, <3>2, RecordKinds DEF Quiet
    <3>4. \A n \in q.old : n \notin w.kept /\ n < w.version
      <4>1. \A n \in nx.kept : n \in Nat /\ n <= nx.version BY <1>5, <3>1 DEF GoodRecord
      <4> QED BY <1>3, <1>6, <3>2, <4>1
    <3>5. Knows(q)'
      BY <1>10, <3>2, <3>4 DEF Knows, OldIsOld, WipesTheGone, BaseIsPast, FilesReady,
                                   PointerFirst, RecordFirst
    <3> QED BY <3>2, <3>3, <3>5 DEF AnyRequest, New, CommitOps, Mentions, LinkedOps
  <2> QED BY <2>1, <2>2
<1>12. ASSUME a \notin raced'
       PROVE  /\ a \notin raced
              /\ \/ record[a] = Unborn /\ nx = Fresh
                 \/ Live(a) /\ record[a] = nx /\ r.base # Unborn /\ r.base = nx
  <2>1. record[a] = r.base /\ a \notin raced BY <1>7, <1>12
  <2> QED BY <1>1, <1>3, <2>1, RecordKinds DEF GoodCommit, Live
<1>13. Advance(a)
  <2>1. CASE a \in raced' BY <1>6, <1>10, <2>1 DEF Advance
  <2>2. CASE a \notin raced' BY <1>6, <1>10, <1>12, <2>2 DEF Advance, NewVersion
  <2> QED BY <2>1, <2>2
<1>14. ASSUME a \notin raced' PROVE w.version \in w.kept /\ w.kept \subseteq files[a]
  <2>1. Current(r) BY <1>1, <1>12, <1>14 DEF Current
  <2>2. nx.version + 1 \in files[a]
    BY <1>1, <1>2, <1>3, <1>12, <1>14, <2>1 DEF Knows, FilesReady
  <2>3. nx.kept \subseteq files[a]
    <3>1. CASE nx = Fresh BY <3>1, FreshRecord
    <3>2. CASE Live(a) /\ record[a] = nx
      BY <1>3, <1>12, <1>14, <3>2 DEF Inv, VersionsReadable
    <3> QED BY <1>12, <1>14, <3>1, <3>2
  <2> QED BY <1>6, <2>2, <2>3
<1>15. PICK t : t = nx.share OBVIOUS
<1>16. t = (IF w = Gone THEN NoToken ELSE w.share) BY <1>6, <1>15, RecordKinds
<1>17. t \in Tokens => Given(p, a, t)
  BY <1>1, <1>2, <1>15 DEF Given, Mentions, Visits
<1>18. ASSUME a \notin raced', t \in Tokens PROVE Share(a) = t
  BY <1>12, <1>15, <1>18, FreshRecord, NamesAssumption DEF Share
<1>19. ASSUME a \notin raced', t \in Tokens PROVE pointer[t] = a /\ t \notin revoked'
  <2>1. Share(a) = t /\ t # NoToken /\ a \notin raced
    BY <1>12, <1>18, <1>19, NamesAssumption
  <2> QED BY <1>3, <1>7, <2>1 DEF Inv, LinkWorks, RevokedStays
<1>20. ASSUME NEW o \in Requests, NEW s, s = request[o] PROVE StaysDropped(s)
  <2> SUFFICES ASSUME s.op = "forget", s.on \notin raced', Share(s.on) # s.token
               PROVE  Share(s.on)' # s.token
    BY DEF StaysDropped
  <2>1. s.token \in Tokens /\ s.on \in ArtifactIds BY <1>20, LinkedRequest DEF LinkedOps
  <2>2. CASE s.on = a
    <3>1. Share(a)' = t BY <1>6, <1>10, <1>15, RecordKinds DEF Share, Live
    <3> QED BY <1>18, <2>1, <2>2, <3>1
  <2>3. CASE s.on # a BY <1>7, <2>1, <2>3 DEF Inv, Shapes, Share, Live
  <2> QED BY <2>2, <2>3
<1>21. raced \subseteq raced' /\ raced' \subseteq ArtifactIds BY <1>3, <1>7 DEF Inv, Shapes
<1> QED BY <1>3, <1>6, <1>7, <1>9, <1>11, <1>13, <1>14, <1>16, <1>17, <1>19, <1>20, <1>21,
           StoreStep

(* setShare and setMarket: a merge into the record, if there is one.       *)
LEMMA MergeIs ==
    ASSUME Shapes, NEW a \in ArtifactIds, Live(a), NEW t \in Tokens \union {NoToken},
           NEW m \in BOOLEAN
    PROVE  \E w \in AnyRecord :
             /\ Merged(a, t, m) = [record EXCEPT ![a] = w]
             /\ w.version = record[a].version /\ w.kept = record[a].kept
             /\ w.share = t /\ w.market = m
<1>1. record[a] \in AnyRecord BY LiveRecords DEF LiveIsStored
<1> DEFINE w == [record[a] EXCEPT !.share = t, !.market = m]
<1>2. w \in AnyRecord /\ w.version = record[a].version /\ w.kept = record[a].kept
      /\ w.share = t /\ w.market = m
  BY <1>1 DEF AnyRecord
<1>3. Merged(a, t, m) = [record EXCEPT ![a] = w] BY DEF Merged, Shapes
<1> QED BY <1>2, <1>3

MayMerge(t, m) ==
    t \in Tokens \union {NoToken} /\ m \in BOOLEAN /\ (m = FALSE \/ t # NoToken)
MayStore(p, a, t) ==
    /\ t \in Tokens => Share(a) = t \/ Given(p, a, t)
    /\ a \notin raced' /\ t \in Tokens => pointer[t] = a /\ t \notin revoked'
    /\ \A o \in Requests \ {p} : request[o].op = "forget" /\ request[o].on = a
         /\ a \notin raced' /\ Share(a) # request[o].token => request[o].token # t
LEMMA MergeStep ==
    ASSUME Inv, NEW p \in Requests, NEW a \in ArtifactIds, NEW q \in AnyRequest,
           record[a] # Unborn, NEW t, NEW m, MayMerge(t, m), MayStore(p, a, t),
           record' = Merged(a, t, m), request' = [request EXCEPT ![p] = q],
           files' = files, pointer' = pointer, drawn' = drawn,
           raced \subseteq raced', raced' \subseteq ArtifactIds,
           revoked' = revoked \/ revoked' = revoked \union ({Share(a)} \ {NoToken}),
           q.op \notin New \union CommitOps, Quiet(q)', Knows(q)',
           \A u \in Tokens : Mentions(q, u) => Passed(p, q, u)
    PROVE  Inv'
<1>0. t \in Tokens \union {NoToken} /\ m \in BOOLEAN BY DEF MayMerge
<1>1. Shapes BY DEF Inv
<1>2. CASE Live(a)
  <2>1. PICK w \in AnyRecord :
          /\ record' = [record EXCEPT ![a] = w]
          /\ w.version = record[a].version /\ w.kept = record[a].kept
          /\ w.share = t /\ w.market = m
    BY <1>0, <1>1, <1>2, MergeIs
  <2>2. record'[a] = w BY <2>1 DEF Inv, Shapes
  <2>3. Advance(a) BY <1>2, <2>1, <2>2 DEF Advance, SameVersions
  <2>4. GoodRecord(w) /\ w.version > 0
    BY <1>2, <2>1 DEF Inv, RecordsGood, GoodRecord, MayMerge
  <2>5. a \notin raced' => w.version \in w.kept /\ w.kept \subseteq files[a]
    BY <1>2, <2>1 DEF Inv, VersionsReadable
  <2>6. t = IF w = Gone THEN NoToken ELSE w.share BY <2>1, RecordKinds
  <2>7. ASSUME NEW o \in Requests \ {p}, NEW s, s = request[o] PROVE StaysDropped(s)
    <3> SUFFICES ASSUME s.op = "forget", s.on \notin raced', Share(s.on) # s.token
                 PROVE  Share(s.on)' # s.token
      BY DEF StaysDropped
    <3>1. s.token \in Tokens /\ s.on \in ArtifactIds BY <2>7, LinkedRequest DEF LinkedOps
    <3>2. CASE s.on = a
      <4>1. Share(a)' = t BY <2>1, <2>2, RecordKinds DEF Share, Live
      <4> QED BY <2>7, <3>2, <4>1 DEF MayStore
    <3>3. CASE s.on # a BY <2>1, <3>1, <3>3 DEF Inv, Shapes, Share, Live
    <3> QED BY <3>2, <3>3
  <2>8. /\ t \in Tokens => Share(a) = t \/ Given(p, a, t)
        /\ a \notin raced' /\ t \in Tokens => pointer[t] = a /\ t \notin revoked'
    BY DEF MayStore
  <2> QED BY <2>1, <2>3, <2>4, <2>5, <2>6, <2>7, <2>8, StoreStep
<1>3. CASE ~Live(a)
  <2>1. record[a] = Gone BY <1>1, <1>3, LiveRecords DEF LiveIsStored
  <2>2. record' = record BY <1>3 DEF Merged
  <2>3. record' = [record EXCEPT ![a] = Gone] BY <1>1, <2>1, <2>2 DEF Shapes
  <2>4. Advance(a) /\ \A s : StaysDropped(s) BY <2>2, RecordStill
  <2>5. Gone \notin AnyRecord BY RecordKinds
  <2>6. PICK u : u = IF Gone = Gone THEN NoToken ELSE Gone.share OBVIOUS
  <2>7. u \notin Tokens BY <2>6, NamesAssumption
  <2> QED BY <2>3, <2>4, <2>5, <2>6, <2>7, StoreStep
<1> QED BY <1>2, <1>3

(* A new link's token is named by no other request but visitors'.          *)
LEMMA NewTokenIsMine ==
    ASSUME Inv, NEW p \in Requests, request[p].op \in New, NEW o \in Requests \ {p},
           request[o].op \in LinkedOps \ Visits
    PROVE  request[o].token # request[p].token
<1>1. Mentions(request[o], request[o].token) BY DEF Mentions
<1> QED BY <1>1 DEF Inv, TokensFresh, FreshToken

LEMMA SetShareKeeps ==
    ASSUME Inv, NEW p \in Requests, SetShare(p) PROVE Inv'
<1> DEFINE r == request[p]
<1>0. PICK m \in BOOLEAN : m = FALSE OBVIOUS
<1>1. PICK a, t : a = r.on /\ t = r.token OBVIOUS
<1>2. r.op = "share" /\ r.op \in LinkedOps /\ r.op \in New /\ r.op \notin Visits
  BY DEF SetShare, LinkedOps, New, Visits
<1>3. /\ a \in ArtifactIds /\ t \in Tokens /\ Mentions(r, t) /\ record[a] # Unborn
  BY <1>1, <1>2, LinkedRequest
<1>4. /\ record' = Merged(a, t, m) /\ request' = [request EXCEPT ![p] = Idle]
      /\ files' = files /\ pointer' = pointer /\ drawn' = drawn /\ revoked' = revoked
      /\ raced' = raced
  BY <1>0, <1>1 DEF SetShare, End
<1>5. /\ Idle \in AnyRequest /\ Idle.op \notin New \union CommitOps /\ Quiet(Idle)' /\ Knows(Idle)'
      /\ \A u : ~Mentions(Idle, u)
  BY IdleKnows DEF New, CommitOps
<1>6. Given(p, a, t) BY <1>1, <1>2, <1>3 DEF Given
<1>7. a \notin raced => pointer[t] = a
  BY <1>1, <1>2 DEF Inv, Known, Knows, PointerFirst
<1>8. t \notin revoked BY <1>1, <1>2 DEF Inv, TokensFresh, FreshToken
<1>9. \A o \in Requests \ {p} : request[o].op = "forget" => request[o].token # t
  BY <1>1, <1>2, NewTokenIsMine DEF LinkedOps, Visits
<1>10. raced' \subseteq ArtifactIds BY <1>4 DEF Inv, Shapes
<1>11. MayMerge(t, m) BY <1>0, <1>3 DEF MayMerge
<1>12. MayStore(p, a, t) BY <1>4, <1>6, <1>7, <1>8, <1>9 DEF MayStore
<1> QED BY <1>3, <1>4, <1>5, <1>10, <1>11, <1>12, MergeStep

LEMMA SetMarketKeeps ==
    ASSUME Inv, NEW p \in Requests, SetMarket(p) PROVE Inv'
<1> DEFINE r == request[p]
<1>1. PICK a, t, m : a = r.on /\ t = r.token /\ m = r.market OBVIOUS
<1>2. r.op = "market" /\ r \in AnyRequest BY DEF SetMarket, Inv, Shapes
<1>3. r \in Listed /\ r # Idle BY <1>2, RequestKinds DEF Idle
<1>4. a \in ArtifactIds /\ t \in Tokens /\ m \in BOOLEAN BY <1>1, <1>3 DEF Listed
<1>5. /\ record' = Merged(a, t, m) /\ request' = [request EXCEPT ![p] = Idle]
      /\ files' = files /\ pointer' = pointer /\ drawn' = drawn /\ revoked' = revoked
      /\ raced' = IF Share(a) # t THEN raced \union {a} ELSE raced
  BY <1>1 DEF SetMarket, End, Race
<1>6. /\ Idle \in AnyRequest /\ Idle.op \notin New \union CommitOps /\ Quiet(Idle)' /\ Knows(Idle)'
      /\ \A u : ~Mentions(Idle, u)
  BY IdleKnows DEF New, CommitOps
<1>7. record[a] # Unborn BY <1>1, <1>2, <1>3 DEF Inv, UnbornQuiet, Quiet
<1>8. Given(p, a, t) BY <1>1, <1>2 DEF Given, Mentions, Visits
<1>9. a \notin raced' => a \notin raced /\ Share(a) = t BY <1>5
<1>10. t # NoToken BY <1>4, NamesAssumption
<1>11. a \notin raced' => pointer[t] = a /\ t \notin revoked
  BY <1>4, <1>9, <1>10 DEF Inv, LinkWorks, RevokedStays
<1>12. raced \subseteq raced' /\ raced' \subseteq ArtifactIds BY <1>4, <1>5 DEF Inv, Shapes
<1>13. MayMerge(t, m) BY <1>4, <1>10 DEF MayMerge
<1>14. MayStore(p, a, t) BY <1>5, <1>8, <1>9, <1>11 DEF MayStore
<1> QED BY <1>4, <1>5, <1>6, <1>7, <1>12, <1>13, <1>14, MergeStep

LEMMA ClearShareKeeps ==
    ASSUME Inv, NEW p \in Requests, ClearShare(p) PROVE Inv'
<1> DEFINE r == request[p]
<1>0. PICK m \in BOOLEAN : m = FALSE OBVIOUS
<1>1. PICK a, t : a = r.on /\ t = r.token OBVIOUS
<1>2. r.op = "clear" /\ r.op \in LinkedOps BY DEF ClearShare, LinkedOps
<1>3. /\ r \in Linked /\ a \in ArtifactIds /\ t \in Tokens /\ Mentions(r, t) /\ record[a] # Unborn
  BY <1>1, <1>2, LinkedRequest
<1>4. PICK q : q = [r EXCEPT !.op = "forget"] OBVIOUS
<1>5. q \in Linked /\ q.op = "forget" /\ q.on = a /\ q.token = t
  BY <1>1, <1>3, <1>4 DEF Linked, LinkedOps
<1>6. /\ record' = Merged(a, NoToken, m) /\ request' = [request EXCEPT ![p] = q]
      /\ files' = files /\ pointer' = pointer /\ drawn' = drawn /\ raced' = raced
      /\ revoked' = revoked \union ({Share(a)} \ {NoToken})
  BY <1>0, <1>1, <1>4 DEF ClearShare, Go, Cleared
<1>7. Share(a)' = NoToken /\ record'[a] # Unborn
  <2>1. Shapes BY DEF Inv
  <2>2. CASE Live(a)
    <3>1. PICK w \in AnyRecord : record' = [record EXCEPT ![a] = w] /\ w.share = NoToken
      BY <1>3, <1>6, <2>1, <2>2, MergeIs
    <3>2. record'[a] = w BY <1>3, <2>1, <3>1 DEF Shapes
    <3> QED BY <3>1, <3>2, RecordKinds DEF Share, Live
  <2>3. CASE ~Live(a) BY <1>3, <1>6, <2>3 DEF Merged, Share, Live
  <2> QED BY <2>2, <2>3
<1>8. q \in AnyRequest /\ q.op \notin New \union CommitOps /\ Quiet(q)' /\ Knows(q)'
  <2>1. Quiet(q)' BY <1>5, <1>7 DEF Quiet
  <2>2. Knows(q)' BY <1>3, <1>5, <1>7, NamesAssumption DEF Knows, OldIsOld, WipesTheGone,
                      BaseIsPast, FilesReady, PointerFirst, RecordFirst
  <2> QED BY <1>5, <2>1, <2>2 DEF AnyRequest, New, CommitOps
<1>9. \A u \in Tokens : Mentions(q, u) => Passed(p, q, u)
  BY <1>1, <1>2, <1>3, <1>5 DEF Mentions, Passed, Visits
<1>10. \A o \in Requests : request[o].op = "forget" => request[o].token # NoToken
  BY LinkedRequest, NamesAssumption DEF LinkedOps
<1>11. raced' \subseteq ArtifactIds BY <1>6 DEF Inv, Shapes
<1>12. MayMerge(NoToken, m) BY <1>0 DEF MayMerge
<1>13. MayStore(p, a, NoToken) BY <1>10, NamesAssumption DEF MayStore
<1> QED BY <1>3, <1>6, <1>8, <1>9, <1>11, <1>12, <1>13, MergeStep

-----------------------------------------------------------------------------
(* The steps on pointers.                                                  *)
LEMMA OneOwner ==
    ASSUME Inv, NEW p \in Requests, NEW u \in Tokens, Mentions(request[p], u)
    PROVE  /\ \A a \in ArtifactIds : Share(a) = u => a = request[p].on
           /\ \A o \in Requests : Mentions(request[o], u) => request[o].on = request[p].on
<1>1. PICK f \in [Tokens -> ArtifactIds \union {Nowhere}] : OwnedBy(f) BY DEF Inv, Owned
<1>2. u # NoToken BY NamesAssumption
<1> QED BY <1>1, <1>2 DEF OwnedBy

LEMMA PointerStep ==
    ASSUME Inv, NEW p \in Requests, NEW u \in Tokens, NEW x \in ArtifactIds \union {Nowhere},
           NEW q \in AnyRequest,
           pointer' = [pointer EXCEPT ![u] = x], request' = [request EXCEPT ![p] = q],
           record' = record, files' = files, drawn' = drawn, revoked' = revoked,
           raced \subseteq raced', raced' \subseteq ArtifactIds,
           q.op \notin CommitOps, q.op \in New => StillNew(p, q), Quiet(q)', Knows(q)',
           \A t \in Tokens : Mentions(q, t) => Passed(p, q, t),
           x # Nowhere => record[x] # Unborn /\ (pointer[u] = x \/ Given(p, x, u)),
           \A a \in ArtifactIds \ raced' : Share(a) = u => x = a,
           \A o \in Requests \ {p} : PointerKept(request[o])
    PROVE  Inv'
<1>1. pointer'[u] = x /\ \A t \in Tokens : t # u => pointer'[t] = pointer[t]
  BY DEF Inv, Shapes
<1>2. Shapes'
  <2>1. pointer' \in [Tokens -> ArtifactIds \union {Nowhere}] BY DEF Inv, Shapes
  <2> QED BY <2>1 DEF Inv, Shapes
<1>3. Handed(p, q)
  <2>1. \A a \in ArtifactIds, t \in Tokens : pointer'[t] = a => pointer[t] = a \/ Given(p, a, t)
    BY <1>1, NamesAssumption
  <2> QED BY <2>1, RecordStill DEF Handed
<1>4. \A s : FilesKept(s) BY DEF FilesKept
<1>5. Served(p, q) BY <1>3, <1>4, RecordStill DEF Served, Calm, Handed
<1>6. PointersBorn' BY <1>1 DEF Inv, PointersBorn
<1>7. LinkWorks'
  <2> SUFFICES ASSUME NEW a \in ArtifactIds \ raced', NEW t, t = Share(a), t # NoToken
               PROVE  pointer'[t] = a
    BY RecordStill DEF LinkWorks
  <2>1. t \in Tokens /\ pointer[t] = a
    BY LiveRecords DEF LiveIsStored, Inv, LinkWorks
  <2> QED BY <1>1, <2>1
<1>8. RecordsGood' /\ VersionsReadable' /\ RevokedStays' BY RecordStill
<1> QED BY <1>2, <1>5, <1>6, <1>7, <1>8, StepKeeps DEF Safe

LEMMA UnlinkKeeps ==
    ASSUME Inv, NEW p \in Requests, Unlink(p) PROVE Inv'
<1> DEFINE r == request[p]
<1>1. PICK a, u : a = r.on /\ u = r.token OBVIOUS
<1>2. r.op = "unlink" /\ r.op \in LinkedOps \ Visits BY DEF Unlink, LinkedOps, Visits
<1>3. /\ a \in ArtifactIds /\ u \in Tokens /\ Mentions(r, u) /\ record[a] # Unborn
  BY <1>1, <1>2, LinkedRequest
<1>4. PICK q : q = [op |-> "delete", on |-> a] OBVIOUS
<1>5. q \in Plain /\ q.op = "delete" /\ q.on = a BY <1>3, <1>4 DEF Plain
<1>6. /\ request' = [request EXCEPT ![p] = q]
      /\ record' = record /\ files' = files /\ drawn' = drawn /\ revoked' = revoked
      /\ raced' = IF Share(a) = u THEN raced \union {a} ELSE raced
  BY <1>1, <1>4 DEF Unlink, Go, Race
<1>7. PICK x \in ArtifactIds \union {Nowhere} :
        pointer' = [pointer EXCEPT ![u] = x] /\ (x # Nowhere => pointer[u] = x)
  <2>1. CASE pointer' = pointer
    <3>1. pointer' = [pointer EXCEPT ![u] = pointer[u]] BY <2>1 DEF Inv, Shapes
    <3>2. pointer[u] \in ArtifactIds \union {Nowhere} BY <1>3 DEF Inv, Shapes
    <3> QED BY <3>1, <3>2
  <2>2. CASE pointer' = [pointer EXCEPT ![u] = Nowhere] BY <2>2
  <2> QED BY <1>1, <2>1, <2>2 DEF Unlink
<1>8. x # Nowhere => record[x] # Unborn BY <1>3, <1>7 DEF Inv, PointersBorn
<1>9. \A b \in ArtifactIds \ raced' : Share(b) # u BY <1>1, <1>3, <1>6, OneOwner
<1>10. \A o \in Requests \ {p} : PointerKept(request[o])
  <2> SUFFICES ASSUME NEW o \in Requests \ {p}, request[o].op = "share"
               PROVE  PointerKept(request[o])
    BY DEF PointerKept
  <2>1. request[o].op \in New /\ request[o].op \in LinkedOps BY DEF New, LinkedOps
  <2>2. request[o].token # u BY <1>1, <1>2, <2>1, NewTokenIsMine
  <2>3. request[o].token \in Tokens BY <2>1, LinkedRequest
  <2> QED BY <1>7, <2>2, <2>3 DEF PointerKept, Inv, Shapes
<1>11. q \in AnyRequest /\ q.op \notin CommitOps /\ q.op \notin New /\ Quiet(q)' /\ Knows(q)'
       /\ \A t : ~Mentions(q, t)
  <2>1. Quiet(q)' BY <1>3, <1>5, <1>6 DEF Quiet
  <2>2. Knows(q)' BY <1>5, KnowsNothing
  <2> QED BY <1>5, <2>1, <2>2 DEF AnyRequest, CommitOps, New, Mentions, LinkedOps
<1>12. raced \subseteq raced' /\ raced' \subseteq ArtifactIds BY <1>3, <1>6 DEF Inv, Shapes
<1> QED BY <1>3, <1>6, <1>7, <1>8, <1>9, <1>10, <1>11, <1>12, PointerStep

LEMMA ForgetKeeps ==
    ASSUME Inv, NEW p \in Requests, Forget(p) PROVE Inv'
<1> DEFINE r == request[p]
<1>1. PICK a, u : a = r.on /\ u = r.token OBVIOUS
<1>2. r.op \in {"forget", "stale"} /\ r.op \in LinkedOps BY DEF Forget, LinkedOps
<1>3. /\ a \in ArtifactIds /\ u \in Tokens /\ Mentions(r, u)
  BY <1>1, <1>2, LinkedRequest
<1>4. /\ request' = [request EXCEPT ![p] = Idle]
      /\ pointer' = [pointer EXCEPT ![u] = Nowhere]
      /\ record' = record /\ files' = files /\ drawn' = drawn /\ revoked' = revoked
      /\ raced' = IF r.op = "stale" /\ (Share(a) = u \/ Coming(u)) THEN raced \union {a} ELSE raced
  BY <1>1 DEF Forget, End, Race
<1>5. \A b \in ArtifactIds \ raced' : Share(b) # u
  <2> SUFFICES ASSUME NEW b \in ArtifactIds \ raced', Share(b) = u PROVE FALSE OBVIOUS
  <2>1. b = a BY <1>1, <1>3, OneOwner
  <2>2. r.op # "stale" /\ a \notin raced BY <1>4, <2>1
  <2>3. r.op = "forget" BY <1>2, <2>2
  <2> QED BY <1>1, <2>1, <2>2, <2>3 DEF Inv, Known, Knows, RecordFirst
<1>6. \A o \in Requests \ {p} : PointerKept(request[o])
  <2> SUFFICES ASSUME NEW o \in Requests \ {p}, request[o].op = "share",
                      request[o].on \notin raced'
               PROVE  PointerKept(request[o])
    BY DEF PointerKept
  <2>1. request[o].op \in New /\ request[o].op \in LinkedOps BY DEF New, LinkedOps
  <2>2. request[o].token \in Tokens /\ Mentions(request[o], request[o].token)
    BY <2>1, LinkedRequest
  <2>3. request[o].token # u
    <3>1. CASE r.op = "forget"
      <4>1. r.op \in LinkedOps \ Visits BY <1>2, <3>1 DEF Visits
      <4> QED BY <1>1, <2>1, <4>1, NewTokenIsMine
    <3>2. CASE r.op = "stale"
      <4>1. SUFFICES ASSUME request[o].token = u PROVE FALSE OBVIOUS
      <4>2. Coming(u) BY <4>1 DEF Coming
      <4>3. a \in raced' BY <1>4, <3>2, <4>2
      <4>4. request[o].on = a BY <1>1, <1>3, <2>2, <4>1, OneOwner
      <4> QED BY <4>3, <4>4
    <3> QED BY <1>2, <3>1, <3>2
  <2> QED BY <1>4, <2>2, <2>3 DEF PointerKept, Inv, Shapes
<1>7. /\ Idle \in AnyRequest /\ Idle.op \notin New /\ Idle.op \notin CommitOps
      /\ Quiet(Idle)' /\ Knows(Idle)' /\ \A t : ~Mentions(Idle, t)
  BY IdleKnows DEF New, CommitOps
<1>8. raced \subseteq raced' /\ raced' \subseteq ArtifactIds BY <1>3, <1>4 DEF Inv, Shapes
<1> QED BY <1>3, <1>4, <1>5, <1>6, <1>7, <1>8, PointerStep

LEMMA PutPointerKeeps ==
    ASSUME Inv, NEW p \in Requests, PutPointer(p) PROVE Inv'
<1> DEFINE r == request[p]
<1>1. PICK a, u : a = r.on /\ u = r.token OBVIOUS
<1>2. r.op \in {"point", "restore"} /\ r.op \in LinkedOps \ Visits
  BY DEF PutPointer, LinkedOps, Visits
<1>3. /\ r \in Linked /\ a \in ArtifactIds /\ u \in Tokens /\ Mentions(r, u) /\ record[a] # Unborn
  BY <1>1, <1>2, LinkedRequest
<1>4. PICK q : q = IF r.op = "point" THEN [r EXCEPT !.op = "share"] ELSE Idle OBVIOUS
<1>5. /\ request' = [request EXCEPT ![p] = q]
      /\ pointer' = [pointer EXCEPT ![u] = a]
      /\ record' = record /\ files' = files /\ drawn' = drawn /\ revoked' = revoked
      /\ raced' = raced
  BY <1>1, <1>4 DEF PutPointer, End, Go
<1>6. pointer'[u] = a BY <1>3, <1>5 DEF Inv, Shapes
<1>7. Given(p, a, u) BY <1>1, <1>2, <1>3 DEF Given
<1>8. /\ q \in AnyRequest /\ q.op \notin CommitOps /\ (q.op \in New => StillNew(p, q))
      /\ Quiet(q)' /\ Knows(q)' /\ \A t \in Tokens : Mentions(q, t) => Passed(p, q, t)
  <2>1. CASE r.op # "point" BY <1>4, <2>1, IdleKnows DEF New, CommitOps
  <2>2. CASE r.op = "point"
    <3>1. q \in Linked /\ q.op = "share" /\ q.on = a /\ q.token = u
      BY <1>1, <1>3, <1>4, <2>2 DEF Linked, LinkedOps
    <3>2. StillNew(p, q) BY <1>1, <1>5, <2>2, <3>1 DEF StillNew, New
    <3>3. Quiet(q)' BY <1>3, <1>5, <3>1 DEF Quiet
    <3>4. Knows(q)' BY <1>6, <3>1 DEF Knows, OldIsOld, WipesTheGone, BaseIsPast, FilesReady,
                                   PointerFirst, RecordFirst
    <3>5. \A t \in Tokens : Mentions(q, t) => Passed(p, q, t)
      BY <1>1, <1>2, <1>3, <3>1 DEF Mentions, Passed
    <3> QED BY <3>1, <3>2, <3>3, <3>4, <3>5 DEF AnyRequest, CommitOps
  <2> QED BY <2>1, <2>2
<1>9. \A b \in ArtifactIds : Share(b) = u => a = b BY <1>1, <1>3, OneOwner
<1>10. \A o \in Requests \ {p} : PointerKept(request[o])
  <2> SUFFICES ASSUME NEW o \in Requests \ {p}, request[o].op = "share"
               PROVE  PointerKept(request[o])
    BY DEF PointerKept
  <2>1. request[o].op \in LinkedOps BY DEF LinkedOps
  <2>2. request[o].token \in Tokens /\ Mentions(request[o], request[o].token)
    BY <2>1, LinkedRequest
  <2>3. request[o].token = u => request[o].on = a BY <1>1, <1>3, <2>2, OneOwner
  <2> QED BY <1>5, <2>2, <2>3 DEF PointerKept, Inv, Shapes
<1>11. raced \subseteq raced' /\ raced' \subseteq ArtifactIds BY <1>5 DEF Inv, Shapes
<1>12. a # Nowhere BY <1>3, NamesAssumption
<1> QED BY <1>3, <1>5, <1>7, <1>8, <1>9, <1>10, <1>11, <1>12, PointerStep

(* newShareToken: a token nobody has.                                      *)
LEMMA ShareNewKeeps ==
    ASSUME Inv, NEW p \in Requests, NEW a \in ArtifactIds, NEW t \in Tokens, ShareNew(p, a, t)
    PROVE  Inv'
<1>1. PICK q : q = [op |-> "point", on |-> a, token |-> t] OBVIOUS
<1>2. q \in Linked /\ q.op = "point" /\ q.on = a /\ q.token = t BY <1>1 DEF Linked, LinkedOps
<1>3. /\ request' = [request EXCEPT ![p] = q] /\ request[p] = Idle /\ Live(a) /\ t \notin drawn
      /\ drawn' = drawn \union {t}
      /\ record' = record /\ files' = files /\ pointer' = pointer /\ revoked' = revoked
      /\ raced' = raced
  BY <1>1 DEF ShareNew, Begin
<1>4. q \in AnyRequest BY <1>2 DEF AnyRequest
<1>5. Shapes' BY <1>3, <1>4 DEF Inv, Shapes
<1>6. request'[p] = q /\ \A o \in Requests \ {p} : request'[o] = request[o]
  BY <1>3, OthersKeep DEF Inv
<1>7. PICK f \in [Tokens -> ArtifactIds \union {Nowhere}] : OwnedBy(f) BY DEF Inv, Owned
<1>8. /\ pointer[t] = Nowhere /\ t \notin revoked /\ \A b \in ArtifactIds : Share(b) # t
      /\ \A o \in Requests : ~Mentions(request[o], t)
  BY <1>3, <1>7, NamesAssumption DEF OwnedBy, Inv, Shapes
<1>9. Owned'
  <2>1. PICK g : g = [f EXCEPT ![t] = a] OBVIOUS
  <2>2. g \in [Tokens -> ArtifactIds \union {Nowhere}] /\ g[t] = a
        /\ \A u \in Tokens : u # t => g[u] = f[u]
    BY <2>1
  <2>3. \A u \in Tokens : pointer'[u] # Nowhere => u \in drawn' /\ g[u] = pointer'[u]
    BY <1>3, <1>7, <1>8, <2>2 DEF OwnedBy
  <2>4. \A b \in ArtifactIds : Share(b)' # NoToken => Share(b)' \in drawn' /\ g[Share(b)'] = b
    <3>1. \A b \in ArtifactIds : Share(b)' = Share(b) BY <1>3, RecordStill
    <3>2. \A b \in ArtifactIds : Share(b) # NoToken => Share(b) \in Tokens
      BY LiveRecords DEF LiveIsStored, Inv
    <3> QED BY <1>3, <1>7, <1>8, <2>2, <3>1, <3>2 DEF OwnedBy
  <2>5. ASSUME NEW o \in Requests, NEW u \in Tokens, Mentions(request'[o], u)
        PROVE  u \in drawn' /\ g[u] = request'[o].on
    <3>1. CASE o = p
      <4>1. u = t BY <1>2, <1>6, <2>5, <3>1 DEF Mentions
      <4> QED BY <1>2, <1>3, <1>6, <2>2, <3>1, <4>1
    <3>2. CASE o # p
      <4>1. Mentions(request[o], u) BY <1>6, <2>5, <3>2
      <4> QED BY <1>3, <1>6, <1>7, <1>8, <2>2, <3>2, <4>1 DEF OwnedBy
    <3> QED BY <3>1, <3>2
  <2>6. OwnedBy(g)' BY <2>3, <2>4, <2>5 DEF OwnedBy, Mentions
  <2> QED BY <2>2, <2>6 DEF Owned
<1>10. TokensFresh'
  <2> SUFFICES ASSUME NEW o \in Requests PROVE FreshToken(o)' BY DEF TokensFresh
  <2>1. PICK s : s = request'[o] OBVIOUS
  <2>2. ASSUME s.op \in New
        PROVE  /\ s.token \notin revoked' /\ Share(s.on)' # s.token
               /\ \A k \in Requests \ {o} : Mentions(request'[k], s.token) => request'[k].op \in Visits
    <3>1. CASE o = p
      <4>1. s = q BY <1>6, <2>1, <3>1
      <4>2. Share(a)' # t BY <1>3, <1>8, RecordStill
      <4> QED BY <1>2, <1>3, <1>6, <1>8, <3>1, <4>1, <4>2
    <3>2. CASE o # p
      <4>1. s = request[o] /\ FreshToken(o) BY <1>6, <2>1, <3>2 DEF Inv, TokensFresh
      <4>2. s.op \in LinkedOps BY <2>2 DEF New, LinkedOps
      <4>3. s.on \in ArtifactIds /\ s.token # t BY <1>8, <4>1, <4>2, LinkedRequest
      <4>4. ~Mentions(q, s.token) BY <1>2, <4>3 DEF Mentions
      <4>5. Share(s.on)' # s.token BY <1>3, <2>2, <4>1, <4>3, RecordStill DEF FreshToken
      <4> QED BY <1>3, <1>6, <2>2, <4>1, <4>4, <4>5 DEF FreshToken
    <3> QED BY <3>1, <3>2
  <2> QED BY <2>1, <2>2 DEF FreshToken, Mentions, Share, Live
<1>11. \A s : FilesKept(s) /\ PointerKept(s) BY <1>3 DEF FilesKept, PointerKept
<1>12. Calm(p, q) BY <1>3, <1>11, RecordStill DEF Calm
<1>13. record[a] # Unborn BY <1>3, LiveRecords DEF LiveIsStored, Inv
<1>14. Quiet(q)' BY <1>2, <1>3, <1>13 DEF Quiet
<1>15. Knows(q)' BY <1>2, KnowsNothing
<1>16. RecordsGood' /\ PointersBorn' /\ Safe' BY <1>3, RecordStill DEF Safe
<1>17. q.op \notin CommitOps BY <1>2 DEF CommitOps
<1> QED BY <1>5, <1>9, <1>10, <1>12, <1>14, <1>15, <1>16, <1>17, CalmKeeps

-----------------------------------------------------------------------------
LEMMA InitHolds == Init => Inv
<1> SUFFICES ASSUME Init PROVE Inv OBVIOUS
<1> USE DEF Init
<1>1. Shapes BY IdleKnows DEF Shapes
<1>2. \A a \in ArtifactIds : ~Live(a) /\ Share(a) = NoToken BY DEF Live, Share
<1>3. Quiet(Idle) /\ Knows(Idle) /\ Idle.op = "none" /\ \A t : ~Mentions(Idle, t) BY IdleKnows
<1>4. Owned
  <2>1. [t \in Tokens |-> Nowhere] \in [Tokens -> ArtifactIds \union {Nowhere}] OBVIOUS
  <2>2. OwnedBy([t \in Tokens |-> Nowhere]) BY <1>2, <1>3 DEF OwnedBy
  <2> QED BY <2>1, <2>2 DEF Owned
<1>5. RecordsGood /\ CommitsGood /\ UnbornQuiet /\ PointersBorn /\ Known
  BY <1>2, <1>3 DEF RecordsGood, CommitsGood, UnbornQuiet, PointersBorn, Known
<1>6. TokensFresh BY <1>3 DEF TokensFresh, FreshToken, New
<1>7. VersionsReadable /\ LinkWorks /\ RevokedStays
  BY <1>2 DEF VersionsReadable, LinkWorks, RevokedStays
<1> QED BY <1>1, <1>4, <1>5, <1>6, <1>7 DEF Inv

LEMMA ProceedKeeps ==
    ASSUME Inv, NEW p \in Requests, Proceed(p) PROVE Inv'
<1>1. CASE Abandon(p) BY <1>1, IdleStep DEF Abandon, End
<1> QED BY <1>1, ReadAgainKeeps, WriteFilesKeeps, PutRecordKeeps, PruneKeeps, UnlinkKeeps,
        DeleteRecordKeeps, WipeFilesKeeps, CheckPointerKeeps, PutPointerKeeps, SetShareKeeps,
        SetMarketKeeps, ClearShareKeeps, ForgetKeeps, ResolveKeeps
     DEF Proceed

LEMMA NextKeeps == Inv /\ [Next]_vars => Inv'
<1> SUFFICES ASSUME Inv, [Next]_vars PROVE Inv' OBVIOUS
<1>1. ASSUME NEW p \in Requests, NEW a \in ArtifactIds, Arrive(p, a) PROVE Inv'
  BY <1>1, CreateKeeps, LooksKeep, ShareNewKeeps DEF Arrive
<1>2. ASSUME NEW p \in Requests, NEW t \in Tokens, Visit(p, t) PROVE Inv'
  BY <1>2, VisitKeeps
<1>3. ASSUME NEW p \in Requests, Proceed(p) PROVE Inv'
  BY <1>3, ProceedKeeps
<1>4. CASE UNCHANGED vars
  BY <1>4 DEF vars, Inv, Shapes, RecordsGood, CommitsGood, UnbornQuiet, Quiet, PointersBorn,
              Known, Knows, OldIsOld, WipesTheGone, BaseIsPast, FilesReady, Current,
              PointerFirst, RecordFirst, Owned, OwnedBy, TokensFresh, FreshToken,
              VersionsReadable, LinkWorks, RevokedStays, Live, Share, Mentions
<1> QED BY <1>1, <1>2, <1>3, <1>4 DEF Next

LEMMA InvTypes == Inv => TypeOK
<1> SUFFICES ASSUME Inv PROVE TypeOK OBVIOUS
<1>1. ASSUME NEW a \in ArtifactIds, Live(a)
      PROVE  /\ record[a] \in Records
             /\ Cardinality(record[a].kept) <= Keep
             /\ record[a].market => record[a].share # NoToken
  <2>1. record[a] \in AnyRecord BY <1>1, LiveRecords DEF LiveIsStored, Inv
  <2>2. GoodRecord(record[a]) /\ record[a].version > 0 BY <1>1 DEF Inv, RecordsGood
  <2>3. record[a].version \in Versions
    BY <2>1, <2>2, ArtifactsAssumption DEF AnyRecord, Versions
  <2>4. record[a] \in Records BY <2>1, <2>3 DEF AnyRecord, Records
  <2> QED BY <2>2, <2>4 DEF GoodRecord
<1>2. ASSUME NEW p \in Requests PROVE request[p].op \in Ops
  <2>1. request[p] \in AnyRequest BY DEF Inv, Shapes
  <2> QED BY <2>1 DEF AnyRequest, Idle, Plain, Linked, LinkedOps, Listed, Pruning, Committing, Ops
<1> QED BY <1>1, <1>2 DEF TypeOK, Inv, Shapes

LEMMA InvAlways == Spec => []Inv
BY InitHolds, NextKeeps, PTL DEF Spec

(* The variables keep their types: in particular commitVersion never keeps *)
(* more versions than maxVersions, whatever requests put back, and an      *)
(* artifact on the market is shared (store.js, shares.js).                 *)
THEOREM TypeCorrect == Spec => []TypeOK
BY InvAlways, InvTypes, PTL

(* A version the record lists as kept can be read, wherever commitVersion  *)
(* was interrupted and whichever requests ran beside it without writing    *)
(* over each other.                                                        *)
THEOREM KeptVersionsAreReadable == Spec => []VersionsReadable
<1>1. Inv => VersionsReadable BY DEF Inv
<1> QED BY <1>1, InvAlways, PTL

(* A link opens its artifact while that one says it is shared, and a       *)
(* revoked one never opens again.                                          *)
THEOREM LinksFollowTheRecord == Spec => []LinksFollow
<1>1. Inv => LinksFollow BY DEF Inv, LinksFollow
<1> QED BY <1>1, InvAlways, PTL
=============================================================================
