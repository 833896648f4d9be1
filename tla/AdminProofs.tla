----------------------------- MODULE AdminProofs -----------------------------
(***************************************************************************)
(* Proofs about Accounts, for any users, replicas, requests and settings,  *)
(* and, as the other parts of MCAdmin, about Quota, for any people, turns  *)
(* and limits, Groups, for any groups, people, models and requests, and    *)
(* UsageTable, for any people, tokens, page sizes and numbers of probes.   *)
(***************************************************************************)
EXTENDS MCAdmin, Sequences, FiniteSetTheorems, WellFoundedInduction, TLAPS

Codes == [live : BOOLEAN, recent : BOOLEAN, attempts : 0..(MaxAttempts - 1)]
Stored ==
    [state : {"stored"}, secret : Secrets, version : Versions, disabled : BOOLEAN,
     activated : BOOLEAN, code : Codes]

(* The requests in progress, by what they carry.                           *)
SimpleReq == [op : {"issue", "merge", "welcome", "sign"}, user : Users]
ReplaceReq == [op : {"replace"}, user : Users, arg : Secrets]
StateReq == [op : {"authState"}, at : Replicas, user : Users, arg : Entries]
LoginReq == [op : {"login"}, at : Replicas, user : Users,
             arg : {"unknown", "bad", "inactive", "good"}]
SetReq == [op : {"set"}, at : Replicas, user : Users, arg : Secrets]
ChangedReq == [op : {"changed"}, at : Replicas, user : Users, arg : {Blank}]
PatchReq == [op : {"patch"}, at : Replicas, user : Users,
             arg : [secret : Secrets \union {Blank}, badGroup : BOOLEAN]]
AnyRequest == {Idle} \union SimpleReq \union ReplaceReq \union StateReq \union LoginReq
              \union SetReq \union ChangedReq \union PatchReq

Shapes ==
    /\ verifying \in BOOLEAN
    /\ account \in [Users -> Accounts]
    /\ cache \in [Replicas -> [Users -> Entries \union {NoEntry}]]
    /\ limiter \in [Replicas -> [Users -> [stamps : 0..UserMax, blocked : BOOLEAN]]]
    /\ signed \in [Users -> SUBSET [version : Versions, era : Versions]]
    /\ request \in [Requests -> AnyRequest]
    /\ granted \in [Users -> 0..2]
    /\ clobbered \subseteq Users
    /\ wrong \in [Replicas -> [Users -> Nat]]
    /\ era \in [Users -> Versions]
    /\ since \in [Users -> [Versions -> 0..(Grace + 1)]]
Ages ==
    /\ \A r \in Replicas, u \in Users : cache[r][u] # NoEntry => cache[r][u].age < CacheTtl
    /\ \A p \in Requests : request[p].op = "authState" => request[p].arg.age <= Latency
VersionsFit == \A u \in Users : Exists(u) => account[u].version <= era[u]

(* The window of failures holds what was answered, until the lock is set.  *)
Counted(e, n) == IF e.blocked THEN e.stamps = 0 /\ n <= UserMax ELSE n = e.stamps
WrongCounted == \A r \in Replicas, u \in Users : Counted(limiter[r][u], wrong[r][u])

(* An account that a request has got hold of stays, and stays active       *)
(* unless a late registration overwrites it.                               *)
Active(u) == Exists(u) /\ account[u].activated
Good(q) == q.op = "login" /\ q.arg = "good"
Backed(q) ==
    /\ q.op \notin {"none", "login"} \/ Good(q) => Exists(q.user)
    /\ q.op \in {"welcome", "sign", "set", "changed"} \/ Good(q) =>
         q.user \in clobbered \/ Active(q.user)
AllBacked == \A p \in Requests : Backed(request[p])

(* A username that is still to be given away has no one waiting for it.    *)
Waiting(p, u) == request[p].op = "welcome" /\ request[p].user = u
GivenOnce(u) ==
    /\ granted[u] <= 1
    /\ granted[u] = 1 => Active(u) /\ \A p \in Requests : ~Waiting(p, u)
    /\ \A p, o \in Requests : Waiting(p, u) /\ Waiting(o, u) => p = o
Given == \A u \in Users \ clobbered : GivenOnce(u)

(* A token's generation and era tell how many revocations it has seen, and *)
(* no replica knows a generation longer than it may.                       *)
TokensBacked ==
    \A u \in Users : signed[u] # {} => Exists(u) /\ (u \in clobbered \/ Active(u))
InStep(u) == \A t \in signed[u] :
    t.era <= era[u] /\ account[u].version + t.era = t.version + era[u]
SinceZero == \A u \in Users, e \in Versions : e >= era[u] => since[u][e] = 0
Learnt(c, u, d) ==
    c.hit => \A t \in signed[u] : t.version = c.version => since[u][t.era] <= c.age + d
CacheLearnt(u) == \A r \in Replicas : Learnt(cache[r][u], u, Latency)
ReadLearnt(q) ==
    q.op = "authState" /\ q.user \notin clobbered => Learnt(q.arg, q.user, 0)
Known ==
    /\ \A u \in Users \ clobbered : InStep(u) /\ CacheLearnt(u)
    /\ \A p \in Requests : ReadLearnt(request[p])

Inv == /\ Shapes /\ Ages /\ VersionsFit /\ WrongCounted /\ AllBacked /\ Given
       /\ TokensBacked /\ SinceZero /\ Known

-----------------------------------------------------------------------------
(* Accounts and requests by kind.                                          *)
LEMMA Numbers ==
    /\ MaxRevocations \in Nat /\ Latency \in Nat /\ CacheTtl \in Nat /\ CacheTtl > 0
    /\ Grace \in Nat /\ Grace = CacheTtl + Latency /\ Latency <= Grace - 1 /\ Grace > 0
    /\ 0 \in Versions /\ Versions \subseteq Nat
    /\ UserMax \in Nat /\ UserMax > 0
BY AccountsAssumption DEF Grace, Versions

LEMMA AccountKinds ==
    /\ Accounts = {NoAccount} \union Stored
    /\ NoAccount \notin Stored
BY DEF Accounts, Stored, Codes, NoAccount

LEMMA Existing ==
    ASSUME Shapes, NEW u \in Users
    PROVE  Exists(u) <=> account[u] \in Stored
BY AccountKinds DEF Shapes, Exists
LEMMA ExistingNext ==
    ASSUME Shapes', NEW u \in Users
    PROVE  Exists(u)' <=> account'[u] \in Stored
BY AccountKinds DEF Shapes, Exists

LEMMA NoCodeType == NoCode \in Codes
BY AccountsAssumption DEF NoCode, Codes
LEMMA NewAccount ==
    ASSUME NEW s \in Secrets, NEW b \in BOOLEAN
    PROVE  /\ Account(s, b) \in Stored /\ Account(s, b).version = 0
           /\ Account(s, b).activated = b
BY NoCodeType, Numbers DEF Account, Stored

LEMMA RequestKinds ==
    ASSUME NEW q \in AnyRequest
    PROVE  /\ q.op = "none" <=> q = Idle
           /\ q.op \in Ops
           /\ q # Idle => q.user \in Users
           /\ q.op \in {"issue", "merge", "welcome", "sign"} => q \in SimpleReq
           /\ q.op = "replace" => q \in ReplaceReq
           /\ q.op = "authState" => q \in StateReq
           /\ q.op = "login" => q \in LoginReq
           /\ q.op = "set" => q \in SetReq
           /\ q.op = "changed" => q \in ChangedReq
           /\ q.op = "patch" => q \in PatchReq
<1> USE DEF Idle, Ops
<1>1. CASE q = Idle BY <1>1
<1>2. CASE q \in SimpleReq BY <1>2 DEF SimpleReq
<1>3. CASE q \in ReplaceReq BY <1>3 DEF ReplaceReq
<1>4. CASE q \in StateReq BY <1>4 DEF StateReq
<1>5. CASE q \in LoginReq BY <1>5 DEF LoginReq
<1>6. CASE q \in SetReq BY <1>6 DEF SetReq
<1>7. CASE q \in ChangedReq BY <1>7 DEF ChangedReq
<1>8. CASE q \in PatchReq BY <1>8 DEF PatchReq
<1> QED BY <1>1, <1>2, <1>3, <1>4, <1>5, <1>6, <1>7, <1>8 DEF AnyRequest

LEMMA EntryKinds ==
    /\ \A c \in Entries : c.hit = TRUE /\ c # NoEntry /\ c.version \in Nat /\ c.age \in Nat
    /\ NoEntry.hit = FALSE /\ NoEntry \notin Entries
<1>1. \A c \in Entries : c.hit = TRUE BY DEF Entries
<1>2. \A c \in Entries : c.version \in Versions /\ c.age \in 0..(Grace - 1) BY DEF Entries
<1>3. NoEntry.hit = FALSE BY DEF NoEntry
<1>4. \A c \in Entries : c # NoEntry BY <1>1, <1>3
<1>5. 0..(Grace - 1) \subseteq Nat /\ Versions \subseteq Nat BY Numbers
<1> QED BY <1>1, <1>2, <1>3, <1>4, <1>5

LEMMA TokenNumbers ==
    ASSUME Shapes, NEW u \in Users
    PROVE  /\ era[u] \in Nat /\ era[u] \in Versions
           /\ \A t \in signed[u] : t.version \in Versions /\ t.era \in Versions
           /\ \A t \in signed[u] : t.version \in Nat /\ t.era \in Nat
           /\ \A e \in Versions : since[u][e] \in Nat
           /\ Exists(u) => account[u].version \in Nat /\ account[u].version \in Versions
<1>1. Exists(u) => account[u].version \in Versions BY Existing DEF Stored
<1>2. \A e \in Versions : since[u][e] \in Nat BY Numbers DEF Shapes
<1>3. era[u] \in Versions BY DEF Shapes
<1>4. \A t \in signed[u] : t.version \in Versions /\ t.era \in Versions BY DEF Shapes
<1> QED BY <1>1, <1>2, <1>3, <1>4, Numbers
LEMMA BlankIsNot == Blank # "on"
BY Zenon DEF Blank

-----------------------------------------------------------------------------
(* What a step may do to the accounts.                                     *)
Grows(u) ==
    /\ Exists(u) => Exists(u)'
    /\ era[u] <= era'[u]
    /\ Active(u) /\ u \notin clobbered' =>
         Active(u)' /\ account'[u].version + era[u] = account[u].version + era'[u]
AccountsGrow == clobbered \subseteq clobbered' /\ \A u \in Users : Grows(u)

LEMMA StillBacked ==
    ASSUME AccountsGrow, NEW s \in AnyRequest, Backed(s) PROVE Backed(s)'
<1>1. s # Idle => s.user \in Users BY RequestKinds
<1>2. s.op # "none" => s # Idle BY RequestKinds
<1> QED BY <1>1, <1>2 DEF AccountsGrow, Grows, Backed, Good

(* What a step may do to the requests: a new one is in order, and a        *)
(* username is promised to one only that was not active before.            *)
RequestOK(s) ==
    Backed(s) /\ ReadLearnt(s) /\ (s.op = "authState" => s.arg.age <= Latency)
RequestsMove ==
    \A s \in AnyRequest : \A o \in Requests :
      request'[o] = s => request[o] = s \/ RequestOK(s)'
NoNewWait(u) == \A o \in Requests : Waiting(o, u)' => Waiting(o, u)
FirstWait(u) ==
    /\ ~Active(u) /\ Active(u)'
    /\ \E p \in Requests : \A o \in Requests : Waiting(o, u)' => Waiting(o, u) \/ o = p
WaitsMove == \A u \in Users \ clobbered' : NoNewWait(u) \/ FirstWait(u)

LEMMA BackedKeeps ==
    ASSUME Inv, Shapes', AccountsGrow, RequestsMove PROVE AllBacked'
<1> SUFFICES ASSUME NEW o \in Requests, NEW s, s = request'[o] PROVE Backed(s)'
  BY DEF AllBacked, Backed, Good, Exists, Active
<1>1. s \in AnyRequest BY DEF Shapes
<1>2. CASE request[o] = s
  <2>1. Backed(s) BY <1>2 DEF Inv, AllBacked
  <2> QED BY <1>1, <2>1, StillBacked
<1>3. CASE request[o] # s BY <1>1, <1>3 DEF RequestsMove, RequestOK
<1> QED BY <1>2, <1>3

LEMMA GivenKeeps ==
    ASSUME Inv, Shapes', AccountsGrow, WaitsMove, granted' = granted PROVE Given'
<1> SUFFICES ASSUME NEW u \in Users \ clobbered' PROVE GivenOnce(u)'
  BY DEF Given
<1>1. u \notin clobbered /\ GivenOnce(u) BY DEF Inv, Given, AccountsGrow
<1>2. granted[u] \in 0..2 /\ granted'[u] = granted[u] BY DEF Inv, Shapes
<1>3. CASE NoNewWait(u)
  <2>1. Active(u) => Active(u)' BY DEF AccountsGrow, Grows
  <2> QED BY <1>1, <1>2, <1>3, <2>1 DEF GivenOnce, NoNewWait
<1>4. CASE FirstWait(u)
  <2>1. granted[u] = 0 BY <1>1, <1>2, <1>4 DEF GivenOnce, FirstWait
  <2>2. \A o \in Requests : ~Waiting(o, u)
    <3> SUFFICES ASSUME NEW o \in Requests, Waiting(o, u) PROVE FALSE OBVIOUS
    <3>1. Backed(request[o]) BY DEF Inv, AllBacked
    <3>2. Active(u) BY <1>1, <3>1 DEF Backed, Good, Waiting
    <3> QED BY <1>4, <3>2 DEF FirstWait
  <2>3. PICK p \in Requests : \A o \in Requests : Waiting(o, u)' => o = p
    BY <1>4, <2>2 DEF FirstWait
  <2> QED BY <1>2, <2>1, <2>3 DEF GivenOnce
<1> QED BY <1>3, <1>4 DEF WaitsMove

(* The tokens and what the replicas know of them, when neither changes.    *)
LEMMA StillInStep ==
    ASSUME Inv, Shapes', AccountsGrow, NEW u \in Users \ clobbered', signed'[u] = signed[u]
    PROVE  InStep(u)'
<1> SUFFICES ASSUME NEW t \in signed[u]
             PROVE  t.era <= era'[u] /\ account'[u].version + t.era = t.version + era'[u]
  BY DEF InStep
<1>1. u \notin clobbered /\ u \in Users BY DEF AccountsGrow
<1>2. Exists(u) /\ Active(u) BY <1>1 DEF Inv, TokensBacked
<1>3. t.era <= era[u] /\ account[u].version + t.era = t.version + era[u]
  BY <1>1 DEF Inv, Known, InStep
<1>4. Exists(u)' /\ era[u] <= era'[u]
      /\ account'[u].version + era[u] = account[u].version + era'[u]
  BY <1>2 DEF AccountsGrow, Grows
<1>5. t.version \in Nat /\ t.era \in Nat /\ era[u] \in Nat /\ account[u].version \in Nat
  BY <1>2, TokenNumbers DEF Inv
<1>6. era'[u] \in Nat /\ account'[u].version \in Nat
  <2>1. account'[u] \in Stored BY <1>4, ExistingNext
  <2> QED BY <2>1, Numbers DEF Shapes, Stored
<1> QED BY <1>3, <1>4, <1>5, <1>6

LEMMA TokensKeep ==
    ASSUME Inv, Shapes', AccountsGrow, RequestsMove,
           signed' = signed, since' = since,
           \A r \in Replicas, u \in Users : cache'[r][u] = cache[r][u] \/ cache'[r][u] = NoEntry
    PROVE  TokensBacked' /\ SinceZero' /\ Known'
<1>1. TokensBacked' BY DEF Inv, TokensBacked, AccountsGrow, Grows
<1>2. SinceZero'
  <2> SUFFICES ASSUME NEW u \in Users, NEW e \in Versions, e >= era'[u] PROVE since'[u][e] = 0
    BY DEF SinceZero
  <2>1. era[u] <= era'[u] /\ era[u] \in Nat /\ era'[u] \in Nat /\ e \in Nat
    BY Numbers DEF Inv, Shapes, AccountsGrow, Grows
  <2>2. e >= era[u] BY <2>1
  <2> QED BY <2>2 DEF Inv, SinceZero
<1>3. ASSUME NEW u \in Users \ clobbered' PROVE InStep(u)' /\ CacheLearnt(u)'
  <2>1. InStep(u)' BY StillInStep
  <2>2. CacheLearnt(u)
    BY DEF Inv, Known, AccountsGrow
  <2>3. CacheLearnt(u)' BY <2>2, EntryKinds DEF CacheLearnt, Learnt
  <2> QED BY <2>1, <2>3
<1>4. ASSUME NEW o \in Requests, NEW s, s = request'[o] PROVE ReadLearnt(s)'
  <2>1. s \in AnyRequest BY <1>4 DEF Shapes
  <2>2. CASE request[o] = s
    <3>1. ReadLearnt(s) BY <2>2 DEF Inv, Known
    <3> QED BY <3>1 DEF ReadLearnt, Learnt, AccountsGrow
  <2>3. CASE request[o] # s BY <1>4, <2>1, <2>3 DEF RequestsMove, RequestOK
  <2> QED BY <2>2, <2>3
<1>5. \A o \in Requests : ReadLearnt(request[o])' BY <1>4 DEF ReadLearnt, Learnt
<1> QED BY <1>1, <1>2, <1>3, <1>5 DEF Known

LEMMA OneRequest ==
    ASSUME Inv, NEW p \in Requests, NEW q \in AnyRequest,
           request' = [request EXCEPT ![p] = q], RequestOK(q)',
           q.op = "welcome" => q.user \in clobbered' \/ (~Active(q.user) /\ Active(q.user)')
    PROVE  /\ request' \in [Requests -> AnyRequest] /\ RequestsMove /\ WaitsMove
           /\ request'[p] = q /\ \A o \in Requests \ {p} : request'[o] = request[o]
<1>1. request' \in [Requests -> AnyRequest] BY DEF Inv, Shapes
<1>2. request'[p] = q /\ \A o \in Requests \ {p} : request'[o] = request[o]
  BY DEF Inv, Shapes
<1>3. RequestsMove BY <1>2 DEF RequestsMove
<1>4. ASSUME NEW u \in Users \ clobbered' PROVE NoNewWait(u) \/ FirstWait(u)
  <2>1. \A o \in Requests : Waiting(o, u)' => Waiting(o, u) \/ (o = p /\ q.op = "welcome" /\ q.user = u)
    BY <1>2 DEF Waiting
  <2>2. CASE q.op = "welcome" /\ q.user = u BY <2>1, <2>2 DEF FirstWait
  <2>3. CASE ~(q.op = "welcome" /\ q.user = u) BY <2>1, <2>3 DEF NoNewWait
  <2> QED BY <2>2, <2>3
<1> QED BY <1>1, <1>2, <1>3, <1>4 DEF WaitsMove

LEMMA SameRequests ==
    ASSUME Inv, request' = request
    PROVE  request' \in [Requests -> AnyRequest] /\ RequestsMove /\ WaitsMove
BY DEF Inv, Shapes, RequestsMove, WaitsMove, NoNewWait, Waiting

LEMMA AgesKeep ==
    ASSUME Inv, Shapes', RequestsMove,
           \A r \in Replicas, u \in Users : cache'[r][u] = cache[r][u] \/ cache'[r][u] = NoEntry
    PROVE  Ages'
<1>1. \A r \in Replicas, u \in Users : cache'[r][u] # NoEntry => cache'[r][u].age < CacheTtl
  BY DEF Inv, Ages
<1>2. ASSUME NEW o \in Requests, request'[o].op = "authState"
      PROVE  request'[o].arg.age <= Latency
  <2>1. request'[o] \in AnyRequest BY DEF Shapes
  <2>2. CASE request'[o] = request[o] BY <1>2, <2>2 DEF Inv, Ages
  <2>3. CASE request'[o] # request[o]
    <3>1. PICK s : s = request'[o] OBVIOUS
    <3>2. RequestOK(s)' BY <2>1, <2>3, <3>1 DEF RequestsMove
    <3> QED BY <1>2, <3>1, <3>2 DEF RequestOK
  <2> QED BY <2>2, <2>3
<1> QED BY <1>1, <1>2 DEF Ages

(* A step on the accounts and the requests.                                *)
LEMMA CalmStep ==
    ASSUME Inv, AccountsGrow, clobbered' \subseteq Users, VersionsFit',
           account' \in [Users -> Accounts], era' \in [Users -> Versions],
           request' \in [Requests -> AnyRequest], RequestsMove, WaitsMove,
           UNCHANGED <<verifying, cache, limiter, signed, granted, wrong, since>>
    PROVE  Inv'
<1>1. Shapes' BY DEF Inv, Shapes
<1>2. Ages' BY <1>1, AgesKeep
<1>3. WrongCounted' BY DEF Inv, WrongCounted
<1>4. AllBacked' BY <1>1, BackedKeeps
<1>5. Given' BY <1>1, GivenKeeps
<1>6. TokensBacked' /\ SinceZero' /\ Known' BY <1>1, TokensKeep
<1> QED BY <1>1, <1>2, <1>3, <1>4, <1>5, <1>6 DEF Inv

LEMMA SameAccounts ==
    ASSUME Inv, UNCHANGED <<account, era, clobbered>>
    PROVE  /\ AccountsGrow /\ clobbered' \subseteq Users /\ VersionsFit'
           /\ account' \in [Users -> Accounts] /\ era' \in [Users -> Versions]
<1>1. \A u \in Users : Grows(u)
  <2> SUFFICES ASSUME NEW u \in Users PROVE Grows(u) OBVIOUS
  <2>1. era[u] \in Nat BY TokenNumbers DEF Inv
  <2> QED BY <2>1 DEF Grows, Exists, Active
<1> QED BY <1>1 DEF Inv, Shapes, AccountsGrow, VersionsFit, Exists

LEMMA IdleOK == Idle \in AnyRequest /\ RequestOK(Idle) /\ RequestOK(Idle)' /\ Idle.op = "none"
BY DEF Idle, AnyRequest, RequestOK, Backed, Good, ReadLearnt

(* A step on one request.                                                  *)
LEMMA QuietStep ==
    ASSUME Inv, NEW p \in Requests, NEW q \in AnyRequest,
           request' = [request EXCEPT ![p] = q], RequestOK(q), q.op # "welcome",
           UNCHANGED <<verifying, account, cache, limiter, signed, granted, clobbered, wrong, era, since>>
    PROVE  Inv'
<1>1. RequestOK(q)' BY DEF RequestOK, Backed, Good, ReadLearnt, Learnt, Exists, Active
<1>2. request' \in [Requests -> AnyRequest] /\ RequestsMove /\ WaitsMove BY <1>1, OneRequest
<1>3. /\ AccountsGrow /\ clobbered' \subseteq Users /\ VersionsFit'
      /\ account' \in [Users -> Accounts] /\ era' \in [Users -> Versions]
  BY SameAccounts
<1> QED BY <1>2, <1>3, CalmStep

LEMMA IdleStep ==
    ASSUME Inv, NEW p \in Requests, request' = [request EXCEPT ![p] = Idle],
           UNCHANGED <<verifying, account, cache, limiter, signed, granted, clobbered, wrong, era, since>>
    PROVE  Inv'
BY IdleOK, QuietStep

LEMMA SimpleOK ==
    ASSUME NEW op \in {"issue", "merge", "welcome", "sign"}, NEW u \in Users
    PROVE  Simple(op, u) \in AnyRequest /\ Simple(op, u).op = op /\ Simple(op, u).user = u
BY DEF Simple, SimpleReq, AnyRequest

LEMMA ReadStateKeeps ==
    ASSUME Inv, NEW p \in Requests, NEW r \in Replicas, NEW u \in Users, ReadState(p, r, u)
    PROVE  Inv'
<1> DEFINE c == AuthState(u)
           q == Local("authState", r, u, c)
<1>1. Exists(u) /\ account[u] \in Stored BY Existing DEF ReadState, Inv, TokensBacked
<1>2. c \in Entries /\ c.hit /\ c.version = account[u].version /\ c.age = 0
  <2>1. 0 \in 0..(Grace - 1) BY Numbers
  <2> QED BY <1>1, <2>1 DEF AuthState, Entries, Stored
<1> HIDE DEF c
<1>3. q \in StateReq /\ q.op = "authState" /\ q.user = u /\ q.arg = c
  BY <1>2 DEF Local, StateReq
<1>4. request' = [request EXCEPT ![p] = q] BY DEF ReadState, Begin, c
<1> HIDE DEF q
<1>5. q \in AnyRequest BY <1>3 DEF AnyRequest
<1>6. ASSUME u \notin clobbered, NEW t \in signed[u], t.version = c.version
      PROVE  since[u][t.era] <= c.age + 0
  <2>1. t.era <= era[u] /\ account[u].version + t.era = t.version + era[u]
    BY <1>6 DEF Inv, Known, InStep
  <2>2. t.version \in Nat /\ t.era \in Nat /\ t.era \in Versions /\ era[u] \in Nat
    BY <1>6, TokenNumbers DEF Inv
  <2>3. t.era >= era[u] BY <1>2, <1>6, <2>1, <2>2
  <2>4. since[u][t.era] = 0 BY <2>2, <2>3 DEF Inv, SinceZero
  <2> QED BY <1>2, <2>4
<1>7. RequestOK(q)
  <2>1. ReadLearnt(q) BY <1>3, <1>6 DEF ReadLearnt, Learnt
  <2>2. Backed(q) BY <1>1, <1>3 DEF Backed, Good
  <2>3. q.arg.age <= Latency BY <1>2, <1>3, Numbers
  <2> QED BY <2>1, <2>2, <2>3 DEF RequestOK
<1> QED BY <1>3, <1>4, <1>5, <1>7, QuietStep DEF ReadState

LEMMA LoginKeeps ==
    ASSUME Inv, NEW p \in Requests, NEW r \in Replicas, NEW u \in Users, NEW s \in Secrets,
           Login(p, r, u, s)
    PROVE  Inv'
<1> DEFINE v == Verify(u, s)
           q == Local("login", r, u, v)
<1>1. v \in {"unknown", "bad", "inactive", "good"} /\ (v = "good" => Active(u))
  BY DEF Verify, Active
<1> HIDE DEF v
<1>2. q \in LoginReq /\ q.op = "login" /\ q.user = u /\ q.arg = v BY <1>1 DEF Local, LoginReq
<1>3. request' = [request EXCEPT ![p] = q] BY DEF Login, Begin, v
<1> HIDE DEF q
<1>4. q \in AnyRequest BY <1>2 DEF AnyRequest
<1>5. RequestOK(q) BY <1>1, <1>2 DEF RequestOK, Backed, Good, ReadLearnt, Active
<1> QED BY <1>2, <1>3, <1>4, <1>5, QuietStep DEF Login

LEMMA LoginUnreadyKeeps ==
    ASSUME Inv, NEW p \in Requests, LoginUnready(p) PROVE Inv'
BY IdleStep DEF LoginUnready, End

LEMMA ResendKeeps ==
    ASSUME Inv, NEW p \in Requests, NEW u \in Users, Resend(p, u) PROVE Inv'
<1> DEFINE q == Simple("issue", u)
<1>1. q \in AnyRequest /\ q.op = "issue" /\ q.user = u BY SimpleOK
<1>2. request' = [request EXCEPT ![p] = q] BY DEF Resend, Begin
<1> HIDE DEF q
<1>3. RequestOK(q) BY <1>1 DEF RequestOK, Backed, Good, ReadLearnt, Resend
<1> QED BY <1>1, <1>2, <1>3, QuietStep DEF Resend

LEMMA IssueReadKeeps ==
    ASSUME Inv, NEW p \in Requests, IssueRead(p) PROVE Inv'
<1> DEFINE u == request[p].user
           q == Simple("merge", u)
<1>1. CASE ~MayIssue(u) BY <1>1, IdleStep DEF IssueRead, End
<1>2. CASE MayIssue(u)
  <2>1. request[p] \in AnyRequest /\ request[p].op = "issue" BY DEF IssueRead, Inv, Shapes
  <2>2. u \in Users BY <2>1, RequestKinds
  <2>3. q \in AnyRequest /\ q.op = "merge" /\ q.user = u BY <2>2, SimpleOK
  <2>4. request' = [request EXCEPT ![p] = q] BY <1>2 DEF IssueRead, Go
  <2> HIDE DEF q
  <2>5. RequestOK(q) BY <1>2, <2>3 DEF RequestOK, Backed, Good, ReadLearnt, MayIssue
  <2> QED BY <2>3, <2>4, <2>5, QuietStep DEF IssueRead
<1> QED BY <1>1, <1>2

LEMMA ChangePasswordKeeps ==
    ASSUME Inv, NEW p \in Requests, NEW r \in Replicas, NEW u \in Users, NEW s \in Secrets,
           ChangePassword(p, r, u, s)
    PROVE  Inv'
<1> DEFINE q == Local("set", r, u, s)
<1>1. q \in SetReq /\ q.op = "set" /\ q.user = u BY DEF Local, SetReq
<1>2. request' = [request EXCEPT ![p] = q] BY DEF ChangePassword, Begin
<1> HIDE DEF q
<1>3. q \in AnyRequest BY <1>1 DEF AnyRequest
<1>4. Active(u)
  <2>1. PICK old \in Secrets : Verify(u, old) = "good" BY DEF ChangePassword
  <2> QED BY <2>1 DEF Verify, Active
<1>5. RequestOK(q) BY <1>1, <1>4 DEF RequestOK, Backed, Good, ReadLearnt, Active
<1> QED BY <1>1, <1>2, <1>3, <1>5, QuietStep DEF ChangePassword

-----------------------------------------------------------------------------
(* The steps that write an account.                                        *)
Rekeys(u) == era' = [era EXCEPT ![u] = @ + 1] /\ era[u] < MaxRevocations
LEMMA WriteGrows ==
    ASSUME Inv, NEW u \in Users, NEW w \in Stored, account' = [account EXCEPT ![u] = w],
           era' = era \/ Rekeys(u), clobbered \subseteq clobbered', clobbered' \subseteq Users,
           w.version <= era'[u],
           Active(u) /\ u \notin clobbered' =>
             w.activated = TRUE /\ w.version + era[u] = account[u].version + era'[u]
    PROVE  /\ AccountsGrow /\ VersionsFit'
           /\ account' \in [Users -> Accounts] /\ era' \in [Users -> Versions]
           /\ Exists(u)' /\ (Active(u)' <=> w.activated = TRUE)
           /\ \A v \in Users : v # u => account'[v] = account[v] /\ era'[v] = era[v]
<1>1. account'[u] = w /\ \A v \in Users : v # u => account'[v] = account[v]
  BY DEF Inv, Shapes
<1>2. /\ era' \in [Users -> Versions] /\ era[u] \in Nat /\ era'[u] \in Nat
      /\ era[u] <= era'[u] /\ \A v \in Users : v # u => era'[v] = era[v]
  <2>1. era \in [Users -> Versions] /\ era[u] \in Nat /\ MaxRevocations \in Nat
    BY Numbers DEF Inv, Shapes
  <2>2. CASE era' = era BY <2>1, <2>2
  <2>3. CASE Rekeys(u)
    <3>1. era[u] + 1 \in Versions BY <2>1, <2>3 DEF Rekeys, Versions
    <3> QED BY <2>1, <2>3, <3>1 DEF Rekeys
  <2> QED BY <2>2, <2>3
<1>3. w # NoAccount /\ w \in Accounts BY AccountKinds
<1>4. account' \in [Users -> Accounts] BY <1>3 DEF Inv, Shapes
<1>5. Exists(u)' BY <1>1, <1>3 DEF Exists
<1>6. w.activated \in BOOLEAN BY DEF Stored
<1>7. Active(u)' <=> w.activated = TRUE BY <1>1, <1>5, <1>6 DEF Active
<1>8. Grows(u) BY <1>1, <1>2, <1>5, <1>7 DEF Grows
<1>9. ASSUME NEW v \in Users, v # u PROVE Grows(v)
  <2>1. era[v] \in Nat BY TokenNumbers DEF Inv
  <2> QED BY <1>1, <1>2, <1>9, <2>1 DEF Grows, Exists, Active
<1>10. AccountsGrow BY <1>8, <1>9 DEF AccountsGrow
<1>11. VersionsFit' BY <1>1, <1>2 DEF VersionsFit, Inv, Exists
<1> QED BY <1>1, <1>2, <1>4, <1>5, <1>7, <1>10, <1>11

LEMMA RegisterKeeps ==
    ASSUME Inv, NEW p \in Requests, NEW u \in Users, NEW s \in Secrets, Register(p, u, s)
    PROVE  Inv'
<1>1. UNCHANGED <<verifying, cache, limiter, signed, granted, clobbered, wrong, era, since>>
  BY DEF Register
<1>2. CASE Free(u)
  <2>1. PICK w : w = Account(s, ~verifying) OBVIOUS
  <2>2. verifying \in BOOLEAN BY DEF Inv, Shapes
  <2>3. w \in Stored /\ w.version = 0 /\ w.activated = (~verifying) BY <2>1, <2>2, NewAccount
  <2>4. PICK q : q = Simple(AfterCreate, u) OBVIOUS
  <2>5. q \in AnyRequest /\ q.user = u /\ q.op \in {"issue", "welcome"}
        /\ (q.op = "welcome" => verifying = FALSE)
    BY <2>2, <2>4, SimpleOK DEF AfterCreate
  <2>6. account' = [account EXCEPT ![u] = w] /\ request' = [request EXCEPT ![p] = q]
    BY <1>2, <2>1, <2>4 DEF Register, Write, Begin
  <2>7. ~Active(u) BY <1>2 DEF Free, Active
  <2>8. w.version <= era'[u] BY <1>1, <2>3, TokenNumbers DEF Inv
  <2>9. clobbered' \subseteq Users BY <1>1 DEF Inv, Shapes
  <2>10. /\ AccountsGrow /\ VersionsFit'
         /\ account' \in [Users -> Accounts] /\ era' \in [Users -> Versions]
         /\ Exists(u)' /\ (Active(u)' <=> w.activated = TRUE)
    BY <1>1, <2>3, <2>6, <2>7, <2>8, <2>9, WriteGrows
  <2>11. q.op = "welcome" => Active(u)' BY <2>3, <2>5, <2>10
  <2>12. RequestOK(q)'
    <3>1. Backed(q)' BY <2>5, <2>10, <2>11 DEF Backed, Good
    <3>2. ReadLearnt(q)' BY <2>5 DEF ReadLearnt
    <3> QED BY <2>5, <3>1, <3>2 DEF RequestOK
  <2>13. request' \in [Requests -> AnyRequest] /\ RequestsMove /\ WaitsMove
    BY <2>5, <2>6, <2>7, <2>11, <2>12, OneRequest
  <2> QED BY <1>1, <2>9, <2>10, <2>13, CalmStep
<1>3. CASE ~Free(u) /\ ~account[u].activated
  <2>1. PICK q : q = With("replace", u, s) OBVIOUS
  <2>2. q \in ReplaceReq /\ q.op = "replace" /\ q.user = u BY <2>1 DEF With, ReplaceReq
  <2>3. request' = [request EXCEPT ![p] = q] /\ account' = account
    BY <1>3, <2>1 DEF Register, Begin
  <2>4. q \in AnyRequest BY <2>2 DEF AnyRequest
  <2>5. RequestOK(q) BY <1>3, <2>2 DEF RequestOK, Backed, Good, ReadLearnt, Free
  <2> QED BY <1>1, <2>2, <2>3, <2>4, <2>5, QuietStep
<1>4. CASE ~Free(u) /\ account[u].activated
  <2>1. request' = request /\ account' = account BY <1>4 DEF Register
  <2>2. /\ AccountsGrow /\ clobbered' \subseteq Users /\ VersionsFit'
        /\ account' \in [Users -> Accounts] /\ era' \in [Users -> Versions]
    BY <1>1, <2>1, SameAccounts
  <2> QED BY <1>1, <2>1, <2>2, SameRequests, CalmStep
<1> QED BY <1>2, <1>3, <1>4

LEMMA ReplaceKeeps ==
    ASSUME Inv, NEW p \in Requests, Replace(p) PROVE Inv'
<1>1. PICK u, s : u = request[p].user /\ s = request[p].arg OBVIOUS
<1>2. request[p] \in AnyRequest /\ request[p].op = "replace" BY DEF Replace, Inv, Shapes
<1>3. u \in Users /\ s \in Secrets BY <1>1, <1>2, RequestKinds DEF ReplaceReq
<1>4. PICK w : w = Account(s, ~verifying) OBVIOUS
<1>5. verifying \in BOOLEAN BY DEF Inv, Shapes
<1>6. w \in Stored /\ w.version = 0 /\ w.activated = (~verifying) BY <1>3, <1>4, <1>5, NewAccount
<1>7. PICK q : q = Simple(AfterCreate, u) OBVIOUS
<1>8. q \in AnyRequest /\ q.user = u /\ q.op \in {"issue", "welcome"}
      /\ (q.op = "welcome" => verifying = FALSE)
  BY <1>3, <1>5, <1>7, SimpleOK DEF AfterCreate
<1>9. /\ account' = [account EXCEPT ![u] = w] /\ request' = [request EXCEPT ![p] = q]
      /\ clobbered' = IF account[u].activated THEN clobbered \union {u} ELSE clobbered
      /\ UNCHANGED <<verifying, cache, limiter, signed, granted, wrong, era, since>>
  BY <1>1, <1>4, <1>7 DEF Replace, Write, Go
<1>10. Active(u) => u \in clobbered' BY <1>9 DEF Active
<1>11. w.version <= era'[u] BY <1>3, <1>6, <1>9, TokenNumbers DEF Inv
<1>12. clobbered \subseteq clobbered' /\ clobbered' \subseteq Users
  BY <1>3, <1>9 DEF Inv, Shapes
<1>13. /\ AccountsGrow /\ VersionsFit'
       /\ account' \in [Users -> Accounts] /\ era' \in [Users -> Versions]
       /\ Exists(u)' /\ (Active(u)' <=> w.activated = TRUE)
  BY <1>3, <1>6, <1>9, <1>10, <1>11, <1>12, WriteGrows
<1>14. q.op = "welcome" => Active(u)' BY <1>6, <1>8, <1>13
<1>15. RequestOK(q)'
  <2>1. Backed(q)' BY <1>8, <1>13, <1>14 DEF Backed, Good
  <2>2. ReadLearnt(q)' BY <1>8 DEF ReadLearnt
  <2> QED BY <1>8, <2>1, <2>2 DEF RequestOK
<1>16. request' \in [Requests -> AnyRequest] /\ RequestsMove /\ WaitsMove
  BY <1>8, <1>9, <1>10, <1>14, <1>15, OneRequest
<1> QED BY <1>9, <1>12, <1>13, <1>16, CalmStep

LEMMA AdminCreateKeeps ==
    ASSUME Inv, NEW u \in Users, NEW s \in Secrets, AdminCreate(u, s) PROVE Inv'
<1>1. PICK w : w = Account(s, TRUE) OBVIOUS
<1>2. w \in Stored /\ w.version = 0 BY <1>1, NewAccount
<1>3. /\ account' = [account EXCEPT ![u] = w] /\ request' = request
      /\ UNCHANGED <<verifying, cache, limiter, signed, granted, clobbered, wrong, era, since>>
  BY <1>1 DEF AdminCreate, Write
<1>4. ~Active(u) BY DEF AdminCreate, Active
<1>5. w.version <= era'[u] BY <1>2, <1>3, TokenNumbers DEF Inv
<1>6. clobbered' \subseteq Users BY <1>3 DEF Inv, Shapes
<1>7. /\ AccountsGrow /\ VersionsFit'
      /\ account' \in [Users -> Accounts] /\ era' \in [Users -> Versions]
  BY <1>2, <1>3, <1>4, <1>5, <1>6, WriteGrows
<1> QED BY <1>3, <1>6, <1>7, SameRequests, CalmStep

(* A change of the code, which may activate the account.                   *)
LEMMA Recoded ==
    ASSUME Inv, NEW u \in Users, Exists(u), NEW w \in Stored,
           account' = [account EXCEPT ![u] = w],
           w.version = account[u].version,
           account[u].activated => w.activated = TRUE,
           UNCHANGED <<clobbered, era>>
    PROVE  /\ AccountsGrow /\ VersionsFit' /\ clobbered' \subseteq Users
           /\ account' \in [Users -> Accounts] /\ era' \in [Users -> Versions]
           /\ Exists(u)' /\ (Active(u)' <=> w.activated = TRUE)
<1>1. w.version <= era'[u] BY DEF Inv, VersionsFit
<1>2. account[u].version \in Nat /\ era[u] \in Nat BY TokenNumbers DEF Inv
<1>3. clobbered' \subseteq Users BY DEF Inv, Shapes
<1>4. Active(u) => w.activated = TRUE /\ w.version + era[u] = account[u].version + era'[u]
  BY <1>2 DEF Active
<1> QED BY <1>1, <1>3, <1>4, WriteGrows

LEMMA GuessedType ==
    ASSUME NEW a \in Stored, NEW right \in BOOLEAN
    PROVE  /\ Guessed(a, right) \in Stored /\ Guessed(a, right).version = a.version
           /\ a.activated => Guessed(a, right).activated = TRUE
           /\ a.code.live /\ right => Guessed(a, right).activated = TRUE
<1>1. a.code \in Codes /\ a.activated \in BOOLEAN BY DEF Stored
<1>2. CASE ~a.code.live BY <1>1, <1>2 DEF Guessed
<1>3. CASE a.code.live /\ right
  <2>1. Guessed(a, right) = [a EXCEPT !.activated = TRUE, !.code = NoCode]
    BY <1>3 DEF Guessed
  <2> QED BY <1>3, <2>1, NoCodeType DEF Stored
<1>4. CASE a.code.live /\ ~right /\ a.code.attempts + 1 < MaxAttempts
  <2>1. Guessed(a, right) = [a EXCEPT !.code.attempts = @ + 1] BY <1>4 DEF Guessed
  <2>2. PICK k : k = [a.code EXCEPT !.attempts = @ + 1] OBVIOUS
  <2>3. k \in Codes BY <1>1, <1>4, <2>2, AccountsAssumption DEF Codes
  <2>4. Guessed(a, right) = [a EXCEPT !.code = k] BY <2>1, <2>2 DEF Stored
  <2> QED BY <1>1, <1>4, <2>3, <2>4 DEF Stored
<1>5. CASE a.code.live /\ ~right /\ ~(a.code.attempts + 1 < MaxAttempts)
  <2>1. Guessed(a, right) = [a EXCEPT !.code = NoCode] BY <1>5 DEF Guessed
  <2> QED BY <1>1, <1>5, <2>1, NoCodeType DEF Stored
<1> QED BY <1>2, <1>3, <1>4, <1>5

(* One request ends, or the step is about no request.                      *)
LEMMA EndedRequest ==
    ASSUME Inv, NEW p \in Requests, request' = [request EXCEPT ![p] = Idle]
    PROVE  request' \in [Requests -> AnyRequest] /\ RequestsMove /\ WaitsMove
<1>1. Idle.op # "welcome" BY IdleOK
<1> QED BY <1>1, IdleOK, OneRequest

LEMMA IssueMergeKeeps ==
    ASSUME Inv, NEW p \in Requests, IssueMerge(p) PROVE Inv'
<1>1. PICK u : u = request[p].user OBVIOUS
<1>2. request[p] \in AnyRequest /\ request[p].op = "merge" BY DEF IssueMerge, Inv, Shapes
<1>3. u \in Users BY <1>1, <1>2, RequestKinds
<1>4. Backed(request[p]) BY DEF Inv, AllBacked
<1>5. Exists(u) BY <1>1, <1>2, <1>4 DEF Backed, Good
<1>6. account[u] \in Stored BY <1>3, <1>5, Existing DEF Inv
<1>7. PICK k : k = [live |-> TRUE, recent |-> TRUE, attempts |-> 0] OBVIOUS
<1>8. k \in Codes BY <1>7, AccountsAssumption DEF Codes
<1>9. PICK w : w = [account[u] EXCEPT !.code = k] OBVIOUS
<1>10. w \in Stored /\ w.version = account[u].version /\ w.activated = account[u].activated
  BY <1>6, <1>8, <1>9 DEF Stored
<1>11. account' = [account EXCEPT ![u] = w] /\ request' = [request EXCEPT ![p] = Idle]
       /\ UNCHANGED <<verifying, cache, limiter, signed, granted, clobbered, wrong, era, since>>
  BY <1>1, <1>7, <1>9 DEF IssueMerge, Write, End
<1>12. account[u].activated => w.activated = TRUE BY <1>10 DEF Stored
<1>13. /\ AccountsGrow /\ VersionsFit' /\ clobbered' \subseteq Users
       /\ account' \in [Users -> Accounts] /\ era' \in [Users -> Versions]
  BY <1>3, <1>5, <1>10, <1>11, <1>12, Recoded
<1> QED BY <1>11, <1>13, EndedRequest, CalmStep

LEMMA ActivateKeeps ==
    ASSUME Inv, NEW p \in Requests, NEW u \in Users, NEW right \in BOOLEAN, Activate(p, u, right)
    PROVE  Inv'
<1>1. Exists(u) /\ ~account[u].activated /\ account[u] \in Stored
  BY Existing DEF Activate, Inv
<1>2. PICK w : w = Guessed(account[u], right) OBVIOUS
<1>3. w \in Stored /\ w.version = account[u].version
      /\ (account[u].activated => w.activated = TRUE)
      /\ (account[u].code.live /\ right => w.activated = TRUE)
  BY <1>1, <1>2, GuessedType
<1>4. account' = [account EXCEPT ![u] = w]
      /\ UNCHANGED <<verifying, cache, limiter, signed, granted, clobbered, wrong, era, since>>
  BY <1>2 DEF Activate, Write
<1>5. /\ AccountsGrow /\ VersionsFit' /\ clobbered' \subseteq Users
      /\ account' \in [Users -> Accounts] /\ era' \in [Users -> Versions]
      /\ Exists(u)' /\ (Active(u)' <=> w.activated = TRUE)
  BY <1>1, <1>3, <1>4, Recoded
<1>6. request' \in [Requests -> AnyRequest] /\ RequestsMove /\ WaitsMove
  <2>1. CASE account[u].code.live /\ right
    <3>1. PICK q : q = Simple("welcome", u) OBVIOUS
    <3>2. q \in AnyRequest /\ q.op = "welcome" /\ q.user = u BY <3>1, SimpleOK
    <3>3. request' = [request EXCEPT ![p] = q] BY <2>1, <3>1 DEF Activate, Begin
    <3>4. ~Active(u) /\ Active(u)' BY <1>1, <1>3, <1>5, <2>1 DEF Active
    <3>5. Backed(q)' BY <1>5, <3>2, <3>4 DEF Backed, Good
    <3>6. ReadLearnt(q)' BY <3>2 DEF ReadLearnt
    <3>7. RequestOK(q)' BY <3>2, <3>5, <3>6 DEF RequestOK
    <3> QED BY <3>2, <3>3, <3>4, <3>7, OneRequest
  <2>2. CASE ~(account[u].code.live /\ right)
    <3>1. request' = request BY <2>2 DEF Activate
    <3> QED BY <3>1, SameRequests
  <2> QED BY <2>1, <2>2
<1> QED BY <1>4, <1>5, <1>6, CalmStep

LEMMA CodeAgesKeeps ==
    ASSUME Inv, NEW u \in Users, CodeAges(u) PROVE Inv'
<1>1. Exists(u) /\ account[u] \in Stored BY Existing DEF CodeAges, Inv
<1>2. PICK w \in Stored : /\ w.version = account[u].version /\ w.activated = account[u].activated
                          /\ account' = [account EXCEPT ![u] = w]
  <2>1. CASE account[u].code.recent /\ Write(u, [account[u] EXCEPT !.code.recent = FALSE])
    <3>1. PICK k : k = [account[u].code EXCEPT !.recent = FALSE] OBVIOUS
    <3>2. k \in Codes BY <1>1, <3>1 DEF Stored, Codes
    <3>3. [account[u] EXCEPT !.code.recent = FALSE] = [account[u] EXCEPT !.code = k]
      BY <1>1, <3>1 DEF Stored
    <3>4. PICK w : w = [account[u] EXCEPT !.code = k] OBVIOUS
    <3>5. w \in Stored /\ w.version = account[u].version /\ w.activated = account[u].activated
      BY <1>1, <3>2, <3>4 DEF Stored
    <3> QED BY <2>1, <3>3, <3>4, <3>5 DEF Write
  <2>2. CASE Write(u, [account[u] EXCEPT !.code = NoCode])
    <3>1. PICK w : w = [account[u] EXCEPT !.code = NoCode] OBVIOUS
    <3>2. w \in Stored /\ w.version = account[u].version /\ w.activated = account[u].activated
      BY <1>1, <3>1, NoCodeType DEF Stored
    <3> QED BY <2>2, <3>1, <3>2 DEF Write
  <2> QED BY <2>1, <2>2 DEF CodeAges
<1>3. request' = request
      /\ UNCHANGED <<verifying, cache, limiter, signed, granted, clobbered, wrong, era, since>>
  BY DEF CodeAges
<1>4. account[u].activated => w.activated = TRUE BY <1>1, <1>2 DEF Stored
<1>5. /\ AccountsGrow /\ VersionsFit' /\ clobbered' \subseteq Users
      /\ account' \in [Users -> Accounts] /\ era' \in [Users -> Versions]
  BY <1>1, <1>2, <1>3, <1>4, Recoded
<1> QED BY <1>3, <1>5, SameRequests, CalmStep

(* A change that revokes the account's tokens.                             *)
LEMMA Revoking ==
    ASSUME Inv, NEW u \in Users, Exists(u), Revokes(u), UNCHANGED clobbered,
           NEW w \in Stored, account' = [account EXCEPT ![u] = w],
           w.version = account[u].version + 1, w.activated = account[u].activated
    PROVE  /\ AccountsGrow /\ VersionsFit' /\ clobbered' \subseteq Users
           /\ account' \in [Users -> Accounts] /\ era' \in [Users -> Versions]
           /\ Exists(u)' /\ (Active(u)' <=> w.activated = TRUE)
<1>1. Rekeys(u) BY DEF Revokes, Rekeys
<1>2. account[u].version \in Nat /\ era[u] \in Nat BY TokenNumbers DEF Inv
<1>3. account[u].version <= era[u] BY DEF Inv, VersionsFit
<1>4. era'[u] = era[u] + 1 BY DEF Revokes, Inv, Shapes
<1>5. w.version <= era'[u] BY <1>2, <1>3, <1>4
<1>6. clobbered' \subseteq Users BY DEF Inv, Shapes
<1>7. Active(u) => w.activated = TRUE /\ w.version + era[u] = account[u].version + era'[u]
  <2>1. w.activated \in BOOLEAN BY DEF Stored
  <2> QED BY <1>2, <1>4, <2>1 DEF Active
<1> QED BY <1>1, <1>5, <1>6, <1>7, WriteGrows

LEMMA NextVersion ==
    ASSUME Inv, NEW u \in Users, Exists(u), era[u] < MaxRevocations
    PROVE  account[u].version + 1 \in Versions
<1>1. account[u].version \in Nat /\ era[u] \in Nat BY TokenNumbers DEF Inv
<1>2. account[u].version <= era[u] BY DEF Inv, VersionsFit
<1> QED BY <1>1, <1>2, Numbers DEF Versions

LEMMA RekeyedType ==
    ASSUME Inv, NEW u \in Users, Exists(u), Revokes(u), NEW s \in Secrets
    PROVE  /\ Rekeyed(account[u], s) \in Stored
           /\ Rekeyed(account[u], s).version = account[u].version + 1
           /\ Rekeyed(account[u], s).activated = account[u].activated
<1>1. account[u] \in Stored BY Existing DEF Inv
<1>2. account[u].version + 1 \in Versions BY NextVersion DEF Revokes
<1> QED BY <1>1, <1>2 DEF Rekeyed, Stored

LEMMA SetPasswordKeeps ==
    ASSUME Inv, NEW p \in Requests, SetPassword(p) PROVE Inv'
<1>1. PICK u, s, r : u = request[p].user /\ s = request[p].arg /\ r = request[p].at OBVIOUS
<1>2. request[p] \in AnyRequest /\ request[p].op = "set" BY DEF SetPassword, Inv, Shapes
<1>3. request[p] \in SetReq BY <1>2, RequestKinds
<1>4. u \in Users /\ s \in Secrets /\ r \in Replicas BY <1>1, <1>3 DEF SetReq
<1>5. Backed(request[p]) BY DEF Inv, AllBacked
<1>6. Exists(u) /\ (u \in clobbered \/ Active(u)) BY <1>1, <1>2, <1>5 DEF Backed, Good
<1>7. PICK w : w = Rekeyed(account[u], s) OBVIOUS
<1>8. PICK q : q = Local("changed", r, u, Blank) OBVIOUS
<1>9. /\ Revokes(u) /\ account' = [account EXCEPT ![u] = w]
      /\ request' = [request EXCEPT ![p] = q]
      /\ UNCHANGED <<verifying, cache, limiter, signed, granted, clobbered, wrong, since>>
  BY <1>1, <1>7, <1>8 DEF SetPassword, Write, Go
<1>10. w \in Stored /\ w.version = account[u].version + 1 /\ w.activated = account[u].activated
  BY <1>4, <1>6, <1>7, <1>9, RekeyedType
<1>11. /\ AccountsGrow /\ VersionsFit' /\ clobbered' \subseteq Users
       /\ account' \in [Users -> Accounts] /\ era' \in [Users -> Versions]
       /\ Exists(u)' /\ (Active(u)' <=> w.activated = TRUE)
  BY <1>4, <1>6, <1>9, <1>10, Revoking
<1>12. q \in ChangedReq /\ q.op = "changed" /\ q.user = u BY <1>4, <1>8 DEF Local, ChangedReq
<1>13. q \in AnyRequest BY <1>12 DEF AnyRequest
<1>14. u \in clobbered' \/ Active(u)'
  <2>1. w.activated \in BOOLEAN BY <1>10 DEF Stored
  <2> QED BY <1>6, <1>9, <1>10, <1>11, <2>1 DEF Active
<1>15. RequestOK(q)'
  <2>1. Backed(q)' BY <1>11, <1>12, <1>14 DEF Backed, Good
  <2>2. ReadLearnt(q)' BY <1>12 DEF ReadLearnt
  <2> QED BY <1>12, <2>1, <2>2 DEF RequestOK
<1>16. request' \in [Requests -> AnyRequest] /\ RequestsMove /\ WaitsMove
  BY <1>9, <1>12, <1>13, <1>15, OneRequest
<1> QED BY <1>9, <1>11, <1>16, CalmStep

(* The request of an administrator, once the account is stored.            *)
LEMMA PatchOK ==
    ASSUME NEW r \in Replicas, NEW u \in Users, NEW s \in Secrets \union {Blank}, NEW b \in BOOLEAN,
           NEW q, q = Local("patch", r, u, [secret |-> s, badGroup |-> b]), Exists(u)'
    PROVE  q \in AnyRequest /\ RequestOK(q)' /\ q.op = "patch"
<1>1. q \in PatchReq /\ q.op = "patch" /\ q.user = u BY DEF Local, PatchReq
<1>2. Backed(q)' BY <1>1 DEF Backed, Good
<1>3. ReadLearnt(q)' BY <1>1 DEF ReadLearnt
<1> QED BY <1>1, <1>2, <1>3 DEF RequestOK, AnyRequest

LEMMA PatchPasswordKeeps ==
    ASSUME Inv, NEW p \in Requests, PatchPassword(p) PROVE Inv'
<1>1. PICK u, s, r, b : u = request[p].user /\ s = request[p].arg.secret /\ r = request[p].at
                        /\ b = request[p].arg.badGroup OBVIOUS
<1>2. request[p] \in AnyRequest /\ request[p].op = "patch" BY DEF PatchPassword, Inv, Shapes
<1>3. request[p] \in PatchReq BY <1>2, RequestKinds
<1>4. u \in Users /\ s \in Secrets /\ r \in Replicas /\ b \in BOOLEAN
  BY <1>1, <1>3 DEF PatchReq, PatchPassword
<1>5. Backed(request[p]) BY DEF Inv, AllBacked
<1>6. Exists(u) BY <1>1, <1>2, <1>5 DEF Backed, Good
<1>7. PICK w : w = Rekeyed(account[u], s) OBVIOUS
<1>8. PICK q : q = Local("patch", r, u, [secret |-> Blank, badGroup |-> b]) OBVIOUS
<1>9. [request[p] EXCEPT !.arg.secret = Blank] = q
  <2>1. [request[p].arg EXCEPT !.secret = Blank] = [secret |-> Blank, badGroup |-> b]
    BY <1>1, <1>3 DEF PatchReq
  <2>2. request[p] = [op |-> "patch", at |-> r, user |-> u, arg |-> request[p].arg]
    BY <1>1, <1>3 DEF PatchReq
  <2> QED BY <1>8, <2>1, <2>2 DEF Local
<1>10. /\ Revokes(u) /\ account' = [account EXCEPT ![u] = w]
       /\ UNCHANGED <<verifying, cache, limiter, signed, granted, clobbered, wrong, since>>
  BY <1>1, <1>7 DEF PatchPassword, Write
<1>11. request' = [request EXCEPT ![p] = q]
  <2>1. request' = [request EXCEPT ![p].arg.secret = Blank] BY DEF PatchPassword
  <2>2. request \in [Requests -> AnyRequest] BY DEF Inv, Shapes
  <2>3. request' = [request EXCEPT ![p] = [request[p] EXCEPT !.arg.secret = Blank]] BY <2>1, <2>2
  <2> QED BY <1>9, <2>3
<1>12. w \in Stored /\ w.version = account[u].version + 1 /\ w.activated = account[u].activated
  BY <1>4, <1>6, <1>7, <1>10, RekeyedType
<1>13. /\ AccountsGrow /\ VersionsFit' /\ clobbered' \subseteq Users
       /\ account' \in [Users -> Accounts] /\ era' \in [Users -> Versions] /\ Exists(u)'
  BY <1>4, <1>6, <1>10, <1>12, Revoking
<1>14. PICK e : e = Blank OBVIOUS
<1>15. e \in Secrets \union {Blank} BY <1>14
<1>16. q = Local("patch", r, u, [secret |-> e, badGroup |-> b]) BY <1>8, <1>14
<1>17. q \in AnyRequest /\ RequestOK(q)' /\ q.op = "patch" BY <1>4, <1>13, <1>15, <1>16, PatchOK
<1>18. request' \in [Requests -> AnyRequest] /\ RequestsMove /\ WaitsMove
  BY <1>11, <1>17, OneRequest
<1> QED BY <1>10, <1>13, <1>18, CalmStep

LEMMA PatchKeeps ==
    ASSUME Inv, NEW p \in Requests, NEW r \in Replicas, NEW u \in Users, NEW body \in Bodies,
           Patch(p, r, u, body)
    PROVE  Inv'
<1>1. Exists(u) /\ account[u] \in Stored BY Existing DEF Patch, Inv
<1>2. UNCHANGED <<verifying, cache, limiter, signed, granted, clobbered, wrong, since>>
  BY DEF Patch
<1>3. /\ AccountsGrow /\ VersionsFit' /\ clobbered' \subseteq Users
      /\ account' \in [Users -> Accounts] /\ era' \in [Users -> Versions] /\ Exists(u)'
  <2>1. CASE body.disabled = Blank
    <3>1. body.disabled # "on" BY <2>1, BlankIsNot
    <3>2. era' = era BY <3>1 DEF Patch
    <3>3. account' = [account EXCEPT ![u] = account[u]] BY <2>1 DEF Patch, Write
    <3>4. account' = account BY <3>3 DEF Inv, Shapes
    <3> QED BY <1>1, <1>2, <3>2, <3>4, SameAccounts DEF Exists
  <2>2. CASE body.disabled # Blank /\ body.disabled = "on"
    <3>1. PICK w : w = Toggled(account[u], TRUE) OBVIOUS
    <3>2. Revokes(u) BY <2>2 DEF Patch
    <3>3. account' = [account EXCEPT ![u] = w]
      <4>1. account' = [account EXCEPT ![u] = Toggled(account[u], body.disabled = "on")]
        BY <2>2 DEF Patch, Write
      <4>2. Toggled(account[u], body.disabled = "on") = w BY <2>2, <3>1 DEF Toggled
      <4> QED BY <4>1, <4>2
    <3>4. account[u].version + 1 \in Versions BY <1>1, <3>2, NextVersion DEF Revokes
    <3>5. w \in Stored /\ w.version = account[u].version + 1 /\ w.activated = account[u].activated
      BY <1>1, <3>1, <3>4 DEF Toggled, Stored
    <3> QED BY <1>1, <1>2, <3>2, <3>3, <3>5, Revoking
  <2>3. CASE body.disabled # Blank /\ body.disabled # "on"
    <3>1. PICK w : w = Toggled(account[u], FALSE) OBVIOUS
    <3>2. era' = era BY <2>3 DEF Patch
    <3>3. account' = [account EXCEPT ![u] = w]
      <4>1. account' = [account EXCEPT ![u] = Toggled(account[u], body.disabled = "on")]
        BY <2>3 DEF Patch, Write
      <4>2. Toggled(account[u], body.disabled = "on") = w BY <2>3, <3>1 DEF Toggled
      <4> QED BY <4>1, <4>2
    <3>4. account[u].version + 0 = account[u].version BY <1>1, TokenNumbers DEF Inv
    <3>5. w \in Stored /\ w.version = account[u].version /\ w.activated = account[u].activated
      BY <1>1, <3>1, <3>4 DEF Toggled, Stored
    <3>6. account[u].activated => w.activated = TRUE BY <1>1, <3>5 DEF Stored
    <3> QED BY <1>1, <1>2, <3>2, <3>3, <3>5, <3>6, Recoded
  <2> QED BY <2>1, <2>2, <2>3
<1>4. PICK s, b : s = body.secret /\ b = body.badGroup OBVIOUS
<1>5. PICK q : q = Local("patch", r, u, [secret |-> s, badGroup |-> b]) OBVIOUS
<1>6. s \in Secrets \union {Blank} /\ b \in BOOLEAN BY <1>4 DEF Bodies
<1>7. request' = [request EXCEPT ![p] = q] BY <1>4, <1>5 DEF Patch, Begin
<1>8. q \in AnyRequest /\ RequestOK(q)' /\ q.op = "patch" BY <1>3, <1>5, <1>6, PatchOK
<1>9. request' \in [Requests -> AnyRequest] /\ RequestsMove /\ WaitsMove
  BY <1>7, <1>8, OneRequest
<1> QED BY <1>2, <1>3, <1>9, CalmStep

-----------------------------------------------------------------------------
(* The caches, the tokens and the lockout.                                 *)
LEMMA ForgetStep ==
    ASSUME Inv, request' \in [Requests -> AnyRequest], RequestsMove, WaitsMove,
           cache' \in [Replicas -> [Users -> Entries \union {NoEntry}]],
           \A r \in Replicas, u \in Users : cache'[r][u] = cache[r][u] \/ cache'[r][u] = NoEntry,
           UNCHANGED <<verifying, account, limiter, signed, granted, clobbered, wrong, era, since>>
    PROVE  Inv'
<1>1. AccountsGrow /\ VersionsFit' BY SameAccounts
<1>2. Shapes' BY DEF Inv, Shapes
<1>3. Ages' BY <1>2, AgesKeep
<1>4. WrongCounted' BY DEF Inv, WrongCounted
<1>5. AllBacked' BY <1>1, <1>2, BackedKeeps
<1>6. Given' BY <1>1, <1>2, GivenKeeps
<1>7. TokensBacked' /\ SinceZero' /\ Known' BY <1>1, <1>2, TokensKeep
<1> QED BY <1>1, <1>2, <1>3, <1>4, <1>5, <1>6, <1>7 DEF Inv

LEMMA InvalidatedType ==
    ASSUME Inv, NEW r \in Replicas, NEW u \in Users, cache' = Invalidated(r, u)
    PROVE  /\ cache' \in [Replicas -> [Users -> Entries \union {NoEntry}]]
           /\ \A o \in Replicas, v \in Users :
                cache'[o][v] = cache[o][v] \/ cache'[o][v] = NoEntry
BY DEF Invalidated, Inv, Shapes

LEMMA SignRequest ==
    ASSUME NEW u \in Users, Exists(u)', u \in clobbered' \/ Active(u)', NEW q, q = Simple("sign", u)
    PROVE  q \in AnyRequest /\ q.op = "sign" /\ q.user = u /\ RequestOK(q)'
<1>1. q \in AnyRequest /\ q.op = "sign" /\ q.user = u BY SimpleOK
<1>2. Backed(q)' BY <1>1 DEF Backed, Good
<1>3. ReadLearnt(q)' BY <1>1 DEF ReadLearnt
<1> QED BY <1>1, <1>2, <1>3 DEF RequestOK

LEMMA ChangedKeeps ==
    ASSUME Inv, NEW p \in Requests, Changed(p) PROVE Inv'
<1>1. PICK u, r : u = request[p].user /\ r = request[p].at OBVIOUS
<1>2. request[p] \in AnyRequest /\ request[p].op = "changed" BY DEF Changed, Inv, Shapes
<1>3. request[p] \in ChangedReq BY <1>2, RequestKinds
<1>4. u \in Users /\ r \in Replicas BY <1>1, <1>3 DEF ChangedReq
<1>5. Backed(request[p]) BY DEF Inv, AllBacked
<1>6. Exists(u) /\ (u \in clobbered \/ Active(u)) BY <1>1, <1>2, <1>5 DEF Backed, Good
<1>7. PICK q : q = Simple("sign", u) OBVIOUS
<1>8. /\ cache' = Invalidated(r, u) /\ request' = [request EXCEPT ![p] = q]
      /\ UNCHANGED <<verifying, account, limiter, signed, granted, clobbered, wrong, era, since>>
  BY <1>1, <1>7 DEF Changed, Go
<1>9. Exists(u)' /\ (u \in clobbered' \/ Active(u)') BY <1>6, <1>8 DEF Exists, Active
<1>10. q \in AnyRequest /\ q.op = "sign" /\ RequestOK(q)' BY <1>4, <1>7, <1>9, SignRequest
<1>11. request' \in [Requests -> AnyRequest] /\ RequestsMove /\ WaitsMove
  BY <1>8, <1>10, OneRequest
<1> QED BY <1>4, <1>8, <1>11, InvalidatedType, ForgetStep

LEMMA PatchEndsKeeps ==
    ASSUME Inv, NEW p \in Requests, PatchEnds(p) PROVE Inv'
<1>1. PICK u, r : u = request[p].user /\ r = request[p].at OBVIOUS
<1>2. request[p] \in AnyRequest /\ request[p].op = "patch" BY DEF PatchEnds, Inv, Shapes
<1>3. request[p] \in PatchReq BY <1>2, RequestKinds
<1>4. u \in Users /\ r \in Replicas BY <1>1, <1>3 DEF PatchReq
<1>5. /\ cache' = cache \/ cache' = Invalidated(r, u)
      /\ request' = [request EXCEPT ![p] = Idle]
      /\ UNCHANGED <<verifying, account, limiter, signed, granted, clobbered, wrong, era, since>>
  BY <1>1 DEF PatchEnds, End
<1>6. /\ cache' \in [Replicas -> [Users -> Entries \union {NoEntry}]]
      /\ \A o \in Replicas, v \in Users : cache'[o][v] = cache[o][v] \/ cache'[o][v] = NoEntry
  <2>1. CASE cache' = cache BY <2>1 DEF Inv, Shapes
  <2>2. CASE cache' = Invalidated(r, u) BY <1>4, <2>2, InvalidatedType
  <2> QED BY <1>5, <2>1, <2>2
<1>7. request' \in [Requests -> AnyRequest] /\ RequestsMove /\ WaitsMove
  BY <1>5, EndedRequest
<1> QED BY <1>5, <1>6, <1>7, ForgetStep

LEMMA FillCacheKeeps ==
    ASSUME Inv, NEW p \in Requests, FillCache(p) PROVE Inv'
<1>1. PICK u, r, a : u = request[p].user /\ r = request[p].at /\ a = request[p].arg OBVIOUS
<1>2. request[p] \in AnyRequest /\ request[p].op = "authState" BY DEF FillCache, Inv, Shapes
<1>3. request[p] \in StateReq BY <1>2, RequestKinds
<1>4. u \in Users /\ r \in Replicas /\ a \in Entries BY <1>1, <1>3 DEF StateReq
<1>5. PICK c : c = [a EXCEPT !.age = 0] OBVIOUS
<1>6. c \in Entries /\ c.version = a.version /\ c.age = 0 /\ c # NoEntry
  <2>1. 0 \in 0..(Grace - 1) BY Numbers
  <2>2. c \in Entries /\ c.version = a.version /\ c.age = 0 BY <1>4, <1>5, <2>1 DEF Entries
  <2> QED BY <2>2, EntryKinds
<1>7. /\ cache' = [cache EXCEPT ![r][u] = c] /\ request' = [request EXCEPT ![p] = Idle]
      /\ UNCHANGED <<verifying, account, limiter, signed, granted, clobbered, wrong, era, since>>
  BY <1>1, <1>5 DEF FillCache, End
<1>8. /\ cache' \in [Replicas -> [Users -> Entries \union {NoEntry}]] /\ cache'[r][u] = c
      /\ \A o \in Replicas, v \in Users : cache'[o][v] = cache[o][v] \/ (o = r /\ v = u)
  BY <1>4, <1>6, <1>7 DEF Inv, Shapes
<1>9. request' \in [Requests -> AnyRequest] /\ RequestsMove /\ WaitsMove
  BY <1>7, EndedRequest
<1>10. AccountsGrow /\ VersionsFit' BY <1>7, SameAccounts
<1>11. Shapes' BY <1>7, <1>8, <1>9 DEF Inv, Shapes
<1>12. Ages'
  <2>1. request'[p] = Idle /\ \A o \in Requests : o # p => request'[o] = request[o]
    BY <1>7 DEF Inv, Shapes
  <2>2. \A o \in Requests : request'[o].op = "authState" => request'[o].arg.age <= Latency
    BY <2>1, IdleOK DEF Inv, Ages
  <2>3. \A o \in Replicas, v \in Users : cache'[o][v] # NoEntry => cache'[o][v].age < CacheTtl
    BY <1>6, <1>8, Numbers DEF Inv, Ages
  <2> QED BY <2>2, <2>3 DEF Ages
<1>13. WrongCounted' BY <1>7 DEF Inv, WrongCounted
<1>14. AllBacked' BY <1>9, <1>10, <1>11, BackedKeeps
<1>15. Given' BY <1>7, <1>9, <1>10, <1>11, GivenKeeps
<1>16. TokensBacked' /\ SinceZero' BY <1>7 DEF Inv, TokensBacked, SinceZero, Exists, Active
<1>17. ASSUME NEW v \in Users \ clobbered' PROVE InStep(v)' /\ CacheLearnt(v)'
  <2>1. InStep(v)' BY <1>7, <1>10, <1>11, StillInStep
  <2>2. CacheLearnt(v) BY <1>7 DEF Inv, Known
  <2> SUFFICES ASSUME NEW o \in Replicas PROVE Learnt(cache[o][v], v, Latency)'
    BY <2>1 DEF CacheLearnt, Learnt
  <2>3. CASE cache'[o][v] = cache[o][v] BY <1>7, <2>2, <2>3 DEF CacheLearnt, Learnt
  <2>4. CASE o = r /\ v = u
    <3>1. ReadLearnt(request[p]) BY DEF Inv, Known
    <3>2. Learnt(a, u, 0) BY <1>1, <1>2, <1>7, <2>4, <3>1 DEF ReadLearnt
    <3>3. a.hit = TRUE /\ a.age \in Nat BY <1>4, EntryKinds
    <3>4. a.age <= Latency BY <1>1, <1>2 DEF Inv, Ages
    <3>5. ASSUME NEW t \in signed[u], t.version = c.version
          PROVE  since[u][t.era] <= c.age + Latency
      <4>1. since[u][t.era] <= a.age + 0 BY <1>6, <3>2, <3>3, <3>5 DEF Learnt
      <4>2. since[u][t.era] \in Nat BY <1>4, <3>5, TokenNumbers DEF Inv
      <4> QED BY <1>6, <3>3, <3>4, <4>1, <4>2, Numbers
    <3> QED BY <1>7, <1>8, <2>4, <3>5 DEF Learnt
  <2> QED BY <1>8, <2>3, <2>4
<1>18. \A o \in Requests : ReadLearnt(request[o])'
  <2>1. request'[p] = Idle /\ \A o \in Requests : o # p => request'[o] = request[o]
    BY <1>7 DEF Inv, Shapes
  <2> SUFFICES ASSUME NEW o \in Requests, NEW s, s = request'[o] PROVE ReadLearnt(s)'
    BY DEF ReadLearnt, Learnt
  <2>2. CASE o = p BY <2>1, <2>2, IdleOK DEF ReadLearnt
  <2>3. CASE o # p
    <3>1. ReadLearnt(s) BY <2>1, <2>3 DEF Inv, Known
    <3> QED BY <1>7, <3>1 DEF ReadLearnt, Learnt
  <2> QED BY <2>2, <2>3
<1>19. Known' BY <1>17, <1>18 DEF Known
<1> QED BY <1>10, <1>11, <1>12, <1>13, <1>14, <1>15, <1>16, <1>19 DEF Inv

LEMMA SignKeeps ==
    ASSUME Inv, NEW p \in Requests, Sign(p) PROVE Inv'
<1>1. PICK u : u = request[p].user OBVIOUS
<1>2. request[p] \in AnyRequest /\ request[p].op = "sign" BY DEF Sign, Inv, Shapes
<1>3. u \in Users BY <1>1, <1>2, RequestKinds
<1>4. Backed(request[p]) BY DEF Inv, AllBacked
<1>5. Exists(u) /\ (u \in clobbered \/ Active(u)) BY <1>1, <1>2, <1>4 DEF Backed, Good
<1>6. PICK n : n = [version |-> account[u].version, era |-> era[u]] OBVIOUS
<1>7. /\ signed' = [signed EXCEPT ![u] = @ \union {n}]
      /\ request' = [request EXCEPT ![p] = Idle]
      /\ UNCHANGED <<verifying, account, cache, limiter, granted, clobbered, wrong, era, since>>
  BY <1>1, <1>6 DEF Sign, End
<1>8. n \in [version : Versions, era : Versions] BY <1>3, <1>5, <1>6, TokenNumbers DEF Inv
<1>9. /\ signed' \in [Users -> SUBSET [version : Versions, era : Versions]]
      /\ \A v \in Users : \A t \in signed'[v] : t \in signed[v] \/ (v = u /\ t = n)
      /\ \A v \in Users : signed'[v] # {} => signed[v] # {} \/ v = u
  BY <1>3, <1>7, <1>8 DEF Inv, Shapes
<1>10. request' \in [Requests -> AnyRequest] /\ RequestsMove /\ WaitsMove
  BY <1>7, EndedRequest
<1>11. AccountsGrow /\ VersionsFit' BY <1>7, SameAccounts
<1>12. Shapes' BY <1>7, <1>9, <1>10 DEF Inv, Shapes
<1>13. Ages' BY <1>7, <1>10, <1>12, AgesKeep
<1>14. WrongCounted' BY <1>7 DEF Inv, WrongCounted
<1>15. AllBacked' BY <1>10, <1>11, <1>12, BackedKeeps
<1>16. Given' BY <1>7, <1>10, <1>11, <1>12, GivenKeeps
<1>17. TokensBacked' BY <1>5, <1>7, <1>9 DEF Inv, TokensBacked, Exists, Active
<1>18. SinceZero' BY <1>7 DEF Inv, SinceZero
<1>19. since[u][n.era] = 0 BY <1>3, <1>6, TokenNumbers DEF Inv, SinceZero
<1>20. ASSUME NEW v \in Users, NEW c \in Entries \union {NoEntry}, NEW d \in Nat, Learnt(c, v, d)
       PROVE  Learnt(c, v, d)'
  <2> SUFFICES ASSUME c.hit, NEW t \in signed'[v], t.version = c.version
               PROVE  since[v][t.era] <= c.age + d
    BY <1>7 DEF Learnt
  <2>1. CASE t \in signed[v] BY <1>20, <2>1 DEF Learnt
  <2>2. CASE v = u /\ t = n
    <3>1. c.age \in Nat BY EntryKinds
    <3> QED BY <1>19, <2>2, <3>1
  <2> QED BY <1>9, <2>1, <2>2
<1>21. ASSUME NEW v \in Users \ clobbered' PROVE InStep(v)' /\ CacheLearnt(v)'
  <2>1. InStep(v) /\ CacheLearnt(v) BY <1>7 DEF Inv, Known
  <2>2. ASSUME NEW t \in signed'[v]
        PROVE  t.era <= era[v] /\ account[v].version + t.era = t.version + era[v]
    <3>1. CASE t \in signed[v] BY <2>1, <3>1 DEF InStep
    <3>2. CASE v = u /\ t = n BY <1>3, <1>6, <3>2, TokenNumbers DEF Inv
    <3> QED BY <1>9, <3>1, <3>2
  <2>3. InStep(v)' BY <1>7, <2>2 DEF InStep
  <2>4. ASSUME NEW r \in Replicas, NEW c, c = cache[r][v] PROVE Learnt(c, v, Latency)'
    <3>1. Learnt(c, v, Latency) BY <2>1, <2>4 DEF CacheLearnt
    <3>2. c \in Entries \union {NoEntry} BY <2>4 DEF Inv, Shapes
    <3> QED BY <1>20, <3>1, <3>2, Numbers
  <2>5. CacheLearnt(v)' BY <1>7, <2>4 DEF CacheLearnt, Learnt
  <2> QED BY <2>3, <2>5
<1>22. ASSUME NEW o \in Requests, NEW s, s = request'[o] PROVE ReadLearnt(s)'
  <2>1. request'[p] = Idle /\ \A k \in Requests : k # p => request'[k] = request[k]
    BY <1>7 DEF Inv, Shapes
  <2>2. CASE o = p BY <1>22, <2>1, <2>2, IdleOK DEF ReadLearnt
  <2>3. CASE o # p /\ s.op = "authState" /\ s.user \notin clobbered'
    <3>1. ReadLearnt(s) BY <1>22, <2>1, <2>3 DEF Inv, Known
    <3>2. Learnt(s.arg, s.user, 0) BY <1>7, <2>3, <3>1 DEF ReadLearnt
    <3>3. s \in StateReq BY <1>22, <1>12, <2>3, RequestKinds DEF Shapes
    <3>4. s.user \in Users /\ s.arg \in Entries BY <3>3 DEF StateReq
    <3>5. PICK d \in Nat : d = 0 OBVIOUS
    <3>6. PICK c, v : c = s.arg /\ v = s.user OBVIOUS
    <3>7. Learnt(c, v, d)' BY <1>20, <3>2, <3>4, <3>5, <3>6
    <3> QED BY <3>5, <3>6, <3>7 DEF ReadLearnt, Learnt
  <2>4. CASE ~(s.op = "authState" /\ s.user \notin clobbered') BY <2>4 DEF ReadLearnt
  <2> QED BY <2>2, <2>3, <2>4
<1>23. \A o \in Requests : ReadLearnt(request[o])' BY <1>22 DEF ReadLearnt, Learnt
<1>24. Known' BY <1>21, <1>23 DEF Known
<1> QED BY <1>11, <1>12, <1>13, <1>14, <1>15, <1>16, <1>17, <1>18, <1>24 DEF Inv

(* A step on the entries of the lockout and the requests.                  *)
LEMMA LimiterStep ==
    ASSUME Inv, request' \in [Requests -> AnyRequest], RequestsMove, WaitsMove,
           NEW r \in Replicas, NEW u \in Users,
           NEW e \in [stamps : 0..UserMax, blocked : BOOLEAN], NEW n \in Nat, Counted(e, n),
           limiter' = [limiter EXCEPT ![r][u] = e], wrong' = [wrong EXCEPT ![r][u] = n],
           UNCHANGED <<verifying, account, cache, signed, granted, clobbered, era, since>>
    PROVE  Inv'
<1>1. AccountsGrow /\ VersionsFit' BY SameAccounts
<1>2. /\ limiter' \in [Replicas -> [Users -> [stamps : 0..UserMax, blocked : BOOLEAN]]]
      /\ wrong' \in [Replicas -> [Users -> Nat]]
      /\ limiter'[r][u] = e /\ wrong'[r][u] = n
      /\ \A o \in Replicas, v \in Users : (o = r /\ v = u)
           \/ (limiter'[o][v] = limiter[o][v] /\ wrong'[o][v] = wrong[o][v])
  BY DEF Inv, Shapes
<1>3. Shapes' BY <1>2 DEF Inv, Shapes
<1>4. Ages' BY <1>3, AgesKeep
<1>5. ASSUME NEW o \in Replicas, NEW v \in Users
      PROVE  Counted(limiter'[o][v], wrong'[o][v])
  <2>1. Counted(limiter[o][v], wrong[o][v]) BY DEF Inv, WrongCounted
  <2> QED BY <1>2, <2>1
<1>6. WrongCounted' BY <1>5 DEF WrongCounted, Counted
<1>7. AllBacked' BY <1>1, <1>3, BackedKeeps
<1>8. Given' BY <1>1, <1>3, GivenKeeps
<1>9. TokensBacked' /\ SinceZero' /\ Known' BY <1>1, <1>3, TokensKeep
<1> QED BY <1>1, <1>3, <1>4, <1>6, <1>7, <1>8, <1>9 DEF Inv

LEMMA ClearType ==
    Clear \in [stamps : 0..UserMax, blocked : BOOLEAN] /\ Counted(Clear, 0)
BY Numbers DEF Clear, Counted

LEMMA LimiterTypes ==
    ASSUME Inv, NEW r \in Replicas, NEW u \in Users
    PROVE  /\ limiter[r][u] \in [stamps : 0..UserMax, blocked : BOOLEAN]
           /\ limiter[r][u].stamps \in Nat /\ limiter[r][u].stamps <= UserMax
           /\ limiter[r][u].blocked \in BOOLEAN /\ wrong[r][u] \in Nat
           /\ Counted(limiter[r][u], wrong[r][u])
<1>1. limiter[r][u] \in [stamps : 0..UserMax, blocked : BOOLEAN] /\ wrong[r][u] \in Nat
  BY DEF Inv, Shapes
<1>2. Counted(limiter[r][u], wrong[r][u]) BY DEF Inv, WrongCounted
<1> QED BY <1>1, <1>2, Numbers

LEMMA LoginRequest ==
    ASSUME Inv, NEW p \in Requests, request[p].op = "login"
    PROVE  request[p].user \in Users /\ request[p].at \in Replicas
BY RequestKinds DEF Inv, Shapes, LoginReq

LEMMA LoginFailsKeeps ==
    ASSUME Inv, NEW p \in Requests, LoginFails(p) PROVE Inv'
<1>1. PICK u, r : u = request[p].user /\ r = request[p].at OBVIOUS
<1>2. u \in Users /\ r \in Replicas BY <1>1, LoginRequest DEF LoginFails
<1>3. PICK d, m : d = limiter[r][u] /\ m = wrong[r][u] OBVIOUS
<1>4. PICK e : e = Consume(d) OBVIOUS
<1>5. PICK n : n = IF e.blocked THEN m ELSE m + 1 OBVIOUS
<1>6. /\ limiter' = [limiter EXCEPT ![r][u] = e] /\ wrong' = [wrong EXCEPT ![r][u] = n]
      /\ request' = [request EXCEPT ![p] = Idle]
      /\ UNCHANGED <<verifying, account, cache, signed, granted, clobbered, era, since>>
  BY <1>1, <1>3, <1>4, <1>5 DEF LoginFails, End
<1>7. /\ d \in [stamps : 0..UserMax, blocked : BOOLEAN] /\ d.stamps \in Nat
      /\ d.stamps <= UserMax /\ d.blocked \in BOOLEAN /\ m \in Nat /\ Counted(d, m)
  BY <1>2, <1>3, LimiterTypes
<1>8. e \in [stamps : 0..UserMax, blocked : BOOLEAN] /\ n \in Nat /\ Counted(e, n)
  <2>1. CASE d.blocked BY <1>4, <1>5, <1>7, <2>1 DEF Consume
  <2>2. CASE ~d.blocked /\ d.stamps + 1 > UserMax
    <3>1. e = [stamps |-> 0, blocked |-> TRUE] BY <1>4, <2>2 DEF Consume
    <3>2. n = m /\ m = d.stamps BY <1>5, <1>7, <2>2, <3>1 DEF Counted
    <3> QED BY <1>7, <3>1, <3>2, Numbers DEF Counted
  <2>3. CASE ~d.blocked /\ ~(d.stamps + 1 > UserMax)
    <3>1. e = [stamps |-> d.stamps + 1, blocked |-> FALSE] BY <1>4, <2>3 DEF Consume
    <3>2. n = m + 1 /\ m = d.stamps BY <1>5, <1>7, <2>3, <3>1 DEF Counted
    <3> QED BY <1>7, <2>3, <3>1, <3>2, Numbers DEF Counted
  <2> QED BY <2>1, <2>2, <2>3
<1>9. request' \in [Requests -> AnyRequest] /\ RequestsMove /\ WaitsMove
  BY <1>6, EndedRequest
<1> QED BY <1>2, <1>6, <1>8, <1>9, LimiterStep

LEMMA LoginPassesKeeps ==
    ASSUME Inv, NEW p \in Requests, LoginPasses(p) PROVE Inv'
<1>1. PICK u, r : u = request[p].user /\ r = request[p].at OBVIOUS
<1>2. u \in Users /\ r \in Replicas BY <1>1, LoginRequest DEF LoginPasses
<1>3. /\ limiter' = [limiter EXCEPT ![r][u] = Clear] /\ wrong' = [wrong EXCEPT ![r][u] = 0]
      /\ UNCHANGED <<verifying, account, cache, signed, granted, clobbered, era, since>>
  BY <1>1 DEF LoginPasses
<1>4. request' \in [Requests -> AnyRequest] /\ RequestsMove /\ WaitsMove
  <2>1. CASE request[p].arg = "good"
    <3>1. PICK q : q = Simple("sign", u) OBVIOUS
    <3>2. request' = [request EXCEPT ![p] = q] BY <1>1, <2>1, <3>1 DEF LoginPasses, Go
    <3>3. Backed(request[p]) BY DEF Inv, AllBacked
    <3>4. Exists(u) /\ (u \in clobbered \/ Active(u))
      BY <1>1, <2>1, <3>3 DEF Backed, Good, LoginPasses
    <3>5. Exists(u)' /\ (u \in clobbered' \/ Active(u)') BY <1>3, <3>4 DEF Exists, Active
    <3>6. q \in AnyRequest /\ q.op = "sign" /\ RequestOK(q)' BY <1>2, <3>1, <3>5, SignRequest
    <3> QED BY <3>2, <3>6, OneRequest
  <2>2. CASE request[p].arg # "good"
    <3>1. request' = [request EXCEPT ![p] = Idle] BY <2>2 DEF LoginPasses, End
    <3> QED BY <3>1, EndedRequest
  <2> QED BY <2>1, <2>2
<1> QED BY <1>2, <1>3, <1>4, ClearType, LimiterStep

LEMMA WindowSlidesKeeps ==
    ASSUME Inv, NEW r \in Replicas, NEW u \in Users, WindowSlides(r, u) PROVE Inv'
<1>1. PICK d, m : d = limiter[r][u] /\ m = wrong[r][u] OBVIOUS
<1>2. PICK e, n : e = [d EXCEPT !.stamps = @ - 1] /\ n = m - 1 OBVIOUS
<1>3. /\ d \in [stamps : 0..UserMax, blocked : BOOLEAN] /\ d.stamps \in Nat
      /\ d.stamps <= UserMax /\ d.blocked \in BOOLEAN /\ m \in Nat /\ Counted(d, m)
  BY <1>1, LimiterTypes
<1>4. d.stamps > 0 BY <1>1 DEF WindowSlides
<1>5. ~d.blocked /\ m = d.stamps BY <1>3, <1>4 DEF Counted
<1>6. e \in [stamps : 0..UserMax, blocked : BOOLEAN] /\ n \in Nat /\ Counted(e, n)
  <2>1. e.stamps = d.stamps - 1 /\ e.blocked = d.blocked BY <1>2, <1>3
  <2>2. e \in [stamps : 0..UserMax, blocked : BOOLEAN] BY <1>2, <1>3, <1>4, Numbers
  <2> QED BY <1>2, <1>3, <1>4, <1>5, <2>1, <2>2 DEF Counted
<1>7. limiter' = [limiter EXCEPT ![r][u] = e]
  BY <1>1, <1>2 DEF WindowSlides, Inv, Shapes
<1>8. wrong' = [wrong EXCEPT ![r][u] = n] /\ request' = request
      /\ UNCHANGED <<verifying, account, cache, signed, granted, clobbered, era, since>>
  BY <1>1, <1>2 DEF WindowSlides
<1> QED BY <1>6, <1>7, <1>8, SameRequests, LimiterStep

LEMMA EntryEndsKeeps ==
    ASSUME Inv, NEW r \in Replicas, NEW u \in Users, EntryEnds(r, u) PROVE Inv'
<1>1. /\ limiter' = [limiter EXCEPT ![r][u] = Clear] /\ wrong' = [wrong EXCEPT ![r][u] = 0]
      /\ request' = request
      /\ UNCHANGED <<verifying, account, cache, signed, granted, clobbered, era, since>>
  BY DEF EntryEnds
<1> QED BY <1>1, ClearType, SameRequests, LimiterStep

LEMMA WelcomeKeeps ==
    ASSUME Inv, NEW p \in Requests, Welcome(p) PROVE Inv'
<1>1. PICK u : u = request[p].user OBVIOUS
<1>2. request[p] \in AnyRequest /\ request[p].op = "welcome" BY DEF Welcome, Inv, Shapes
<1>3. u \in Users BY <1>1, <1>2, RequestKinds
<1>4. Backed(request[p]) BY DEF Inv, AllBacked
<1>5. Exists(u) /\ (u \in clobbered \/ Active(u)) BY <1>1, <1>2, <1>4 DEF Backed, Good
<1>6. PICK n : n = IF granted[u] > 1 THEN granted[u] ELSE granted[u] + 1 OBVIOUS
<1>7. PICK q : q = Simple("sign", u) OBVIOUS
<1>8. /\ granted' = [granted EXCEPT ![u] = n] /\ request' = [request EXCEPT ![p] = q]
      /\ UNCHANGED <<verifying, account, cache, limiter, signed, clobbered, wrong, era, since>>
  BY <1>1, <1>6, <1>7 DEF Welcome, Go
<1>9. granted[u] \in 0..2 /\ n \in 0..2 BY <1>3, <1>6 DEF Inv, Shapes
<1>10. Exists(u)' /\ (u \in clobbered' \/ Active(u)') BY <1>5, <1>8 DEF Exists, Active
<1>11. q \in AnyRequest /\ q.op = "sign" /\ RequestOK(q)' BY <1>3, <1>7, <1>10, SignRequest
<1>12. /\ request' \in [Requests -> AnyRequest] /\ RequestsMove
       /\ request'[p] = q /\ \A o \in Requests \ {p} : request'[o] = request[o]
  BY <1>8, <1>11, OneRequest
<1>13. AccountsGrow /\ VersionsFit' BY <1>8, SameAccounts
<1>14. Shapes' BY <1>8, <1>9, <1>12 DEF Inv, Shapes
<1>15. Ages' BY <1>8, <1>12, <1>14, AgesKeep
<1>16. WrongCounted' BY <1>8 DEF Inv, WrongCounted
<1>17. AllBacked' BY <1>12, <1>13, <1>14, BackedKeeps
<1>18. ASSUME NEW v \in Users \ clobbered' PROVE GivenOnce(v)'
  <2>1. GivenOnce(v) BY <1>8 DEF Inv, Given
  <2>2. \A o \in Requests : Waiting(o, v)' => Waiting(o, v) /\ o # p
    BY <1>11, <1>12 DEF Waiting
  <2>3. Active(v) => Active(v)' BY <1>8 DEF Active, Exists
  <2>4. CASE v = u
    <3>1. Waiting(p, u) BY <1>1, <1>2 DEF Waiting
    <3>2. granted[u] = 0 BY <1>9, <2>1, <2>4, <3>1 DEF GivenOnce
    <3>3. granted'[v] = 1 BY <1>3, <1>6, <1>8, <2>4, <3>2 DEF Inv, Shapes
    <3>4. \A o \in Requests : ~Waiting(o, v)' BY <2>1, <2>2, <2>4, <3>1 DEF GivenOnce
    <3>5. Active(v)' BY <1>8, <1>10, <2>4
    <3> QED BY <3>3, <3>4, <3>5 DEF GivenOnce
  <2>5. CASE v # u
    <3>1. granted'[v] = granted[v] BY <1>8, <2>5 DEF Inv, Shapes
    <3> QED BY <2>1, <2>2, <2>3, <3>1 DEF GivenOnce
  <2> QED BY <2>4, <2>5
<1>19. Given' BY <1>18 DEF Given
<1>20. TokensBacked' /\ SinceZero' /\ Known' BY <1>8, <1>12, <1>13, <1>14, TokensKeep
<1> QED BY <1>13, <1>14, <1>15, <1>16, <1>17, <1>19, <1>20 DEF Inv

-----------------------------------------------------------------------------
(* Time.                                                                   *)
LEMMA OlderType ==
    ASSUME NEW c \in Entries \union {NoEntry}, c # NoEntry => c.age < CacheTtl
    PROVE  /\ Older(c) \in Entries \union {NoEntry}
           /\ Older(c) # NoEntry =>
                /\ c \in Entries /\ Older(c).age = c.age + 1 /\ Older(c).age < CacheTtl
                /\ Older(c).version = c.version
<1>1. CASE c = NoEntry BY <1>1, EntryKinds DEF Older
<1>2. CASE c \in Entries /\ c.age + 1 >= CacheTtl BY <1>2 DEF Older
<1>3. CASE c \in Entries /\ ~(c.age + 1 >= CacheTtl)
  <2>1. c.hit = TRUE /\ c.age \in Nat BY <1>3, EntryKinds
  <2>2. PICK w : w = [c EXCEPT !.age = @ + 1] OBVIOUS
  <2>3. Older(c) = w BY <1>3, <2>1, <2>2 DEF Older
  <2>4. c.age + 1 \in 0..(Grace - 1) /\ c.age + 1 < CacheTtl BY <1>3, <2>1, Numbers
  <2>5. w \in Entries /\ w.age = c.age + 1 /\ w.version = c.version
    BY <1>3, <2>2, <2>4 DEF Entries
  <2> QED BY <1>3, <2>3, <2>4, <2>5
<1> QED BY <1>1, <1>2, <1>3

(* A request that reads the store grows older too.                         *)
Longer(q, s) ==
    \/ s = q /\ q.op # "authState"
    \/ /\ q \in StateReq /\ s \in StateReq /\ s.user = q.user /\ q.op = "authState"
       /\ s.op = "authState" /\ s.arg.version = q.arg.version
       /\ s.arg.age = q.arg.age + 1 /\ q.arg.age < Latency
LEMMA TickRequests ==
    ASSUME Inv, Tick
    PROVE  /\ request' \in [Requests -> AnyRequest]
           /\ \A o \in Requests : Longer(request[o], request'[o])
<1> SUFFICES ASSUME NEW o \in Requests
             PROVE  request'[o] \in AnyRequest /\ Longer(request[o], request'[o])
  BY DEF Tick
<1>1. PICK q : q = request[o] OBVIOUS
<1>2. q \in AnyRequest BY <1>1 DEF Inv, Shapes
<1>3. request'[o] = IF q.op = "authState" /\ q.arg.hit
                    THEN [q EXCEPT !.arg.age = @ + 1] ELSE q
  BY <1>1 DEF Tick
<1>4. CASE q.op # "authState" BY <1>1, <1>2, <1>3, <1>4 DEF Longer
<1>5. CASE q.op = "authState"
  <2>1. q \in StateReq BY <1>2, <1>5, RequestKinds
  <2>2. PICK a : a = q.arg OBVIOUS
  <2>3. a \in Entries /\ a.hit = TRUE /\ a.age \in Nat BY <2>1, <2>2, EntryKinds DEF StateReq
  <2>4. a.age < Latency BY <1>1, <1>5, <2>2, <2>3 DEF Tick, InTime
  <2>5. PICK b : b = [a EXCEPT !.age = @ + 1] OBVIOUS
  <2>6. a.age + 1 \in 0..(Grace - 1) BY <2>3, <2>4, Numbers
  <2>7. b \in Entries /\ b.age = a.age + 1 /\ b.version = a.version
    BY <2>3, <2>5, <2>6 DEF Entries
  <2>8. PICK s : s = [q EXCEPT !.arg = b] OBVIOUS
  <2>9. request'[o] = s BY <1>3, <1>5, <2>1, <2>2, <2>3, <2>5, <2>8 DEF StateReq
  <2>10. s \in StateReq /\ s.op = "authState" /\ s.user = q.user /\ s.arg = b
    BY <2>1, <2>7, <2>8 DEF StateReq
  <2>11. s \in AnyRequest BY <2>10 DEF AnyRequest
  <2> QED BY <1>1, <1>5, <2>1, <2>2, <2>4, <2>7, <2>9, <2>10, <2>11 DEF Longer
<1> QED BY <1>4, <1>5

LEMMA TickSince ==
    ASSUME Inv, Tick
    PROVE  /\ since' \in [Users -> [Versions -> 0..(Grace + 1)]] /\ SinceZero'
           /\ \A u \in Users, e \in Versions : since'[u][e] <= since[u][e] + 1
<1>1. ASSUME NEW u \in Users, NEW e \in Versions
      PROVE  /\ since'[u][e] \in 0..(Grace + 1) /\ since'[u][e] <= since[u][e] + 1
             /\ e >= era'[u] => since'[u][e] = 0
  <2>1. since[u][e] \in 0..(Grace + 1) /\ since[u][e] \in Nat /\ Grace \in Nat
    BY Numbers DEF Inv, Shapes
  <2>2. e \in Nat /\ era[u] \in Nat /\ era'[u] = era[u] BY Numbers DEF Inv, Shapes, Tick
  <2>3. since'[u][e] = IF e < era[u] THEN Aged(since[u][e]) ELSE 0 BY DEF Tick
  <2> QED BY <2>1, <2>2, <2>3 DEF Aged
<1>2. since' \in [Users -> [Versions -> 0..(Grace + 1)]] BY <1>1 DEF Tick
<1> QED BY <1>1, <1>2 DEF SinceZero

LEMMA TickKeeps ==
    ASSUME Inv, Tick PROVE Inv'
<1>1. UNCHANGED <<verifying, account, limiter, signed, granted, clobbered, wrong, era>>
  BY DEF Tick
<1>2. /\ request' \in [Requests -> AnyRequest]
      /\ \A o \in Requests : Longer(request[o], request'[o])
  BY TickRequests
<1>3. ASSUME NEW r \in Replicas, NEW u \in Users
      PROVE  /\ cache'[r][u] = Older(cache[r][u]) /\ cache'[r][u] \in Entries \union {NoEntry}
             /\ cache'[r][u] # NoEntry =>
                  /\ cache[r][u] \in Entries /\ cache'[r][u].age = cache[r][u].age + 1
                  /\ cache'[r][u].age < CacheTtl /\ cache'[r][u].version = cache[r][u].version
  <2>1. cache'[r][u] = Older(cache[r][u]) BY DEF Tick
  <2>2. cache[r][u] \in Entries \union {NoEntry}
        /\ (cache[r][u] # NoEntry => cache[r][u].age < CacheTtl)
    BY DEF Inv, Shapes, Ages
  <2>3. PICK c : c = cache[r][u] OBVIOUS
  <2> QED BY <2>1, <2>2, <2>3, OlderType
<1>4. cache' \in [Replicas -> [Users -> Entries \union {NoEntry}]] BY <1>3 DEF Tick
<1>5. AccountsGrow /\ VersionsFit' BY <1>1, SameAccounts
<1>6. Shapes' BY <1>1, <1>2, <1>4, TickSince DEF Inv, Shapes
<1>7. Ages'
  <2>1. ASSUME NEW o \in Requests, request'[o].op = "authState"
        PROVE  request'[o].arg.age <= Latency
    <3>1. PICK q, s : q = request[o] /\ s = request'[o] OBVIOUS
    <3>2. Longer(q, s) BY <1>2, <3>1
    <3>3. q \in StateReq /\ s.arg.age = q.arg.age + 1 /\ q.arg.age < Latency
      BY <2>1, <3>1, <3>2 DEF Longer
    <3>4. q.arg.age \in Nat BY <3>3, EntryKinds DEF StateReq
    <3> QED BY <3>1, <3>3, <3>4, Numbers
  <2> QED BY <1>3, <2>1 DEF Ages
<1>8. WrongCounted' BY <1>1 DEF Inv, WrongCounted
<1>9. AllBacked'
  <2> SUFFICES ASSUME NEW o \in Requests, NEW s, s = request'[o] PROVE Backed(s)'
    BY DEF AllBacked, Backed, Good, Exists, Active
  <2>1. Backed(request[o]) /\ Longer(request[o], s) BY <1>2 DEF Inv, AllBacked
  <2> QED BY <1>1, <2>1 DEF Backed, Good, Longer, Exists, Active
<1>10. \A o \in Requests, u \in Users : Waiting(o, u)' => Waiting(o, u)
  <2> SUFFICES ASSUME NEW o \in Requests, NEW u \in Users, NEW s, s = request'[o],
                      s.op = "welcome", s.user = u
               PROVE  Waiting(o, u)
    BY DEF Waiting
  <2>1. Longer(request[o], s) BY <1>2
  <2> QED BY <2>1 DEF Waiting, Longer
<1>11. Given'
  <2>1. WaitsMove BY <1>10 DEF WaitsMove, NoNewWait
  <2> QED BY <1>1, <1>5, <1>6, <2>1, GivenKeeps
<1>12. TokensBacked' BY <1>1 DEF Inv, TokensBacked, Exists, Active
<1>13. ASSUME NEW u \in Users, NEW c \in Entries, NEW d \in Nat, Learnt(c, u, d),
              NEW b, b.version = c.version, b.age = c.age + 1
       PROVE  Learnt(b, u, d)'
  <2> SUFFICES ASSUME NEW t \in signed[u], t.version = b.version
               PROVE  since'[u][t.era] <= b.age + d
    BY <1>1 DEF Learnt
  <2>1. c.hit = TRUE /\ c.age \in Nat BY EntryKinds
  <2>2. since[u][t.era] <= c.age + d BY <1>13, <2>1 DEF Learnt
  <2>3. t.era \in Versions /\ since[u][t.era] \in Nat BY TokenNumbers DEF Inv
  <2>4. since'[u][t.era] <= since[u][t.era] + 1 BY <2>3, TickSince
  <2>5. since'[u][t.era] \in Nat
    <3>1. since' \in [Users -> [Versions -> 0..(Grace + 1)]] BY TickSince
    <3>2. since'[u][t.era] \in 0..(Grace + 1) BY <2>3, <3>1
    <3> QED BY <3>2, Numbers
  <2> QED BY <1>13, <2>1, <2>2, <2>3, <2>4, <2>5
<1>14. ASSUME NEW u \in Users \ clobbered' PROVE InStep(u)' /\ CacheLearnt(u)'
  <2>1. InStep(u)' BY <1>1, <1>5, <1>6, StillInStep
  <2>2. CacheLearnt(u) BY <1>1 DEF Inv, Known
  <2>3. ASSUME NEW r \in Replicas, NEW b, b = cache'[r][u] PROVE Learnt(b, u, Latency)'
    <3>1. CASE b = NoEntry BY <3>1, EntryKinds DEF Learnt
    <3>2. CASE b # NoEntry
      <4>1. PICK c : c = cache[r][u] OBVIOUS
      <4>2. c \in Entries /\ b.age = c.age + 1 /\ b.version = c.version
        BY <1>3, <2>3, <3>2, <4>1
      <4>3. Learnt(c, u, Latency) BY <2>2, <4>1 DEF CacheLearnt
      <4> QED BY <1>13, <4>2, <4>3, Numbers
    <3> QED BY <3>1, <3>2
  <2>4. CacheLearnt(u)' BY <2>3 DEF CacheLearnt, Learnt
  <2> QED BY <2>1, <2>4
<1>15. ASSUME NEW o \in Requests, NEW s, s = request'[o] PROVE ReadLearnt(s)'
  <2>1. PICK q : q = request[o] OBVIOUS
  <2>2. Longer(q, s) BY <1>2, <1>15, <2>1
  <2>3. CASE s.op # "authState" BY <2>3 DEF ReadLearnt
  <2>4. CASE s.op = "authState" /\ s.user \in clobbered' BY <2>4 DEF ReadLearnt
  <2>5. CASE s.op = "authState" /\ s.user \notin clobbered'
    <3>1. /\ q \in StateReq /\ s.user = q.user /\ q.op = "authState"
          /\ s.arg.version = q.arg.version /\ s.arg.age = q.arg.age + 1
      BY <2>2, <2>5 DEF Longer
    <3>2. ReadLearnt(q) BY <2>1 DEF Inv, Known
    <3>3. PICK d \in Nat : d = 0 OBVIOUS
    <3>4. PICK b, c, u : b = s.arg /\ c = q.arg /\ u = q.user OBVIOUS
    <3>5. c \in Entries /\ u \in Users BY <3>1, <3>4 DEF StateReq
    <3>6. Learnt(c, u, d) BY <1>1, <2>5, <3>1, <3>2, <3>3, <3>4 DEF ReadLearnt
    <3>7. Learnt(b, u, d)' BY <1>13, <3>1, <3>4, <3>5, <3>6
    <3> QED BY <3>1, <3>3, <3>4, <3>7 DEF ReadLearnt, Learnt
  <2> QED BY <2>3, <2>4, <2>5
<1>16. \A o \in Requests : ReadLearnt(request[o])' BY <1>15 DEF ReadLearnt, Learnt
<1>17. Known' BY <1>14, <1>16 DEF Known
<1> QED BY <1>5, <1>6, <1>7, <1>8, <1>9, <1>11, <1>12, <1>17, TickSince DEF Inv

-----------------------------------------------------------------------------
(* The invariant, and what it says.                                        *)
LEMMA SameKeeps ==
    ASSUME Inv, UNCHANGED vars PROVE Inv'
<1>1. /\ AccountsGrow /\ clobbered' \subseteq Users /\ VersionsFit'
      /\ account' \in [Users -> Accounts] /\ era' \in [Users -> Versions]
  BY SameAccounts DEF vars
<1>2. request' \in [Requests -> AnyRequest] /\ RequestsMove /\ WaitsMove
  BY SameRequests DEF vars
<1> QED BY <1>1, <1>2, CalmStep DEF vars

LEMMA InitHolds == Init => Inv
<1> SUFFICES ASSUME Init PROVE Inv OBVIOUS
<1>1. \A p \in Requests : request[p] = Idle BY DEF Init
<1>2. \A r \in Replicas, u \in Users :
        /\ cache[r][u] = NoEntry /\ limiter[r][u] = Clear /\ wrong[r][u] = 0
  BY DEF Init
<1>3. \A u \in Users : signed[u] = {} /\ granted[u] = 0 /\ era[u] = 0 BY DEF Init
<1>4. \A u \in Users : account[u] = NoAccount \/ \E s \in Secrets : account[u] = Account(s, TRUE)
  BY DEF Init
<1>5. \A u \in Users : account[u] \in Accounts /\ (Exists(u) => account[u].version = 0)
  <2> SUFFICES ASSUME NEW u \in Users
               PROVE  account[u] \in Accounts /\ (Exists(u) => account[u].version = 0)
    OBVIOUS
  <2>1. CASE account[u] = NoAccount BY <2>1, AccountKinds DEF Exists
  <2>2. ASSUME NEW s \in Secrets, account[u] = Account(s, TRUE)
        PROVE  account[u] \in Accounts /\ account[u].version = 0
    BY <2>2, NewAccount, AccountKinds
  <2> QED BY <1>4, <2>1, <2>2
<1>6. Shapes
  <2>1. account \in [Users -> Accounts] BY <1>5 DEF Init
  <2>2. limiter \in [Replicas -> [Users -> [stamps : 0..UserMax, blocked : BOOLEAN]]]
    BY ClearType DEF Init
  <2>3. 0 \in 0..2 /\ 0 \in 0..(Grace + 1) /\ 0 \in Versions BY Numbers
  <2>4. verifying \in BOOLEAN /\ clobbered \subseteq Users
        /\ wrong \in [Replicas -> [Users -> Nat]]
    BY DEF Init
  <2>5. granted \in [Users -> 0..2] /\ era \in [Users -> Versions] BY <2>3 DEF Init
  <2>6. since \in [Users -> [Versions -> 0..(Grace + 1)]] BY <2>3 DEF Init
  <2>7. cache \in [Replicas -> [Users -> Entries \union {NoEntry}]] BY DEF Init
  <2>8. signed \in [Users -> SUBSET [version : Versions, era : Versions]] BY DEF Init
  <2>9. request \in [Requests -> AnyRequest] BY IdleOK DEF Init
  <2> QED BY <2>1, <2>2, <2>4, <2>5, <2>6, <2>7, <2>8, <2>9 DEF Shapes
<1>7. Ages BY <1>1, <1>2, IdleOK DEF Ages
<1>8. VersionsFit BY <1>3, <1>5 DEF VersionsFit
<1>9. WrongCounted BY <1>2, ClearType DEF WrongCounted
<1>10. AllBacked BY <1>1, IdleOK DEF AllBacked, RequestOK
<1>11. Given BY <1>1, <1>3, IdleOK DEF Given, GivenOnce, Waiting
<1>12. TokensBacked BY <1>3 DEF TokensBacked
<1>13. SinceZero BY DEF Init, SinceZero
<1>14. Known
  <2>1. \A u \in Users : InStep(u) /\ CacheLearnt(u)
    BY <1>3 DEF InStep, CacheLearnt, Learnt
  <2>2. \A p \in Requests : ReadLearnt(request[p]) BY <1>1, IdleOK DEF RequestOK
  <2> QED BY <2>1, <2>2 DEF Known
<1> QED BY <1>6, <1>7, <1>8, <1>9, <1>10, <1>11, <1>12, <1>13, <1>14 DEF Inv

LEMMA NextKeeps ==
    ASSUME Inv, [Next]_vars PROVE Inv'
<1>1. ASSUME NEW p \in Requests, NEW r \in Replicas, NEW u \in Users, Arrive(p, r, u)
      PROVE  Inv'
  BY <1>1, ReadStateKeeps, LoginKeeps, ChangePasswordKeeps, PatchKeeps DEF Arrive
<1>2. ASSUME NEW p \in Requests, NEW u \in Users, Enrol(p, u) PROVE Inv'
  BY <1>2, ResendKeeps, RegisterKeeps, ActivateKeeps DEF Enrol
<1>3. ASSUME NEW p \in Requests, Proceed(p) PROVE Inv'
  <2>1. CASE FillCache(p) \/ Sign(p) \/ LoginFails(p) \/ LoginPasses(p) \/ LoginUnready(p)
    BY <2>1, FillCacheKeeps, SignKeeps, LoginFailsKeeps, LoginPassesKeeps, LoginUnreadyKeeps
  <2>2. CASE Replace(p) \/ Welcome(p) \/ IssueRead(p) \/ IssueMerge(p)
    BY <2>2, ReplaceKeeps, WelcomeKeeps, IssueReadKeeps, IssueMergeKeeps
  <2>3. CASE SetPassword(p) \/ Changed(p) \/ PatchPassword(p) \/ PatchEnds(p)
    BY <2>3, SetPasswordKeeps, ChangedKeeps, PatchPasswordKeeps, PatchEndsKeeps
  <2> QED BY <1>3, <2>1, <2>2, <2>3 DEF Proceed
<1>4. ASSUME NEW r \in Replicas, NEW u \in Users, WindowSlides(r, u) \/ EntryEnds(r, u)
      PROVE  Inv'
  BY <1>4, WindowSlidesKeeps, EntryEndsKeeps
<1>5. ASSUME NEW u \in Users, NEW s \in Secrets, AdminCreate(u, s) PROVE Inv'
  BY <1>5, AdminCreateKeeps
<1>6. ASSUME NEW u \in Users, CodeAges(u) PROVE Inv'
  BY <1>6, CodeAgesKeeps
<1>7. CASE Tick BY <1>7, TickKeeps
<1>8. CASE UNCHANGED vars BY <1>8, SameKeeps
<1> QED BY <1>1, <1>2, <1>3, <1>4, <1>5, <1>6, <1>7, <1>8 DEF Next

(* The service keeps its shapes: whatever requests, revocations, lockouts  *)
(* and expiries are interleaved, on any number of replicas, a code never   *)
(* survives its last wrong guess, a cached state never outlives its TTL    *)
(* and the window of a lockout never holds more than userMax failures.     *)
THEOREM TypeCorrect == Spec => []TypeOK
<1>1. Inv => TypeOK
  <2> SUFFICES ASSUME Inv PROVE TypeOK OBVIOUS
  <2>1. \A r \in Replicas, u \in Users :
          cache[r][u] = NoEntry \/ (cache[r][u] \in Entries /\ cache[r][u].age < CacheTtl)
    BY DEF Inv, Shapes, Ages
  <2>2. ASSUME NEW p \in Requests
        PROVE  /\ request[p].op \in Ops
               /\ request[p].op = "authState" =>
                    request[p].arg \in Entries /\ request[p].arg.age <= Latency
    <3>1. request[p] \in AnyRequest BY DEF Inv, Shapes
    <3>2. request[p].op \in Ops BY <3>1, RequestKinds
    <3>3. CASE request[p].op = "authState"
      <4>1. request[p] \in StateReq BY <3>1, <3>3, RequestKinds
      <4>2. request[p].arg \in Entries BY <4>1 DEF StateReq
      <4> QED BY <3>2, <3>3, <4>2 DEF Inv, Ages
    <3> QED BY <3>2, <3>3
  <2> QED BY <2>1, <2>2 DEF TypeOK, Inv, Shapes
<1> QED BY <1>1, InitHolds, NextKeeps, PTL DEF Spec

(* Revocation reaches every token: once the TTL of the caches and one read *)
(* of the store have passed since an account got a new password or was     *)
(* disabled, no replica lets in a token handed out before, whatever reads  *)
(* were under way and whatever fills of the cache came late.               *)
THEOREM RevocationReachesEveryToken == Spec => []Revoked
<1>1. Inv => Revoked
  <2> SUFFICES ASSUME Inv, NEW r \in Replicas, NEW u \in Users \ clobbered, NEW t \in signed[u],
                      Accepts(r, u, t.version)
               PROVE  since[u][t.era] < Grace
    BY DEF Revoked
  <2>1. PICK c : c = cache[r][u] OBVIOUS
  <2>2. c.hit /\ c.version = t.version BY <2>1 DEF Accepts
  <2>3. c \in Entries /\ c.age < CacheTtl
    <3>1. c \in Entries \union {NoEntry} BY <2>1 DEF Inv, Shapes
    <3>2. c # NoEntry BY <2>2, EntryKinds
    <3> QED BY <2>1, <3>1, <3>2 DEF Inv, Ages
  <2>4. CacheLearnt(u) BY DEF Inv, Known
  <2>5. Learnt(c, u, Latency) BY <2>1, <2>4 DEF CacheLearnt
  <2>6. since[u][t.era] <= c.age + Latency BY <2>2, <2>5 DEF Learnt
  <2>7. t.era \in Versions /\ since[u][t.era] \in Nat BY TokenNumbers DEF Inv
  <2> QED BY <2>3, <2>6, <2>7, EntryKinds, Numbers
<1> QED BY <1>1, InitHolds, NextKeeps, PTL DEF Spec

(* A username is given away once, however many requests register it, ask   *)
(* for codes and present them at the same time.                            *)
THEOREM UsernamesAreGivenOnce == Spec => []OneRegistration
<1>1. Inv => OneRegistration BY DEF Inv, Given, GivenOnce, OneRegistration
<1> QED BY <1>1, InitHolds, NextKeeps, PTL DEF Spec

(* Between two resets of a username's entry at most userMax sign-ins are   *)
(* answered that the password is wrong, however many of them passed peek() *)
(* before the lock was set.                                                *)
THEOREM WrongAnswersAreBounded == Spec => []WrongAnswersBounded
<1>1. Inv => WrongAnswersBounded
  <2> SUFFICES ASSUME Inv, NEW r \in Replicas, NEW u \in Users PROVE wrong[r][u] <= UserMax
    BY DEF WrongAnswersBounded
  <2> QED BY LimiterTypes DEF Counted
<1> QED BY <1>1, InitHolds, NextKeeps, PTL DEF Spec

-----------------------------------------------------------------------------
(* Quota.                                                                  *)

Sums == [total : Nat, today : Nat]
LimitPairs == [total : Limits \union {0}, daily : Limits \union {0}]
AskedTurns == [st : {"asked"}, user : Payers, lim : LimitPairs, spent : BOOLEAN,
               free : BOOLEAN, before : Nat]
GoingTurns == [st : {"passed", "running"}, user : Payers, spent : BOOLEAN, free : BOOLEAN]
InsertTurns == [st : {"insert"}, user : Payers, tokens : Nat]
QuotaTurns == {Q!Idle, Q!Done} \union AskedTurns \union GoingTurns \union InsertTurns

(* What a turn that was asked for while its limits were reached will read. *)
StaysSpent(q, led) ==
    q.st = "asked" /\ q.spent = TRUE /\ q.free = FALSE =>
        Q!Exhausted([total |-> led[q.user].total, today |-> led[q.user].today + q.before], q.lim)
TurnOK(q, led) ==
    /\ q \in QuotaTurns
    /\ StaysSpent(q, led)
    /\ q.st \in {"passed", "running"} /\ q.spent = TRUE => q.free = TRUE
QuotaTyped ==
    /\ limit \in [total : Limits, daily : Limits]
    /\ members \subseteq Payers
    /\ ledger \in [Payers -> Sums]
    /\ \A u \in Payers : ledger[u].today <= ledger[u].total
TurnsOK == turn = [t \in Turns |-> turn[t]] /\ \A t \in Turns : TurnOK(turn[t], ledger)
QuotaInv == QuotaTyped /\ TurnsOK /\ \A u \in Payers : Q!Busy(u) <= PerUser

LEMMA TurnTypes ==
    ASSUME NEW q \in QuotaTurns
    PROVE  /\ q.st = "asked" => q \in AskedTurns
           /\ q.st \in {"passed", "running"} => q \in GoingTurns
           /\ q.st = "insert" => q \in InsertTurns
           /\ q.st \in {"idle", "asked", "passed", "running", "insert", "done"}
BY DEF QuotaTurns, AskedTurns, GoingTurns, InsertTurns, Q!Idle, Q!Done

\* A turn that is over or has not begun asks for nothing of the ledger.
LEMMA OtherTurns ==
    ASSUME NEW q \in QuotaTurns, q.st \notin {"asked", "passed", "running"}, NEW led
    PROVE  TurnOK(q, led)
BY DEF TurnOK, StaysSpent

LEMMA RestTurns == /\ Q!Idle \in QuotaTurns /\ Q!Idle.st = "idle"
                   /\ Q!Done \in QuotaTurns /\ Q!Done.st = "done"
BY DEF QuotaTurns, Q!Idle, Q!Done

\* Of a turn that goes on only what it carries changes.
LEMMA AtType ==
    ASSUME NEW q \in AskedTurns \union GoingTurns, NEW st \in {"passed", "running"}
    PROVE  /\ Q!At(st, q) \in GoingTurns /\ Q!At(st, q).st = st
           /\ Q!At(st, q).spent = q.spent /\ Q!At(st, q).free = q.free
           /\ Q!At(st, q).user = q.user
BY DEF AskedTurns, GoingTurns, Q!At

LEMMA GoesOn ==
    ASSUME NEW q \in AskedTurns \union GoingTurns, NEW st \in {"passed", "running"}, NEW led,
           q.spent = TRUE => q.free = TRUE
    PROVE  TurnOK(Q!At(st, q), led)
<1>1. PICK p \in GoingTurns : p = Q!At(st, q) BY AtType
<1>2. p.st = st /\ p.spent = q.spent /\ p.free = q.free BY <1>1, AtType
<1>3. p \in QuotaTurns BY <1>1 DEF QuotaTurns
<1>4. TurnOK(p, led) BY <1>2, <1>3 DEF TurnOK, StaysSpent
<1> QED BY <1>1, <1>4

\* A limit that is reached stays reached while the sums grow.
LEMMA MoreIsExhausted ==
    ASSUME NEW a \in Nat, NEW b \in Nat, NEW c \in Nat, NEW d \in Nat, a <= c, b <= d,
           NEW lim \in LimitPairs, Limits \subseteq Nat,
           Q!Exhausted([total |-> a, today |-> b], lim)
    PROVE  Q!Exhausted([total |-> c, today |-> d], lim)
<1>1. Limits \union {0} \subseteq Nat OBVIOUS
<1>2. lim.total \in Limits \union {0} /\ lim.daily \in Limits \union {0} BY DEF LimitPairs
<1>3. PICK n, m : n = lim.total /\ m = lim.daily OBVIOUS
<1>4. n \in Nat /\ m \in Nat BY <1>1, <1>2, <1>3
<1>5. (n > 0 /\ a >= n) \/ (m > 0 /\ b >= m) BY <1>3 DEF Q!Exhausted
<1>6. (n > 0 /\ c >= n) \/ (m > 0 /\ d >= m) BY <1>4, <1>5
<1> QED BY <1>3, <1>6 DEF Q!Exhausted

LEMMA LedgerGrows ==
    ASSUME NEW q, NEW l, NEW m, TurnOK(q, l), l \in [Payers -> Sums], m \in [Payers -> Sums],
           \A u \in Payers : l[u].total <= m[u].total /\ l[u].today <= m[u].today
    PROVE  TurnOK(q, m)
<1>1. q \in QuotaTurns BY DEF TurnOK
<1>2. SUFFICES ASSUME q.st = "asked", q.spent = TRUE, q.free = FALSE
               PROVE  Q!Exhausted([total |-> m[q.user].total,
                                   today |-> m[q.user].today + q.before], q.lim)
  BY DEF TurnOK, StaysSpent
<1>3. q.user \in Payers /\ q.lim \in LimitPairs /\ q.before \in Nat
  BY <1>1, <1>2, TurnTypes DEF AskedTurns
<1>4. PICK a, b, c, d : a = l[q.user].total /\ b = l[q.user].today
                        /\ c = m[q.user].total /\ d = m[q.user].today
  OBVIOUS
<1>5. a \in Nat /\ b \in Nat /\ c \in Nat /\ d \in Nat /\ a <= c /\ b <= d
  BY <1>3, <1>4 DEF Sums
<1>6. Q!Exhausted([total |-> a, today |-> b + q.before], q.lim)
  BY <1>2, <1>4 DEF TurnOK, StaysSpent
<1>7. b + q.before \in Nat /\ d + q.before \in Nat /\ b + q.before <= d + q.before
  BY <1>3, <1>5
<1>8. Limits \subseteq Nat BY AdminAssumption
<1>9. Q!Exhausted([total |-> c, today |-> d + q.before], q.lim)
  BY <1>3, <1>5, <1>6, <1>7, <1>8, MoreIsExhausted
<1> QED BY <1>4, <1>9

-----------------------------------------------------------------------------
\* The turns of a person that run.
Mine(u) == {t \in Turns : turn[t].st = "running" /\ turn[t].user = u}

LEMMA BusyIs == \A u : Q!Busy(u) = Cardinality(Mine(u))
BY Zenon DEF Q!Busy, Mine, Q!Cardinality, Cardinality

LEMMA BusyNext ==
    \A u : Q!Busy(u)' = Cardinality({t \in Turns : turn'[t].st = "running" /\ turn'[t].user = u})
BY Zenon DEF Q!Busy, Q!Cardinality, Cardinality

LEMMA MineIsFinite ==
    ASSUME NEW u PROVE IsFiniteSet(Mine(u)) /\ Q!Busy(u) \in Nat
<1>1. IsFiniteSet(Turns) /\ Mine(u) \subseteq Turns BY AdminAssumption DEF Mine
<1>2. IsFiniteSet(Mine(u)) BY <1>1, FS_Subset
<1> QED BY <1>2, BusyIs, FS_CardinalityType

\* No turn begins to run.
LEMMA NobodyStarts ==
    ASSUME \A u \in Payers : Q!Busy(u) <= PerUser,
           \A t \in Turns : turn'[t].st = "running" =>
                               turn[t].st = "running" /\ turn'[t].user = turn[t].user
    PROVE  \A u \in Payers : (Q!Busy(u) <= PerUser)'
<1>1. TAKE u \in Payers
<1>2. PICK M, N : M = Mine(u) /\ N = {t \in Turns : turn'[t].st = "running" /\ turn'[t].user = u}
  OBVIOUS
<1>3. N \subseteq M BY <1>2 DEF Mine
<1>4. IsFiniteSet(M) /\ Cardinality(M) = Q!Busy(u) BY <1>2, MineIsFinite, BusyIs
<1>5. Cardinality(N) <= Cardinality(M) /\ IsFiniteSet(N) BY <1>3, <1>4, FS_Subset
<1>6. Cardinality(N) \in Nat /\ Cardinality(M) \in Nat BY <1>4, <1>5, FS_CardinalityType
<1>7. Q!Busy(u)' = Cardinality(N) BY <1>2, BusyNext
<1>8. PerUser \in Nat BY AdminAssumption
<1>9. Q!Busy(u) <= PerUser OBVIOUS
<1> QED BY <1>4, <1>5, <1>6, <1>7, <1>8, <1>9

\* One turn moves.
LEMMA OneTurn ==
    ASSUME QuotaInv, NEW t \in Turns, NEW q, Q!Go(t, q), TurnOK(q, ledger),
           UNCHANGED <<limit, members, ledger>>,
           q.st = "running" => q.user = turn[t].user /\ (turn[t].st = "running" \/ Q!Busy(q.user) < PerUser)
    PROVE  QuotaInv'
<1>1. turn' = [s \in Turns |-> IF s = t THEN q ELSE turn[s]]
  BY DEF QuotaInv, TurnsOK, Q!Go
<1>2. QuotaTyped' BY DEF QuotaInv, QuotaTyped
<1>3. TurnsOK'
  <2>1. \A s \in Turns : TurnOK(turn'[s], ledger)
    BY <1>1 DEF QuotaInv, TurnsOK
  <2>2. turn' = [s \in Turns |-> turn'[s]] BY <1>1
  <2> QED BY <2>1, <2>2 DEF TurnsOK
<1>4. \A u \in Payers : (Q!Busy(u) <= PerUser)'
  <2>1. CASE q.st # "running" \/ turn[t].st = "running"
    BY <1>1, <2>1, NobodyStarts DEF QuotaInv
  <2>2. CASE q.st = "running" /\ turn[t].st # "running"
    <3>1. TAKE u \in Payers
    <3>2. PICK N : N = {s \in Turns : turn'[s].st = "running" /\ turn'[s].user = u}
      OBVIOUS
    <3>3. Q!Busy(u)' = Cardinality(N) BY <3>2, BusyNext
    <3>4. IsFiniteSet(Mine(u)) /\ Cardinality(Mine(u)) = Q!Busy(u) /\ Q!Busy(u) \in Nat
      BY MineIsFinite, BusyIs
    <3>5. Q!Busy(u) <= PerUser BY DEF QuotaInv
    <3>6. CASE q.user # u
      <4>1. N = Mine(u) BY <1>1, <2>2, <3>2, <3>6 DEF Mine
      <4> QED BY <3>3, <3>4, <3>5, <4>1
    <3>7. CASE q.user = u
      <4>1. N = Mine(u) \union {t} BY <1>1, <2>2, <3>2, <3>7 DEF Mine
      <4>2. t \notin Mine(u) BY <2>2 DEF Mine
      <4>3. Cardinality(N) = Cardinality(Mine(u)) + 1 BY <3>4, <4>1, <4>2, FS_AddElement
      <4>4. Q!Busy(u) < PerUser BY <2>2, <3>7
      <4>5. PerUser \in Nat BY AdminAssumption
      <4> QED BY <3>3, <3>4, <4>3, <4>4, <4>5
    <3> QED BY <3>6, <3>7
  <2> QED BY <2>1, <2>2
<1> QED BY <1>2, <1>3, <1>4 DEF QuotaInv

LEMMA TurnNow == ASSUME QuotaInv, NEW t \in Turns PROVE TurnOK(turn[t], ledger) /\ turn[t] \in QuotaTurns
BY DEF QuotaInv, TurnsOK, TurnOK

LEMMA LimitTyped ==
    ASSUME QuotaInv, NEW u PROVE Q!LimitOf(u) \in LimitPairs /\ Q!NoLimit \in LimitPairs
BY DEF QuotaInv, QuotaTyped, Q!LimitOf, Q!NoLimit, LimitPairs

LEMMA AskKeeps ==
    ASSUME QuotaInv, NEW t \in Turns, NEW u \in Payers, Q!Ask(t, u)
    PROVE  QuotaInv'
<1>1. PICK failed \in BOOLEAN :
        Q!Go(t, [st |-> "asked", user |-> u, lim |-> IF failed THEN Q!NoLimit ELSE Q!LimitOf(u),
                 spent |-> Q!Exhausted(ledger[u], Q!LimitOf(u)), free |-> failed, before |-> 0])
  BY DEF Q!Ask
<1>2. PICK lim \in LimitPairs : lim = IF failed THEN Q!NoLimit ELSE Q!LimitOf(u)
  BY LimitTyped
<1>3. PICK spent \in BOOLEAN : spent = Q!Exhausted(ledger[u], Q!LimitOf(u))
  BY Zenon DEF Q!Exhausted
<1>4. PICK q : q = [st |-> "asked", user |-> u, lim |-> lim, spent |-> spent, free |-> failed,
                    before |-> 0]
  OBVIOUS
<1>5. q \in AskedTurns BY <1>4 DEF AskedTurns
<1>6. Q!Go(t, q) BY <1>1, <1>2, <1>3, <1>4, Zenon
<1>7. TurnOK(q, ledger)
  <2>1. q \in QuotaTurns BY <1>5 DEF QuotaTurns
  <2>2. ASSUME q.spent = TRUE, q.free = FALSE
        PROVE  Q!Exhausted([total |-> ledger[q.user].total,
                            today |-> ledger[q.user].today + q.before], q.lim)
    <3>1. failed = FALSE /\ q.lim = lim /\ lim = Q!LimitOf(u) /\ spent = TRUE /\ q.user = u
          /\ q.before = 0
      BY <1>2, <1>4, <2>2
    <3>2. Q!Exhausted(ledger[u], lim) BY <1>3, <3>1, Zenon
    <3>3. ledger[u] \in Sums BY DEF QuotaInv, QuotaTyped
    <3>4. ledger[u] = [total |-> ledger[u].total, today |-> ledger[u].today + 0]
      BY <3>3 DEF Sums
    <3> QED BY <3>1, <3>2, <3>4, Zenon
  <2>3. q.st = "asked" BY <1>4
  <2> QED BY <2>1, <2>2, <2>3 DEF TurnOK, StaysSpent
<1>8. q.st # "running" BY <1>4
<1>9. UNCHANGED <<limit, members, ledger>> BY DEF Q!Ask
<1> QED BY <1>6, <1>7, <1>8, <1>9, OneTurn

LEMMA DoneKeeps ==
    ASSUME QuotaInv, NEW t \in Turns, Q!Go(t, Q!Done), UNCHANGED <<limit, members, ledger>>
    PROVE  QuotaInv'
<1>1. TurnOK(Q!Done, ledger) /\ Q!Done.st # "running" BY RestTurns, OtherTurns
<1> QED BY <1>1, OneTurn

LEMMA CheckKeeps ==
    ASSUME QuotaInv, NEW t \in Turns, Q!Check(t)
    PROVE  QuotaInv'
<1>1. PICK q : q = turn[t] OBVIOUS
<1>2. PICK sums : sums = [ledger[q.user] EXCEPT !.today = @ + q.before] OBVIOUS
<1>3. /\ q.st = "asked" /\ Q!Go(t, IF Q!Refuses(sums, q.lim) THEN Q!Done ELSE Q!At("passed", q))
      /\ UNCHANGED <<limit, members, ledger>>
  BY <1>1, <1>2 DEF Q!Check
<1>4. CASE Q!Refuses(sums, q.lim)
  <2>1. Q!Go(t, Q!Done) BY <1>3, <1>4, Zenon
  <2> QED BY <1>3, <2>1, DoneKeeps
<1>5. CASE ~Q!Refuses(sums, q.lim)
  <2>1. Q!Go(t, Q!At("passed", q)) BY <1>3, <1>5, Zenon
  <2>2. q \in AskedTurns /\ StaysSpent(q, ledger)
    BY <1>1, <1>3, TurnNow, TurnTypes DEF TurnOK
  <2>3. q.spent = TRUE => q.free = TRUE
    <3>1. SUFFICES ASSUME q.spent = TRUE, q.free = FALSE PROVE FALSE
      BY <2>2 DEF AskedTurns
    <3>2. Q!Exhausted([total |-> ledger[q.user].total,
                       today |-> ledger[q.user].today + q.before], q.lim)
      BY <1>3, <2>2, <3>1 DEF StaysSpent
    <3>3. ledger[q.user] \in Sums BY <2>2 DEF QuotaInv, QuotaTyped, AskedTurns
    <3>4. sums = [total |-> ledger[q.user].total, today |-> ledger[q.user].today + q.before]
      BY <1>2, <3>3 DEF Sums
    <3> QED BY <1>5, <3>2, <3>4, Zenon DEF Q!Refuses
  <2>4. TurnOK(Q!At("passed", q), ledger) BY <2>2, <2>3, GoesOn
  <2>5. Q!At("passed", q).st # "running" BY <2>2, AtType
  <2> QED BY <1>3, <2>1, <2>4, <2>5, OneTurn
<1> QED BY <1>4, <1>5

LEMMA CheckFailsKeeps ==
    ASSUME QuotaInv, NEW t \in Turns, Q!CheckFails(t)
    PROVE  QuotaInv'
<1>1. PICK q : q = [turn[t] EXCEPT !.free = TRUE] OBVIOUS
<1>2. turn[t] \in AskedTurns BY TurnNow, TurnTypes DEF Q!CheckFails
<1>3. q \in AskedTurns /\ q.free = TRUE BY <1>1, <1>2 DEF AskedTurns
<1>4. TurnOK(Q!At("passed", q), ledger) BY <1>3, GoesOn
<1>5. Q!At("passed", q).st # "running" BY <1>3, AtType
<1>6. Q!Go(t, Q!At("passed", q)) /\ UNCHANGED <<limit, members, ledger>>
  BY <1>1, Zenon DEF Q!CheckFails
<1> QED BY <1>4, <1>5, <1>6, OneTurn

LEMMA AcquireKeeps ==
    ASSUME QuotaInv, NEW t \in Turns, Q!Acquire(t)
    PROVE  QuotaInv'
<1>1. PICK q : q = turn[t] OBVIOUS
<1>2. /\ q.st = "passed" /\ UNCHANGED <<limit, members, ledger>>
      /\ (Q!Busy(q.user) < PerUser /\ Q!Go(t, Q!At("running", q))) \/ Q!Go(t, Q!Done)
  BY <1>1 DEF Q!Acquire
<1>3. q \in GoingTurns /\ (q.spent = TRUE => q.free = TRUE)
  BY <1>1, <1>2, TurnNow, TurnTypes DEF TurnOK
<1>4. CASE Q!Busy(q.user) < PerUser /\ Q!Go(t, Q!At("running", q))
  <2>1. TurnOK(Q!At("running", q), ledger) /\ Q!At("running", q).user = q.user
    BY <1>3, GoesOn, AtType
  <2> QED BY <1>1, <1>2, <1>4, <2>1, OneTurn
<1> QED BY <1>2, <1>4, DoneKeeps

LEMMA EndKeeps ==
    ASSUME QuotaInv, NEW t \in Turns, Q!End(t)
    PROVE  QuotaInv'
<1>1. UNCHANGED <<limit, members, ledger>> /\ turn[t].st = "running" BY DEF Q!End
<1>2. CASE Q!Go(t, Q!Done) BY <1>1, <1>2, DoneKeeps
<1>3. ASSUME NEW n \in 0..MaxTokens,
             Q!Go(t, [st |-> "insert", user |-> turn[t].user, tokens |-> n])
      PROVE  QuotaInv'
  <2>1. turn[t].user \in Payers BY <1>1, TurnNow, TurnTypes DEF GoingTurns
  <2>2. n \in Nat BY <1>3, AdminAssumption
  <2>3. PICK q : q = [st |-> "insert", user |-> turn[t].user, tokens |-> n] OBVIOUS
  <2>4. q \in InsertTurns /\ q.st = "insert" BY <2>1, <2>2, <2>3 DEF InsertTurns
  <2>5. TurnOK(q, ledger) BY <2>4, OtherTurns DEF QuotaTurns
  <2>6. Q!Go(t, q) BY <1>3, <2>3, Zenon
  <2> QED BY <1>1, <2>4, <2>5, <2>6, OneTurn
<1> QED BY <1>2, <1>3, Zenon DEF Q!End

LEMMA RecordKeeps ==
    ASSUME QuotaInv, NEW t \in Turns, Q!Record(t)
    PROVE  QuotaInv'
<1>1. PICK u, n : u = turn[t].user /\ n = turn[t].tokens OBVIOUS
<1>2. /\ turn[t].st = "insert" /\ Q!Go(t, Q!Done) /\ UNCHANGED <<limit, members>>
      /\ ledger' = [ledger EXCEPT ![u] = [total |-> @.total + n, today |-> @.today + n]]
  BY <1>1 DEF Q!Record
<1>3. u \in Payers /\ n \in Nat BY <1>1, <1>2, TurnNow, TurnTypes DEF InsertTurns
<1>4. ledger \in [Payers -> Sums] /\ \A v \in Payers : ledger[v].today <= ledger[v].total
  BY DEF QuotaInv, QuotaTyped
<1>5. PICK a, b, s : a = ledger[u].total /\ b = ledger[u].today /\ s = [total |-> a + n, today |-> b + n]
  OBVIOUS
<1>6. a \in Nat /\ b \in Nat /\ b <= a BY <1>3, <1>4, <1>5 DEF Sums
<1>7. s \in Sums /\ s.total = a + n /\ s.today = b + n BY <1>3, <1>5, <1>6 DEF Sums
<1>8. ledger' = [v \in Payers |-> IF v = u THEN s ELSE ledger[v]]
  BY <1>2, <1>3, <1>4, <1>5
<1>9. ledger' \in [Payers -> Sums] BY <1>4, <1>7, <1>8
<1>10. \A v \in Payers : /\ ledger[v].total <= ledger'[v].total
                         /\ ledger[v].today <= ledger'[v].today
                         /\ ledger'[v].today <= ledger'[v].total
  <2>1. TAKE v \in Payers
  <2>2. ledger[v].total \in Nat /\ ledger[v].today \in Nat BY <1>4 DEF Sums
  <2>3. CASE v = u
    <3>1. ledger'[v].total = a + n /\ ledger'[v].today = b + n BY <1>7, <1>8, <2>3
    <3>2. ledger[v].total = a /\ ledger[v].today = b BY <1>5, <2>3
    <3> QED BY <1>3, <1>6, <3>1, <3>2
  <2>4. CASE v # u
    <3>1. ledger'[v] = ledger[v] BY <1>8, <2>4
    <3> QED BY <1>4, <2>2, <3>1
  <2> QED BY <2>3, <2>4
<1>11. turn' = [s2 \in Turns |-> IF s2 = t THEN Q!Done ELSE turn[s2]]
  BY <1>2 DEF QuotaInv, TurnsOK, Q!Go
<1>12. TurnsOK'
  <2>1. \A s2 \in Turns : TurnOK(turn[s2], ledger) BY DEF QuotaInv, TurnsOK
  <2>2. \A s2 \in Turns : TurnOK(turn[s2], ledger')
    BY <1>4, <1>9, <1>10, <2>1, LedgerGrows
  <2>3. TurnOK(Q!Done, ledger') BY RestTurns, OtherTurns
  <2>4. \A s2 \in Turns : TurnOK(turn'[s2], ledger') BY <1>11, <2>2, <2>3
  <2>5. turn' = [s2 \in Turns |-> turn'[s2]] BY <1>11
  <2> QED BY <2>4, <2>5 DEF TurnsOK
<1>13. QuotaTyped' BY <1>2, <1>9, <1>10 DEF QuotaInv, QuotaTyped
<1>14. \A v \in Payers : (Q!Busy(v) <= PerUser)'
  <2>1. \A s2 \in Turns : turn'[s2].st = "running" =>
                            turn[s2].st = "running" /\ turn'[s2].user = turn[s2].user
    BY <1>11, RestTurns
  <2> QED BY <2>1, NobodyStarts DEF QuotaInv
<1> QED BY <1>12, <1>13, <1>14 DEF QuotaInv

\* What sets a turn free leaves the rest of it.
LEMMA FreedTurn ==
    ASSUME NEW q \in QuotaTurns, q.st = "asked", NEW n \in Nat, NEW led
    PROVE  /\ TurnOK([q EXCEPT !.free = TRUE], led)
           /\ TurnOK([q EXCEPT !.free = TRUE, !.before = n], led)
           /\ [q EXCEPT !.free = TRUE].st = "asked"
           /\ [q EXCEPT !.free = TRUE, !.before = n].st = "asked"
<1>1. q \in AskedTurns BY TurnTypes
<1>2. PICK p, r : p = [q EXCEPT !.free = TRUE] /\ r = [q EXCEPT !.free = TRUE, !.before = n]
  OBVIOUS
<1>3. p \in AskedTurns /\ p.free = TRUE BY <1>1, <1>2 DEF AskedTurns
<1>4. r \in AskedTurns /\ r.free = TRUE BY <1>1, <1>2 DEF AskedTurns
<1>5. p.st = "asked" /\ r.st = "asked" BY <1>3, <1>4 DEF AskedTurns
<1>6. TurnOK(p, led) /\ TurnOK(r, led)
  BY <1>3, <1>4, <1>5 DEF TurnOK, StaysSpent, QuotaTurns
<1> QED BY <1>2, <1>5, <1>6

\* An administrator changes limits or groups.
LEMMA FreedKeeps ==
    ASSUME QuotaInv, NEW us, Q!Freed(us), UNCHANGED ledger,
           limit' \in [total : Limits, daily : Limits], members' \subseteq Payers
    PROVE  QuotaInv'
<1>1. turn' = [t \in Turns |-> IF turn[t].st = "asked" /\ turn[t].user \in us
                               THEN [turn[t] EXCEPT !.free = TRUE] ELSE turn[t]]
  BY DEF Q!Freed
<1>2. \A t \in Turns : /\ TurnOK(turn'[t], ledger)
                       /\ turn'[t] = turn[t] \/ turn'[t].st = "asked"
  <2>1. TAKE t \in Turns
  <2>2. TurnOK(turn[t], ledger) /\ turn[t] \in QuotaTurns BY TurnNow
  <2>3. CASE turn[t].st = "asked" /\ turn[t].user \in us
    <3>1. turn'[t] = [turn[t] EXCEPT !.free = TRUE] BY <1>1, <2>3
    <3>2. 0 \in Nat OBVIOUS
    <3>3. TurnOK([turn[t] EXCEPT !.free = TRUE], ledger)
          /\ [turn[t] EXCEPT !.free = TRUE].st = "asked"
      BY <2>2, <2>3, <3>2, FreedTurn
    <3> QED BY <3>1, <3>3
  <2>4. CASE ~(turn[t].st = "asked" /\ turn[t].user \in us)
    <3>1. turn'[t] = turn[t] BY <1>1, <2>4
    <3> QED BY <2>2, <3>1
  <2> QED BY <2>3, <2>4
<1>3. turn' = [t \in Turns |-> turn'[t]] BY <1>1
<1>4. TurnsOK' BY <1>2, <1>3 DEF TurnsOK
<1>5. QuotaTyped' BY DEF QuotaInv, QuotaTyped
<1>6. \A v \in Payers : (Q!Busy(v) <= PerUser)' BY <1>2, NobodyStarts DEF QuotaInv
<1> QED BY <1>4, <1>5, <1>6 DEF QuotaInv

LEMMA MidnightKeeps == ASSUME QuotaInv, Q!Midnight PROVE QuotaInv'
<1>1. /\ ledger' = [u \in Payers |-> [total |-> ledger[u].total, today |-> 0]]
      /\ turn' = [t \in Turns |->
                    IF turn[t].st # "asked" THEN turn[t]
                    ELSE [turn[t] EXCEPT !.free = TRUE,
                                         !.before = @ + ledger[turn[t].user].today]]
      /\ UNCHANGED <<limit, members>>
  BY DEF Q!Midnight
<1>2. \A u \in Payers : ledger[u] \in Sums BY DEF QuotaInv, QuotaTyped
<1>3. \A t \in Turns : /\ TurnOK(turn'[t], ledger')
                       /\ turn'[t] = turn[t] \/ turn'[t].st = "asked"
  <2>1. TAKE t \in Turns
  <2>2. TurnOK(turn[t], ledger) /\ turn[t] \in QuotaTurns BY TurnNow
  <2>3. CASE turn[t].st = "asked"
    <3>1. turn[t] \in AskedTurns BY <2>2, <2>3, TurnTypes
    <3>2. PICK b, d : b = turn[t].before /\ d = ledger[turn[t].user].today OBVIOUS
    <3>3. b \in Nat /\ d \in Nat BY <1>2, <3>1, <3>2 DEF AskedTurns, Sums
    <3>4. PICK n \in Nat : n = b + d BY <3>3
    <3>5. turn'[t] = [turn[t] EXCEPT !.free = TRUE, !.before = n] BY <1>1, <2>3, <3>2, <3>4
    <3>6. /\ TurnOK([turn[t] EXCEPT !.free = TRUE, !.before = n], ledger')
          /\ [turn[t] EXCEPT !.free = TRUE, !.before = n].st = "asked"
      BY <2>2, <2>3, FreedTurn
    <3> QED BY <3>5, <3>6
  <2>4. CASE turn[t].st # "asked"
    <3>1. turn'[t] = turn[t] BY <1>1, <2>4
    <3>2. TurnOK(turn[t], ledger') BY <2>2, <2>4 DEF TurnOK, StaysSpent
    <3> QED BY <3>1, <3>2
  <2> QED BY <2>3, <2>4
<1>4. turn' = [t \in Turns |-> turn'[t]] BY <1>1
<1>5. TurnsOK' BY <1>3, <1>4 DEF TurnsOK
<1>6. QuotaTyped'
  <2>1. \A u \in Payers : ledger'[u] \in Sums /\ ledger'[u].today <= ledger'[u].total
    <3>1. TAKE u \in Payers
    <3>2. PICK n \in Nat : n = ledger[u].total BY <1>2 DEF Sums
    <3>3. ledger'[u] = [total |-> n, today |-> 0] BY <1>1, <3>2
    <3> QED BY <3>3 DEF Sums
  <2>2. ledger' \in [Payers -> Sums] BY <1>1, <2>1
  <2> QED BY <1>1, <2>1, <2>2 DEF QuotaInv, QuotaTyped
<1>7. \A v \in Payers : (Q!Busy(v) <= PerUser)' BY <1>3, NobodyStarts DEF QuotaInv
<1> QED BY <1>5, <1>6, <1>7 DEF QuotaInv

LEMMA QuotaInit == ASSUME Q!Init PROVE QuotaInv
<1>1. QuotaTyped
  <2>1. \A u \in Payers : ledger[u] = [total |-> 0, today |-> 0] BY DEF Q!Init
  <2>2. \A u \in Payers : ledger[u] \in Sums /\ ledger[u].today <= ledger[u].total
    BY <2>1 DEF Sums
  <2> QED BY <2>2 DEF Q!Init, QuotaTyped
<1>2. \A t \in Turns : turn[t] = Q!Idle BY DEF Q!Init
<1>3. turn = [t \in Turns |-> turn[t]] BY DEF Q!Init
<1>4. TurnOK(Q!Idle, ledger) BY RestTurns, OtherTurns
<1>5. TurnsOK BY <1>2, <1>3, <1>4 DEF TurnsOK
<1>6. \A u \in Payers : Q!Busy(u) <= PerUser
  <2>1. TAKE u \in Payers
  <2>2. Mine(u) = {} BY <1>2, RestTurns DEF Mine
  <2>3. Q!Busy(u) = 0 BY <2>2, BusyIs, FS_EmptySet
  <2> QED BY <2>3, AdminAssumption
<1> QED BY <1>1, <1>5, <1>6 DEF QuotaInv

LEMMA QuotaNext == ASSUME QuotaInv, Q!Next PROVE QuotaInv'
<1>1. ASSUME NEW t \in Turns, Q!Record(t) PROVE QuotaInv' BY <1>1, RecordKeeps
<1>2. ASSUME NEW t \in Turns, Q!RecordLost(t) PROVE QuotaInv'
  BY <1>2, DoneKeeps DEF Q!RecordLost
<1>3. ASSUME NEW a \in Limits, NEW b \in Limits, Q!SetLimits([total |-> a, daily |-> b])
      PROVE  QuotaInv'
  <2>1. PICK us : Q!Freed(us) BY <1>3 DEF Q!SetLimits
  <2>2. limit' \in [total : Limits, daily : Limits] /\ UNCHANGED <<members, ledger>>
    BY <1>3 DEF Q!SetLimits
  <2>3. members' \subseteq Payers BY <2>2 DEF QuotaInv, QuotaTyped
  <2> QED BY <2>1, <2>2, <2>3, FreedKeeps
<1>4. ASSUME NEW u \in Payers, Q!SetGroup(u) PROVE QuotaInv'
  <2>1. PICK us : Q!Freed(us) BY <1>4 DEF Q!SetGroup
  <2>2. members' \subseteq Payers /\ UNCHANGED <<limit, ledger>>
    BY <1>4 DEF Q!SetGroup, QuotaInv, QuotaTyped
  <2>3. limit' \in [total : Limits, daily : Limits] BY <2>2 DEF QuotaInv, QuotaTyped
  <2> QED BY <2>1, <2>2, <2>3, FreedKeeps
<1> QED
  BY <1>1, <1>2, <1>3, <1>4, AskKeeps, CheckKeeps, CheckFailsKeeps, AcquireKeeps, EndKeeps,
     MidnightKeeps
  DEF Q!Next

LEMMA QuotaSafe == QuotaInv => Q!Gated /\ Q!TypeOK
<1> SUFFICES ASSUME QuotaInv PROVE Q!Gated /\ Q!TypeOK OBVIOUS
<1>1. Q!Gated
  <2>1. SUFFICES ASSUME NEW t \in Turns, turn[t].st \in {"passed", "running"}, turn[t].spent
                 PROVE  turn[t].free
    BY DEF Q!Gated
  <2>2. turn[t] \in GoingTurns BY <2>1, TurnNow, TurnTypes
  <2>3. turn[t].spent = TRUE BY <2>1, <2>2 DEF GoingTurns
  <2> QED BY <2>1, <2>3, TurnNow DEF TurnOK
<1>2. Q!TypeOK
  <2>1. \A u \in Payers : ledger[u].today \in 0..ledger[u].total
    BY DEF QuotaInv, QuotaTyped, Sums
  <2>2. \A t \in Turns : turn[t].st \in {"idle", "asked", "passed", "running", "insert", "done"}
    BY TurnNow, TurnTypes
  <2> QED BY <2>1, <2>2 DEF Q!TypeOK, QuotaInv, QuotaTyped
<1> QED BY <1>1, <1>2

-----------------------------------------------------------------------------
(* Groups.                                                                 *)

\* The largest of finitely many numbers, by well-founded induction.
LEMMA LargestNumber ==
    ASSUME NEW S, S \subseteq Nat, IsFiniteSet(S), S # {}
    PROVE  \E m \in S : \A x \in S : x <= m
<1> DEFINE NoMax(D) == D # {} /\ ~\E m \in D : \A x \in D : x <= m
           Sizes == {n \in Nat : \E D \in SUBSET S : NoMax(D) /\ Cardinality(D) = n}
<1>1. SUFFICES ASSUME NoMax(S) PROVE FALSE OBVIOUS
<1>2. Cardinality(S) \in Sizes BY <1>1, FS_CardinalityType
<1>3. PICK n \in Sizes : \A j \in Sizes : <<j, n>> \notin OpToRel(<, Nat)
  <2>1. Sizes \subseteq Nat /\ Sizes # {} BY <1>2
  <2> HIDE DEF Sizes
  <2> QED BY <2>1, NatLessThanWellFounded, WFMin
<1>4. PICK D \in SUBSET S : NoMax(D) /\ Cardinality(D) = n BY <1>3
<1>5. PICK y : y \in D BY <1>4
<1>6. IsFiniteSet(D) BY <1>4, FS_Subset
<1>7. Cardinality(D \ {y}) = n - 1 /\ n \in Nat BY <1>3, <1>4, <1>5, <1>6, FS_RemoveElement
<1>8. IsFiniteSet(D \ {y}) BY <1>6, FS_Subset
<1>9. Cardinality(D \ {y}) \in Nat BY <1>8, FS_CardinalityType
<1>10. ~NoMax(D \ {y})
  <2>1. SUFFICES ASSUME NoMax(D \ {y}) PROVE FALSE OBVIOUS
  <2>2. n - 1 \in Sizes BY <1>7, <1>9, <2>1
  <2>3. <<n - 1, n>> \in OpToRel(<, Nat) BY <1>7, <1>9 DEF OpToRel
  <2> QED BY <1>3, <2>2, <2>3
<1>11. CASE D \ {y} = {}
  <2>1. D = {y} BY <1>5, <1>11
  <2>2. y \in Nat BY <1>5
  <2>3. \A x \in D : x <= y BY <2>1, <2>2
  <2> QED BY <1>4, <1>5, <2>3
<1>12. CASE D \ {y} # {}
  <2>1. PICK m \in D \ {y} : \A x \in D \ {y} : x <= m BY <1>10, <1>12
  <2>2. \A x \in D : x \in Nat OBVIOUS
  <2>3. CASE m <= y
    <3>1. \A x \in D : x <= y BY <1>5, <2>1, <2>2, <2>3
    <3> QED BY <1>4, <1>5, <3>1
  <2>4. CASE y <= m
    <3>1. \A x \in D : x <= m BY <2>1, <2>2, <2>4
    <3> QED BY <1>4, <2>1, <3>1
  <2> QED BY <1>5, <2>1, <2>2, <2>3, <2>4
<1> QED BY <1>11, <1>12

\* What the requests in progress carry.
ModelRecords == [name : Names, groups : SUBSET Groups]
GroupIds == Groups \union {G!NoGroup}
Drops == [id : Models, rest : SUBSET Groups]
All == <<"users", "models", "remove">>
NoUsers == <<"models", "remove">>
OnlyGroup == <<"remove">>
Lefts == {All, NoUsers, OnlyGroup, <<>>}
Scans == [op : {"scan"}, keep : Groups]
Clears == [op : {"clear"}, others : SUBSET Groups]
GroupDeletions ==
    [op : {"delete"}, group : Groups, left : Lefts, after : Nat, todo : SUBSET Members,
     drops : SUBSET Drops, last : BOOLEAN]
Joins == [op : {"join", "new"}, user : Members, group : GroupIds]
Saves == [op : {"put", "merge"}, id : Models, value : ModelRecords]
GroupEdits == {G!Idle} \union Scans \union Clears \union GroupDeletions \union Joins \union Saves

NamesIn(mod, m, g) == mod[m] # G!NoModel /\ g \in mod[m].groups

(* A deletion whose group nobody writes back has no members left but those *)
(* it has yet to read or to clear, and no models but those it will drop.   *)
DeletionIn(q, mem, mod, bk) ==
    q.op = "delete" =>
      /\ \A d \in q.drops : q.group \notin d.rest
      /\ q.group \notin bk =>
           /\ q.left = All => \A v \in Members : mem[v] = q.group =>
                                 v \in q.todo \/ (q.last = FALSE /\ v > q.after)
           /\ q.left # All => \A v \in Members : mem[v] # q.group
           /\ q.left = NoUsers /\ q.last = TRUE =>
                 \A m \in Models : NamesIn(mod, m, q.group) => \E d \in q.drops : d.id = m
           /\ q.left \in {OnlyGroup, <<>>} => \A m \in Models : ~NamesIn(mod, m, q.group)
\* A request names only groups that were created.
CarriesIn(q, grp) ==
    /\ q.op \in {"join", "new"} => q.group = G!NoGroup \/ grp[q.group] # "new"
    /\ q.op \in {"put", "merge"} => \A g \in q.value.groups : grp[g] # "new"
    /\ q.op = "delete" => \A d \in q.drops : \A g \in d.rest : grp[g] # "new"
EditOK(q, grp, mem, mod, bk) ==
    q \in GroupEdits /\ DeletionIn(q, mem, mod, bk) /\ CarriesIn(q, grp)

(* Of two default groups one will be cleared.                              *)
WillClear(q, g, h) ==
    q.op = "scan" \/ (q.op = "clear" /\ (g \in q.others \/ h \in q.others))
OneWillBeCleared ==
    cut = FALSE =>
      \A g, h \in Groups : g # h /\ group[g] = "default" /\ group[h] = "default" =>
         \E p \in Edits : WillClear(edit[p], g, h)

GroupStates == {"new", "plain", "default", "gone"}
GroupsTyped ==
    /\ group \in [Groups -> GroupStates]
    /\ member \in [Members -> GroupIds \union {G!Absent}]
    /\ model \in [Models -> ModelRecords \union {G!NoModel}]
    /\ cut \in BOOLEAN /\ back \subseteq Groups
    /\ edit = [p \in Edits |-> edit[p]]
\* Nothing names a group before it is created or, unless a request wrote it
\* back, after it is gone.
NewUnnamed ==
    \A g \in Groups : group[g] = "new" =>
        (\A u \in Members : member[u] # g) /\ (\A m \in Models : ~NamesIn(model, m, g))
GoneUnnamed ==
    \A g \in Groups : g \notin back /\ group[g] = "gone" =>
        (\A u \in Members : member[u] # g) /\ (\A m \in Models : ~NamesIn(model, m, g))
EditsOK == \A p \in Edits : EditOK(edit[p], group, member, model, back)
GroupsInv == GroupsTyped /\ NewUnnamed /\ GoneUnnamed /\ EditsOK /\ OneWillBeCleared

LEMMA EditTypes ==
    ASSUME NEW q \in GroupEdits
    PROVE  /\ q.op = "scan" => q \in Scans
           /\ q.op = "clear" => q \in Clears
           /\ q.op = "delete" => q \in GroupDeletions
           /\ q.op \in {"join", "new"} => q \in Joins
           /\ q.op \in {"put", "merge"} => q \in Saves
BY DEF GroupEdits, Scans, Clears, GroupDeletions, Joins, Saves, G!Idle

LEMMA IdleEdit == G!Idle \in GroupEdits /\ G!Idle.op = "none"
BY DEF GroupEdits, G!Idle

\* A request that deletes nothing has no deletion to account for.
LEMMA NoDeletion ==
    ASSUME NEW q, q.op # "delete", NEW mem, NEW mod, NEW bk
    PROVE  DeletionIn(q, mem, mod, bk)
BY DEF DeletionIn

LEMMA IdleIsFine ==
    ASSUME NEW grp, NEW mem, NEW mod, NEW bk PROVE EditOK(G!Idle, grp, mem, mod, bk)
BY IdleEdit, NoDeletion DEF EditOK, CarriesIn

LEMMA LeftFacts ==
    /\ All \in Lefts /\ NoUsers \in Lefts /\ OnlyGroup \in Lefts /\ <<>> \in Lefts
    /\ Tail(All) = NoUsers /\ Tail(NoUsers) = OnlyGroup /\ Tail(OnlyGroup) = <<>>
    /\ Head(All) = "users" /\ Head(NoUsers) = "models" /\ Head(OnlyGroup) = "remove"
    /\ All # NoUsers /\ All # OnlyGroup /\ All # <<>> /\ NoUsers # OnlyGroup /\ NoUsers # <<>>
    /\ OnlyGroup # <<>>
BY DEF All, NoUsers, OnlyGroup, Lefts

LEMMA Heads ==
    ASSUME NEW s \in Lefts, s # <<>>
    PROVE  /\ Head(s) = "users" => s = All
           /\ Head(s) = "models" => s = NoUsers
           /\ Head(s) = "remove" => s = OnlyGroup
BY LeftFacts DEF Lefts

\* A deletion is not disturbed when nothing new names its group.
LEMMA DeletionKept ==
    ASSUME NEW q, NEW mem, NEW mod, NEW bk, DeletionIn(q, mem, mod, bk),
           NEW mem2, NEW mod2, NEW bk2,
           q.op = "delete" /\ q.group \notin bk2 =>
              /\ q.group \notin bk
              /\ \A v \in Members : mem2[v] = q.group => mem[v] = q.group
              /\ \A m \in Models : NamesIn(mod2, m, q.group) => NamesIn(mod, m, q.group)
    PROVE  DeletionIn(q, mem2, mod2, bk2)
BY DEF DeletionIn

\* Nor is what it carries when no group becomes new again.
LEMMA CarriesKept ==
    ASSUME NEW q \in GroupEdits, NEW grp, NEW grp2, CarriesIn(q, grp),
           \A g \in Groups : grp[g] # "new" => grp2[g] # "new"
    PROVE  CarriesIn(q, grp2)
<1>1. q.op \in {"join", "new"} => q.group \in GroupIds BY EditTypes DEF Joins
<1>2. q.op \in {"put", "merge"} => q.value.groups \subseteq Groups
  BY EditTypes DEF Saves, ModelRecords
<1>3. q.op = "delete" => \A d \in q.drops : d.rest \subseteq Groups
  BY EditTypes DEF GroupDeletions, Drops
<1> QED BY <1>1, <1>2, <1>3 DEF CarriesIn, GroupIds

-----------------------------------------------------------------------------
\* No group that another request deletes is named anew.
OthersUndisturbed(os) ==
    \A o \in os : edit[o].op = "delete" /\ edit[o].group \notin back' =>
        /\ edit[o].group \notin back
        /\ \A v \in Members : member'[v] = edit[o].group => member[v] = edit[o].group
        /\ \A m \in Models : NamesIn(model', m, edit[o].group)
                                => NamesIn(model, m, edit[o].group)
RecordsTyped ==
    /\ group' \in [Groups -> GroupStates]
    /\ member' \in [Members -> GroupIds \union {G!Absent}]
    /\ model' \in [Models -> ModelRecords \union {G!NoModel}]
    /\ cut' \in BOOLEAN /\ back' \subseteq Groups
    /\ \A g \in Groups : group[g] # "new" => group'[g] # "new"

LEMMA GroupsAssemble ==
    ASSUME GroupsInv, RecordsTyped, OthersUndisturbed(Edits), edit' = [p \in Edits |-> edit'[p]],
           \A p \in Edits : \/ edit'[p] = edit[p]
                            \/ EditOK(edit'[p], group', member', model', back'),
           NewUnnamed', GoneUnnamed', OneWillBeCleared'
    PROVE  GroupsInv'
<1>1. GroupsTyped' BY DEF GroupsTyped, RecordsTyped
<1>2. EditsOK'
  <2>1. \A p \in Edits : EditOK(edit'[p], group', member', model', back')
    <3>1. TAKE p \in Edits
    <3>2. CASE edit'[p] = edit[p]
      <4>1. PICK q : q = edit[p] OBVIOUS
      <4>2. q \in GroupEdits /\ DeletionIn(q, member, model, back) /\ CarriesIn(q, group)
        BY <4>1 DEF GroupsInv, EditsOK, EditOK
      <4>3. CarriesIn(q, group') BY <4>2, CarriesKept DEF RecordsTyped
      <4>4. DeletionIn(q, member', model', back')
        BY <4>1, <4>2, DeletionKept DEF OthersUndisturbed
      <4> QED BY <3>2, <4>1, <4>2, <4>3, <4>4 DEF EditOK
    <3> QED BY <3>2
  <2> QED BY <2>1 DEF EditsOK
<1> QED BY <1>1, <1>2 DEF GroupsInv

LEMMA GroupsOneMoves ==
    ASSUME GroupsInv, RecordsTyped, NEW p \in Edits, NEW q, G!Go(p, q),
           OthersUndisturbed(Edits \ {p}), EditOK(q, group', member', model', back'),
           NewUnnamed', GoneUnnamed', OneWillBeCleared'
    PROVE  GroupsInv'
<1>1. edit' = [o \in Edits |-> IF o = p THEN q ELSE edit[o]]
  BY DEF GroupsInv, GroupsTyped, G!Go
<1>2. edit' = [o \in Edits |-> edit'[o]] BY <1>1
<1>3. GroupsTyped' BY <1>2 DEF GroupsTyped, RecordsTyped
<1>4. EditsOK'
  <2>1. \A o \in Edits : EditOK(edit'[o], group', member', model', back')
    <3>1. TAKE o \in Edits
    <3>2. CASE o = p BY <1>1, <3>2
    <3>3. CASE o # p
      <4>1. PICK e : e = edit[o] OBVIOUS
      <4>2. e \in GroupEdits /\ DeletionIn(e, member, model, back) /\ CarriesIn(e, group)
        BY <4>1 DEF GroupsInv, EditsOK, EditOK
      <4>3. CarriesIn(e, group') BY <4>2, CarriesKept DEF RecordsTyped
      <4>4. DeletionIn(e, member', model', back')
        BY <3>3, <4>1, <4>2, DeletionKept DEF OthersUndisturbed
      <4> QED BY <1>1, <3>3, <4>1, <4>2, <4>3, <4>4 DEF EditOK
    <3> QED BY <3>2, <3>3
  <2> QED BY <2>1 DEF EditsOK
<1> QED BY <1>3, <1>4 DEF GroupsInv

\* No default group is new and no clearing is given up.
LEMMA StillCleared ==
    ASSUME GroupsInv, NEW p \in Edits, NEW q, G!Go(p, q), cut' = FALSE => cut = FALSE,
           \A g \in Groups : group'[g] = "default" => group[g] = "default",
           \A g, h \in Groups : g # h /\ group'[g] = "default" /\ group'[h] = "default"
                                  /\ WillClear(edit[p], g, h) => WillClear(q, g, h)
    PROVE  OneWillBeCleared'
<1>1. edit' = [o \in Edits |-> IF o = p THEN q ELSE edit[o]]
  BY DEF GroupsInv, GroupsTyped, G!Go
<1>2. SUFFICES ASSUME cut' = FALSE, NEW g \in Groups, NEW h \in Groups, g # h,
                      group'[g] = "default", group'[h] = "default"
               PROVE  \E o \in Edits : WillClear(edit'[o], g, h)
  BY DEF OneWillBeCleared, WillClear
<1>3. PICK o \in Edits : WillClear(edit[o], g, h) BY <1>2 DEF GroupsInv, OneWillBeCleared
<1>4. WillClear(edit'[o], g, h)
  <2>1. CASE o = p BY <1>1, <1>2, <1>3, <2>1
  <2>2. CASE o # p BY <1>1, <1>3, <2>2
  <2> QED BY <2>1, <2>2
<1> QED BY <1>4

\* A write that names gs.
LEMMA NamingKeeps ==
    ASSUME GroupsInv, UNCHANGED group, NEW gs \in SUBSET Groups, G!Naming(gs),
           \A g \in gs : group[g] # "new",
           \A g \in Groups : g \notin gs =>
              /\ \A v \in Members : member'[v] = g => member[v] = g
              /\ \A m \in Models : NamesIn(model', m, g) => NamesIn(model, m, g)
    PROVE  /\ NewUnnamed' /\ GoneUnnamed' /\ OthersUndisturbed(Edits)
           /\ back' \subseteq Groups
<1>1. back' = back \union {g \in gs : G!Deleting(g) \/ group[g] = "gone"} BY DEF G!Naming
<1>2. NewUnnamed'
  <2>1. SUFFICES ASSUME NEW g \in Groups, group[g] = "new"
                 PROVE  /\ \A u \in Members : member'[u] # g
                        /\ \A m \in Models : ~NamesIn(model', m, g)
    BY DEF NewUnnamed, NamesIn
  <2>2. g \notin gs BY <2>1
  <2> QED BY <2>1, <2>2 DEF GroupsInv, NewUnnamed
<1>3. GoneUnnamed'
  <2>1. SUFFICES ASSUME NEW g \in Groups, group[g] = "gone", g \notin back'
                 PROVE  /\ \A u \in Members : member'[u] # g
                        /\ \A m \in Models : ~NamesIn(model', m, g)
    BY DEF GoneUnnamed, NamesIn
  <2>2. g \notin gs /\ g \notin back BY <1>1, <2>1
  <2> QED BY <2>1, <2>2 DEF GroupsInv, GoneUnnamed
<1>4. OthersUndisturbed(Edits)
  <2>1. SUFFICES ASSUME NEW o \in Edits, edit[o].op = "delete", edit[o].group \notin back'
                 PROVE  /\ edit[o].group \notin back
                        /\ \A v \in Members : member'[v] = edit[o].group => member[v] = edit[o].group
                        /\ \A m \in Models : NamesIn(model', m, edit[o].group)
                                                => NamesIn(model, m, edit[o].group)
    BY DEF OthersUndisturbed
  <2>2. edit[o].group \in Groups
    <3>1. edit[o] \in GroupEdits BY DEF GroupsInv, EditsOK, EditOK
    <3> QED BY <2>1, <3>1, EditTypes DEF GroupDeletions
  <2>3. G!Deleting(edit[o].group) BY <2>1 DEF G!Deleting
  <2>4. edit[o].group \notin gs /\ edit[o].group \notin back BY <1>1, <2>1, <2>3
  <2> QED BY <2>2, <2>4
<1>5. back' \subseteq Groups BY <1>1 DEF GroupsInv, GroupsTyped
<1> QED BY <1>2, <1>3, <1>4, <1>5

LEMMA EditNow ==
    ASSUME GroupsInv, NEW p \in Edits
    PROVE  EditOK(edit[p], group, member, model, back) /\ edit[p] \in GroupEdits
BY DEF GroupsInv, EditsOK, EditOK

\* Only a request's own progress.
LEMMA EditStep ==
    ASSUME GroupsInv, NEW p \in Edits, NEW q, G!Go(p, q),
           EditOK(q, group, member, model, back),
           UNCHANGED <<group, member, model, cut, back>>,
           \A g, h \in Groups : g # h /\ group[g] = "default" /\ group[h] = "default"
                                  /\ WillClear(edit[p], g, h) => WillClear(q, g, h)
    PROVE  GroupsInv'
<1>1. RecordsTyped BY DEF RecordsTyped, GroupsInv, GroupsTyped
<1>2. OthersUndisturbed(Edits \ {p}) BY DEF OthersUndisturbed
<1>3. NewUnnamed' /\ GoneUnnamed' BY DEF GroupsInv, NewUnnamed, GoneUnnamed, NamesIn
<1>4. OneWillBeCleared' BY StillCleared
<1>5. EditOK(q, group', member', model', back') OBVIOUS
<1> QED BY <1>1, <1>2, <1>3, <1>4, <1>5, GroupsOneMoves

LEMMA EditStepElse ==
    ASSUME GroupsInv, NEW p \in Edits, NEW q, G!Go(p, q),
           EditOK(q, group, member, model, back),
           UNCHANGED <<group, member, model, cut, back>>,
           edit[p].op \notin {"scan", "clear"}
    PROVE  GroupsInv'
<1>1. \A g, h \in Groups : ~WillClear(edit[p], g, h) BY DEF WillClear
<1> QED BY <1>1, EditStep

-----------------------------------------------------------------------------
(* Groups and the default one.                                             *)

\* A group is written and, if it is the default one, the others are cleared.
LEMMA WriteGroupKeeps ==
    ASSUME GroupsInv, NEW p \in Edits, NEW g \in Groups, NEW d \in BOOLEAN,
           G!CreateGroup(p, g, d) \/ G!UpdateGroup(p, g, d)
    PROVE  GroupsInv'
<1> DEFINE q == G!AfterWrite(g, d)
<1>1. /\ group' = [group EXCEPT ![g] = G!Record(d)] /\ group[g] # "gone"
      /\ edit[p] = G!Idle /\ G!Go(p, q) /\ UNCHANGED <<member, model, cut, back>>
  BY DEF G!CreateGroup, G!UpdateGroup, G!Begin, G!Exists
<1>2. G!Record(d) \in {"plain", "default"} /\ (G!Record(d) = "default" => d = TRUE)
  BY DEF G!Record
<1>3. /\ q \in GroupEdits /\ q.op # "delete" /\ q.op \in {"scan", "none"}
      /\ d = TRUE => q.op = "scan"
  BY IdleEdit DEF G!AfterWrite, G!Clearing, G!NoClearing, GroupEdits, Scans
<1> HIDE DEF q
<1>4. group' = [h \in Groups |-> IF h = g THEN G!Record(d) ELSE group[h]]
  BY <1>1 DEF GroupsInv, GroupsTyped
<1>5. RecordsTyped
  <2>1. group' \in [Groups -> GroupStates] BY <1>2, <1>4 DEF GroupsInv, GroupsTyped, GroupStates
  <2>2. \A h \in Groups : group[h] # "new" => group'[h] # "new" BY <1>2, <1>4
  <2> QED BY <1>1, <2>1, <2>2 DEF RecordsTyped, GroupsInv, GroupsTyped
<1>6. EditOK(q, group', member', model', back')
  BY <1>3, NoDeletion DEF EditOK, CarriesIn
<1>7. OthersUndisturbed(Edits \ {p}) BY <1>1 DEF OthersUndisturbed
<1>8. NewUnnamed'
  <2>1. \A h \in Groups : group'[h] = "new" => group[h] = "new" BY <1>2, <1>4
  <2> QED BY <1>1, <2>1 DEF GroupsInv, NewUnnamed, NamesIn
<1>9. GoneUnnamed'
  <2>1. \A h \in Groups : group'[h] = "gone" => group[h] = "gone" BY <1>2, <1>4
  <2> QED BY <1>1, <2>1 DEF GroupsInv, GoneUnnamed, NamesIn
<1>10. OneWillBeCleared'
  <2>1. CASE d = TRUE
    <3>1. edit'[p] = q BY <1>1 DEF GroupsInv, GroupsTyped, G!Go
    <3>2. \A h, k \in Groups : WillClear(edit'[p], h, k) BY <1>3, <2>1, <3>1 DEF WillClear
    <3> QED BY <3>2 DEF OneWillBeCleared, WillClear
  <2>2. CASE d # TRUE
    <3>1. \A h \in Groups : group'[h] = "default" => group[h] = "default"
      BY <1>2, <1>4, <2>2
    <3>2. \A h, k \in Groups : ~WillClear(edit[p], h, k) BY <1>1, IdleEdit DEF WillClear
    <3> QED BY <1>1, <3>1, <3>2, StillCleared
  <2> QED BY <2>1, <2>2
<1> QED BY <1>1, <1>5, <1>6, <1>7, <1>8, <1>9, <1>10, GroupsOneMoves

LEMMA ScanDefaultsKeeps ==
    ASSUME GroupsInv, NEW p \in Edits, G!ScanDefaults(p)
    PROVE  GroupsInv'
<1>1. PICK q : q = [op |-> "clear", others |-> {h \in Groups \ {edit[p].keep} : group[h] = "default"}]
  OBVIOUS
<1>2. q \in Clears /\ q.op = "clear" BY <1>1 DEF Clears
<1>3. EditOK(q, group, member, model, back)
  BY <1>2, NoDeletion DEF EditOK, CarriesIn, GroupEdits
<1>4. G!Go(p, q) /\ UNCHANGED <<group, member, model, cut, back>> BY <1>1 DEF G!ScanDefaults
<1>5. \A g, h \in Groups : g # h /\ group[g] = "default" /\ group[h] = "default"
                             => WillClear(q, g, h)
  BY <1>1 DEF WillClear
<1> QED BY <1>3, <1>4, <1>5, EditStep

LEMMA ClearDefaultKeeps ==
    ASSUME GroupsInv, NEW p \in Edits, G!ClearDefault(p)
    PROVE  GroupsInv'
<1>1. edit[p] \in Clears BY EditNow, EditTypes DEF G!ClearDefault
<1>2. PICK h \in edit[p].others :
        /\ group' = [group EXCEPT ![h] = IF G!Exists(h) THEN "plain" ELSE @]
        /\ G!Go(p, [edit[p] EXCEPT !.others = @ \ {h}])
  BY DEF G!ClearDefault
<1>3. h \in Groups /\ UNCHANGED <<member, model, cut, back>> BY <1>1, <1>2 DEF Clears, G!ClearDefault
<1>4. PICK q : q = [edit[p] EXCEPT !.others = @ \ {h}] OBVIOUS
<1>5. q \in Clears /\ q.op = "clear" /\ q.others = edit[p].others \ {h} BY <1>1, <1>4 DEF Clears
<1>6. EditOK(q, group', member', model', back')
  BY <1>5, NoDeletion DEF EditOK, CarriesIn, GroupEdits
<1>7. \A g \in Groups : /\ group'[g] = group[g] \/ (group'[g] = "plain" /\ G!Exists(g))
                        /\ g = h => group'[g] # "default"
  BY <1>2, <1>3 DEF GroupsInv, GroupsTyped, G!Exists
<1>8. group' \in [Groups -> GroupStates] BY <1>2, <1>7 DEF GroupsInv, GroupsTyped, GroupStates
<1>9. RecordsTyped
  <2>1. \A g \in Groups : group[g] # "new" => group'[g] # "new" BY <1>7
  <2> QED BY <1>3, <1>8, <2>1 DEF RecordsTyped, GroupsInv, GroupsTyped
<1>10. OthersUndisturbed(Edits \ {p}) BY <1>3 DEF OthersUndisturbed
<1>11. NewUnnamed'
  <2>1. \A g \in Groups : group'[g] = "new" => group[g] = "new" BY <1>7
  <2> QED BY <1>3, <2>1 DEF GroupsInv, NewUnnamed, NamesIn
<1>12. GoneUnnamed'
  <2>1. \A g \in Groups : group'[g] = "gone" => group[g] = "gone" BY <1>7
  <2> QED BY <1>3, <2>1 DEF GroupsInv, GoneUnnamed, NamesIn
<1>13. OneWillBeCleared'
  <2>1. \A g \in Groups : group'[g] = "default" => group[g] = "default" /\ g # h BY <1>7
  <2>2. \A g, k \in Groups : g # k /\ group'[g] = "default" /\ group'[k] = "default"
                               /\ WillClear(edit[p], g, k) => WillClear(q, g, k)
    <3>1. edit[p].op = "clear" BY <1>1 DEF Clears
    <3> QED BY <1>5, <2>1, <3>1 DEF WillClear
  <2> QED BY <1>2, <1>3, <1>4, <2>1, <2>2, StillCleared
<1> QED BY <1>2, <1>4, <1>6, <1>9, <1>10, <1>11, <1>12, <1>13, GroupsOneMoves

LEMMA ClearDoneKeeps ==
    ASSUME GroupsInv, NEW p \in Edits, G!ClearDone(p)
    PROVE  GroupsInv'
<1>1. /\ edit[p].op = "clear" /\ edit[p].others = {} /\ G!Go(p, G!Idle)
      /\ UNCHANGED <<group, member, model, cut, back>>
  BY DEF G!ClearDone
<1>2. \A g, h \in Groups : ~WillClear(edit[p], g, h) BY <1>1 DEF WillClear
<1> QED BY <1>1, <1>2, IdleIsFine, EditStep

-----------------------------------------------------------------------------
(* Deleting a group.                                                       *)

\* A deletion of g with left to do.
LEMMA DeletionType ==
    ASSUME NEW g \in Groups, NEW left \in Lefts
    PROVE  /\ G!Deletion(g, left) \in GroupDeletions /\ G!Deletion(g, left) \in GroupEdits
           /\ G!Deletion(g, left).op = "delete" /\ G!Deletion(g, left).group = g
           /\ G!Deletion(g, left).left = left /\ G!Deletion(g, left).after = 0
           /\ G!Deletion(g, left).todo = {} /\ G!Deletion(g, left).drops = {}
           /\ G!Deletion(g, left).last = FALSE
BY DEF G!Deletion, GroupDeletions, GroupEdits

LEMMA DeletionFine ==
    ASSUME NEW g \in Groups, NEW left \in Lefts, NEW grp, NEW mem, NEW mod, NEW bk,
           g \notin bk =>
             /\ left # All => \A v \in Members : mem[v] # g
             /\ left \in {OnlyGroup, <<>>} => \A m \in Models : ~NamesIn(mod, m, g)
    PROVE  EditOK(G!Deletion(g, left), grp, mem, mod, bk)
<1> DEFINE q == G!Deletion(g, left)
<1>1. q \in GroupEdits BY DeletionType
<1>2. q.op = "delete" /\ q.group = g /\ q.left = left /\ q.after = 0
  BY DEF G!Deletion
<1>6. q.todo = {} /\ q.drops = {} /\ q.last = FALSE BY DEF G!Deletion
<1> HIDE DEF q
<1>3. \A v \in Members : v > q.after
  <2>1. Members \subseteq Nat \ {0} BY AdminAssumption, Zenon
  <2>2. \A v \in Nat \ {0} : v > 0 OBVIOUS
  <2> QED BY <1>2, <2>1, <2>2, Zenon
<1>4. DeletionIn(q, mem, mod, bk) BY <1>2, <1>3, <1>6 DEF DeletionIn
<1>5. CarriesIn(q, grp) BY <1>2, <1>6 DEF CarriesIn
<1>7. EditOK(q, grp, mem, mod, bk) BY <1>1, <1>2, <1>4, <1>5, <1>6 DEF EditOK
<1> QED BY <1>7 DEF q

LEMMA OrderIs == G!Order = All BY DEF G!Order, G!Detached, All

LEMMA DeleteGroupKeeps ==
    ASSUME GroupsInv, NEW p \in Edits, NEW g \in Groups, G!DeleteGroup(p, g)
    PROVE  GroupsInv'
<1>1. /\ edit[p] = G!Idle /\ G!Go(p, G!Deletion(g, All)) /\ group[g] \in {"plain", "default"}
      /\ back' = IF G!Deleting(g) THEN back ELSE back \ {g}
      /\ UNCHANGED <<group, member, model, cut>>
  BY OrderIs, Zenon DEF G!DeleteGroup, G!Begin, G!Exists
<1>2. EditOK(G!Deletion(g, All), group', member', model', back')
  BY LeftFacts, DeletionFine
<1>3. RecordsTyped BY <1>1 DEF RecordsTyped, GroupsInv, GroupsTyped
<1>4. OthersUndisturbed(Edits \ {p})
  <2>1. ASSUME NEW o \in Edits, edit[o].op = "delete", edit[o].group \notin back'
        PROVE  edit[o].group \notin back
    <3>1. CASE edit[o].group = g
      <4>1. G!Deleting(g) BY <2>1, <3>1 DEF G!Deleting
      <4> QED BY <1>1, <2>1, <4>1
    <3>2. CASE edit[o].group # g BY <1>1, <2>1, <3>2
    <3> QED BY <3>1, <3>2
  <2> QED BY <1>1, <2>1 DEF OthersUndisturbed
<1>5. NewUnnamed' BY <1>1 DEF GroupsInv, NewUnnamed, NamesIn
<1>6. GoneUnnamed'
  <2>1. \A h \in Groups : h \notin back' /\ group[h] = "gone" => h \notin back BY <1>1
  <2> QED BY <1>1, <2>1 DEF GroupsInv, GoneUnnamed, NamesIn
<1>7. OneWillBeCleared'
  <2>1. \A h, k \in Groups : ~WillClear(edit[p], h, k) BY <1>1, IdleEdit DEF WillClear
  <2> QED BY <1>1, <2>1, StillCleared
<1> QED BY <1>1, <1>2, <1>3, <1>4, <1>5, <1>6, <1>7, GroupsOneMoves

\* The page that clearGroup reads next.
HasAccount(v) == member[v] # G!Absent
Before(u, v) == {w \in Members : HasAccount(w) /\ w > u /\ w < v}

LEMMA PageIs ==
    ASSUME NEW u PROVE G!PageAfter(u) = {v \in Members : HasAccount(v) /\ v > u
                                                          /\ Cardinality(Before(u, v)) < PageSize}
BY Zenon DEF G!PageAfter, HasAccount, Before, G!Cardinality, Cardinality

LEMMA BeforeFinite == ASSUME NEW u, NEW v PROVE IsFiniteSet(Before(u, v))
                                                /\ Cardinality(Before(u, v)) \in Nat
<1>1. Before(u, v) \subseteq Members /\ IsFiniteSet(Members) BY AdminAssumption DEF Before
<1> QED BY <1>1, FS_Subset, FS_CardinalityType

\* What it leaves out comes after it.
LEMMA PageIsFirst ==
    ASSUME NEW u, NEW v \in Members, HasAccount(v), v > u, v \notin G!PageAfter(u),
           NEW w \in G!PageAfter(u)
    PROVE  w < v
<1>1. w \in Members /\ Cardinality(Before(u, w)) < PageSize /\ w # v BY PageIs
<1>2. v \in Nat /\ w \in Nat /\ PageSize \in Nat BY <1>1, AdminAssumption
<1>3. SUFFICES ASSUME w > v PROVE FALSE BY <1>1, <1>2
<1>4. Before(u, v) \subseteq Before(u, w)
  <2>1. SUFFICES ASSUME NEW x \in Before(u, v) PROVE x \in Before(u, w) OBVIOUS
  <2>2. x \in Members /\ HasAccount(x) /\ x > u /\ x < v BY <2>1 DEF Before
  <2>3. x \in Nat BY <2>2, AdminAssumption
  <2>4. x < w BY <1>2, <1>3, <2>2, <2>3
  <2> QED BY <2>2, <2>4 DEF Before
<1>5. Cardinality(Before(u, v)) <= Cardinality(Before(u, w))
  BY <1>4, BeforeFinite, FS_Subset
<1>6. ~(Cardinality(Before(u, v)) < PageSize) BY PageIs
<1>7. PICK a, b : a = Cardinality(Before(u, v)) /\ b = Cardinality(Before(u, w)) OBVIOUS
<1>8. a \in Nat /\ b \in Nat BY <1>7, BeforeFinite
<1> QED BY <1>1, <1>2, <1>5, <1>6, <1>7, <1>8

LEMMA PageEnds ==
    ASSUME NEW u, G!PageAfter(u) # {}
    PROVE  \E m \in G!PageAfter(u) : m = (CHOOSE v \in G!PageAfter(u) : \A w \in G!PageAfter(u) : w <= v)
<1>1. PICK S : S = G!PageAfter(u) OBVIOUS
<1>2. S \subseteq Members /\ IsFiniteSet(Members) /\ Members \subseteq Nat
  BY <1>1, PageIs, AdminAssumption
<1>3. IsFiniteSet(S) BY <1>2, FS_Subset
<1>4. \E v \in S : \A w \in S : w <= v BY <1>1, <1>2, <1>3, LargestNumber
<1> QED BY <1>1, <1>4

LEMMA ReadPageKeeps ==
    ASSUME GroupsInv, NEW p \in Edits, G!ReadPage(p)
    PROVE  GroupsInv'
<1>1. PICK e : e = edit[p] OBVIOUS
<1>2. PICK page : page = G!PageAfter(e.after) OBVIOUS
<1>3. PICK todo : todo = {v \in page : member[v] = e.group} OBVIOUS
<1>4. PICK after : after = IF page = {} THEN e.after ELSE CHOOSE v \in page : \A w \in page : w <= v
  OBVIOUS
<1>5. PICK last \in BOOLEAN :
        last = (\A v \in Members : member[v] # G!Absent /\ v > e.after => v \in page)
  OBVIOUS
<1>6. PICK q : q = [e EXCEPT !.todo = todo, !.after = after, !.last = last] OBVIOUS
<1>7. /\ e.op = "delete" /\ e.left # <<>> /\ Head(e.left) = "users" /\ e.todo = {} /\ e.last = FALSE
      /\ e \in GroupDeletions
  BY <1>1, EditNow, EditTypes DEF G!ReadPage, GroupDeletions
<1>8. G!Go(p, q) /\ UNCHANGED <<group, member, model, cut, back>>
  BY <1>1, <1>2, <1>3, <1>4, <1>5, <1>6 DEF G!ReadPage
<1>9. e.left = All BY <1>7, Heads DEF GroupDeletions
<1>10. page \subseteq Members BY <1>2, PageIs
<1>11. after \in Nat
  <2>1. CASE page = {} BY <1>4, <1>7, <2>1 DEF GroupDeletions
  <2>2. CASE page # {}
    <3>1. after \in page BY <1>2, <1>4, <2>2, PageEnds
    <3> QED BY <1>10, <3>1, AdminAssumption
  <2> QED BY <2>1, <2>2
<1>12. todo \in SUBSET Members BY <1>3, <1>10
<1>13. /\ q \in GroupDeletions /\ q.op = "delete" /\ q.left = All /\ q.group = e.group
       /\ q.drops = e.drops /\ q.todo = todo /\ q.after = after /\ q.last = last
  BY <1>6, <1>7, <1>9, <1>11, <1>12 DEF GroupDeletions
<1>14. DeletionIn(e, member, model, back) /\ CarriesIn(e, group)
  BY <1>1, EditNow DEF EditOK
<1>15. ASSUME e.group \notin back, NEW v \in Members, member[v] = e.group
       PROVE  v \in todo \/ (last = FALSE /\ v > after)
  <2>1. v > e.after BY <1>7, <1>9, <1>14, <1>15 DEF DeletionIn
  <2>2. HasAccount(v)
    <3>1. e.group \in Groups BY <1>7 DEF GroupDeletions
    <3> QED BY <1>15, <3>1, AdminAssumption DEF HasAccount
  <2>3. CASE v \in page BY <1>3, <1>15, <2>3
  <2>4. CASE v \notin page
    <3>1. last = FALSE BY <1>5, <2>1, <2>2, <2>4 DEF HasAccount
    <3>2. CASE page = {} BY <1>4, <2>1, <3>1, <3>2
    <3>3. CASE page # {}
      <4>1. after \in page BY <1>2, <1>4, <3>3, PageEnds
      <4>2. after < v BY <1>2, <2>1, <2>2, <2>4, <4>1, PageIsFirst
      <4>3. v \in Nat BY AdminAssumption
      <4> QED BY <1>11, <3>1, <4>2, <4>3
    <3> QED BY <3>2, <3>3
  <2> QED BY <2>3, <2>4
<1>16. DeletionIn(q, member, model, back)
  BY <1>7, <1>13, <1>14, <1>15, LeftFacts DEF DeletionIn
<1>17. CarriesIn(q, group) BY <1>7, <1>13, <1>14 DEF CarriesIn
<1>18. EditOK(q, group, member, model, back) BY <1>13, <1>16, <1>17 DEF EditOK, GroupEdits
<1> QED BY <1>1, <1>7, <1>8, <1>18, EditStepElse

\* An account leaves the group.
LEMMA ClearMemberKeeps ==
    ASSUME GroupsInv, NEW p \in Edits, G!ClearMember(p)
    PROVE  GroupsInv'
<1>1. PICK e : e = edit[p] OBVIOUS
<1>2. PICK v \in e.todo :
        /\ member' = [member EXCEPT ![v] = G!NoGroup]
        /\ G!Go(p, [e EXCEPT !.todo = @ \ {v}])
  BY <1>1 DEF G!ClearMember
<1>3. /\ e.op = "delete" /\ e.left # <<>> /\ Head(e.left) = "users" /\ e \in GroupDeletions
      /\ UNCHANGED <<group, model, cut, back>>
  BY <1>1, EditNow, EditTypes DEF G!ClearMember
<1>4. e.left = All BY <1>3, Heads DEF GroupDeletions
<1>5. v \in Members BY <1>2, <1>3 DEF GroupDeletions
<1>6. PICK q : q = [e EXCEPT !.todo = @ \ {v}] OBVIOUS
<1>7. /\ q \in GroupDeletions /\ q.op = "delete" /\ q.left = All /\ q.group = e.group
      /\ q.drops = e.drops /\ q.todo = e.todo \ {v} /\ q.after = e.after /\ q.last = e.last
  BY <1>3, <1>4, <1>6 DEF GroupDeletions
<1>8. DeletionIn(e, member, model, back) /\ CarriesIn(e, group)
  BY <1>1, EditNow DEF EditOK
<1>9. member' = [u \in Members |-> IF u = v THEN G!NoGroup ELSE member[u]]
  BY <1>2, <1>5 DEF GroupsInv, GroupsTyped
<1>10. \A g \in Groups : \A u \in Members : member'[u] = g => member[u] = g /\ u # v
  BY <1>9, AdminAssumption
<1>11. DeletionIn(q, member', model', back')
  <2>1. e.group \in Groups BY <1>3 DEF GroupDeletions
  <2>2. ASSUME e.group \notin back, NEW u \in Members, member'[u] = e.group
        PROVE  u \in q.todo \/ (q.last = FALSE /\ u > q.after)
    <3>1. u \in e.todo \/ (e.last = FALSE /\ u > e.after)
      BY <1>3, <1>4, <1>8, <1>10, <2>1, <2>2 DEF DeletionIn
    <3> QED BY <1>7, <1>10, <2>1, <2>2, <3>1
  <2> QED BY <1>3, <1>7, <1>8, <2>2, LeftFacts DEF DeletionIn
<1>12. CarriesIn(q, group') BY <1>3, <1>7, <1>8 DEF CarriesIn
<1>13. EditOK(q, group', member', model', back')
  BY <1>7, <1>11, <1>12 DEF EditOK, GroupEdits
<1>14. member' \in [Members -> GroupIds \union {G!Absent}]
  BY <1>9 DEF GroupsInv, GroupsTyped, GroupIds
<1>15. RecordsTyped BY <1>3, <1>14 DEF RecordsTyped, GroupsInv, GroupsTyped
<1>16. /\ NewUnnamed' /\ GoneUnnamed' /\ OthersUndisturbed(Edits)
  <2>1. G!Naming({}) BY <1>3 DEF G!Naming
  <2>2. \A g \in Groups : \A m \in Models : NamesIn(model', m, g) => NamesIn(model, m, g)
    BY <1>3
  <2>3. group' = group BY <1>3
  <2> QED BY <1>10, <2>1, <2>2, <2>3, NamingKeeps
<1>17. OthersUndisturbed(Edits \ {p}) BY <1>16 DEF OthersUndisturbed
<1>18. OneWillBeCleared'
  <2>1. \A h, k \in Groups : ~WillClear(edit[p], h, k) BY <1>1, <1>3 DEF WillClear
  <2> QED BY <1>2, <1>3, <1>6, <2>1, StillCleared
<1> QED BY <1>2, <1>6, <1>13, <1>15, <1>16, <1>17, <1>18, GroupsOneMoves

\* Users, models and the group are done, one after the other.
LEMMA DeletionGoesOn ==
    ASSUME GroupsInv, NEW p \in Edits, NEW left \in Lefts, edit[p].op = "delete",
           edit[p] \in GroupDeletions, G!Go(p, G!Deletion(edit[p].group, left)),
           UNCHANGED <<group, member, model, cut, back>>,
           edit[p].group \notin back =>
             /\ left # All => \A v \in Members : member[v] # edit[p].group
             /\ left \in {OnlyGroup, <<>>} =>
                  \A m \in Models : ~NamesIn(model, m, edit[p].group)
    PROVE  GroupsInv'
<1>1. edit[p].group \in Groups BY DEF GroupDeletions
<1>2. EditOK(G!Deletion(edit[p].group, left), group, member, model, back)
  BY <1>1, DeletionFine
<1> QED BY <1>2, EditStepElse

LEMMA UsersDoneKeeps ==
    ASSUME GroupsInv, NEW p \in Edits, G!UsersDone(p)
    PROVE  GroupsInv'
<1>1. PICK e : e = edit[p] OBVIOUS
<1>2. /\ e.op = "delete" /\ e.left # <<>> /\ Head(e.left) = "users" /\ e.todo = {} /\ e.last = TRUE
      /\ e \in GroupDeletions /\ DeletionIn(e, member, model, back)
      /\ G!Go(p, G!Deletion(e.group, Tail(e.left))) /\ UNCHANGED <<group, member, model, cut, back>>
  BY <1>1, EditNow, EditTypes DEF G!UsersDone, EditOK, GroupDeletions
<1>3. e.left = All /\ Tail(e.left) = NoUsers BY <1>2, Heads, LeftFacts DEF GroupDeletions
<1>4. e.group \notin back => \A v \in Members : member[v] # e.group
  BY <1>2, <1>3 DEF DeletionIn
<1>5. NoUsers \in Lefts /\ NoUsers \notin {OnlyGroup, <<>>} BY LeftFacts
<1> QED BY <1>1, <1>2, <1>3, <1>4, <1>5, DeletionGoesOn

LEMMA ReadModelsKeeps ==
    ASSUME GroupsInv, NEW p \in Edits, G!ReadModels(p)
    PROVE  GroupsInv'
<1>1. PICK e : e = edit[p] OBVIOUS
<1>2. PICK ds : ds = {[id |-> m, rest |-> model[m].groups \ {e.group}] :
                        m \in {n \in Models : /\ model[n] # G!NoModel
                                              /\ e.group \in model[n].groups}}
  OBVIOUS
<1>3. PICK q : q = [e EXCEPT !.last = TRUE, !.drops = ds] OBVIOUS
<1>4. /\ e.op = "delete" /\ e.left # <<>> /\ Head(e.left) = "models"
      /\ e \in GroupDeletions /\ DeletionIn(e, member, model, back)
      /\ G!Go(p, q) /\ UNCHANGED <<group, member, model, cut, back>>
  BY <1>1, <1>2, <1>3, EditNow, EditTypes DEF G!ReadModels, EditOK
<1>5. e.left = NoUsers BY <1>4, Heads DEF GroupDeletions
<1>6. \A m \in Models : model[m] # G!NoModel => model[m] \in ModelRecords
  BY DEF GroupsInv, GroupsTyped
<1>7. \A d \in ds : \E m \in Models : /\ NamesIn(model, m, e.group)
                                      /\ d = [id |-> m, rest |-> model[m].groups \ {e.group}]
  BY <1>2 DEF NamesIn
<1>8. \A d \in ds : /\ d \in Drops /\ e.group \notin d.rest
                    /\ \A g \in d.rest : g \in Groups /\ NamesIn(model, d.id, g)
  <2>1. TAKE d \in ds
  <2>2. PICK m \in Models : /\ NamesIn(model, m, e.group)
                            /\ d = [id |-> m, rest |-> model[m].groups \ {e.group}]
    BY <1>7
  <2>3. model[m] \in ModelRecords BY <1>6, <2>2 DEF NamesIn
  <2>4. model[m].groups \subseteq Groups BY <2>3 DEF ModelRecords
  <2>5. d \in Drops /\ e.group \notin d.rest BY <2>2, <2>4 DEF Drops
  <2>6. ASSUME NEW g \in d.rest PROVE g \in Groups /\ NamesIn(model, d.id, g)
    <3>1. d.id = m /\ g \in model[m].groups BY <2>2
    <3> QED BY <2>2, <2>4, <3>1 DEF NamesIn
  <2> QED BY <2>5, <2>6
<1>9. ASSUME NEW m \in Models, NamesIn(model, m, e.group) PROVE \E d \in ds : d.id = m
  <2>1. [id |-> m, rest |-> model[m].groups \ {e.group}] \in ds BY <1>2, <1>9 DEF NamesIn
  <2> QED BY <2>1
<1>10. ds \in SUBSET Drops BY <1>8
<1>11. /\ q \in GroupDeletions /\ q.op = "delete" /\ q.left = NoUsers /\ q.group = e.group
       /\ q.drops = ds
  BY <1>3, <1>4, <1>5, <1>10 DEF GroupDeletions
<1>12. DeletionIn(q, member, model, back)
  <2>1. e.group \notin back => \A v \in Members : member[v] # e.group
    BY <1>4, <1>5, LeftFacts DEF DeletionIn
  <2> QED BY <1>8, <1>9, <1>11, <2>1, LeftFacts DEF DeletionIn
<1>13. CarriesIn(q, group)
  <2>1. \A d \in ds : \A g \in d.rest : group[g] # "new"
    <3>1. TAKE d \in ds
    <3>2. d.id \in Models BY <1>8 DEF Drops
    <3> QED BY <1>8, <3>2 DEF GroupsInv, NewUnnamed
  <2> QED BY <1>11, <2>1 DEF CarriesIn
<1>14. EditOK(q, group, member, model, back) BY <1>11, <1>12, <1>13 DEF EditOK, GroupEdits
<1> QED BY <1>1, <1>4, <1>14, EditStepElse

\* One list loses the group.
LEMMA DropFromModelKeeps ==
    ASSUME GroupsInv, NEW p \in Edits, G!DropFromModel(p)
    PROVE  GroupsInv'
<1>1. PICK e : e = edit[p] OBVIOUS
<1>2. PICK d \in e.drops :
        /\ model' = [model EXCEPT ![d.id] = IF @ = G!NoModel THEN @ ELSE [@ EXCEPT !.groups = d.rest]]
        /\ G!Naming(d.rest) /\ G!Go(p, [e EXCEPT !.drops = @ \ {d}])
  BY <1>1 DEF G!DropFromModel
<1>3. /\ e.op = "delete" /\ e.left # <<>> /\ Head(e.left) = "models" /\ e \in GroupDeletions
      /\ UNCHANGED <<group, member, cut>>
      /\ DeletionIn(e, member, model, back) /\ CarriesIn(e, group)
  BY <1>1, EditNow, EditTypes DEF G!DropFromModel, EditOK
<1>4. e.left = NoUsers BY <1>3, Heads DEF GroupDeletions
<1>5. d \in Drops /\ d.id \in Models /\ d.rest \subseteq Groups /\ e.group \notin d.rest
      /\ \A g \in d.rest : group[g] # "new"
  BY <1>2, <1>3 DEF GroupDeletions, Drops, DeletionIn, CarriesIn
<1>6. PICK q : q = [e EXCEPT !.drops = @ \ {d}] OBVIOUS
<1>7. /\ q \in GroupDeletions /\ q.op = "delete" /\ q.left = NoUsers /\ q.group = e.group
      /\ q.drops = e.drops \ {d} /\ q.last = e.last
  BY <1>3, <1>4, <1>6 DEF GroupDeletions
<1>8. /\ \A m \in Models : m # d.id => model'[m] = model[m]
      /\ model[d.id] = G!NoModel => model'[d.id] = G!NoModel
      /\ model[d.id] # G!NoModel => model'[d.id] \in ModelRecords /\ model'[d.id].groups = d.rest
      /\ model' = [m \in Models |-> model'[m]]
  <2>1. model[d.id] \in ModelRecords \union {G!NoModel} BY <1>5 DEF GroupsInv, GroupsTyped
  <2>2. PICK z : z = IF model[d.id] = G!NoModel THEN model[d.id]
                     ELSE [model[d.id] EXCEPT !.groups = d.rest]
    OBVIOUS
  <2>3. model' = [m \in Models |-> IF m = d.id THEN z ELSE model[m]]
    BY <1>2, <1>5, <2>2 DEF GroupsInv, GroupsTyped
  <2>4. model[d.id] # G!NoModel => z \in ModelRecords /\ z.groups = d.rest
    BY <1>5, <2>1, <2>2 DEF ModelRecords
  <2> QED BY <1>5, <2>2, <2>3, <2>4
<1>9. model' \in [Models -> ModelRecords \union {G!NoModel}]
  <2>1. \A m \in Models : model[m] \in ModelRecords \union {G!NoModel}
    BY DEF GroupsInv, GroupsTyped
  <2>2. \A m \in Models : model'[m] \in ModelRecords \union {G!NoModel} BY <1>8, <2>1
  <2> QED BY <1>8, <2>2
<1>10. \A m \in Models, g \in Groups : NamesIn(model', m, g) =>
          \/ m # d.id /\ NamesIn(model, m, g)
          \/ m = d.id /\ g \in d.rest
  BY <1>8 DEF NamesIn
<1>11. /\ NewUnnamed' /\ GoneUnnamed' /\ OthersUndisturbed(Edits) /\ back' \subseteq Groups
  <2>1. \A g \in Groups : g \notin d.rest =>
            /\ \A v \in Members : member'[v] = g => member[v] = g
            /\ \A m \in Models : NamesIn(model', m, g) => NamesIn(model, m, g)
    BY <1>3, <1>10
  <2> QED BY <1>2, <1>3, <1>5, <2>1, NamingKeeps
<1>12. OthersUndisturbed(Edits \ {p}) BY <1>11 DEF OthersUndisturbed
<1>13. RecordsTyped BY <1>3, <1>9, <1>11 DEF RecordsTyped, GroupsInv, GroupsTyped
<1>14. DeletionIn(q, member', model', back')
  <2>1. e.group \in Groups BY <1>3 DEF GroupDeletions
  <2>2. e.group \notin back' => e.group \notin back BY <1>2 DEF G!Naming
  <2>3. e.group \notin back' => \A v \in Members : member'[v] # e.group
    BY <1>3, <1>4, <2>2, LeftFacts DEF DeletionIn
  <2>4. ASSUME e.group \notin back', e.last = TRUE, NEW m \in Models, NamesIn(model', m, e.group)
        PROVE  \E c \in e.drops \ {d} : c.id = m
    <3>1. m # d.id /\ NamesIn(model, m, e.group) BY <1>5, <1>10, <2>1, <2>4
    <3>2. \E c \in e.drops : c.id = m BY <1>3, <1>4, <2>2, <2>4, <3>1 DEF DeletionIn
    <3> QED BY <3>1, <3>2
  <2>5. \A c \in q.drops : q.group \notin c.rest BY <1>3, <1>7 DEF DeletionIn
  <2> QED BY <1>7, <2>3, <2>4, <2>5, LeftFacts DEF DeletionIn
<1>15. CarriesIn(q, group') BY <1>3, <1>7 DEF CarriesIn
<1>16. EditOK(q, group', member', model', back')
  BY <1>7, <1>14, <1>15 DEF EditOK, GroupEdits
<1>17. OneWillBeCleared'
  <2>1. \A h, k \in Groups : ~WillClear(edit[p], h, k) BY <1>1, <1>3 DEF WillClear
  <2> QED BY <1>2, <1>3, <1>6, <2>1, StillCleared
<1> QED BY <1>2, <1>6, <1>11, <1>12, <1>13, <1>16, <1>17, GroupsOneMoves

LEMMA ModelsDoneKeeps ==
    ASSUME GroupsInv, NEW p \in Edits, G!ModelsDone(p)
    PROVE  GroupsInv'
<1>1. PICK e : e = edit[p] OBVIOUS
<1>2. /\ e.op = "delete" /\ e.left # <<>> /\ Head(e.left) = "models" /\ e.drops = {} /\ e.last = TRUE
      /\ e \in GroupDeletions /\ DeletionIn(e, member, model, back)
      /\ G!Go(p, G!Deletion(e.group, Tail(e.left))) /\ UNCHANGED <<group, member, model, cut, back>>
  BY <1>1, EditNow, EditTypes DEF G!ModelsDone, EditOK, GroupDeletions
<1>3. e.left = NoUsers /\ Tail(e.left) = OnlyGroup BY <1>2, Heads, LeftFacts DEF GroupDeletions
<1>4. e.group \notin back => /\ \A v \in Members : member[v] # e.group
                             /\ \A m \in Models : ~NamesIn(model, m, e.group)
  BY <1>2, <1>3, LeftFacts DEF DeletionIn
<1>5. OnlyGroup \in Lefts BY LeftFacts
<1> QED BY <1>1, <1>2, <1>3, <1>4, <1>5, DeletionGoesOn

LEMMA RemoveGroupKeeps ==
    ASSUME GroupsInv, NEW p \in Edits, G!RemoveGroup(p)
    PROVE  GroupsInv'
<1>1. PICK e : e = edit[p] OBVIOUS
<1>2. /\ e.op = "delete" /\ e.left # <<>> /\ Head(e.left) = "remove"
      /\ e \in GroupDeletions /\ DeletionIn(e, member, model, back)
      /\ group' = [group EXCEPT ![e.group] = "gone"]
      /\ G!Go(p, G!Deletion(e.group, Tail(e.left))) /\ UNCHANGED <<member, model, cut, back>>
  BY <1>1, EditNow, EditTypes DEF G!RemoveGroup, EditOK
<1>3. e.left = OnlyGroup /\ Tail(e.left) = <<>> /\ e.group \in Groups
  BY <1>2, Heads, LeftFacts DEF GroupDeletions
<1>4. e.group \notin back => /\ \A v \in Members : member[v] # e.group
                             /\ \A m \in Models : ~NamesIn(model, m, e.group)
  BY <1>2, <1>3, LeftFacts DEF DeletionIn
<1>5. EditOK(G!Deletion(e.group, <<>>), group', member', model', back')
  BY <1>2, <1>3, <1>4, LeftFacts, DeletionFine
<1>6. group' = [g \in Groups |-> IF g = e.group THEN "gone" ELSE group[g]]
  BY <1>2 DEF GroupsInv, GroupsTyped
<1>7. RecordsTyped
  <2>1. group' \in [Groups -> GroupStates] BY <1>6 DEF GroupsInv, GroupsTyped, GroupStates
  <2>2. \A g \in Groups : group[g] # "new" => group'[g] # "new" BY <1>6
  <2> QED BY <1>2, <2>1, <2>2 DEF RecordsTyped, GroupsInv, GroupsTyped
<1>8. OthersUndisturbed(Edits \ {p}) BY <1>2 DEF OthersUndisturbed
<1>9. NewUnnamed'
  <2>1. \A g \in Groups : group'[g] = "new" => group[g] = "new" BY <1>6
  <2> QED BY <1>2, <2>1 DEF GroupsInv, NewUnnamed, NamesIn
<1>10. GoneUnnamed'
  <2>1. \A g \in Groups : group'[g] = "gone" => group[g] = "gone" \/ g = e.group BY <1>6
  <2>2. \A g \in Groups : g \notin back /\ group'[g] = "gone" =>
            /\ \A u \in Members : member[u] # g
            /\ \A m \in Models : ~NamesIn(model, m, g)
    BY <1>4, <2>1 DEF GroupsInv, GoneUnnamed
  <2> QED BY <1>2, <2>2 DEF GoneUnnamed, NamesIn
<1>11. OneWillBeCleared'
  <2>1. \A h, k \in Groups : ~WillClear(edit[p], h, k) BY <1>1, <1>2 DEF WillClear
  <2>2. \A g \in Groups : group'[g] = "default" => group[g] = "default" BY <1>6
  <2> QED BY <1>2, <2>1, <2>2, StillCleared
<1> QED BY <1>2, <1>3, <1>5, <1>7, <1>8, <1>9, <1>10, <1>11, GroupsOneMoves

LEMMA DeleteDoneKeeps ==
    ASSUME GroupsInv, NEW p \in Edits, G!DeleteDone(p)
    PROVE  GroupsInv'
<1>1. edit[p].op \notin {"scan", "clear"} /\ G!Go(p, G!Idle)
      /\ UNCHANGED <<group, member, model, cut, back>>
  BY DEF G!DeleteDone
<1> QED BY <1>1, IdleIsFine, EditStepElse

-----------------------------------------------------------------------------
(* Accounts and models.                                                    *)

\* A request begins that will name groups that exist now.
LEMMA AsksToJoin ==
    ASSUME GroupsInv, NEW p \in Edits, NEW u \in Members, NEW g \in GroupIds,
           NEW op \in {"join", "new"}, g # G!NoGroup => G!Exists(g),
           G!Begin(p, [op |-> op, user |-> u, group |-> g]),
           UNCHANGED <<group, member, model, cut, back>>
    PROVE  GroupsInv'
<1>1. PICK q : q = [op |-> op, user |-> u, group |-> g] OBVIOUS
<1>2. q \in Joins /\ q.op = op /\ q.group = g BY <1>1 DEF Joins
<1>3. CarriesIn(q, group) BY <1>2 DEF CarriesIn, G!Exists
<1>4. EditOK(q, group, member, model, back)
  BY <1>2, <1>3, NoDeletion DEF EditOK, GroupEdits
<1>5. edit[p] = G!Idle /\ G!Go(p, q) BY <1>1 DEF G!Begin
<1> QED BY <1>4, <1>5, IdleEdit, EditStepElse

LEMMA SetGroupKeeps ==
    ASSUME GroupsInv, NEW p \in Edits, NEW u \in Members, NEW g \in GroupIds, G!SetGroup(p, u, g)
    PROVE  GroupsInv'
BY AsksToJoin DEF G!SetGroup

LEMMA CreateUserKeeps ==
    ASSUME GroupsInv, NEW p \in Edits, NEW u \in Members, G!CreateUser(p, u)
    PROVE  GroupsInv'
<1>1. PICK g \in {h \in Groups : G!Exists(h)} \union {G!NoGroup} :
        G!Begin(p, [op |-> "new", user |-> u, group |-> g])
  BY DEF G!CreateUser
<1>2. g \in GroupIds /\ (g # G!NoGroup => G!Exists(g)) BY <1>1 DEF GroupIds
<1>3. UNCHANGED <<group, member, model, cut, back>> BY DEF G!CreateUser
<1> QED BY <1>1, <1>2, <1>3, AsksToJoin

\* The account is written, or not.
LEMMA EntersKeeps ==
    ASSUME GroupsInv, NEW p \in Edits, edit[p].op \in {"join", "new"}, G!Go(p, G!Idle),
           UNCHANGED <<group, model, cut>>,
           \/ /\ member' = [member EXCEPT ![edit[p].user] = edit[p].group]
              /\ G!Naming({edit[p].group} \ {G!NoGroup})
           \/ UNCHANGED <<member, back>>
    PROVE  GroupsInv'
<1>1. PICK e : e = edit[p] OBVIOUS
<1>2. e \in Joins /\ CarriesIn(e, group) BY <1>1, EditNow, EditTypes DEF EditOK
<1>3. e.user \in Members /\ e.group \in GroupIds BY <1>2 DEF Joins
<1>4. CASE UNCHANGED <<member, back>>
  BY <1>4, IdleIsFine, EditStepElse
<1>5. CASE /\ member' = [member EXCEPT ![e.user] = e.group] /\ G!Naming({e.group} \ {G!NoGroup})
  <2>1. member' = [v \in Members |-> IF v = e.user THEN e.group ELSE member[v]]
    BY <1>5 DEF GroupsInv, GroupsTyped
  <2>2. member' \in [Members -> GroupIds \union {G!Absent}]
    BY <1>3, <2>1 DEF GroupsInv, GroupsTyped
  <2>3. PICK gs : gs = {e.group} \ {G!NoGroup} OBVIOUS
  <2>4. gs \in SUBSET Groups /\ \A g \in gs : group[g] # "new"
    BY <1>1, <1>2, <1>3, <2>3 DEF GroupIds, CarriesIn
  <2>5. \A g \in Groups : g \notin gs =>
            /\ \A v \in Members : member'[v] = g => member[v] = g
            /\ \A m \in Models : NamesIn(model', m, g) => NamesIn(model, m, g)
    BY <2>1, <2>3, AdminAssumption
  <2>6. NewUnnamed' /\ GoneUnnamed' /\ OthersUndisturbed(Edits) /\ back' \subseteq Groups
    BY <1>5, <2>3, <2>4, <2>5, NamingKeeps
  <2>7. OthersUndisturbed(Edits \ {p}) BY <2>6 DEF OthersUndisturbed
  <2>8. RecordsTyped BY <2>2, <2>6 DEF RecordsTyped, GroupsInv, GroupsTyped
  <2>9. OneWillBeCleared'
    <3>1. \A h, k \in Groups : ~WillClear(edit[p], h, k) BY DEF WillClear
    <3> QED BY <3>1, StillCleared
  <2> QED BY <2>6, <2>7, <2>8, <2>9, IdleIsFine, GroupsOneMoves
<1> QED BY <1>1, <1>4, <1>5

LEMMA JoinKeeps == ASSUME GroupsInv, NEW p \in Edits, G!Join(p) PROVE GroupsInv'
<1>1. edit[p].op \in {"join", "new"} /\ G!Go(p, G!Idle) /\ UNCHANGED <<group, model, cut>>
  BY DEF G!Join
<1>2. \/ /\ member' = [member EXCEPT ![edit[p].user] = edit[p].group]
         /\ G!Naming({edit[p].group} \ {G!NoGroup})
      \/ UNCHANGED <<member, back>>
  BY DEF G!Join
<1> QED BY <1>1, <1>2, EntersKeeps

LEMMA PutUserKeeps == ASSUME GroupsInv, NEW p \in Edits, G!PutUser(p) PROVE GroupsInv'
<1>1. edit[p].op \in {"join", "new"} /\ G!Go(p, G!Idle) /\ UNCHANGED <<group, model, cut>>
  BY DEF G!PutUser
<1>2. \/ /\ member' = [member EXCEPT ![edit[p].user] = edit[p].group]
         /\ G!Naming({edit[p].group} \ {G!NoGroup})
      \/ UNCHANGED <<member, back>>
  BY DEF G!PutUser
<1> QED BY <1>1, <1>2, EntersKeeps

LEMMA SaveModelKeeps ==
    ASSUME GroupsInv, NEW p \in Edits, NEW m \in Models, NEW n \in Names, NEW gs \in SUBSET Groups,
           G!SaveModel(p, m, n, gs)
    PROVE  GroupsInv'
<1>1. PICK op \in {"put", "merge"} : op = IF model[m] = G!NoModel THEN "put" ELSE "merge" OBVIOUS
<1>2. PICK val : val = [name |-> n, groups |-> gs] OBVIOUS
<1>3. PICK q : q = [op |-> op, id |-> m, value |-> val] OBVIOUS
<1>4. val \in ModelRecords /\ val.groups = gs BY <1>2 DEF ModelRecords
<1>5. q \in Saves /\ q.op = op /\ q.value = val BY <1>3, <1>4 DEF Saves
<1>6. /\ \A g \in gs : G!Exists(g)
      /\ edit[p] = G!Idle /\ G!Go(p, q) /\ UNCHANGED <<group, member, model, cut, back>>
  BY <1>1, <1>2, <1>3 DEF G!SaveModel, G!Begin
<1>7. CarriesIn(q, group) BY <1>4, <1>5, <1>6 DEF CarriesIn, G!Exists
<1>8. EditOK(q, group, member, model, back)
  BY <1>5, <1>7, NoDeletion DEF EditOK, GroupEdits
<1> QED BY <1>6, <1>8, IdleEdit, EditStepElse

LEMMA WriteModelKeeps == ASSUME GroupsInv, NEW p \in Edits, G!WriteModel(p) PROVE GroupsInv'
<1>1. PICK e : e = edit[p] OBVIOUS
<1>2. /\ e.op \in {"put", "merge"} /\ G!Go(p, G!Idle) /\ UNCHANGED <<group, member, cut>>
      /\ e \in Saves /\ CarriesIn(e, group)
  BY <1>1, EditNow, EditTypes DEF G!WriteModel, EditOK
<1>3. e.id \in Models /\ e.value \in ModelRecords BY <1>2 DEF Saves
<1>4. e.value.groups \in SUBSET Groups /\ \A g \in e.value.groups : group[g] # "new"
  BY <1>2, <1>3 DEF ModelRecords, CarriesIn
<1>5. CASE UNCHANGED <<model, back>> BY <1>1, <1>2, <1>5, IdleIsFine, EditStepElse
<1>6. CASE model' = [model EXCEPT ![e.id] = e.value] /\ G!Naming(e.value.groups)
  <2>1. model' = [m \in Models |-> IF m = e.id THEN e.value ELSE model[m]]
    BY <1>6 DEF GroupsInv, GroupsTyped
  <2>2. model' \in [Models -> ModelRecords \union {G!NoModel}]
    BY <1>3, <2>1 DEF GroupsInv, GroupsTyped
  <2>3. \A g \in Groups : g \notin e.value.groups =>
            /\ \A v \in Members : member'[v] = g => member[v] = g
            /\ \A m \in Models : NamesIn(model', m, g) => NamesIn(model, m, g)
    BY <1>2, <2>1 DEF NamesIn
  <2>4. NewUnnamed' /\ GoneUnnamed' /\ OthersUndisturbed(Edits) /\ back' \subseteq Groups
    BY <1>2, <1>4, <1>6, <2>3, NamingKeeps
  <2>5. OthersUndisturbed(Edits \ {p}) BY <2>4 DEF OthersUndisturbed
  <2>6. RecordsTyped BY <1>2, <2>2, <2>4 DEF RecordsTyped, GroupsInv, GroupsTyped
  <2>7. OneWillBeCleared'
    <3>1. \A h, k \in Groups : ~WillClear(edit[p], h, k) BY <1>1, <1>2 DEF WillClear
    <3> QED BY <1>2, <3>1, StillCleared
  <2> QED BY <1>2, <2>4, <2>5, <2>6, <2>7, IdleIsFine, GroupsOneMoves
<1>7. \/ UNCHANGED <<model, back>>
      \/ model' = [model EXCEPT ![e.id] = e.value] /\ G!Naming(e.value.groups)
  BY <1>1 DEF G!WriteModel
<1> QED BY <1>5, <1>6, <1>7

LEMMA RemoveModelKeeps == ASSUME GroupsInv, NEW m \in Models, G!RemoveModel(m) PROVE GroupsInv'
<1>1. model' = [model EXCEPT ![m] = G!NoModel] /\ UNCHANGED <<group, member, edit, cut, back>>
  BY DEF G!RemoveModel
<1>2. model' = [n \in Models |-> IF n = m THEN G!NoModel ELSE model[n]]
  BY <1>1 DEF GroupsInv, GroupsTyped
<1>3. model' \in [Models -> ModelRecords \union {G!NoModel}]
  BY <1>2 DEF GroupsInv, GroupsTyped
<1>4. G!Naming({}) BY <1>1 DEF G!Naming
<1>5. \A g \in Groups : /\ \A v \in Members : member'[v] = g => member[v] = g
                        /\ \A n \in Models : NamesIn(model', n, g) => NamesIn(model, n, g)
  BY <1>1, <1>2 DEF NamesIn
<1>6. NewUnnamed' /\ GoneUnnamed' /\ OthersUndisturbed(Edits) /\ back' \subseteq Groups
  BY <1>1, <1>4, <1>5, NamingKeeps
<1>7. RecordsTyped BY <1>1, <1>3 DEF RecordsTyped, GroupsInv, GroupsTyped
<1>8. OneWillBeCleared' BY <1>1 DEF GroupsInv, OneWillBeCleared, WillClear
<1>9. edit' = [p \in Edits |-> edit'[p]] /\ \A p \in Edits : edit'[p] = edit[p]
  BY <1>1 DEF GroupsInv, GroupsTyped
<1> QED BY <1>6, <1>7, <1>8, <1>9, GroupsAssemble

LEMMA GroupsFailKeeps == ASSUME GroupsInv, NEW p \in Edits, G!Fail(p) PROVE GroupsInv'
<1>1. G!Go(p, G!Idle) /\ cut' = TRUE /\ UNCHANGED <<group, member, model, back>> BY DEF G!Fail
<1>2. RecordsTyped BY <1>1 DEF RecordsTyped, GroupsInv, GroupsTyped
<1>3. OthersUndisturbed(Edits \ {p}) BY <1>1 DEF OthersUndisturbed
<1>4. NewUnnamed' /\ GoneUnnamed' BY <1>1 DEF GroupsInv, NewUnnamed, GoneUnnamed, NamesIn
<1>5. OneWillBeCleared' BY <1>1 DEF OneWillBeCleared
<1> QED BY <1>1, <1>2, <1>3, <1>4, <1>5, IdleIsFine, GroupsOneMoves

LEMMA GroupsInit == ASSUME G!Init PROVE GroupsInv
<1>1. GroupsTyped BY DEF G!Init, GroupsTyped, GroupStates
<1>2. \A u \in Members : member[u] = G!Absent BY DEF G!Init
<1>3. \A m \in Models : model[m] = G!NoModel BY DEF G!Init
<1>4. \A g \in Groups : group[g] = "new" BY DEF G!Init
<1>5. NewUnnamed /\ GoneUnnamed
  BY <1>2, <1>3, AdminAssumption DEF NewUnnamed, GoneUnnamed, NamesIn
<1>6. \A p \in Edits : edit[p] = G!Idle BY DEF G!Init
<1>7. EditsOK BY <1>6, IdleIsFine DEF EditsOK
<1>8. OneWillBeCleared BY <1>4 DEF OneWillBeCleared
<1> QED BY <1>1, <1>5, <1>7, <1>8 DEF GroupsInv

LEMMA GroupsNext == ASSUME GroupsInv, G!Next PROVE GroupsInv'
<1>1. ASSUME NEW p \in Edits, NEW g \in Groups,
             \/ \E d \in BOOLEAN : G!CreateGroup(p, g, d) \/ G!UpdateGroup(p, g, d)
             \/ G!DeleteGroup(p, g)
      PROVE  GroupsInv'
  BY <1>1, WriteGroupKeeps, DeleteGroupKeeps
<1>2. ASSUME NEW p \in Edits,
             \/ G!ScanDefaults(p) \/ G!ClearDefault(p) \/ G!ClearDone(p)
             \/ G!ReadPage(p) \/ G!ClearMember(p) \/ G!UsersDone(p)
             \/ G!ReadModels(p) \/ G!DropFromModel(p) \/ G!ModelsDone(p)
             \/ G!RemoveGroup(p) \/ G!DeleteDone(p)
      PROVE  GroupsInv'
  BY <1>2, ScanDefaultsKeeps, ClearDefaultKeeps, ClearDoneKeeps, ReadPageKeeps, ClearMemberKeeps,
     UsersDoneKeeps, ReadModelsKeeps, DropFromModelKeeps, ModelsDoneKeeps, RemoveGroupKeeps,
     DeleteDoneKeeps
<1>3. ASSUME NEW p \in Edits, NEW u \in Members,
             G!CreateUser(p, u) \/ \E g \in Groups \union {G!NoGroup} : G!SetGroup(p, u, g)
      PROVE  GroupsInv'
  BY <1>3, CreateUserKeeps, SetGroupKeeps DEF GroupIds
<1>4. ASSUME NEW p \in Edits,
             \/ G!Join(p) \/ G!PutUser(p) \/ G!WriteModel(p) \/ G!Fail(p)
             \/ \E m \in Models, n \in Names, gs \in SUBSET Groups : G!SaveModel(p, m, n, gs)
      PROVE  GroupsInv'
  BY <1>4, JoinKeeps, PutUserKeeps, WriteModelKeeps, GroupsFailKeeps, SaveModelKeeps
<1> QED BY <1>1, <1>2, <1>3, <1>4, RemoveModelKeeps, Zenon DEF G!Next

LEMMA GroupsSafe == GroupsInv => G!Consistent /\ G!TypeOK
<1> SUFFICES ASSUME GroupsInv PROVE G!Consistent /\ G!TypeOK OBVIOUS
<1>1. G!OneDefault
  <2>1. SUFFICES ASSUME ~cut, \A p \in Edits : edit[p].op \notin {"scan", "clear"}
                 PROVE  G!Cardinality({g \in Groups : group[g] = "default"}) <= 1
    BY DEF G!OneDefault
  <2>2. PICK D : D = {g \in Groups : group[g] = "default"} OBVIOUS
  <2>3. \A g, h \in D : g = h
    BY <2>1, <2>2 DEF GroupsInv, GroupsTyped, OneWillBeCleared, WillClear
  <2>4. Cardinality(D) <= 1
    <3>1. CASE D = {} BY <3>1, FS_EmptySet
    <3>2. CASE D # {}
      <4>1. PICK g : g \in D BY <3>2
      <4>2. D = {g} BY <2>3, <4>1
      <4> QED BY <4>2, FS_Singleton
    <3> QED BY <3>1, <3>2
  <2>5. G!Cardinality(D) = Cardinality(D) BY Zenon DEF G!Cardinality, Cardinality
  <2> QED BY <2>2, <2>4, <2>5
<1>2. G!NoDangling
  <2>1. \A g \in Groups \ back, u \in Members : group[g] = "gone" => member[u] # g
    BY DEF GroupsInv, GoneUnnamed
  <2>2. ASSUME back = {}, NEW m \in Models, model[m] # G!NoModel
        PROVE  G!VisibleTo(m, G!NoGroup) \/ \E g \in Groups : G!Exists(g) /\ G!VisibleTo(m, g)
    <3>1. model[m] \in ModelRecords BY <2>2 DEF GroupsInv, GroupsTyped
    <3>2. CASE model[m].groups = {} BY <3>2 DEF G!VisibleTo
    <3>3. CASE model[m].groups # {}
      <4>1. PICK g : g \in model[m].groups BY <3>3
      <4>2. g \in Groups /\ NamesIn(model, m, g) BY <2>2, <3>1, <4>1 DEF NamesIn, ModelRecords
      <4>3. group[g] # "new" /\ group[g] # "gone"
        BY <2>2, <4>2 DEF GroupsInv, NewUnnamed, GoneUnnamed
      <4>4. G!Exists(g) BY <4>2, <4>3 DEF GroupsInv, GroupsTyped, GroupStates, G!Exists
      <4> QED BY <4>1, <4>2, <4>4 DEF G!VisibleTo
    <3> QED BY <3>2, <3>3
  <2> QED BY <2>1, <2>2 DEF G!NoDangling
<1>3. G!TypeOK
  BY DEF GroupsInv, GroupsTyped, GroupStates, GroupIds, ModelRecords, NewUnnamed, NamesIn, G!TypeOK
<1> QED BY <1>1, <1>2, <1>3 DEF G!Consistent

-----------------------------------------------------------------------------
(* The table of tokens: rows and their order.                              *)

LEMMA LeastNumber ==
    ASSUME NEW D, D \subseteq Nat, D # {}
    PROVE  \E k \in D : \A j \in D : k <= j
<1>1. PICK k \in D : \A j \in D : <<j, k>> \notin OpToRel(<, Nat)
  BY NatLessThanWellFounded, WFMin
<1>2. \A j \in D : ~(j < k)
  <2>1. TAKE j \in D
  <2>2. SUFFICES ASSUME j < k PROVE FALSE  OBVIOUS
  <2>3. <<j, k>> \in Nat \X Nat  OBVIOUS
  <2>4. <<j, k>> \in OpToRel(<, Nat)  BY <2>2, <2>3 DEF OpToRel
  <2>5. QED  BY <1>1, <2>4
<1>3. QED  BY <1>2

\* The model counts with the Cardinality of its own instance.
LEMMA CountsTheSame == \A S : T!Cardinality(S) = Cardinality(S)
BY Zenon DEF T!Cardinality, Cardinality

Cursors == [t : Int, u : Nat]
AtOrBefore(r, s) == r = s \/ T!Precedes(r, s)
LEMMA RowsOrdered ==
    ASSUME NEW r \in Cursors, NEW s \in Cursors, NEW q \in Cursors
    PROVE  /\ ~T!Precedes(r, r)
           /\ T!Precedes(r, s) => ~T!Precedes(s, r) /\ r # s
           /\ T!Precedes(r, s) /\ T!Precedes(s, q) => T!Precedes(r, q)
           /\ r = s \/ T!Precedes(r, s) \/ T!Precedes(s, r)
<1>1. r.t = s.t /\ r.u = s.u => r = s BY DEF Cursors
<1> QED BY <1>1 DEF T!Precedes, Cursors

\* How many rows of a set come before one of its rows.
RowsBefore(S, r) == {s \in S : T!Precedes(s, r)}
Rank(S, r) == Cardinality(RowsBefore(S, r))
LEMMA RankFacts ==
    ASSUME NEW S, S \subseteq Cursors, IsFiniteSet(S), NEW r \in S
    PROVE  /\ IsFiniteSet(RowsBefore(S, r)) /\ Rank(S, r) \in Nat /\ Cardinality(S) \in Nat
           /\ Rank(S, r) < Cardinality(S)
           /\ \A s \in S : T!Precedes(s, r) => Rank(S, s) < Rank(S, r)
<1>1. ASSUME NEW A, IsFiniteSet(A), NEW x \in S, RowsBefore(S, x) \union {x} \subseteq A
      PROVE  /\ IsFiniteSet(RowsBefore(S, x)) /\ Rank(S, x) \in Nat /\ Cardinality(A) \in Nat
             /\ Rank(S, x) < Cardinality(A)
  <2>1. IsFiniteSet(RowsBefore(S, x) \union {x}) /\ IsFiniteSet(RowsBefore(S, x)) BY <1>1, FS_Subset
  <2>2. x \notin RowsBefore(S, x) BY RowsOrdered DEF RowsBefore
  <2>3. /\ IsFiniteSet(RowsBefore(S, x) \union {x})
        /\ Cardinality(RowsBefore(S, x) \union {x}) =
             IF x \in RowsBefore(S, x) THEN Cardinality(RowsBefore(S, x)) ELSE Cardinality(RowsBefore(S, x)) + 1
    BY <2>1, FS_AddElement, Zenon
  <2>4. Cardinality(RowsBefore(S, x) \union {x}) <= Cardinality(A) BY <1>1, FS_Subset
  <2>5. Cardinality(RowsBefore(S, x)) \in Nat /\ Cardinality(A) \in Nat BY <1>1, <2>1, FS_CardinalityType
  <2> QED BY <2>1, <2>2, <2>3, <2>4, <2>5 DEF Rank
<1>2. RowsBefore(S, r) \union {r} \subseteq S BY DEF RowsBefore
<1>3. /\ IsFiniteSet(RowsBefore(S, r)) /\ Rank(S, r) \in Nat /\ Cardinality(S) \in Nat
      /\ Rank(S, r) < Cardinality(S)
  BY <1>1, <1>2
<1>4. ASSUME NEW s \in S, T!Precedes(s, r) PROVE Rank(S, s) < Rank(S, r)
  <2>1. RowsBefore(S, s) \union {s} \subseteq RowsBefore(S, r)
    <3>1. ASSUME NEW x \in S, T!Precedes(x, s) PROVE T!Precedes(x, r) BY <1>4, <3>1, RowsOrdered
    <3> QED BY <1>4, <3>1 DEF RowsBefore
  <2>2. Rank(S, s) < Cardinality(RowsBefore(S, r)) BY <1>1, <1>3, <2>1
  <2> QED BY <2>2 DEF Rank
<1> QED BY <1>3, <1>4

LEMMA LeastRow ==
    ASSUME NEW D, D \subseteq Cursors, IsFiniteSet(D), D # {}
    PROVE  \E r \in D : \A s \in D : AtOrBefore(r, s)
<1>1. PICK N : N = {Rank(D, r) : r \in D} OBVIOUS
<1>2. N \subseteq Nat /\ N # {} BY <1>1, RankFacts
<1>3. PICK k \in N : \A j \in N : k <= j BY <1>2, LeastNumber
<1>4. PICK r \in D : k = Rank(D, r) BY <1>1
<1>5. ASSUME NEW s \in D PROVE AtOrBefore(r, s)
  <2>1. Rank(D, s) \in Nat /\ Rank(D, r) \in Nat /\ Rank(D, r) <= Rank(D, s) BY <1>1, <1>3, <1>4, RankFacts
  <2>2. ~T!Precedes(s, r) BY <2>1, RankFacts
  <2> QED BY <2>2, RowsOrdered DEF AtOrBefore
<1> QED BY <1>5

LEMMA LastRow ==
    ASSUME NEW D, D \subseteq Cursors, IsFiniteSet(D), D # {}
    PROVE  T!Last(D) \in D /\ \A s \in D : AtOrBefore(s, T!Last(D))
<1>1. PICK c : c = Cardinality(D) OBVIOUS
<1>2. PICK N : N = {c - Rank(D, r) : r \in D} OBVIOUS
<1>3. \A r \in D : Rank(D, r) \in Nat /\ c \in Nat /\ Rank(D, r) < c BY <1>1, RankFacts
<1>4. N \subseteq Nat /\ N # {} BY <1>2, <1>3
<1>5. PICK k \in N : \A j \in N : k <= j BY <1>4, LeastNumber
<1>6. PICK r \in D : k = c - Rank(D, r) BY <1>2
<1>7. ASSUME NEW s \in D PROVE s = r \/ T!Precedes(s, r)
  <2>1. Rank(D, s) <= Rank(D, r)
    <3>1. c - Rank(D, s) \in N BY <1>2
    <3>2. k <= c - Rank(D, s) BY <1>5, <3>1
    <3> QED BY <1>3, <1>6, <3>2
  <2>2. Rank(D, s) \in Nat /\ Rank(D, r) \in Nat BY <1>3
  <2>3. ~T!Precedes(r, s) BY <2>1, <2>2, RankFacts
  <2> QED BY <2>3, RowsOrdered
<1>8. \E x \in D : \A s \in D : s = x \/ T!Precedes(s, x) BY <1>7
<1>9. T!Last(D) \in D /\ \A s \in D : s = T!Last(D) \/ T!Precedes(s, T!Last(D)) BY <1>8, Zenon DEF T!Last
<1> QED BY <1>9 DEF AtOrBefore

\* Every rank below the number of rows is taken, by its least counterexample.
LEMMA NextRank ==
    ASSUME NEW S, S \subseteq Cursors, IsFiniteSet(S), NEW r \in S, Rank(S, r) + 1 < Cardinality(S)
    PROVE  \E q \in S : Rank(S, q) = Rank(S, r) + 1
<1>1. PICK B : B = RowsBefore(S, r) OBVIOUS
<1>2. IsFiniteSet(B) /\ r \notin B /\ Cardinality(B) = Rank(S, r) BY <1>1, RankFacts, RowsOrdered DEF RowsBefore, Rank
<1>3. Cardinality(B \union {r}) = Rank(S, r) + 1
  <2>1. /\ IsFiniteSet(B \union {r})
        /\ Cardinality(B \union {r}) = IF r \in B THEN Cardinality(B) ELSE Cardinality(B) + 1
    BY <1>2, FS_AddElement, Zenon
  <2> QED BY <1>2, <2>1
<1>4. PICK D : D = {s \in S : T!Precedes(r, s)} OBVIOUS
<1>5. D \subseteq Cursors /\ IsFiniteSet(D) BY <1>4, FS_Subset
<1>6. \A s \in S : s \in D \/ s \in B \union {r} BY <1>1, <1>4, RowsOrdered DEF RowsBefore
<1>7. D # {}
  <2> SUFFICES ASSUME D = {} PROVE FALSE OBVIOUS
  <2>1. S = B \union {r} BY <1>1, <1>6 DEF RowsBefore
  <2> QED BY <1>3, <2>1, RankFacts
<1>8. PICK q \in D : \A s \in D : AtOrBefore(q, s) BY <1>5, <1>7, LeastRow
<1>9. RowsBefore(S, q) = B \union {r}
  <2>1. q \in S /\ T!Precedes(r, q) BY <1>4
  <2>2. ASSUME NEW s \in B \union {r} PROVE s \in S /\ T!Precedes(s, q)
    <3>1. s \in S /\ (s = r \/ T!Precedes(s, r)) BY <1>1 DEF RowsBefore
    <3> QED BY <2>1, <3>1, RowsOrdered
  <2>3. ASSUME NEW s \in S, T!Precedes(s, q) PROVE s \in B \union {r}
    <3>1. s \notin D BY <1>4, <1>8, <2>1, <2>3, RowsOrdered DEF AtOrBefore
    <3> QED BY <1>6, <3>1
  <2> QED BY <2>2, <2>3 DEF RowsBefore
<1> QED BY <1>3, <1>4, <1>9 DEF Rank

LEMMA RowAtRank ==
    ASSUME NEW S, S \subseteq Cursors, IsFiniteSet(S), NEW m \in Nat, m < Cardinality(S)
    PROVE  \E r \in S : Rank(S, r) = m
<1> SUFFICES ASSUME ~\E r \in S : Rank(S, r) = m PROVE FALSE OBVIOUS
<1>1. Cardinality(S) \in Nat BY FS_CardinalityType
<1>2. PICK D : D = {n \in Nat : n < Cardinality(S) /\ ~\E r \in S : Rank(S, r) = n} OBVIOUS
<1>3. D # {} /\ D \subseteq Nat BY <1>2
<1>4. PICK n \in D : \A k \in D : n <= k BY <1>3, LeastNumber
<1>5. n \in Nat /\ n < Cardinality(S) /\ ~\E r \in S : Rank(S, r) = n BY <1>2
<1>6. CASE n = 0
  <2>1. S # {}
    <3> SUFFICES ASSUME S = {} PROVE FALSE OBVIOUS
    <3>1. Cardinality(S) = 0 BY FS_EmptySet, Zenon
    <3> QED BY <1>1, <1>5, <3>1
  <2>2. PICK r \in S : \A s \in S : AtOrBefore(r, s) BY <2>1, LeastRow
  <2>3. RowsBefore(S, r) = {} BY <2>2, RowsOrdered DEF RowsBefore, AtOrBefore
  <2>4. Rank(S, r) = 0 BY <2>3, FS_EmptySet DEF Rank
  <2> QED BY <1>5, <1>6, <2>4
<1>7. CASE n # 0
  <2>1. PICK k : k = n - 1 OBVIOUS
  <2>2. k \in Nat /\ k + 1 = n /\ k < Cardinality(S) /\ ~(n <= k) BY <1>1, <1>5, <1>7, <2>1
  <2>3. k \notin D BY <1>4, <2>2
  <2>4. PICK r \in S : Rank(S, r) = k BY <1>2, <2>2, <2>3
  <2>5. \E q \in S : Rank(S, q) = n BY <1>5, <2>2, <2>4, NextRank
  <2> QED BY <1>5, <2>5
<1> QED BY <1>6, <1>7

\* The first n rows: all that there are, or n of them, before the others.
LEMMA FirstRows ==
    ASSUME NEW S, S \subseteq Cursors, IsFiniteSet(S), NEW n \in Nat
    PROVE  /\ T!First(n, S) \subseteq S /\ IsFiniteSet(T!First(n, S)) /\ Cardinality(T!First(n, S)) \in Nat
           /\ \A r \in T!First(n, S), s \in S \ T!First(n, S) : T!Precedes(r, s)
           /\ Cardinality(S) <= n => T!First(n, S) = S
           /\ Cardinality(S) >= n => Cardinality(T!First(n, S)) = n
<1>1. T!First(n, S) = {r \in S : Rank(S, r) < n}
  BY Zenon DEF T!First, Rank, RowsBefore, T!Cardinality, Cardinality
<1>2. T!First(n, S) \subseteq S BY <1>1
<1>3. IsFiniteSet(T!First(n, S)) /\ Cardinality(T!First(n, S)) \in Nat BY <1>2, FS_Subset, FS_CardinalityType
<1>4. Cardinality(S) \in Nat /\ \A r \in S : Rank(S, r) \in Nat /\ Rank(S, r) < Cardinality(S)
  BY RankFacts, FS_CardinalityType
<1>5. ASSUME NEW r \in T!First(n, S), NEW s \in S \ T!First(n, S) PROVE T!Precedes(r, s)
  <2>1. r \in S /\ Rank(S, r) < n /\ ~(Rank(S, s) < n) BY <1>1
  <2>2. ~(Rank(S, s) < Rank(S, r)) /\ r # s BY <1>4, <2>1
  <2>3. ~T!Precedes(s, r) BY <2>1, <2>2, RankFacts
  <2> QED BY <2>1, <2>2, <2>3, RowsOrdered
<1>6. Cardinality(S) <= n => T!First(n, S) = S BY <1>1, <1>4
<1>7. ASSUME Cardinality(S) >= n PROVE Cardinality(T!First(n, S)) = n
  <2>1. CASE Cardinality(S) = n BY <1>6, <2>1
  <2>2. CASE Cardinality(S) > n
    <3>1. PICK r \in S : Rank(S, r) = n BY <1>4, <2>2, RowAtRank
    <3>2. ASSUME NEW s \in S PROVE Rank(S, s) < n <=> T!Precedes(s, r)
      <4>1. T!Precedes(s, r) => Rank(S, s) < n BY <3>1, RankFacts
      <4>2. T!Precedes(r, s) => n < Rank(S, s) BY <3>1, RankFacts
      <4>3. s = r \/ T!Precedes(s, r) \/ T!Precedes(r, s) BY RowsOrdered
      <4> QED BY <1>4, <3>1, <4>1, <4>2, <4>3
    <3>3. T!First(n, S) = RowsBefore(S, r) BY <1>1, <3>2 DEF RowsBefore
    <3> QED BY <3>1, <3>3 DEF Rank
  <2> QED BY <1>4, <1>7, <2>1, <2>2
<1> QED BY <1>2, <1>3, <1>5, <1>6, <1>7

-----------------------------------------------------------------------------
(* The table of tokens: what the pages given so far are.                   *)

TableRows == [t : T!None .. MaxSum, u : People]
Spots == TableRows \union {T!Start, T!NotUsed(0)}
Readings == [st : {"top", "probe", "filter"}, at : Spots, out : SUBSET TableRows, probes : Nat,
             names : SUBSET TableRows, sum : Nat]
PagerStates == [st : {"idle"}] \union [st : {"next"}, at : TableRows] \union [st : {"done"}, sum : Nat]
    \union Readings
TableTypes ==
    /\ window \in [People -> T!None .. MaxSum] /\ accounts \subseteq People /\ still \subseteq People
    /\ listed \in [People -> Nat] /\ shown \in Nat

LEMMA RowsFinite ==
    /\ TableRows \subseteq Cursors /\ IsFiniteSet(TableRows) /\ Spots \subseteq Cursors
    /\ \A S \in SUBSET TableRows : S \subseteq Cursors /\ IsFiniteSet(S) /\ Cardinality(S) \in Nat
<1>1. TableRows \subseteq Cursors
  <2> SUFFICES ASSUME NEW r \in TableRows PROVE r \in Cursors OBVIOUS
  <2>1. r = [t |-> r.t, u |-> r.u] /\ r.t \in T!None .. MaxSum /\ r.u \in People BY DEF TableRows
  <2>2. r.t \in Int /\ r.u \in Nat BY <2>1, AdminAssumption DEF T!None
  <2> QED BY <2>1, <2>2 DEF Cursors
<1>2. T!Start \in Cursors /\ T!NotUsed(0) \in Cursors BY AdminAssumption DEF T!Start, T!NotUsed, T!None, Cursors
<1>3. IsFiniteSet(TableRows)
  <2>1. PICK P : P = (T!None .. MaxSum) \X People OBVIOUS
  <2>2. T!None \in Int /\ MaxSum \in Int BY AdminAssumption DEF T!None
  <2>3. IsFiniteSet(T!None .. MaxSum) BY <2>2, FS_Interval
  <2>4. IsFiniteSet(P) BY <2>1, <2>3, FS_Product, AdminAssumption
  <2>5. PICK f : f = [p \in P |-> [t |-> p[1], u |-> p[2]]] OBVIOUS
  <2>6. TableRows \subseteq {f[p] : p \in P}
    <3> SUFFICES ASSUME NEW r \in TableRows PROVE \E p \in P : r = f[p] OBVIOUS
    <3>1. <<r.t, r.u>> \in P /\ r = [t |-> r.t, u |-> r.u] BY <2>1 DEF TableRows
    <3>2. f[<<r.t, r.u>>] = [t |-> r.t, u |-> r.u] BY <2>5, <3>1
    <3> QED BY <3>1, <3>2
  <2>7. IsFiniteSet({f[p] : p \in P})
    <3>1. f \in [P -> {f[p] : p \in P}] BY <2>5
    <3>2. \A y \in {f[p] : p \in P} : \E x \in P : f[x] = y OBVIOUS
    <3>3. f \in Surjection(P, {f[p] : p \in P}) BY <3>1, <3>2 DEF Surjection
    <3> QED BY <2>4, <3>3, FS_Surjection
  <2> QED BY <2>6, <2>7, FS_Subset
<1> QED BY <1>1, <1>2, <1>3, FS_Subset, FS_CardinalityType DEF Spots

LEMMA RowNow ==
    ASSUME TableTypes, NEW v \in People
    PROVE  T!Row(v) \in TableRows /\ T!Row(v).u = v /\ T!Row(v).t = window[v] /\ (T!HasRows(v) <=> window[v] # T!None)
BY DEF TableTypes, T!Row, TableRows, T!HasRows

\* Tokens of disjoint rows add up.
TokensOf(S) == UNION {{r} \X (1 .. r.t) : r \in S}
LEMMA TokensAdd ==
    ASSUME NEW A \in SUBSET TableRows, NEW B \in SUBSET TableRows, A \intersect B = {}
    PROVE  T!Tokens(A) \in Nat /\ T!Tokens(B) \in Nat /\ T!Tokens(A \union B) = T!Tokens(A) + T!Tokens(B)
<1>1. \A S : T!Tokens(S) = Cardinality(TokensOf(S)) BY CountsTheSame, Zenon DEF T!Tokens, TokensOf
<1>2. ASSUME NEW S \in SUBSET TableRows PROVE IsFiniteSet(TokensOf(S)) /\ T!Tokens(S) \in Nat
  <2>1. TokensOf(S) \subseteq TableRows \X (1 .. MaxSum)
    <3> SUFFICES ASSUME NEW r \in S, NEW i \in 1 .. r.t PROVE r \in TableRows /\ i \in 1 .. MaxSum
      BY DEF TokensOf
    <3>1. r.t \in T!None .. MaxSum /\ MaxSum \in Nat BY AdminAssumption DEF TableRows
    <3> QED BY <3>1 DEF T!None
  <2>2. IsFiniteSet(TableRows \X (1 .. MaxSum))
    <3>1. IsFiniteSet(1 .. MaxSum) BY FS_Interval, AdminAssumption
    <3> QED BY <3>1, RowsFinite, FS_Product
  <2> QED BY <1>1, <2>1, <2>2, FS_Subset, FS_CardinalityType
<1>3. TokensOf(A \union B) = TokensOf(A) \union TokensOf(B) BY DEF TokensOf
<1>4. TokensOf(A) \intersect TokensOf(B) = {}
  <2> SUFFICES ASSUME NEW x \in TokensOf(A), x \in TokensOf(B) PROVE FALSE OBVIOUS
  <2>1. PICK r \in A : x \in {r} \X (1 .. r.t) BY DEF TokensOf
  <2>2. PICK s \in B : x \in {s} \X (1 .. s.t) BY DEF TokensOf
  <2>3. x[1] = r /\ x[1] = s BY <2>1, <2>2
  <2> QED BY <2>3
<1>5. Cardinality(TokensOf(A) \union TokensOf(B)) =
        Cardinality(TokensOf(A)) + Cardinality(TokensOf(B)) - Cardinality(TokensOf(A) \intersect TokensOf(B))
  BY <1>2, FS_Union
<1>6. Cardinality(TokensOf(A) \intersect TokensOf(B)) = 0 BY <1>4, FS_EmptySet, Zenon
<1>7. T!Tokens(A) = Cardinality(TokensOf(A)) /\ T!Tokens(B) = Cardinality(TokensOf(B)) BY <1>1
<1>8. T!Tokens(A \union B) = Cardinality(TokensOf(A) \union TokensOf(B)) BY <1>1, <1>3
<1>9. T!Tokens(A) \in Nat /\ T!Tokens(B) \in Nat BY <1>2
<1> QED BY <1>5, <1>6, <1>7, <1>8, <1>9

\* Of those whom nothing has happened to since the first page: who is in the
\* pages given so far or in the part out of the next one, which has been read up
\* to the cursor at.
Shows(v) == T!HasRows(v) \/ v \in accounts
Progress(out, at) ==
    /\ \A v \in still : listed[v] \in {0, 1}
    /\ \A v \in still : listed[v] = 1 \/ T!Row(v) \in out <=> Shows(v) /\ AtOrBefore(T!Row(v), at)
    /\ \A v \in still, r \in out : listed[v] = 1 => T!Precedes(T!Row(v), r)
    /\ \A r \in out : AtOrBefore(r, at) /\ (r.u \in still => r = T!Row(r.u))
ListedRows == {T!Row(v) : v \in {w \in People : listed[w] = 1}}
SumSoFar == still = People => shown = T!Tokens(ListedRows)

LEMMA SinglePerson ==
    ASSUME TableTypes, NEW out \in SUBSET TableRows, NEW at, Progress(out, at), NEW rows \in SUBSET out,
           NEW v \in still
    PROVE  /\ Cardinality({r \in rows : r.u = v}) = IF T!Row(v) \in rows THEN 1 ELSE 0
           /\ T!Row(v) \in rows => listed[v] = 0
<1>1. v \in People /\ T!Row(v).u = v /\ T!Row(v) \in TableRows BY RowNow DEF TableTypes
<1>2. \A r \in rows : r.u = v => r = T!Row(v) BY DEF Progress
<1>3. CASE T!Row(v) \in rows
  <2>1. {r \in rows : r.u = v} = {T!Row(v)} BY <1>1, <1>2, <1>3
  <2>2. Cardinality({r \in rows : r.u = v}) = 1 BY <2>1, FS_Singleton, Zenon
  <2>3. listed[v] # 1
    <3> SUFFICES ASSUME listed[v] = 1 PROVE FALSE OBVIOUS
    <3>1. T!Precedes(T!Row(v), T!Row(v)) BY <1>3 DEF Progress
    <3> QED BY <1>1, <3>1, RowsOrdered, RowsFinite
  <2>4. listed[v] \in {0, 1} BY DEF Progress
  <2> QED BY <1>3, <2>2, <2>3, <2>4
<1>4. CASE T!Row(v) \notin rows
  <2>1. {r \in rows : r.u = v} = {} BY <1>2, <1>4
  <2>2. Cardinality({r \in rows : r.u = v}) = 0 BY <2>1, FS_EmptySet, Zenon
  <2> QED BY <1>4, <2>2
<1> QED BY <1>3, <1>4

LEMMA GiveFacts ==
    ASSUME TableTypes, NEW out \in SUBSET TableRows, NEW at, Progress(out, at), NEW rows \in SUBSET out,
           T!Give(rows), UNCHANGED <<window, accounts, still>>
    PROVE  /\ TableTypes'
           /\ \A v \in still : listed'[v] = IF T!Row(v) \in rows THEN 1 ELSE listed[v]
           /\ \A v \in still : T!Row(v)' = T!Row(v) /\ (Shows(v)' <=> Shows(v))
           /\ SumSoFar => SumSoFar'
<1>1. listed' = [v \in People |-> listed[v] + Cardinality({r \in rows : r.u = v})] /\ shown' = shown + T!Tokens(rows)
  BY Zenon DEF T!Give, T!Cardinality, Cardinality
<1>2. listed \in [People -> Nat] /\ shown \in Nat /\ still \subseteq People BY DEF TableTypes
<1>3. \A v \in People : Cardinality({r \in rows : r.u = v}) \in Nat BY RowsFinite
<1>4. rows \in SUBSET TableRows OBVIOUS
<1>5. T!Tokens(rows) \in Nat
  <2>1. {} \in SUBSET TableRows /\ rows \intersect {} = {} OBVIOUS
  <2> QED BY <1>4, <2>1, TokensAdd
<1>6. listed' \in [People -> Nat] /\ shown' \in Nat BY <1>1, <1>2, <1>3, <1>5
<1>7. TableTypes' BY <1>6 DEF TableTypes
<1>8. ASSUME NEW v \in still PROVE listed'[v] = IF T!Row(v) \in rows THEN 1 ELSE listed[v]
  <2>1. listed'[v] = listed[v] + Cardinality({r \in rows : r.u = v}) /\ listed[v] \in Nat BY <1>1, <1>2
  <2>2. /\ Cardinality({r \in rows : r.u = v}) = IF T!Row(v) \in rows THEN 1 ELSE 0
        /\ T!Row(v) \in rows => listed[v] = 0
    BY SinglePerson
  <2>3. CASE T!Row(v) \in rows
    <3>1. Cardinality({r \in rows : r.u = v}) = 1 /\ listed[v] = 0 BY <2>2, <2>3
    <3> QED BY <2>1, <2>3, <3>1
  <2>4. CASE T!Row(v) \notin rows
    <3>1. Cardinality({r \in rows : r.u = v}) = 0 BY <2>2, <2>4
    <3> QED BY <2>1, <2>4, <3>1
  <2> QED BY <2>3, <2>4
<1>9. ASSUME NEW v \in still PROVE T!Row(v)' = T!Row(v) /\ (Shows(v)' <=> Shows(v)) BY DEF T!Row, Shows, T!HasRows
<1>10. ASSUME SumSoFar, still = People PROVE shown' = T!Tokens(ListedRows)'
  <2>1. ASSUME NEW v \in People PROVE listed'[v] = 1 <=> listed[v] = 1 \/ T!Row(v) \in rows BY <1>8, <1>10
  <2>2. ASSUME NEW v \in People PROVE T!Row(v)' = T!Row(v) BY <1>9, <1>10
  <2>3. \A r \in rows : r.u \in People /\ r = T!Row(r.u) BY <1>10 DEF Progress, TableRows
  <2>4. ListedRows' = ListedRows \union rows
    <3>1. ASSUME NEW x \in ListedRows' PROVE x \in ListedRows \union rows
      <4>1. PICK v \in People : listed'[v] = 1 /\ x = T!Row(v)' BY DEF ListedRows
      <4> QED BY <2>1, <2>2, <4>1 DEF ListedRows
    <3>2. ASSUME NEW x \in ListedRows PROVE x \in ListedRows'
      <4>1. PICK v \in People : listed[v] = 1 /\ x = T!Row(v) BY DEF ListedRows
      <4>2. listed'[v] = 1 /\ x = T!Row(v)' BY <2>1, <2>2, <4>1
      <4> QED BY <4>2 DEF ListedRows
    <3>3. ASSUME NEW x \in rows PROVE x \in ListedRows'
      <4>1. x.u \in People /\ listed'[x.u] = 1 /\ x = T!Row(x.u)' BY <2>1, <2>2, <2>3
      <4> QED BY <4>1 DEF ListedRows
    <3> QED BY <3>1, <3>2, <3>3
  <2>5. ListedRows \in SUBSET TableRows BY RowNow DEF ListedRows
  <2>6. ListedRows \intersect rows = {}
    <3> SUFFICES ASSUME NEW x \in ListedRows, x \in rows PROVE FALSE OBVIOUS
    <3>1. PICK v \in People : listed[v] = 1 /\ x = T!Row(v) BY DEF ListedRows
    <3>2. listed[v] = 0 BY <1>10, <3>1, SinglePerson
    <3> QED BY <3>1, <3>2
  <2>7. T!Tokens(ListedRows \union rows) = T!Tokens(ListedRows) + T!Tokens(rows) BY <1>4, <2>5, <2>6, TokensAdd
  <2>8. shown = T!Tokens(ListedRows) BY <1>10 DEF SumSoFar
  <2>9. T!Tokens(ListedRows)' = T!Tokens(ListedRows \union rows) BY <2>4 DEF T!Tokens
  <2> QED BY <1>1, <2>7, <2>8, <2>9
<1>11. SumSoFar => SumSoFar' BY <1>10 DEF SumSoFar
<1> QED BY <1>7, <1>8, <1>9, <1>11

LEMMA AtOrBeforeFacts ==
    ASSUME NEW r \in Cursors, NEW s \in Cursors, NEW q \in Cursors
    PROVE  /\ AtOrBefore(r, s) /\ AtOrBefore(s, q) => AtOrBefore(r, q)
           /\ AtOrBefore(r, s) /\ T!Precedes(s, q) => T!Precedes(r, q)
           /\ T!Precedes(r, s) => ~AtOrBefore(s, r)
           /\ ~AtOrBefore(r, s) => T!Precedes(s, r)
BY RowsOrdered DEF AtOrBefore

\* A page with a row too many is given: the next one begins after its last row.
LEMMA PageMore ==
    ASSUME TableTypes, NEW out \in SUBSET TableRows, NEW at \in Cursors, Progress(out, at), T!Give(T!Page(out)),
           UNCHANGED <<window, accounts, still>>, Cardinality(out) > PageLimit
    PROVE  T!Last(T!Page(out)) \in TableRows /\ Progress({}, T!Last(T!Page(out)))'
<1>1. PICK page : page = T!Page(out) OBVIOUS
<1>2. /\ page \subseteq out /\ IsFiniteSet(page) /\ \A r \in page, s \in out \ page : T!Precedes(r, s)
      /\ Cardinality(page) = PageLimit
  <2>1. Cardinality(out) >= PageLimit /\ PageLimit \in Nat BY RowsFinite, AdminAssumption
  <2> QED BY <1>1, <2>1, FirstRows, RowsFinite DEF T!Page
<1>3. page # {}
  <2> SUFFICES ASSUME page = {} PROVE FALSE OBVIOUS
  <2>1. Cardinality(page) = 0 BY FS_EmptySet, Zenon
  <2> QED BY <1>2, <2>1, AdminAssumption
<1>4. PICK last : last = T!Last(page) OBVIOUS
<1>5. last \in page /\ \A s \in page : AtOrBefore(s, last) BY <1>2, <1>3, <1>4, LastRow, RowsFinite
<1>6. last \in TableRows /\ last \in Cursors /\ last \in out BY <1>2, <1>5, RowsFinite
<1>7. /\ \A v \in still : listed'[v] = IF T!Row(v) \in page THEN 1 ELSE listed[v]
      /\ \A v \in still : T!Row(v)' = T!Row(v) /\ (Shows(v)' <=> Shows(v))
  BY <1>1, <1>2, GiveFacts
<1>8. ASSUME NEW v \in still
      PROVE  listed'[v] \in {0, 1} /\ (listed'[v] = 1 <=> Shows(v) /\ AtOrBefore(T!Row(v), last))
  <2>1. listed[v] \in {0, 1} /\ (listed[v] = 1 \/ T!Row(v) \in out <=> Shows(v) /\ AtOrBefore(T!Row(v), at))
        /\ (listed[v] = 1 => T!Precedes(T!Row(v), last)) /\ AtOrBefore(last, at)
    BY <1>6 DEF Progress
  <2>2. T!Row(v) \in Cursors BY RowNow, RowsFinite DEF TableTypes
  <2>3. listed'[v] \in {0, 1} /\ (listed'[v] = 1 <=> listed[v] = 1 \/ T!Row(v) \in page) BY <1>7, <2>1
  <2>4. ASSUME listed[v] = 1 \/ T!Row(v) \in page PROVE Shows(v) /\ AtOrBefore(T!Row(v), last)
    BY <1>2, <1>5, <2>1, <2>4 DEF AtOrBefore
  <2>5. ASSUME Shows(v), AtOrBefore(T!Row(v), last) PROVE listed[v] = 1 \/ T!Row(v) \in page
    <3>1. AtOrBefore(T!Row(v), at) BY <1>6, <2>1, <2>2, <2>5, AtOrBeforeFacts
    <3>2. listed[v] = 1 \/ T!Row(v) \in out BY <2>1, <2>5, <3>1
    <3>3. T!Row(v) \in out \ page => T!Precedes(last, T!Row(v)) BY <1>2, <1>5
    <3>4. ~T!Precedes(last, T!Row(v)) BY <1>6, <2>2, <2>5, AtOrBeforeFacts
    <3> QED BY <3>2, <3>3, <3>4
  <2> QED BY <2>3, <2>4, <2>5
<1>9. Progress({}, last)' BY <1>7, <1>8 DEF Progress, AtOrBefore, T!Precedes
<1> QED BY <1>1, <1>4, <1>6, <1>9

\* A page is given whole.
LEMMA PageAll ==
    ASSUME TableTypes, NEW out \in SUBSET TableRows, NEW at \in Cursors, Progress(out, at), T!Give(T!Page(out)),
           UNCHANGED <<window, accounts, still>>, ~(Cardinality(out) > PageLimit)
    PROVE  Progress({}, at)'
<1>1. T!Page(out) = out
  <2>1. Cardinality(out) <= PageLimit /\ PageLimit \in Nat BY RowsFinite, AdminAssumption
  <2> QED BY <2>1, FirstRows, RowsFinite DEF T!Page
<1>2. /\ \A v \in still : listed'[v] = IF T!Row(v) \in out THEN 1 ELSE listed[v]
      /\ \A v \in still : T!Row(v)' = T!Row(v) /\ (Shows(v)' <=> Shows(v))
  BY <1>1, GiveFacts
<1>3. ASSUME NEW v \in still
      PROVE  listed'[v] \in {0, 1} /\ (listed'[v] = 1 <=> Shows(v) /\ AtOrBefore(T!Row(v), at))
  <2>1. listed[v] \in {0, 1} /\ (listed[v] = 1 \/ T!Row(v) \in out <=> Shows(v) /\ AtOrBefore(T!Row(v), at))
    BY DEF Progress
  <2> QED BY <1>2, <2>1
<1> QED BY <1>2, <1>3 DEF Progress, AtOrBefore, T!Precedes

LEMMA TopRow ==
    ASSUME TableTypes, NEW at, NEW r \in T!TopUsers(at)
    PROVE  /\ r \in TableRows /\ r = T!Row(r.u) /\ T!HasRows(r.u) /\ T!Precedes(at, r) /\ r.t >= 0
<1>1. PICK v \in People : T!HasRows(v) /\ T!After(at, v) /\ r = T!Row(v) BY DEF T!TopUsers
<1>2. r \in TableRows /\ r.u = v /\ r.t = window[v] /\ window[v] # T!None BY <1>1, RowNow
<1>3. window[v] \in T!None .. MaxSum BY DEF TableTypes
<1>4. r.t >= 0 BY <1>2, <1>3, AdminAssumption DEF T!None
<1>5. T!Precedes(at, r) BY <1>1 DEF T!After, T!Beyond
<1> QED BY <1>1, <1>2, <1>4, <1>5

\* The people with rows are read: as many as fit, or all.
LEMMA TopRead ==
    ASSUME TableTypes, NEW at \in Spots, at.t # T!None, Progress({}, at), NEW n \in Nat \ {0}, NEW out,
           out = T!First(n, T!TopUsers(at))
    PROVE  /\ out \in SUBSET TableRows
           /\ Cardinality(T!TopUsers(at)) > n => Progress(out, T!Last(out)) /\ Cardinality(out) = n /\ T!Last(out) \in Cursors
           /\ ~(Cardinality(T!TopUsers(at)) > n) => Progress(out, T!NotUsed(0))
<1>1. PICK R : R = T!TopUsers(at) OBVIOUS
<1>2. R \in SUBSET TableRows /\ R \subseteq Cursors /\ IsFiniteSet(R) /\ Cardinality(R) \in Nat
  BY <1>1, TopRow, RowsFinite
<1>3. /\ out \subseteq R /\ IsFiniteSet(out) /\ \A r \in out, s \in R \ out : T!Precedes(r, s)
      /\ Cardinality(R) <= n => out = R
      /\ Cardinality(R) >= n => Cardinality(out) = n
  BY <1>1, <1>2, FirstRows
<1>4. at \in Cursors BY RowsFinite
<1>5. at.t >= 0
  <2>1. CASE at \in TableRows
    <3>1. at.t \in T!None .. MaxSum BY <2>1 DEF TableRows
    <3> QED BY <3>1, AdminAssumption DEF T!None
  <2>2. CASE at = T!Start BY <2>2, AdminAssumption DEF T!Start
  <2>3. CASE at = T!NotUsed(0) BY <2>3 DEF T!NotUsed
  <2> QED BY <2>1, <2>2, <2>3 DEF Spots
<1>6. ASSUME NEW v \in still
      PROVE  /\ listed[v] \in {0, 1} /\ (listed[v] = 1 <=> Shows(v) /\ AtOrBefore(T!Row(v), at))
             /\ T!Row(v) \in Cursors /\ v \in People /\ T!Row(v).u = v /\ T!Row(v).t = window[v]
             /\ T!HasRows(v) <=> window[v] # T!None
             /\ window[v] \in T!None .. MaxSum
  BY RowNow, RowsFinite DEF Progress, TableTypes
<1>7. ASSUME NEW v \in still PROVE T!Row(v) \in R <=> T!HasRows(v) /\ ~AtOrBefore(T!Row(v), at)
  <2>1. T!Row(v) \in R => T!HasRows(v) /\ T!Precedes(at, T!Row(v)) BY <1>1, <1>6, TopRow
  <2>2. T!HasRows(v) /\ T!Precedes(at, T!Row(v)) => T!Row(v) \in R BY <1>1, <1>6 DEF T!TopUsers, T!After, T!Beyond
  <2>3. T!Precedes(at, T!Row(v)) <=> ~AtOrBefore(T!Row(v), at) BY <1>4, <1>6, AtOrBeforeFacts
  <2> QED BY <2>1, <2>2, <2>3
<1>8. ASSUME NEW v \in still, NEW r \in R, listed[v] = 1 PROVE T!Precedes(T!Row(v), r)
  <2>1. T!Precedes(at, r) /\ r \in Cursors BY <1>1, <1>2, TopRow
  <2> QED BY <1>4, <1>6, <1>8, <2>1, AtOrBeforeFacts
<1>9. ASSUME Cardinality(R) > n PROVE Progress(out, T!Last(out)) /\ Cardinality(out) = n /\ T!Last(out) \in Cursors
  <2>1. PICK last : last = T!Last(out) OBVIOUS
  <2>2. Cardinality(out) = n BY <1>2, <1>3, <1>9
  <2>3. out # {}
    <3> SUFFICES ASSUME out = {} PROVE FALSE OBVIOUS
    <3>1. Cardinality(out) = 0 BY FS_EmptySet, Zenon
    <3> QED BY <2>2, <3>1
  <2>4. last \in out /\ \A s \in out : AtOrBefore(s, last) BY <1>2, <1>3, <2>1, <2>3, LastRow
  <2>5. last \in R /\ last \in Cursors /\ last.t >= 0 BY <1>1, <1>2, <1>3, <2>4, TopRow
  <2>6. ASSUME NEW v \in still, listed[v] = 1 \/ T!Row(v) \in out PROVE Shows(v) /\ AtOrBefore(T!Row(v), last)
    <3>1. CASE listed[v] = 1 BY <1>6, <1>8, <2>5, <3>1 DEF AtOrBefore
    <3>2. CASE T!Row(v) \in out BY <1>3, <1>7, <2>4, <3>2 DEF Shows
    <3> QED BY <2>6, <3>1, <3>2
  <2>7. ASSUME NEW v \in still, Shows(v), AtOrBefore(T!Row(v), last) PROVE listed[v] = 1 \/ T!Row(v) \in out
    <3>1. T!HasRows(v)
      <4>1. T!Row(v).t >= last.t BY <1>6, <2>5, <2>7 DEF AtOrBefore, T!Precedes, Cursors
      <4> QED BY <1>6, <2>5, <4>1 DEF T!None, Cursors
    <3>2. CASE AtOrBefore(T!Row(v), at) BY <1>6, <2>7, <3>2
    <3>3. CASE ~AtOrBefore(T!Row(v), at)
      <4>1. T!Row(v) \in R BY <1>7, <3>1, <3>3
      <4>2. T!Row(v) \notin out => T!Precedes(last, T!Row(v)) BY <1>3, <2>4, <4>1
      <4>3. ~T!Precedes(last, T!Row(v)) BY <1>6, <2>5, <2>7, AtOrBeforeFacts
      <4> QED BY <4>2, <4>3
    <3> QED BY <3>2, <3>3
  <2>8. \A r \in out : AtOrBefore(r, last) /\ (r.u \in still => r = T!Row(r.u)) BY <1>1, <1>3, <2>4, TopRow
  <2>9. \A v \in still, r \in out : listed[v] = 1 => T!Precedes(T!Row(v), r) BY <1>3, <1>8
  <2>10. Progress(out, last) BY <1>6, <2>6, <2>7, <2>8, <2>9 DEF Progress
  <2> QED BY <2>1, <2>2, <2>5, <2>10
<1>10. ASSUME ~(Cardinality(R) > n) PROVE Progress(out, T!NotUsed(0))
  <2>1. out = R BY <1>2, <1>3, <1>10
  <2>2. ASSUME NEW r \in Cursors, r.t >= 0 PROVE AtOrBefore(r, T!NotUsed(0))
    BY <2>2 DEF AtOrBefore, T!Precedes, T!NotUsed, T!None, Cursors
  <2>3. ASSUME NEW v \in still PROVE T!HasRows(v) <=> AtOrBefore(T!Row(v), T!NotUsed(0))
    <3>1. T!HasRows(v) => T!Row(v).t >= 0 BY <1>6, AdminAssumption DEF T!None
    <3>2. ~T!HasRows(v) => T!Precedes(T!NotUsed(0), T!Row(v))
      <4>1. v \in People /\ T!Row(v).u = v /\ T!Row(v).t = window[v] /\ (T!HasRows(v) <=> window[v] # T!None) BY <1>6
      <4>2. v > 0 BY <4>1, AdminAssumption
      <4> QED BY <4>1, <4>2 DEF T!Precedes, T!NotUsed
    <3>3. T!NotUsed(0) \in Cursors BY DEF T!NotUsed, T!None, Cursors
    <3> QED BY <1>6, <2>2, <3>1, <3>2, <3>3, AtOrBeforeFacts
  <2>4. ASSUME NEW v \in still, listed[v] = 1 PROVE T!HasRows(v)
    <3> SUFFICES ASSUME ~T!HasRows(v) PROVE FALSE OBVIOUS
    <3>1. T!Row(v).t = window[v] /\ window[v] = T!None /\ T!Row(v) \in Cursors BY <1>6
    <3>2. at.t \in Int BY <1>4 DEF Cursors
    <3>3. T!Precedes(at, T!Row(v)) BY <1>5, <3>1, <3>2 DEF T!Precedes, T!None
    <3> QED BY <1>4, <1>6, <2>4, <3>3, AtOrBeforeFacts
  <2>5. ASSUME NEW v \in still PROVE listed[v] = 1 \/ T!Row(v) \in out <=> Shows(v) /\ AtOrBefore(T!Row(v), T!NotUsed(0))
    BY <1>6, <1>7, <2>1, <2>3, <2>4 DEF Shows
  <2>6. \A r \in out : AtOrBefore(r, T!NotUsed(0)) /\ (r.u \in still => r = T!Row(r.u)) BY <1>1, <1>2, <2>1, <2>2, TopRow
  <2>7. \A v \in still, r \in out : listed[v] = 1 => T!Precedes(T!Row(v), r) BY <1>3, <1>8
  <2> QED BY <1>6, <2>5, <2>6, <2>7 DEF Progress
<1> QED BY <1>1, <1>2, <1>3, <1>9, <1>10

\* The accounts read after the cursor at, as names, of which need are looked up.
Named(names, at, need) ==
    /\ \A r \in names : r.t = T!None /\ r.u > at.u /\ (r.u \in still => r.u \in accounts)
    /\ \A v \in still : v \in accounts /\ v > at.u =>
         T!NotUsed(v) \in names \/ (Cardinality(names) > need /\ \A r \in names : r.u < v)
PastEnd == [t |-> T!None - 1, u |-> 0]

LEMMA NotUsedRows ==
    ASSUME NEW v \in People
    PROVE  T!NotUsed(v) \in TableRows /\ T!NotUsed(v) \in Cursors /\ T!NotUsed(v).t = T!None /\ T!NotUsed(v).u = v
<1>1. T!None \in T!None .. MaxSum BY AdminAssumption DEF T!None
<1>2. T!NotUsed(v) \in TableRows BY <1>1 DEF T!NotUsed, TableRows
<1> QED BY <1>2, RowsFinite DEF T!NotUsed

\* Looking names up moves the cursor over those that are not in the ledger.
LEMMA LookedUp ==
    ASSUME TableTypes, NEW at \in Cursors, at.t = T!None, NEW out \in SUBSET TableRows, Progress(out, at),
           NEW names \in SUBSET TableRows, NEW need, Named(names, at, need), NEW items \in SUBSET names,
           NEW to \in Cursors, to.t <= T!None, AtOrBefore(at, to), \A r \in items : AtOrBefore(r, to),
           \A v \in still : v \in accounts /\ v > at.u /\ AtOrBefore(T!NotUsed(v), to) => T!NotUsed(v) \in items
    PROVE  Progress(out \union {r \in items : ~T!HasRows(r.u)}, to)
<1>1. PICK more : more = {r \in items : ~T!HasRows(r.u)} OBVIOUS
<1>2. ASSUME NEW v \in still
      PROVE  /\ listed[v] \in {0, 1} /\ (listed[v] = 1 \/ T!Row(v) \in out <=> Shows(v) /\ AtOrBefore(T!Row(v), at))
             /\ T!Row(v) \in Cursors /\ v \in People /\ T!Row(v).u = v /\ T!Row(v).t = window[v]
             /\ (T!HasRows(v) <=> window[v] # T!None)
             /\ window[v] \in T!None .. MaxSum
  BY <1>2, RowNow, RowsFinite DEF Progress, TableTypes
<1>3. ASSUME NEW r \in items
      PROVE  r \in Cursors /\ r.t = T!None /\ r.u > at.u /\ (r.u \in still => r.u \in accounts) /\ r = [t |-> r.t, u |-> r.u]
  BY <1>3, RowsFinite DEF Named, TableRows
<1>4. ASSUME NEW r \in Cursors, AtOrBefore(r, at) PROVE AtOrBefore(r, to)
  BY <1>4, AtOrBeforeFacts
<1>5. ASSUME NEW v \in still, listed[v] = 1 \/ T!Row(v) \in out \union more PROVE Shows(v) /\ AtOrBefore(T!Row(v), to)
  <2>1. CASE listed[v] = 1 \/ T!Row(v) \in out BY <1>2, <1>4, <2>1
  <2>2. CASE T!Row(v) \in more
    <3>1. T!Row(v) \in items BY <1>1, <2>2
    <3>2. v \in accounts BY <1>2, <1>3, <3>1
    <3> QED BY <3>1, <3>2 DEF Shows
  <2> QED BY <1>5, <2>1, <2>2
<1>6. ASSUME NEW v \in still, Shows(v), AtOrBefore(T!Row(v), to) PROVE listed[v] = 1 \/ T!Row(v) \in out \union more
  <2>1. CASE AtOrBefore(T!Row(v), at) BY <1>2, <1>6, <2>1
  <2>2. CASE ~AtOrBefore(T!Row(v), at)
    <3>1. T!Row(v) \in Cursors /\ T!Row(v).u = v /\ T!Row(v).t = window[v] /\ window[v] \in T!None .. MaxSum
          /\ (T!HasRows(v) <=> window[v] # T!None)
      BY <1>2
    <3>2. T!Precedes(at, T!Row(v)) BY <2>2, <3>1, AtOrBeforeFacts
    <3>3. window[v] >= T!None /\ window[v] \in Int /\ at.u \in Nat /\ v \in Nat
      BY <3>1, AdminAssumption DEF T!None, Cursors
    <3>4. window[v] = T!None /\ v > at.u BY <3>1, <3>2, <3>3 DEF T!Precedes, T!None
    <3>5. ~T!HasRows(v) /\ v \in accounts /\ T!Row(v) = T!NotUsed(v) BY <1>6, <3>1, <3>4 DEF Shows, T!Row, T!NotUsed
    <3>6. T!Row(v) \in items BY <1>6, <3>4, <3>5
    <3> QED BY <1>1, <3>1, <3>5, <3>6
  <2> QED BY <2>1, <2>2
<1>7. ASSUME NEW v \in still, NEW r \in out \union more, listed[v] = 1 PROVE T!Precedes(T!Row(v), r)
  <2>1. CASE r \in out BY <1>7, <2>1 DEF Progress
  <2>2. CASE r \in more
    <3>1. r \in Cursors /\ r.t = T!None /\ r.u > at.u BY <1>1, <1>3, <2>2
    <3>2. T!Precedes(at, r) BY <3>1 DEF T!Precedes, Cursors
    <3>3. AtOrBefore(T!Row(v), at) /\ T!Row(v) \in Cursors BY <1>2, <1>7
    <3> QED BY <3>1, <3>2, <3>3, AtOrBeforeFacts
  <2> QED BY <2>1, <2>2
<1>8. ASSUME NEW r \in out \union more PROVE AtOrBefore(r, to) /\ (r.u \in still => r = T!Row(r.u))
  <2>1. CASE r \in out
    <3>1. AtOrBefore(r, at) /\ (r.u \in still => r = T!Row(r.u)) /\ r \in Cursors BY <2>1, RowsFinite DEF Progress
    <3> QED BY <1>4, <3>1
  <2>2. CASE r \in more
    <3>1. r \in items /\ ~T!HasRows(r.u) BY <1>1, <2>2
    <3>2. window[r.u] = T!None BY <3>1 DEF T!HasRows
    <3> QED BY <1>3, <3>1, <3>2 DEF T!Row
  <2> QED BY <2>1, <2>2
<1>9. Progress(out \union more, to)
  <2>1. \A v \in still : listed[v] \in {0, 1} BY <1>2
  <2>2. \A v \in still : listed[v] = 1 \/ T!Row(v) \in out \union more <=> Shows(v) /\ AtOrBefore(T!Row(v), to)
    BY <1>5, <1>6
  <2> QED BY <1>7, <1>8, <2>1, <2>2 DEF Progress
<1> QED BY <1>1, <1>9

LEMMA FilterRead ==
    ASSUME TableTypes, NEW at \in Cursors, at.t = T!None, NEW out \in SUBSET TableRows, Progress(out, at),
           NEW names \in SUBSET TableRows, NEW need \in Nat \ {0}, Named(names, at, need), NEW items, NEW out2,
           items = T!First(need, names), out2 = out \union {r \in items : ~T!HasRows(r.u)}
    PROVE  /\ out2 \in SUBSET TableRows /\ Cardinality(out2) <= Cardinality(out) + need
           /\ Cardinality(names) > need =>
                T!Last(items) \in TableRows /\ T!Last(items).t = T!None /\ Progress(out2, T!Last(items))
           /\ ~(Cardinality(names) > need) => Progress(out2, PastEnd)
<1>1. /\ items \subseteq names /\ IsFiniteSet(items) /\ Cardinality(items) \in Nat
      /\ \A r \in items, s \in names \ items : T!Precedes(r, s)
      /\ Cardinality(names) <= need => items = names
      /\ Cardinality(names) >= need => Cardinality(items) = need
      /\ Cardinality(names) \in Nat /\ names \subseteq Cursors
  BY FirstRows, RowsFinite
<1>2. Cardinality(items) <= need
  <2>1. need \in Nat OBVIOUS
  <2> QED BY <1>1, <2>1
<1>3. out2 \in SUBSET TableRows /\ Cardinality(out2) <= Cardinality(out) + need
  <2>1. PICK more : more = {r \in items : ~T!HasRows(r.u)} OBVIOUS
  <2>2. more \subseteq items /\ IsFiniteSet(more) /\ Cardinality(more) <= Cardinality(items) /\ Cardinality(more) \in Nat
    BY <1>1, <2>1, FS_Subset, FS_CardinalityType
  <2>3. IsFiniteSet(out) /\ Cardinality(out) \in Nat BY RowsFinite
  <2>4. IsFiniteSet(out \intersect more) /\ Cardinality(out \intersect more) \in Nat
    BY <2>2, FS_Intersection, FS_CardinalityType
  <2>5. Cardinality(out \union more) = Cardinality(out) + Cardinality(more) - Cardinality(out \intersect more)
    BY <2>2, <2>3, FS_Union
  <2>6. out2 = out \union more BY <2>1
  <2>7. Cardinality(out2) <= Cardinality(out) + need
    <3>1. PICK a : a = Cardinality(out) OBVIOUS
    <3>2. PICK b : b = Cardinality(more) OBVIOUS
    <3>3. PICK c : c = Cardinality(out \intersect more) OBVIOUS
    <3>4. PICK d : d = Cardinality(items) OBVIOUS
    <3>5. Cardinality(out2) = a + b - c BY <2>5, <2>6, <3>1, <3>2, <3>3
    <3>6. a \in Nat /\ b \in Nat /\ c \in Nat /\ d \in Nat /\ b <= d /\ d <= need
      BY <1>1, <1>2, <2>2, <2>3, <2>4, <3>1, <3>2, <3>3, <3>4
    <3>7. a + b - c <= a + need BY <3>6
    <3> QED BY <3>1, <3>5, <3>7
  <2>8. out2 \in SUBSET TableRows BY <1>1, <2>2, <2>6
  <2> QED BY <2>7, <2>8
<1>4. ASSUME NEW v \in still PROVE T!NotUsed(v) \in Cursors /\ T!NotUsed(v).t = T!None /\ T!NotUsed(v).u = v /\ v \in Nat
  BY NotUsedRows, AdminAssumption DEF TableTypes
<1>5. at.u \in Nat /\ at.t \in Int BY DEF Cursors
<1>6. ASSUME Cardinality(names) > need
      PROVE  T!Last(items) \in TableRows /\ T!Last(items).t = T!None /\ Progress(out2, T!Last(items))
  <2>1. PICK to : to = T!Last(items) OBVIOUS
  <2>2. items # {}
    <3> SUFFICES ASSUME items = {} PROVE FALSE OBVIOUS
    <3>1. Cardinality(items) = 0 BY FS_EmptySet, Zenon
    <3> QED BY <1>1, <1>6, <3>1
  <2>3. to \in items /\ \A s \in items : AtOrBefore(s, to) BY <1>1, <2>1, <2>2, LastRow
  <2>4. to \in names /\ to \in TableRows /\ to \in Cursors /\ to.t = T!None /\ to.u > at.u
    BY <1>1, <2>3 DEF Named
  <2>5. to.t <= T!None /\ AtOrBefore(at, to) BY <1>5, <2>4 DEF AtOrBefore, T!Precedes, T!None
  <2>6. ASSUME NEW v \in still, v \in accounts, v > at.u, AtOrBefore(T!NotUsed(v), to) PROVE T!NotUsed(v) \in items
    <3>1. T!NotUsed(v) \in names \/ \A r \in names : r.u < v BY <2>6 DEF Named
    <3>2. ~T!Precedes(to, T!NotUsed(v)) BY <1>4, <2>4, <2>6, AtOrBeforeFacts
    <3>3. ~(to.u < v) BY <1>4, <2>4, <3>2 DEF T!Precedes
    <3>4. T!NotUsed(v) \in names BY <2>4, <3>1, <3>3
    <3> QED BY <1>1, <2>3, <3>2, <3>4
  <2>7. Progress(out \union {r \in items : ~T!HasRows(r.u)}, to) BY <1>1, <2>3, <2>4, <2>5, <2>6, LookedUp
  <2> QED BY <2>1, <2>4, <2>7
<1>7. ASSUME ~(Cardinality(names) > need) PROVE Progress(out2, PastEnd)
  <2>1. items = names
    <3>1. need \in Nat OBVIOUS
    <3> QED BY <1>1, <1>7, <3>1
  <2>2. PICK to : to = PastEnd OBVIOUS
  <2>3. to \in Cursors /\ to.t <= T!None /\ \A r \in Cursors : r.t = T!None => AtOrBefore(r, to)
    BY <2>2 DEF PastEnd, Cursors, T!None, AtOrBefore, T!Precedes
  <2>4. \A r \in items : AtOrBefore(r, to) BY <1>1, <2>3 DEF Named
  <2>5. ASSUME NEW v \in still, v \in accounts, v > at.u PROVE T!NotUsed(v) \in items
    BY <1>7, <2>1, <2>5 DEF Named
  <2>6. Progress(out \union {r \in items : ~T!HasRows(r.u)}, to) BY <1>1, <2>3, <2>4, <2>5, LookedUp
  <2> QED BY <2>2, <2>6
<1> QED BY <1>3, <1>6, <1>7

LEMMA ProbeRead ==
    ASSUME TableTypes, NEW at \in Cursors, NEW need \in Nat, NEW names, names = T!First(need + 1, T!AccountsAfter(at))
    PROVE  names \in SUBSET TableRows /\ Named(names, at, need)
<1>1. PICK R : R = T!AccountsAfter(at) OBVIOUS
<1>2. ASSUME NEW r \in R PROVE r \in TableRows /\ r.t = T!None /\ r.u > at.u /\ r.u \in accounts
  <2>1. PICK v \in accounts : v > at.u /\ r = T!NotUsed(v) BY <1>1, <1>2 DEF T!AccountsAfter
  <2>2. v \in People BY DEF TableTypes
  <2> QED BY <2>1, <2>2, NotUsedRows
<1>3. R \in SUBSET TableRows /\ R \subseteq Cursors /\ IsFiniteSet(R) /\ Cardinality(R) \in Nat BY <1>2, RowsFinite
<1>4. need + 1 \in Nat OBVIOUS
<1>5. /\ names \subseteq R /\ \A r \in names, s \in R \ names : T!Precedes(r, s)
      /\ Cardinality(R) <= need + 1 => names = R
      /\ Cardinality(R) >= need + 1 => Cardinality(names) = need + 1
  BY <1>1, <1>3, <1>4, FirstRows
<1>6. ASSUME NEW v \in still, v \in accounts, v > at.u, T!NotUsed(v) \notin names
      PROVE  Cardinality(names) > need /\ \A r \in names : r.u < v
  <2>1. T!NotUsed(v) \in R BY <1>1, <1>6 DEF T!AccountsAfter
  <2>2. Cardinality(names) = need + 1 BY <1>3, <1>5, <1>6, <2>1
  <2>3. T!NotUsed(v).t = T!None /\ T!NotUsed(v).u = v BY DEF T!NotUsed
  <2>4. ASSUME NEW r \in names PROVE r.u < v
    <3>1. T!Precedes(r, T!NotUsed(v)) BY <1>5, <1>6, <2>1
    <3>2. r.t = T!None BY <1>2, <1>5
    <3> QED BY <2>3, <3>1, <3>2 DEF T!Precedes, T!None
  <2> QED BY <2>2, <2>4
<1> QED BY <1>2, <1>3, <1>5, <1>6 DEF Named

\* Whatever happens to a person, it leaves the others where they were.
LEMMA OthersStay ==
    ASSUME TableTypes, NEW u, still' = still \ {u}, UNCHANGED listed,
           \A v \in still \ {u} : window'[v] = window[v] /\ (v \in accounts' <=> v \in accounts),
           NEW out, NEW at, NEW names, NEW need
    PROVE  /\ Progress(out, at) => Progress(out, at)'
           /\ Named(names, at, need) => Named(names, at, need)'
           /\ (\A v \in still : listed[v] = IF Shows(v) THEN 1 ELSE 0) =>
                (\A v \in still : listed[v] = IF Shows(v) THEN 1 ELSE 0)'
<1>1. ASSUME NEW v \in still' PROVE v \in still /\ T!Row(v)' = T!Row(v) /\ (Shows(v)' <=> Shows(v)) /\ (v \in accounts' <=> v \in accounts)
  BY <1>1 DEF T!Row, Shows, T!HasRows
<1>2. ASSUME Progress(out, at) PROVE Progress(out, at)'
  <2>1. \A v \in still' : listed'[v] \in {0, 1} BY <1>1, <1>2 DEF Progress
  <2>2. \A v \in still' : listed'[v] = 1 \/ T!Row(v)' \in out <=> Shows(v)' /\ AtOrBefore(T!Row(v)', at)
    BY <1>1, <1>2 DEF Progress
  <2>3. \A v \in still', r \in out : listed'[v] = 1 => T!Precedes(T!Row(v)', r) BY <1>1, <1>2 DEF Progress
  <2>4. \A r \in out : AtOrBefore(r, at) /\ (r.u \in still' => r = T!Row(r.u)') BY <1>1, <1>2 DEF Progress
  <2> QED BY <2>1, <2>2, <2>3, <2>4 DEF Progress, AtOrBefore, T!Precedes
<1>3. Named(names, at, need) => Named(names, at, need)' BY <1>1 DEF Named, T!NotUsed
<1>4. (\A v \in still : listed[v] = IF Shows(v) THEN 1 ELSE 0) => \A v \in still' : listed'[v] = IF Shows(v)' THEN 1 ELSE 0
  BY <1>1
<1> QED BY <1>2, <1>3, <1>4

\* The inductive invariant: the pages given and the part of the next one that
\* has been read are up to the cursor, and after the last page everyone is in.
ReadingInv ==
    /\ Progress(pager.out, pager.at) /\ (pager.st = "top" <=> pager.at.t # T!None)
    /\ Cardinality(pager.out) <= PageLimit
    /\ pager.st = "top" => pager.out = {}
    /\ pager.st = "filter" => Named(pager.names, pager.at, T!Need)
PagerInv ==
    /\ pager.st = "idle" => shown = 0 /\ \A v \in People : listed[v] = 0
    /\ pager.st = "next" => Progress({}, pager.at)
    /\ pager.st \in {"top", "probe", "filter"} => ReadingInv
    /\ pager.st = "done" => \A v \in still : listed[v] = IF Shows(v) THEN 1 ELSE 0
SumInv == still = People /\ pager.st \notin {"idle", "next"} => pager.sum = T!Total
TableInv == TableTypes /\ pager \in PagerStates /\ PagerInv /\ SumInv /\ SumSoFar

LEMMA NoTokens == T!Tokens({}) = 0
<1>1. PICK none : none = {} OBVIOUS
<1>2. none \in SUBSET TableRows /\ none \intersect none = {} /\ none \union none = none BY <1>1
<1>3. PICK sum : sum = T!Tokens(none) OBVIOUS
<1>4. T!Tokens(none) \in Nat /\ T!Tokens(none \union none) = T!Tokens(none) + T!Tokens(none) BY <1>2, TokensAdd
<1>5. T!Tokens(none \union none) = T!Tokens(none) BY <1>2
<1>6. sum \in Nat /\ sum = sum + sum BY <1>3, <1>4, <1>5
<1>7. sum = 0 BY <1>6
<1> QED BY <1>1, <1>3, <1>7

LEMMA TotalNat == ASSUME TableTypes PROVE T!Total \in Nat
<1>1. {T!Row(u) : u \in {v \in People : T!HasRows(v)}} \in SUBSET TableRows BY RowNow
<1>2. {} \in SUBSET TableRows /\ {T!Row(u) : u \in {v \in People : T!HasRows(v)}} \intersect {} = {} OBVIOUS
<1> QED BY <1>1, <1>2, TokensAdd DEF T!Total

LEMMA ReadingType ==
    ASSUME pager \in PagerStates, pager.st \in {"top", "probe", "filter"}
    PROVE  /\ pager \in Readings /\ pager.at \in Spots /\ pager.at \in Cursors /\ pager.out \in SUBSET TableRows
           /\ pager.names \in SUBSET TableRows /\ pager.sum \in Nat /\ pager.probes \in Nat
<1>1. pager \in Readings BY DEF PagerStates
<1> QED BY <1>1, RowsFinite DEF Readings

LEMMA NeedType ==
    ASSUME pager \in PagerStates, pager.st \in {"top", "probe", "filter"}, Cardinality(pager.out) <= PageLimit
    PROVE  T!Need \in Nat \ {0} /\ Cardinality(pager.out) \in Nat /\ Cardinality(pager.out) + T!Need = PageLimit + 1
<1>1. Cardinality(pager.out) \in Nat BY ReadingType, RowsFinite
<1>2. PageLimit \in Nat BY AdminAssumption
<1> QED BY <1>1, <1>2, CountsTheSame DEF T!Need

\* The states that the pager passes through.
LEMMA NextState ==
    ASSUME TableTypes', SumSoFar', NEW at \in TableRows, Progress({}, at)', pager' = [st |-> "next", at |-> at]
    PROVE  TableInv'
<1>1. pager'.st = "next" /\ pager'.at = at OBVIOUS
<1>2. pager' \in PagerStates' BY DEF PagerStates, Readings, Spots, TableRows, T!None, T!Start, T!NotUsed
<1>3. Progress({}, pager.at)' BY <1>1 DEF Progress, AtOrBefore, T!Precedes
<1> QED BY <1>1, <1>2, <1>3 DEF TableInv, PagerInv, SumInv

LEMMA DoneState ==
    ASSUME TableTypes', SumSoFar', Progress({}, PastEnd)', NEW sum \in Nat, still' = People => sum = T!Total',
           pager' = [st |-> "done", sum |-> sum]
    PROVE  TableInv'
<1>1. pager'.st = "done" /\ pager'.sum = sum OBVIOUS
<1>2. pager' \in PagerStates' BY DEF PagerStates
<1>3. ASSUME NEW v \in still' PROVE listed'[v] = IF Shows(v)' THEN 1 ELSE 0
  <2>1. listed'[v] \in {0, 1} /\ (listed'[v] = 1 <=> Shows(v)' /\ AtOrBefore(T!Row(v), PastEnd)') BY DEF Progress
  <2>2. v \in People /\ window'[v] \in T!None .. MaxSum BY DEF TableTypes
  <2>3. T!Row(v)'.t = window'[v] BY DEF T!Row
  <2>4. AtOrBefore(T!Row(v), PastEnd)' BY <2>2, <2>3, AdminAssumption DEF AtOrBefore, T!Precedes, PastEnd, T!None
  <2> QED BY <2>1, <2>4
<1> QED BY <1>1, <1>2, <1>3 DEF TableInv, PagerInv, SumInv

LEMMA ReadingState ==
    ASSUME TableTypes', SumSoFar', NEW at \in Spots, NEW out \in SUBSET TableRows, Progress(out, at)',
           Cardinality(out) <= PageLimit, NEW probes \in Nat, NEW sum \in Nat, still' = People => sum = T!Total',
           at.t # T!None => out = {}, pager' = T!Reading(out, at, probes, sum)
    PROVE  TableInv'
<1>1. /\ pager'.st = (IF at.t = T!None THEN "probe" ELSE "top") /\ pager'.at = at /\ pager'.out = out /\ pager'.sum = sum
      /\ pager' \in Readings
  BY DEF T!Reading, Readings
<1>2. pager' \in PagerStates' BY <1>1 DEF PagerStates
<1>3. Progress(pager.out, pager.at)' BY <1>1 DEF Progress, AtOrBefore, T!Precedes
<1>4. ReadingInv' BY <1>1, <1>3 DEF ReadingInv
<1>5. PagerInv' BY <1>1, <1>4 DEF PagerInv
<1> QED BY <1>1, <1>2, <1>5 DEF TableInv, SumInv

LEMMA SameSums ==
    ASSUME UNCHANGED window
    PROVE  T!Total' = T!Total /\ \A v : T!Row(v)' = T!Row(v) /\ (T!HasRows(v)' <=> T!HasRows(v))
BY DEF T!Total, T!HasRows, T!Row, T!Tokens

LEMMA SameProgress ==
    ASSUME UNCHANGED <<window, accounts, still, listed>>, NEW out, NEW at, Progress(out, at)
    PROVE  Progress(out, at)'
BY DEF Progress, AtOrBefore, T!Precedes, Shows, T!HasRows, T!Row

LEMMA SameListed ==
    ASSUME UNCHANGED <<window, still, listed, shown>>, SumSoFar
    PROVE  SumSoFar'
BY DEF SumSoFar, ListedRows, T!Row, T!Tokens

LEMMA AskPageKeeps == ASSUME TableInv, T!AskPage PROVE TableInv'
<1>1. /\ pager.st \in {"idle", "next"} /\ UNCHANGED <<window, accounts, listed, shown>>
      /\ pager' = T!Reading({}, IF pager.st = "idle" THEN T!Start ELSE pager.at, 0, T!Total)
      /\ still' = IF pager.st = "idle" THEN People ELSE still
  BY DEF T!AskPage
<1>2. TableTypes /\ T!Total \in Nat /\ T!Total' = T!Total BY <1>1, TotalNat, SameSums DEF TableInv
<1>3. TableTypes' BY <1>1, <1>2 DEF TableTypes
<1>4. Cardinality({}) = 0 BY FS_EmptySet, Zenon
<1>5. Cardinality({}) <= PageLimit /\ {} \in SUBSET TableRows /\ 0 \in Nat BY <1>4, AdminAssumption
<1>6. CASE pager.st = "idle"
  <2>1. shown' = 0 /\ (\A v \in People : listed'[v] = 0) /\ still' = People /\ pager' = T!Reading({}, T!Start, 0, T!Total)
    BY <1>1, <1>6 DEF TableInv, PagerInv
  <2>2. ASSUME NEW v \in People PROVE ~AtOrBefore(T!Row(v), T!Start)'
    <3>1. window'[v] \in T!None .. MaxSum /\ v > 0 BY <1>3, AdminAssumption DEF TableTypes
    <3>2. T!Row(v)'.t = window'[v] BY DEF T!Row
    <3>3. window'[v] < MaxSum + 1 /\ MaxSum \in Nat /\ window'[v] \in Int BY <3>1, AdminAssumption DEF T!None
    <3> QED BY <3>2, <3>3 DEF AtOrBefore, T!Precedes, T!Start
  <2>3. Progress({}, T!Start)' BY <2>1, <2>2 DEF Progress
  <2>4. ListedRows' = {} BY <2>1 DEF ListedRows
  <2>5. T!Tokens(ListedRows)' = T!Tokens({}) BY <2>4 DEF T!Tokens
  <2>6. SumSoFar' BY <2>1, <2>5, NoTokens DEF SumSoFar
  <2>7. T!Start \in Spots BY DEF Spots
  <2>8. TableInv' BY <1>2, <1>3, <1>5, <2>1, <2>3, <2>6, <2>7, ReadingState
  <2> QED BY <2>8
<1>7. CASE pager.st = "next"
  <2>1. still' = still /\ pager' = T!Reading({}, pager.at, 0, T!Total) BY <1>1, <1>7
  <2>2. pager.at \in TableRows /\ pager.at \in Spots BY <1>7 DEF TableInv, PagerStates, Readings, Spots
  <2>3. Progress({}, pager.at) BY <1>7 DEF TableInv, PagerInv
  <2>4. PICK at : at = pager.at OBVIOUS
  <2>5. Progress({}, at)' BY <1>1, <2>1, <2>3, <2>4, SameProgress
  <2>6. SumSoFar' BY <1>1, <2>1, SameListed DEF TableInv
  <2>7. pager' = T!Reading({}, at, 0, T!Total) /\ at \in Spots BY <2>1, <2>2, <2>4
  <2> QED BY <1>2, <1>3, <1>5, <2>5, <2>6, <2>7, ReadingState
<1> QED BY <1>1, <1>6, <1>7

\* What a page given means for its next state.
LEMMA GivePage ==
    ASSUME TableInv, NEW out \in SUBSET TableRows, NEW at \in Cursors, Progress(out, at), T!Give(T!Page(out)),
           UNCHANGED <<window, accounts, still>>
    PROVE  /\ TableTypes' /\ SumSoFar' /\ T!Total' = T!Total
           /\ Cardinality(out) > PageLimit => T!Last(T!Page(out)) \in TableRows /\ Progress({}, T!Last(T!Page(out)))'
           /\ ~(Cardinality(out) > PageLimit) => Progress({}, at)'
<1>1. TableTypes /\ SumSoFar BY DEF TableInv
<1>2. T!Page(out) \in SUBSET out
  <2>1. PageLimit \in Nat BY AdminAssumption
  <2> QED BY <2>1, FirstRows, RowsFinite DEF T!Page
<1>3. PICK rows : rows = T!Page(out) OBVIOUS
<1>4. TableTypes' /\ SumSoFar' BY <1>1, <1>2, <1>3, GiveFacts
<1> QED BY <1>1, <1>4, PageMore, PageAll, SameSums

\* The page after which there is another one.
LEMMA GiveMore ==
    ASSUME TableInv, NEW out \in SUBSET TableRows, NEW at \in Cursors, Progress(out, at), T!Give(T!Page(out)),
           UNCHANGED <<window, accounts, still>>, Cardinality(out) > PageLimit,
           pager' = [st |-> "next", at |-> T!Last(T!Page(out))]
    PROVE  TableInv'
<1>1. PICK last : last = T!Last(T!Page(out)) OBVIOUS
<1>2. /\ TableTypes' /\ SumSoFar'
      /\ T!Last(T!Page(out)) \in TableRows /\ Progress({}, T!Last(T!Page(out)))'
  BY GivePage
<1>3. T!Last(T!Page(out))' = T!Last(T!Page(out)) BY DEF T!Last, T!Page, T!First, T!Precedes
<1>4. Progress({}, last)' BY <1>1, <1>2
<1> QED BY <1>1, <1>2, <1>4, NextState

LEMMA ReadTopKeeps == ASSUME TableInv, T!ReadTop PROVE TableInv'
<1>1. pager.st = "top" /\ UNCHANGED <<window, accounts, writes, still>> BY DEF T!ReadTop
<1>2. ReadingInv /\ TableTypes /\ pager \in PagerStates /\ SumSoFar /\ (still = People => pager.sum = T!Total)
  BY <1>1 DEF TableInv, PagerInv, SumInv
<1>3. pager.out = {} /\ pager.at.t # T!None /\ Cardinality(pager.out) <= PageLimit BY <1>1, <1>2 DEF ReadingInv
<1>4. pager.at \in Spots /\ pager.at \in Cursors /\ pager.sum \in Nat BY <1>1, <1>2, ReadingType
<1>5. PICK n : n = T!Need OBVIOUS
<1>6. PICK at : at = pager.at OBVIOUS
<1>7. PICK out : out = T!First(n, T!TopUsers(at)) OBVIOUS
<1>8. n \in Nat \ {0} /\ n = PageLimit + 1
  <2>1. Cardinality(pager.out) = 0 BY <1>3, FS_EmptySet, Zenon
  <2>2. T!Need = PageLimit + 1 /\ PageLimit \in Nat BY <2>1, AdminAssumption, CountsTheSame DEF T!Need
  <2> QED BY <1>5, <2>2
<1>9. Progress({}, at) BY <1>2, <1>3, <1>6 DEF ReadingInv
<1>10. at \in Spots /\ at.t # T!None /\ out = T!First(n, T!TopUsers(at)) BY <1>3, <1>4, <1>6, <1>7
<1>11. /\ out \in SUBSET TableRows
       /\ Cardinality(T!TopUsers(at)) > n => Progress(out, T!Last(out)) /\ Cardinality(out) = n /\ T!Last(out) \in Cursors
       /\ ~(Cardinality(T!TopUsers(at)) > n) => Progress(out, T!NotUsed(0))
  BY <1>2, <1>8, <1>9, <1>10, TopRead
<1>12. pager.out \union T!First(T!Need, T!TopUsers(pager.at)) = out BY <1>3, <1>5, <1>6, <1>7
<1>13. IF Cardinality(T!TopUsers(at)) > n \/ Cardinality(out) > PageLimit THEN T!Finish(out)
       ELSE pager' = T!Reading(out, T!NotUsed(0), 0, pager.sum) /\ UNCHANGED <<listed, shown>>
  BY <1>5, <1>6, <1>12, CountsTheSame DEF T!ReadTop
<1>14. T!NotUsed(0) \in Spots /\ T!NotUsed(0) \in Cursors /\ T!NotUsed(0).t = T!None BY RowsFinite DEF Spots, T!NotUsed
<1>15. CASE Cardinality(T!TopUsers(at)) > n \/ Cardinality(out) > PageLimit
  <2>1. Cardinality(out) > PageLimit BY <1>8, <1>11, <1>15, AdminAssumption
  <2>2. PICK to \in Cursors : Progress(out, to) BY <1>11, <1>14
  <2>3. T!Give(T!Page(out)) /\ pager' = [st |-> "next", at |-> T!Last(T!Page(out))] BY <1>13, <1>15, <2>1, CountsTheSame DEF T!Finish
  <2> QED BY <1>1, <1>11, <2>1, <2>2, <2>3, GiveMore
<1>16. CASE ~(Cardinality(T!TopUsers(at)) > n \/ Cardinality(out) > PageLimit)
  <2>1. pager' = T!Reading(out, T!NotUsed(0), 0, pager.sum) /\ UNCHANGED <<listed, shown>> BY <1>13, <1>16
  <2>2. PICK to : to = T!NotUsed(0) OBVIOUS
  <2>3. PICK sum : sum = pager.sum OBVIOUS
  <2>4. Progress(out, to) BY <1>11, <1>16, <2>2
  <2>5. Progress(out, to)' BY <1>1, <2>1, <2>4, SameProgress
  <2>6. SumSoFar' BY <1>1, <1>2, <2>1, SameListed
  <2>7. TableTypes' BY <1>1, <1>2, <2>1 DEF TableTypes
  <2>8. Cardinality(out) <= PageLimit BY <1>11, <1>16, RowsFinite, AdminAssumption
  <2>9. still' = People => sum = T!Total' BY <1>1, <1>2, <2>3, SameSums
  <2>10. pager' = T!Reading(out, to, 0, sum) /\ to \in Spots /\ to.t = T!None /\ sum \in Nat /\ 0 \in Nat
    BY <1>4, <1>14, <2>1, <2>2, <2>3
  <2> QED BY <1>11, <2>5, <2>6, <2>7, <2>8, <2>9, <2>10, ReadingState
<1> QED BY <1>15, <1>16

LEMMA ProbeKeeps == ASSUME TableInv, T!Probe PROVE TableInv'
<1>1. /\ pager.st = "probe" /\ UNCHANGED <<window, accounts, listed, shown, still>>
      /\ pager' = [pager EXCEPT !.st = "filter", !.probes = @ + 1,
                                !.names = T!First(T!Need + 1, T!AccountsAfter(pager.at))]
  BY DEF T!Probe
<1>2. ReadingInv /\ TableTypes /\ pager \in PagerStates /\ SumSoFar /\ (still = People => pager.sum = T!Total)
  BY <1>1 DEF TableInv, PagerInv, SumInv
<1>3. pager \in Readings /\ pager.at \in Cursors /\ pager.probes \in Nat BY <1>1, <1>2, ReadingType
<1>4. T!Need \in Nat BY <1>1, <1>2, NeedType DEF ReadingInv
<1>5. PICK names : names = T!First(T!Need + 1, T!AccountsAfter(pager.at)) OBVIOUS
<1>6. names \in SUBSET TableRows /\ Named(names, pager.at, T!Need) BY <1>2, <1>3, <1>4, <1>5, ProbeRead
<1>7. /\ pager' \in Readings /\ pager'.st = "filter" /\ pager'.at = pager.at /\ pager'.out = pager.out
      /\ pager'.names = names /\ pager'.sum = pager.sum
  <2>1. PICK probes \in Nat : probes = pager.probes + 1 BY <1>3
  <2>2. pager' = [pager EXCEPT !.st = "filter", !.probes = probes, !.names = names] BY <1>1, <1>5, <2>1
  <2>3. pager = [st |-> pager.st, at |-> pager.at, out |-> pager.out, probes |-> pager.probes,
                 names |-> pager.names, sum |-> pager.sum]
        /\ pager.at \in Spots /\ pager.out \in SUBSET TableRows /\ pager.sum \in Nat
    BY <1>3 DEF Readings
  <2>4. pager' = [st |-> "filter", at |-> pager.at, out |-> pager.out, probes |-> probes,
                  names |-> names, sum |-> pager.sum]
    BY <2>2, <2>3
  <2> QED BY <1>6, <2>3, <2>4 DEF Readings
<1>8. pager' \in PagerStates' BY <1>7 DEF PagerStates
<1>9. PICK at : at = pager.at OBVIOUS
<1>10. PICK out : out = pager.out OBVIOUS
<1>11. Progress(out, at)' BY <1>1, <1>2, <1>9, <1>10, SameProgress DEF ReadingInv
<1>12. Progress(pager.out, pager.at)' BY <1>7, <1>9, <1>10, <1>11 DEF Progress, AtOrBefore, T!Precedes
<1>13. Named(pager.names, pager.at, T!Need)' BY <1>1, <1>6, <1>7 DEF Named, T!Need, T!NotUsed
<1>14. ReadingInv' BY <1>1, <1>2, <1>7, <1>12, <1>13 DEF ReadingInv
<1>15. PagerInv' BY <1>7, <1>14 DEF PagerInv
<1>16. SumInv' BY <1>1, <1>2, <1>7, SameSums DEF SumInv
<1>17. TableTypes' BY <1>1, <1>2 DEF TableTypes
<1>18. SumSoFar' BY <1>1, <1>2, SameListed
<1> QED BY <1>8, <1>15, <1>16, <1>17, <1>18 DEF TableInv

LEMMA FilterKeeps == ASSUME TableInv, T!Filter PROVE TableInv'
<1>1. pager.st = "filter" /\ UNCHANGED <<window, accounts, writes, still>> BY DEF T!Filter
<1>2. ReadingInv /\ TableTypes /\ pager \in PagerStates /\ SumSoFar /\ (still = People => pager.sum = T!Total)
  BY <1>1 DEF TableInv, PagerInv, SumInv
<1>3. /\ Progress(pager.out, pager.at) /\ pager.at.t = T!None /\ Named(pager.names, pager.at, T!Need)
      /\ Cardinality(pager.out) <= PageLimit
  BY <1>1, <1>2 DEF ReadingInv
<1>4. /\ pager.at \in Spots /\ pager.at \in Cursors /\ pager.out \in SUBSET TableRows
      /\ pager.names \in SUBSET TableRows /\ pager.sum \in Nat /\ pager.probes \in Nat
  BY <1>1, <1>2, ReadingType
<1>5. PICK n : n = T!Need OBVIOUS
<1>6. n \in Nat \ {0} BY <1>1, <1>2, <1>3, <1>5, NeedType
<1>7. PICK items : items = T!First(n, pager.names) OBVIOUS
<1>8. PICK out : out = pager.out \union {r \in items : ~T!HasRows(r.u)} OBVIOUS
<1>9. PICK to : to = T!Last(items) OBVIOUS
<1>10. Named(pager.names, pager.at, n) BY <1>3, <1>5
<1>11. /\ out \in SUBSET TableRows
       /\ Cardinality(pager.names) > n => T!Last(items) \in TableRows /\ T!Last(items).t = T!None /\ Progress(out, T!Last(items))
       /\ ~(Cardinality(pager.names) > n) => Progress(out, PastEnd)
  <2>1. PICK at : at = pager.at OBVIOUS
  <2>2. PICK read : read = pager.out OBVIOUS
  <2>3. PICK names : names = pager.names OBVIOUS
  <2>4. at \in Cursors /\ at.t = T!None /\ read \in SUBSET TableRows /\ names \in SUBSET TableRows
    BY <1>3, <1>4, <2>1, <2>2, <2>3
  <2>5. Progress(read, at) /\ Named(names, at, n) BY <1>3, <1>10, <2>1, <2>2, <2>3
  <2>6. items = T!First(n, names) /\ out = read \union {r \in items : ~T!HasRows(r.u)} BY <1>7, <1>8, <2>2, <2>3
  <2>7. /\ out \in SUBSET TableRows
        /\ Cardinality(names) > n => T!Last(items) \in TableRows /\ T!Last(items).t = T!None /\ Progress(out, T!Last(items))
        /\ ~(Cardinality(names) > n) => Progress(out, PastEnd)
    BY <1>2, <1>6, <2>4, <2>5, <2>6, FilterRead
  <2> QED BY <2>3, <2>7
<1>12. Cardinality(pager.names) \in Nat /\ Cardinality(out) \in Nat /\ n \in Nat /\ PageLimit \in Nat
  BY <1>4, <1>6, <1>11, RowsFinite, AdminAssumption
<1>13. PastEnd \in Cursors BY DEF PastEnd, Cursors, T!None
<1>14. IF Cardinality(pager.names) <= n THEN T!Finish(out)
       ELSE IF pager.probes >= ProbeMax
       THEN /\ T!Give(T!Page(out))
            /\ pager' = [st |-> "next", at |-> T!Last(IF Cardinality(out) > PageLimit THEN T!Page(out) ELSE items)]
       ELSE IF Cardinality(out) > PageLimit THEN T!Finish(out)
       ELSE pager' = T!Reading(out, T!Last(items), pager.probes, pager.sum) /\ UNCHANGED <<listed, shown>>
  <2>1. T!Need = n /\ T!First(T!Need, pager.names) = items BY <1>5, <1>7
  <2>2. pager.out \union {r \in T!First(T!Need, pager.names) : ~T!HasRows(r.u)} = out BY <1>8, <2>1
  <2> QED BY <2>1, <2>2, CountsTheSame DEF T!Filter
<1>15. CASE Cardinality(out) > PageLimit /\ T!Give(T!Page(out)) /\ pager' = [st |-> "next", at |-> T!Last(T!Page(out))]
  <2>1. PICK c \in Cursors : Progress(out, c) BY <1>11, <1>13, RowsFinite
  <2> QED BY <1>1, <1>11, <1>15, <2>1, GiveMore
<1>16. CASE Cardinality(pager.names) <= n
  <2>1. T!Finish(out) BY <1>14, <1>16
  <2>2. ~(Cardinality(pager.names) > n) BY <1>12, <1>16
  <2>3. CASE Cardinality(out) > PageLimit BY <1>15, <2>1, <2>3, CountsTheSame DEF T!Finish
  <2>4. CASE ~(Cardinality(out) > PageLimit)
    <3>1. T!Give(T!Page(out)) /\ pager' = [st |-> "done", sum |-> pager.sum] BY <2>1, <2>4, CountsTheSame DEF T!Finish
    <3>2. PICK c : c = PastEnd OBVIOUS
    <3>3. c \in Cursors /\ Progress(out, c) BY <1>11, <1>13, <2>2, <3>2
    <3>4. TableTypes' /\ SumSoFar' /\ T!Total' = T!Total /\ Progress({}, c)' BY <1>1, <1>11, <2>4, <3>1, <3>3, GivePage
    <3>5. Progress({}, PastEnd)' BY <3>2, <3>4 DEF Progress, AtOrBefore, T!Precedes, PastEnd
    <3>6. PICK sum : sum = pager.sum OBVIOUS
    <3>7. sum \in Nat /\ (still' = People => sum = T!Total') /\ pager' = [st |-> "done", sum |-> sum]
      BY <1>1, <1>2, <1>4, <3>1, <3>4, <3>6
    <3> QED BY <3>4, <3>5, <3>7, DoneState
  <2> QED BY <2>3, <2>4
<1>17. CASE ~(Cardinality(pager.names) <= n)
  <2>1. Cardinality(pager.names) > n BY <1>12, <1>17
  <2>2. to \in TableRows /\ to.t = T!None /\ Progress(out, to) /\ to \in Cursors /\ to \in Spots
    BY <1>9, <1>11, <2>1, RowsFinite DEF Spots
  <2>3. CASE pager.probes >= ProbeMax
    <3>1. T!Give(T!Page(out)) /\ pager' = [st |-> "next", at |-> T!Last(IF Cardinality(out) > PageLimit THEN T!Page(out) ELSE items)]
      BY <1>14, <1>17, <2>3
    <3>2. CASE Cardinality(out) > PageLimit BY <1>15, <3>1, <3>2
    <3>3. CASE ~(Cardinality(out) > PageLimit)
      <4>1. pager' = [st |-> "next", at |-> to] BY <1>9, <3>1, <3>3
      <4>2. TableTypes' /\ SumSoFar' /\ Progress({}, to)' BY <1>1, <1>11, <2>2, <3>1, <3>3, GivePage
      <4> QED BY <2>2, <4>1, <4>2, NextState
    <3> QED BY <3>2, <3>3
  <2>4. CASE ~(pager.probes >= ProbeMax) /\ Cardinality(out) > PageLimit
    <3>1. T!Finish(out) BY <1>14, <1>17, <2>4
    <3> QED BY <1>15, <2>4, <3>1, CountsTheSame DEF T!Finish
  <2>5. CASE ~(pager.probes >= ProbeMax) /\ ~(Cardinality(out) > PageLimit)
    <3>1. pager' = T!Reading(out, to, pager.probes, pager.sum) /\ UNCHANGED <<listed, shown>>
      BY <1>9, <1>14, <1>17, <2>5
    <3>2. Progress(out, to)' BY <1>1, <2>2, <3>1, SameProgress
    <3>3. SumSoFar' BY <1>1, <1>2, <3>1, SameListed
    <3>4. TableTypes' BY <1>1, <1>2, <3>1 DEF TableTypes
    <3>5. Cardinality(out) <= PageLimit BY <1>12, <2>5
    <3>6. PICK sum : sum = pager.sum OBVIOUS
    <3>7. PICK probes : probes = pager.probes OBVIOUS
    <3>8. /\ sum \in Nat /\ probes \in Nat /\ (still' = People => sum = T!Total') /\ (to.t # T!None => out = {})
          /\ pager' = T!Reading(out, to, probes, sum)
      BY <1>1, <1>2, <1>4, <2>2, <3>1, <3>6, <3>7, SameSums
    <3> QED BY <1>11, <2>2, <3>2, <3>3, <3>4, <3>5, <3>8, ReadingState
  <2> QED BY <2>3, <2>4, <2>5
<1> QED BY <1>16, <1>17

LEMMA ChangeKeeps ==
    ASSUME TableInv, NEW u \in People, T!Change(u), UNCHANGED <<pager, listed, shown>>,
           window' \in [People -> T!None .. MaxSum], accounts' \subseteq People,
           \A v \in People \ {u} : window'[v] = window[v] /\ (v \in accounts' <=> v \in accounts)
    PROVE  TableInv'
<1>1. still' = still \ {u} /\ u \notin still' /\ still' # People BY DEF T!Change
<1>2. TableTypes /\ TableTypes' BY <1>1 DEF TableInv, TableTypes
<1>3. \A v \in still \ {u} : window'[v] = window[v] /\ (v \in accounts' <=> v \in accounts) BY <1>2 DEF TableTypes
<1>4. ASSUME NEW out, NEW at, NEW names, NEW need
      PROVE  /\ Progress(out, at) => Progress(out, at)'
             /\ Named(names, at, need) => Named(names, at, need)'
             /\ (\A v \in still : listed[v] = IF Shows(v) THEN 1 ELSE 0) =>
                  (\A v \in still : listed[v] = IF Shows(v) THEN 1 ELSE 0)'
  BY <1>1, <1>2, <1>3, OthersStay
<1>5. pager \in PagerStates /\ pager' \in PagerStates' BY DEF TableInv, PagerStates, Readings, Spots, TableRows, T!Start, T!NotUsed, T!None
<1>6. SumInv' /\ SumSoFar' BY <1>1 DEF SumInv, SumSoFar
<1>7. ASSUME ReadingInv PROVE ReadingInv'
  <2>1. PICK at : at = pager.at OBVIOUS
  <2>2. PICK out : out = pager.out OBVIOUS
  <2>3. PICK names : names = pager.names OBVIOUS
  <2>4. PICK need : need = T!Need OBVIOUS
  <2>5. pager'.at = at /\ pager'.out = out /\ pager'.names = names /\ T!Need' = need /\ pager' = pager
    BY <2>1, <2>2, <2>3, <2>4 DEF T!Need
  <2>6. Progress(out, at)' BY <1>4, <1>7, <2>1, <2>2 DEF ReadingInv
  <2>7. Progress(pager.out, pager.at)' BY <2>5, <2>6 DEF Progress, AtOrBefore, T!Precedes
  <2>8. ASSUME pager'.st = "filter" PROVE Named(pager.names, pager.at, T!Need)'
    <3>1. Named(names, at, need) BY <1>7, <2>1, <2>3, <2>4, <2>5, <2>8 DEF ReadingInv
    <3>2. Named(names, at, need)' BY <1>4, <3>1
    <3> QED BY <2>5, <3>2 DEF Named, T!NotUsed
  <2> QED BY <1>7, <2>5, <2>7, <2>8 DEF ReadingInv
<1>8. ASSUME pager'.st = "next" PROVE Progress({}, pager.at)'
  <2>1. PICK at : at = pager.at OBVIOUS
  <2>2. Progress({}, at)' BY <1>4, <1>8, <2>1 DEF TableInv, PagerInv
  <2> QED BY <2>1, <2>2 DEF Progress, AtOrBefore, T!Precedes
<1>9. PagerInv' BY <1>4, <1>7, <1>8 DEF TableInv, PagerInv
<1> QED BY <1>2, <1>5, <1>6, <1>9 DEF TableInv

LEMMA TableStays == ASSUME TableInv, UNCHANGED tableVars PROVE TableInv'
<1>1. pager' = pager /\ UNCHANGED <<window, accounts, listed, shown, still>> BY DEF tableVars
<1>2. TableTypes' /\ SumSoFar' BY <1>1, SameListed DEF TableInv, TableTypes
<1>3. pager' \in PagerStates' BY <1>1 DEF TableInv, PagerStates, Readings, Spots, TableRows, T!Start, T!NotUsed, T!None
<1>4. PagerInv' /\ SumInv'
  BY <1>1 DEF TableInv, PagerInv, SumInv, ReadingInv, Progress, Named, Shows, T!HasRows, T!Row, T!NotUsed, AtOrBefore,
              T!Precedes, T!Need, T!Total, T!Tokens
<1> QED BY <1>2, <1>3, <1>4 DEF TableInv

LEMMA TableNext == ASSUME TableInv, T!Next PROVE TableInv'
<1>1. ASSUME NEW u \in People, T!Slide(u) PROVE TableInv'
  <2>1. window \in [People -> T!None .. MaxSum] /\ accounts \subseteq People BY DEF TableInv, TableTypes
  <2>2. PICK w \in T!None .. (window[u] - 1) : window' = [window EXCEPT ![u] = w] BY <1>1 DEF T!Slide
  <2>3. w \in T!None .. MaxSum
    <3>1. window[u] \in T!None .. MaxSum BY <2>1
    <3> QED BY <2>2, <3>1, AdminAssumption DEF T!None
  <2>4. /\ window' \in [People -> T!None .. MaxSum] /\ accounts' \subseteq People
        /\ \A v \in People \ {u} : window'[v] = window[v] /\ (v \in accounts' <=> v \in accounts)
    BY <1>1, <2>1, <2>2, <2>3 DEF T!Slide
  <2>5. T!Change(u) /\ UNCHANGED <<pager, listed, shown>> BY <1>1 DEF T!Slide
  <2> QED BY <2>4, <2>5, ChangeKeeps
<1>2. ASSUME NEW u \in People, T!Register(u) PROVE TableInv'
  <2>1. window \in [People -> T!None .. MaxSum] /\ accounts \subseteq People BY DEF TableInv, TableTypes
  <2>2. T!Change(u) /\ UNCHANGED <<window, pager, listed, shown>> /\ accounts' = accounts \union {u} BY <1>2 DEF T!Register
  <2>3. /\ window' \in [People -> T!None .. MaxSum] /\ accounts' \subseteq People
        /\ \A v \in People \ {u} : window'[v] = window[v] /\ (v \in accounts' <=> v \in accounts)
    BY <2>1, <2>2
  <2> QED BY <2>2, <2>3, ChangeKeeps
<1>3. ASSUME NEW u \in People, NEW n \in 0 .. MaxSum, T!Insert(u, n) PROVE TableInv'
  <2>1. window \in [People -> T!None .. MaxSum] /\ accounts \subseteq People BY DEF TableInv, TableTypes
  <2>2. PICK sum : sum = IF T!HasRows(u) THEN window[u] + n ELSE n OBVIOUS
  <2>3. sum <= MaxSum /\ window' = [window EXCEPT ![u] = sum] BY <1>3, <2>2 DEF T!Insert
  <2>4. sum \in T!None .. MaxSum
    <3>1. window[u] \in T!None .. MaxSum BY <2>1
    <3> QED BY <2>2, <2>3, <3>1, AdminAssumption DEF T!None, T!HasRows
  <2>5. T!Change(u) /\ UNCHANGED <<accounts, pager, listed, shown>> BY <1>3 DEF T!Insert
  <2>6. /\ window' \in [People -> T!None .. MaxSum] /\ accounts' \subseteq People
        /\ \A v \in People \ {u} : window'[v] = window[v] /\ (v \in accounts' <=> v \in accounts)
    BY <2>1, <2>3, <2>4, <2>5
  <2> QED BY <2>5, <2>6, ChangeKeeps
<1> QED BY <1>1, <1>2, <1>3, AskPageKeeps, ReadTopKeeps, ProbeKeeps, FilterKeeps, Zenon DEF T!Next

LEMMA TableInit == T!Init => TableInv
<1> SUFFICES ASSUME T!Init PROVE TableInv OBVIOUS
<1>1. /\ window \in [People -> T!None .. MaxSum] /\ accounts \subseteq People /\ pager = [st |-> "idle"]
      /\ listed = [u \in People |-> 0] /\ shown = 0 /\ still = People
  BY DEF T!Init
<1>2. TableTypes BY <1>1 DEF TableTypes
<1>3. pager.st = "idle" /\ pager \in PagerStates BY <1>1 DEF PagerStates
<1>4. PagerInv /\ SumInv BY <1>1, <1>3 DEF PagerInv, SumInv
<1>5. ListedRows = {} BY <1>1 DEF ListedRows
<1>6. SumSoFar BY <1>1, <1>5, NoTokens DEF SumSoFar
<1> QED BY <1>2, <1>3, <1>4, <1>6 DEF TableInv

LEMMA TableIsTyped == TableInv => T!TypeOK
<1> SUFFICES ASSUME TableInv PROVE T!TypeOK OBVIOUS
<1>1. pager.st \in {"idle", "top", "probe", "filter", "next", "done"} BY DEF TableInv, PagerStates, Readings
<1>2. ASSUME pager.st \in {"top", "probe", "filter"} PROVE Cardinality(pager.out) \in 0 .. PageLimit
  <2>1. Cardinality(pager.out) <= PageLimit BY <1>2 DEF TableInv, PagerInv, ReadingInv
  <2>2. Cardinality(pager.out) \in Nat BY <1>2, ReadingType, RowsFinite DEF TableInv
  <2> QED BY <2>1, <2>2, AdminAssumption
<1> QED BY <1>1, <1>2, CountsTheSame DEF T!TypeOK, TableInv, TableTypes

\* People without rows add nothing to the sum.
LEMMA EveryoneSums ==
    ASSUME TableTypes, still = People, \A v \in still : listed[v] = IF Shows(v) THEN 1 ELSE 0
    PROVE  T!Tokens(ListedRows) = T!Total
<1>1. PICK top : top = {T!Row(u) : u \in {v \in People : T!HasRows(v)}} OBVIOUS
<1>2. top \subseteq ListedRows BY <1>1 DEF ListedRows, Shows
<1>3. ASSUME NEW r \in ListedRows, r \notin top PROVE r.t = T!None
  <2>1. PICK v \in People : r = T!Row(v) BY DEF ListedRows
  <2> QED BY <1>1, <1>3, <2>1 DEF T!HasRows, T!Row
<1>4. TokensOf(ListedRows) = TokensOf(top)
  <2>1. ASSUME NEW x \in TokensOf(ListedRows) PROVE x \in TokensOf(top)
    <3>1. PICK r \in ListedRows : x \in {r} \X (1 .. r.t) BY DEF TokensOf
    <3>2. r.t # T!None
      <4> SUFFICES ASSUME r.t = T!None PROVE FALSE OBVIOUS
      <4>1. x[2] \in 1 .. T!None BY <3>1
      <4> QED BY <4>1 DEF T!None
    <3>3. r \in top BY <1>3, <3>2
    <3> QED BY <3>1, <3>3 DEF TokensOf
  <2>2. ASSUME NEW x \in TokensOf(top) PROVE x \in TokensOf(ListedRows) BY <1>2 DEF TokensOf
  <2> QED BY <2>1, <2>2
<1>5. T!Total = T!Tokens(top) BY <1>1 DEF T!Total
<1>6. T!Tokens(top) = Cardinality(TokensOf(top)) /\ T!Tokens(ListedRows) = Cardinality(TokensOf(ListedRows))
  BY CountsTheSame, Zenon DEF T!Tokens, TokensOf
<1> QED BY <1>4, <1>5, <1>6

LEMMA TableListsOnce == TableInv => T!ListedOnce
<1> SUFFICES ASSUME TableInv PROVE T!ListedOnce OBVIOUS
<1>1. still \subseteq People /\ TableTypes BY DEF TableInv, TableTypes
<1>2. ASSUME NEW v \in still PROVE listed[v] <= 1
  <2>1. pager.st \in {"idle", "top", "probe", "filter", "next", "done"} BY DEF TableInv, PagerStates, Readings
  <2>2. listed[v] \in {0, 1}
    <3>1. CASE pager.st = "idle" BY <1>1, <3>1 DEF TableInv, PagerInv
    <3>2. CASE pager.st = "next" BY <3>2 DEF TableInv, PagerInv, Progress
    <3>3. CASE pager.st = "done" BY <3>3 DEF TableInv, PagerInv
    <3>4. CASE pager.st \in {"top", "probe", "filter"} BY <3>4 DEF TableInv, PagerInv, ReadingInv, Progress
    <3> QED BY <2>1, <3>1, <3>2, <3>3, <3>4
  <2> QED BY <2>2
<1>3. ASSUME pager.st = "done"
      PROVE  /\ \A u \in still : T!HasRows(u) \/ u \in accounts => listed[u] = 1
             /\ still = People => shown = pager.sum
  <2>1. \A v \in still : listed[v] = IF Shows(v) THEN 1 ELSE 0 BY <1>3 DEF TableInv, PagerInv
  <2>2. still = People => pager.sum = T!Total /\ shown = T!Tokens(ListedRows) BY <1>3 DEF TableInv, SumInv, SumSoFar
  <2> QED BY <1>1, <2>1, <2>2, EveryoneSums DEF Shows
<1> QED BY <1>2, <1>3 DEF T!ListedOnce

-----------------------------------------------------------------------------
(* The parts side by side.                                                 *)

LEMMA AdminSteps == [AdminNext]_allVars => [Next]_vars
BY DEF AdminNext, allVars

LEMMA AccountsPart == AdminSpec => Spec
<1>1. AdminInit => Init BY DEF AdminInit
<1> QED BY <1>1, AdminSteps, PTL DEF AdminSpec, Spec

PartsInv == /\ part = "groups" => GroupsInv
            /\ part = "quota" => QuotaInv
            /\ part = "table" => TableInv

LEMMA PartsInit == AdminInit => PartsInv
BY GroupsInit, QuotaInit, TableInit DEF AdminInit, PartsInv

LEMMA PartsNext == PartsInv /\ [AdminNext]_allVars => PartsInv'
<1> SUFFICES ASSUME PartsInv, [AdminNext]_allVars PROVE PartsInv' OBVIOUS
<1>1. CASE part = "groups" /\ G!Next /\ UNCHANGED part
  BY <1>1, GroupsNext DEF PartsInv
<1>2. CASE part = "quota" /\ Q!Next /\ UNCHANGED part
  BY <1>2, QuotaNext DEF PartsInv
<1>3. CASE part = "table" /\ T!Next /\ UNCHANGED part
  BY <1>3, TableNext DEF PartsInv
<1>4. CASE part = "accounts" /\ UNCHANGED part
  BY <1>4 DEF PartsInv
<1>5. CASE UNCHANGED allVars
  <2>1. GroupsInv => GroupsInv'
    BY <1>5 DEF allVars, groupsVars, GroupsInv, GroupsTyped, NewUnnamed, GoneUnnamed, EditsOK,
                NamesIn, OneWillBeCleared, WillClear
  <2>2. QuotaInv => QuotaInv'
    <3>1. UNCHANGED <<limit, members, ledger, turn>> BY <1>5 DEF allVars, quotaVars
    <3>2. \A u \in Payers : Q!Busy(u)' = Q!Busy(u) BY <3>1, BusyIs, BusyNext DEF Mine
    <3> QED BY <3>1, <3>2 DEF QuotaInv, QuotaTyped, TurnsOK
  <2>3. TableInv => TableInv' BY <1>5, TableStays DEF allVars
  <2>4. UNCHANGED part BY <1>5 DEF allVars
  <2> QED BY <2>1, <2>2, <2>3, <2>4 DEF PartsInv
<1> QED BY <1>1, <1>2, <1>3, <1>4, <1>5 DEF AdminNext

(* The gate of a turn: once the rows that were written have reached a limit *)
(* the next turn is refused, whatever rows, turns, midnights and changes of *)
(* limits come between the gate's reads (quota.js).                        *)
THEOREM LimitsAreGated == AdminSpec => []Gated
<1>1. PartsInv => Gated BY QuotaSafe DEF PartsInv, Gated
<1> QED BY <1>1, PartsInit, PartsNext, PTL DEF AdminSpec

(* Groups, accounts and models agree: at most one group is the default     *)
(* when the requests that set it are done, and nothing names a group that  *)
(* was deleted, however requests interleave and wherever they fail         *)
(* (group-store.js, clearGroup of user-store.js, dropGroup of model-store). *)
THEOREM RecordsAgree == AdminSpec => []Consistent
<1>1. PartsInv => Consistent BY GroupsSafe DEF PartsInv, Consistent
<1> QED BY <1>1, PartsInit, PartsNext, PTL DEF AdminSpec

(* The administrator's table of tokens has every person once: whoever      *)
(* nothing happens to between two pages is given one row, and with nothing *)
(* written the rows add up to the total that every page repeats (userPage, *)
(* usage-store.js and accounts/store.js).                                  *)
THEOREM TableListsEveryoneOnce == AdminSpec => []ListedOnce
<1>1. PartsInv => ListedOnce BY TableListsOnce DEF PartsInv, ListedOnce
<1> QED BY <1>1, PartsInit, PartsNext, PTL DEF AdminSpec

(* The types of the four.                                                  *)
THEOREM AdminTyped == AdminSpec => []AllTypeOK
<1>1. PartsInv /\ TypeOK => AllTypeOK BY GroupsSafe, QuotaSafe, TableIsTyped DEF PartsInv, AllTypeOK
<1> QED BY <1>1, AccountsPart, TypeCorrect, PartsInit, PartsNext, PTL DEF AdminSpec
=============================================================================
