---------------------------- MODULE FleetProofs ----------------------------
(* Proofs about Fleet, for any nodes, users, callers and times to live. *)
EXTENDS Fleet, FiniteSetTheorems, TLAPS

WorkerType == [up : BOOLEAN, stopped : BOOLEAN, registered : BOOLEAN,
               regTimer : Timers, hbTimer : Timers]
CallType == [kind : {"register", "heartbeat", "deregister"}, node : Nodes,
             stage : {"sent", "read", "written", "ok", "conflict", "failed"},
             held : SUBSET Tickets, draining : BOOLEAN, waiting : BOOLEAN]
ListerType == [stage : {"idle", "ids", "details", "deleted"}, ids : SUBSET Nodes, recs : Lists]
SnapshotType == [nodes : Lists, life : 0..CacheTtl, blind : BOOLEAN]
TicketType == [nid : Nodes, user : Users \union {Operator}, scp : {"lease", "admin"},
               life : 0..TicketTtl]

(* TypeOK by the parts that the actions change.                            *)
WorkersOK == worker \in [Nodes -> WorkerType]
CallsOK == call \in [Calls -> CallType \union {NoCall}]
DetailOK == detail \in [Nodes -> Records \union {NoRecord}]
NamesOK == directory \subseteq Nodes /\ drains \subseteq Nodes
ListersOK == lister \in [{"pick", "reconcile"} -> ListerType]
SnapshotOK == snapshot \in SnapshotType
TicketsOK == ticket \in [Tickets -> TicketType \union {NoTicket}]
HeldOK == seen \in [Nodes -> SUBSET Signed] /\ leases \in [Nodes -> SUBSET Signed]
UsesOK == uses \in [Tickets -> Nat]
AgesOK == drainAge \in [Nodes -> NotDrained..CacheTtl]
BoundsOK == faults \in 0..MaxFaults /\ acts \in 0..MaxActs
ManagerOK == DetailOK /\ NamesOK /\ AgesOK
PickOK == ListersOK /\ SnapshotOK

LEMMA TypeParts ==
    TypeOK <=> /\ WorkersOK /\ CallsOK /\ ManagerOK /\ PickOK /\ TicketsOK /\ HeldOK
               /\ UsesOK /\ BoundsOK
BY DEF TypeOK, WorkersOK, CallsOK, ManagerOK, DetailOK, NamesOK, AgesOK, PickOK, ListersOK,
       SnapshotOK, TicketsOK, HeldOK, UsesOK, BoundsOK, WorkerType, CallType, TicketType,
       ListerType, SnapshotType

LEMMA TypePartsNext ==
    ASSUME WorkersOK', CallsOK', ManagerOK', PickOK', TicketsOK', HeldOK', UsesOK', BoundsOK'
    PROVE  TypeOK'
BY DEF TypeOK, WorkersOK, CallsOK, ManagerOK, DetailOK, NamesOK, AgesOK, PickOK, ListersOK,
       SnapshotOK, TicketsOK, HeldOK, UsesOK, BoundsOK, WorkerType, CallType, TicketType,
       ListerType, SnapshotType

LEMMA Numbers ==
    /\ Slots \in Nat /\ Slots > 0 /\ Limit \in Nat /\ Limit > 0 /\ StaleTtl \in Nat /\ StaleTtl > 1
    /\ CacheTtl \in Nat /\ CacheTtl > 0 /\ TicketTtl \in Nat /\ TicketTtl > 0
    /\ PerUser \in Nat /\ PurgeAbove \in Nat /\ MaxTickets \in Nat /\ MaxFaults \in Nat
    /\ MaxActs \in Nat
BY FleetAssumption

(* What is none of the things that it stands for.                          *)
LEMMA Nones ==
    /\ NoRecord \notin Records /\ NoCall \notin CallType /\ NoTicket \notin TicketType
<1>1. ASSUME NEW r \in Records PROVE r # NoRecord
  <2>1. r.kind \in {"register", "heartbeat"} BY DEF Records
  <2> QED BY <2>1 DEF NoRecord
<1>2. ASSUME NEW r \in CallType PROVE r # NoCall
  <2>1. r.kind \in {"register", "heartbeat", "deregister"} BY DEF CallType
  <2> QED BY <2>1 DEF NoCall
<1>3. ASSUME NEW r \in TicketType PROVE r # NoTicket
  <2>1. r.scp \in {"lease", "admin"} BY DEF TicketType
  <2> QED BY <2>1 DEF NoTicket
<1> QED BY <1>1, <1>2, <1>3

(* Records by node.                                                        *)
LEMMA ListsFacts ==
    /\ \A r \in Lists : DOMAIN r \subseteq Nodes /\ \A n \in DOMAIN r : r[n] \in Records
    /\ \A D \in SUBSET Nodes : \A r \in [D -> Records] : r \in Lists
BY DEF Lists

LEMMA NoLists == Idle.recs \in Lists /\ DOMAIN Idle.recs = {} /\ Idle \in ListerType
<1>1. Idle.recs = [n \in {} |-> NoRecord] BY DEF Idle
<1>2. DOMAIN Idle.recs = {} BY <1>1
<1>3. Idle.recs \in [{} -> Records] BY <1>1
<1>4. Idle.recs \in Lists BY <1>3, ListsFacts
<1>5. PICK r : r = Idle.recs OBVIOUS
<1>6. Idle = [stage |-> "idle", ids |-> {}, recs |-> r] BY <1>5 DEF Idle
<1>7. Idle \in ListerType BY <1>4, <1>5, <1>6 DEF ListerType
<1> QED BY <1>2, <1>4, <1>7

LEMMA TypeInit == Init => TypeOK
<1> SUFFICES ASSUME Init PROVE TypeOK OBVIOUS
<1>1. WorkersOK BY DEF Init, WorkersOK, WorkerType, Fresh, Timers
<1>2. CallsOK BY DEF Init, CallsOK
<1>3. ManagerOK
  <2>1. NotDrained \in NotDrained..CacheTtl BY Numbers DEF NotDrained
  <2> QED BY <2>1 DEF Init, ManagerOK, DetailOK, NamesOK, AgesOK
<1>4. ListersOK
  <2> QED BY NoLists DEF Init, ListersOK
<1>5. SnapshotOK
  <2>1. PICK r : r = Idle.recs OBVIOUS
  <2>2. snapshot = [nodes |-> r, life |-> 0, blind |-> FALSE] BY <2>1 DEF Init
  <2>3. r \in Lists /\ 0 \in 0..CacheTtl BY <2>1, NoLists, Numbers
  <2> QED BY <2>2, <2>3 DEF SnapshotOK, SnapshotType
<1>6. TicketsOK /\ HeldOK /\ UsesOK BY DEF Init, TicketsOK, HeldOK, UsesOK
<1>7. BoundsOK BY Numbers DEF Init, BoundsOK
<1> QED BY <1>1, <1>2, <1>3, <1>4, <1>5, <1>6, <1>7, TypeParts DEF PickOK
---------------------------------------------------------------------------
(* What an action leaves alone keeps its type.                             *)
LEMMA Frames ==
    ASSUME TypeOK
    PROVE  /\ worker' = worker => WorkersOK'
           /\ call' = call => CallsOK'
           /\ UNCHANGED registryVars => ManagerOK'
           /\ UNCHANGED pickVars => PickOK'
           /\ ticket' = ticket => TicketsOK' /\ Signed' = Signed
           /\ Signed \subseteq Signed' /\ seen' = seen /\ leases' = leases => HeldOK'
           /\ uses' = uses => UsesOK'
           /\ UNCHANGED <<faults, acts>> => BoundsOK'
<1>0. /\ WorkersOK /\ CallsOK /\ ManagerOK /\ PickOK /\ TicketsOK /\ HeldOK
      /\ UsesOK /\ BoundsOK
  BY TypeParts
<1>1. worker' = worker => WorkersOK' BY <1>0 DEF WorkersOK
<1>2. call' = call => CallsOK' BY <1>0 DEF CallsOK
<1>3. UNCHANGED registryVars => ManagerOK'
  BY <1>0 DEF registryVars, ManagerOK, DetailOK, NamesOK, AgesOK
<1>4. UNCHANGED pickVars => PickOK' BY <1>0 DEF pickVars, PickOK, ListersOK, SnapshotOK
<1>5. ticket' = ticket => TicketsOK' /\ Signed' = Signed BY <1>0 DEF TicketsOK, Signed
<1>6. ASSUME Signed \subseteq Signed', seen' = seen, leases' = leases PROVE HeldOK'
  <2>1. PICK s : s = Signed' OBVIOUS
  <2>2. seen \in [Nodes -> SUBSET s] /\ leases \in [Nodes -> SUBSET s]
    <3>1. Signed \subseteq s BY <1>6, <2>1
    <3>2. seen \in [Nodes -> SUBSET Signed] /\ leases \in [Nodes -> SUBSET Signed]
      BY <1>0 DEF HeldOK
    <3>3. PICK t : t = Signed OBVIOUS
    <3> QED BY <3>1, <3>2, <3>3
  <2> QED BY <1>6, <2>1, <2>2 DEF HeldOK
<1>7. uses' = uses => UsesOK' BY <1>0 DEF UsesOK
<1>8. UNCHANGED <<faults, acts>> => BoundsOK' BY <1>0 DEF BoundsOK
<1> QED BY <1>1, <1>2, <1>3, <1>4, <1>5, <1>6, <1>7, <1>8

LEMMA FaultType == ASSUME TypeOK, Fault, acts' = acts PROVE BoundsOK'
<1>1. faults \in 0..MaxFaults /\ acts \in 0..MaxActs BY DEF TypeOK
<1> QED BY <1>1, Numbers DEF Fault, BoundsOK

LEMMA ActType == ASSUME TypeOK, Act, faults' = faults PROVE BoundsOK'
<1>1. faults \in 0..MaxFaults /\ acts \in 0..MaxActs BY DEF TypeOK
<1> QED BY <1>1, Numbers DEF Act, BoundsOK

LEMMA WorkerTypes ==
    ASSUME NEW w \in WorkerType
    PROVE  /\ HeartbeatLater(w) \in WorkerType /\ RegisterNow(w) \in WorkerType
           /\ RegisterLater(w) \in WorkerType
           /\ \A b \in BOOLEAN : [w EXCEPT !.registered = b] \in WorkerType
BY DEF WorkerType, HeartbeatLater, RegisterNow, RegisterLater, Timers

LEMMA AnsweredType ==
    ASSUME NEW w \in WorkerType, NEW kind \in {"register", "heartbeat", "deregister"},
           NEW outcome
    PROVE  Answered(w, kind, outcome) \in WorkerType
<1>0. PICK on : on = [w EXCEPT !.registered = TRUE] OBVIOUS
<1>1. PICK off : off = [w EXCEPT !.registered = FALSE] OBVIOUS
<1>2. on \in WorkerType /\ off \in WorkerType BY <1>0, <1>1 DEF WorkerType
<1>3. HeartbeatLater(on) \in WorkerType /\ HeartbeatLater(w) \in WorkerType
      /\ RegisterLater(w) \in WorkerType /\ RegisterNow(off) \in WorkerType
  BY <1>2, WorkerTypes
<1>4. HeartbeatLater(RegisterNow(off)) \in WorkerType BY <1>3, WorkerTypes
<1>5. \/ Answered(w, kind, outcome) = HeartbeatLater(on)
      \/ Answered(w, kind, outcome) = RegisterLater(w)
      \/ Answered(w, kind, outcome) = HeartbeatLater(RegisterNow(off))
      \/ Answered(w, kind, outcome) = HeartbeatLater(w)
      \/ Answered(w, kind, outcome) = off
  BY <1>0, <1>1 DEF Answered
<1> QED BY <1>2, <1>3, <1>4, <1>5

LEMMA SendType ==
    ASSUME TypeOK, NEW c \in Calls, NEW n \in Nodes,
           NEW kind \in {"register", "heartbeat", "deregister"}, Send(c, n, kind)
    PROVE  CallsOK'
<1>1. leases[n] \in SUBSET Signed /\ worker[n].stopped \in BOOLEAN BY DEF TypeOK
<1>2. Signed \subseteq Tickets BY DEF Signed
<1>3. PICK x : x = [kind |-> kind, node |-> n, stage |-> "sent", held |-> leases[n],
                    draining |-> worker[n].stopped, waiting |-> TRUE]
  OBVIOUS
<1>4. PICK h : h = leases[n] OBVIOUS
<1>5. PICK d : d = worker[n].stopped OBVIOUS
<1>6. h \in SUBSET Tickets /\ d \in BOOLEAN BY <1>1, <1>2, <1>4, <1>5
<1>7. x \in CallType BY <1>3, <1>4, <1>5, <1>6 DEF CallType
<1>8. call \in [Calls -> CallType \union {NoCall}] BY TypeParts DEF CallsOK
<1>9. call' = [call EXCEPT ![c] = x] BY <1>3 DEF Send
<1> QED BY <1>7, <1>8, <1>9 DEF CallsOK

LEMMA GoneType ==
    ASSUME TypeOK, NEW n \in Nodes, Gone(n)
    PROVE  /\ WorkersOK' /\ CallsOK'
           /\ leases' \in [Nodes -> SUBSET Signed]
<1>0. WorkersOK /\ CallsOK /\ HeldOK BY TypeParts
<1>1. Fresh \in WorkerType BY DEF Fresh, WorkerType, Timers
<1>2. WorkersOK' BY <1>0, <1>1 DEF Gone, WorkersOK
<1>3. \A c \in Calls : call[c] # NoCall => [call[c] EXCEPT !.waiting = FALSE] \in CallType
  BY <1>0 DEF CallsOK, CallType
<1>4. CallsOK' BY <1>0, <1>3 DEF Gone, CallsOK
<1>5. leases' \in [Nodes -> SUBSET Signed] BY <1>0 DEF Gone, HeldOK
<1> QED BY <1>2, <1>4, <1>5
---------------------------------------------------------------------------
(* The types after each action.                                            *)
LEMMA HeldType ==
    ASSUME UNCHANGED ticket, seen' \in [Nodes -> SUBSET Signed], leases' \in [Nodes -> SUBSET Signed]
    PROVE  HeldOK'
<1>1. Signed' = Signed BY DEF Signed
<1>2. PICK s : s = Signed OBVIOUS
<1>3. seen' \in [Nodes -> SUBSET s] /\ leases' \in [Nodes -> SUBSET s] BY <1>2
<1> QED BY <1>1, <1>2, <1>3 DEF HeldOK

LEMMA TypeStart == ASSUME TypeOK, NEW n \in Nodes, Start(n) PROVE TypeOK'
<1>0. WorkersOK /\ HeldOK /\ UsesOK BY TypeParts
<1>1. UNCHANGED <<call, registryVars, pickVars, ticket, faults, acts>> BY DEF Start
<1>2. CallsOK' /\ ManagerOK' /\ PickOK' /\ TicketsOK' /\ BoundsOK' BY <1>1, Frames
<1>3. PICK w : w = [Fresh EXCEPT !.up = TRUE, !.regTimer = "due"] OBVIOUS
<1>4. w \in WorkerType BY <1>3 DEF Fresh, WorkerType, Timers
<1>5. WorkersOK' BY <1>0, <1>3, <1>4 DEF Start, WorkersOK
<1>6. seen' = [seen EXCEPT ![n] = {}] /\ leases' = [leases EXCEPT ![n] = {}] BY DEF Start
<1>7. seen' \in [Nodes -> SUBSET Signed] /\ leases' \in [Nodes -> SUBSET Signed]
  BY <1>0, <1>6 DEF HeldOK
<1>8. HeldOK' BY <1>1, <1>7, HeldType
<1>9. UsesOK' BY <1>0 DEF Start, UsesOK
<1> QED BY <1>2, <1>5, <1>8, <1>9, TypePartsNext

LEMMA TypeSend ==
    ASSUME TypeOK, NEW c \in Calls, NEW n \in Nodes, SendRegister(c, n) \/ SendHeartbeat(c, n)
    PROVE  TypeOK'
<1>0. WorkersOK BY TypeParts
<1>1. UNCHANGED <<registryVars, pickVars, ticket, nodeVars, faults, acts>>
  BY DEF SendRegister, SendHeartbeat
<1>2. ManagerOK' /\ PickOK' /\ TicketsOK' /\ HeldOK' /\ UsesOK' /\ BoundsOK'
  BY <1>1, Frames DEF nodeVars
<1>3. CallsOK' BY SendType DEF SendRegister, SendHeartbeat
<1>4. WorkersOK'
  BY <1>0 DEF SendRegister, SendHeartbeat, WorkersOK, WorkerType, Timers
<1> QED BY <1>2, <1>3, <1>4, TypePartsNext

LEMMA TypeAnswer == ASSUME TypeOK, NEW c \in Calls, Answer(c) \/ CallLost(c) PROVE TypeOK'
<1>0. WorkersOK /\ CallsOK BY TypeParts
<1>1. UNCHANGED <<registryVars, pickVars, ticket, nodeVars, acts>> BY DEF Answer, CallLost
<1>2. ManagerOK' /\ PickOK' /\ TicketsOK' /\ HeldOK' /\ UsesOK'
  BY <1>1, Frames DEF nodeVars
<1>3. BoundsOK'
  <2>1. CASE Answer(c) BY <2>1, Frames DEF Answer
  <2>2. CASE CallLost(c) BY <1>1, <2>2, FaultType DEF CallLost
  <2> QED BY <2>1, <2>2
<1>4. call[c] \in CallType BY <1>0 DEF Answer, CallLost, CallsOK
<1>5. CallsOK'
  <2>1. [call[c] EXCEPT !.waiting = FALSE] \in CallType BY <1>4 DEF CallType
  <2> QED BY <1>0, <2>1 DEF Answer, CallLost, CallsOK
<1>6. WorkersOK'
  <2>1. PICK n : n = call[c].node OBVIOUS
  <2>2. n \in Nodes /\ call[c].kind \in {"register", "heartbeat", "deregister"}
    BY <1>4, <2>1 DEF CallType
  <2>3. PICK outcome : \/ worker' = [worker EXCEPT ![n] = Answered(worker[n], call[c].kind, outcome)]
                       \/ worker' = worker
    BY <2>1 DEF Answer, CallLost
  <2>4. Answered(worker[n], call[c].kind, outcome) \in WorkerType
    BY <1>0, <2>2, AnsweredType DEF WorkersOK
  <2> QED BY <1>0, <2>2, <2>3, <2>4 DEF WorkersOK
<1> QED BY <1>2, <1>3, <1>5, <1>6, TypePartsNext

LEMMA TypeStop == ASSUME TypeOK, NEW n \in Nodes, Stop(n) PROVE TypeOK'
<1>0. WorkersOK BY TypeParts
<1>1. UNCHANGED <<registryVars, pickVars, ticket, nodeVars, faults, acts>> BY DEF Stop
<1>2. ManagerOK' /\ PickOK' /\ TicketsOK' /\ HeldOK' /\ UsesOK' /\ BoundsOK'
  BY <1>1, Frames DEF nodeVars
<1>3. CallsOK'
  <2>1. CASE UNCHANGED call BY <2>1, Frames
  <2>2. CASE \E c \in Calls : Send(c, n, "deregister") BY <2>2, SendType
  <2> QED BY <2>1, <2>2 DEF Stop
<1>4. WorkersOK'
  <2>1. worker[n] \in WorkerType BY <1>0 DEF WorkersOK
  <2>2. PICK w : w = [worker[n] EXCEPT !.stopped = TRUE, !.hbTimer = "off", !.regTimer = "off"]
    OBVIOUS
  <2>3. w \in WorkerType BY <2>1, <2>2 DEF WorkerType, Timers
  <2>4. worker' = [worker EXCEPT ![n] = w] BY <1>0, <2>2 DEF Stop, WorkersOK
  <2> QED BY <1>0, <2>3, <2>4 DEF WorkersOK
<1> QED BY <1>2, <1>3, <1>4, TypePartsNext

LEMMA TypeGone == ASSUME TypeOK, NEW n \in Nodes, Exit(n) \/ Crash(n) PROVE TypeOK'
<1>0. HeldOK BY TypeParts
<1>1. UNCHANGED <<registryVars, pickVars, ticket, seen, uses, acts>> /\ Gone(n)
  BY DEF Exit, Crash
<1>2. ManagerOK' /\ PickOK' /\ TicketsOK' /\ UsesOK' BY <1>1, Frames
<1>3. WorkersOK' /\ CallsOK' /\ leases' \in [Nodes -> SUBSET Signed] BY <1>1, GoneType
<1>4. HeldOK' BY <1>0, <1>1, <1>3, HeldType DEF HeldOK
<1>5. BoundsOK'
  <2>1. CASE Exit(n) BY <2>1, Frames DEF Exit
  <2>2. CASE Crash(n) BY <1>1, <2>2, FaultType DEF Crash
  <2> QED BY <2>1, <2>2 DEF Exit
<1> QED BY <1>2, <1>3, <1>4, <1>5, TypePartsNext

LEMMA StageType ==
    ASSUME TypeOK, NEW c \in Calls, call[c] # NoCall, NEW s, Stage(c, s),
           s \in {"sent", "read", "written", "ok", "conflict", "failed"}
    PROVE  CallsOK'
<1>0. call \in [Calls -> CallType \union {NoCall}] BY TypeParts DEF CallsOK
<1>1. PICK x : x = [call[c] EXCEPT !.stage = s] OBVIOUS
<1>2. x \in CallType BY <1>0, <1>1 DEF CallType
<1>3. call' = [call EXCEPT ![c] = x] BY <1>1 DEF Stage
<1> QED BY <1>0, <1>2, <1>3 DEF CallsOK

LEMMA TypeRoutes ==
    ASSUME TypeOK, NEW c \in Calls,
           ReadPrev(c) \/ WriteDetail(c) \/ WriteDirectory(c) \/ Deregister(c) \/ StatementFails(c)
    PROVE  TypeOK'
<1>0. CallsOK /\ ManagerOK BY TypeParts
<1>1. UNCHANGED <<worker, drains, drainAge, pickVars, ticket, nodeVars, acts>>
  BY DEF ReadPrev, WriteDetail, WriteDirectory, Deregister, StatementFails, registryVars
<1>2. WorkersOK' /\ PickOK' /\ TicketsOK' /\ HeldOK' /\ UsesOK' BY <1>1, Frames DEF nodeVars
<1>3. call[c] \in CallType /\ call[c] # NoCall
  BY <1>0 DEF ReadPrev, WriteDetail, WriteDirectory, Deregister, StatementFails, At, CallsOK
<1>4. PICK s \in {"sent", "read", "written", "ok", "conflict", "failed"} : Stage(c, s)
  BY DEF ReadPrev, WriteDetail, WriteDirectory, Deregister, StatementFails
<1>5. CallsOK' BY <1>3, <1>4, StageType
<1>6. BoundsOK'
  <2>1. CASE StatementFails(c) BY <1>1, <2>1, FaultType DEF StatementFails
  <2>2. CASE ~StatementFails(c)
    BY <2>2, Frames DEF ReadPrev, WriteDetail, WriteDirectory, Deregister
  <2> QED BY <2>1, <2>2
<1>7. call[c].node \in Nodes /\ call[c].held \in SUBSET Tickets /\ call[c].draining \in BOOLEAN
  BY <1>3 DEF CallType
<1>8. DetailOK'
  <2>1. CASE WriteDetail(c)
    <3>1. PICK k : k = call[c].kind OBVIOUS
    <3>2. k \in {"register", "heartbeat"} BY <2>1, <3>1 DEF WriteDetail, At
    <3>3. PICK h : h = IF k = "register" THEN {} ELSE call[c].held OBVIOUS
    <3>4. PICK d : d = (k = "heartbeat" /\ call[c].draining) OBVIOUS
    <3>5. h \in SUBSET Tickets /\ d \in BOOLEAN BY <1>7, <3>3, <3>4
    <3>6. PICK x : x = Record(k, h, d) OBVIOUS
    <3>7. x \in Records BY <3>2, <3>5, <3>6, Numbers DEF Record, Records
    <3>8. detail' = [detail EXCEPT ![call[c].node] = x]
      BY <2>1, <3>1, <3>3, <3>4, <3>6 DEF WriteDetail
    <3> QED BY <1>0, <1>7, <3>7, <3>8 DEF ManagerOK, DetailOK
  <2>2. CASE ~WriteDetail(c)
    BY <1>0, <1>7, <2>2
       DEF ReadPrev, WriteDirectory, Deregister, StatementFails, registryVars, ManagerOK, DetailOK
  <2> QED BY <2>1, <2>2
<1>9. NamesOK' /\ AgesOK'
  BY <1>0, <1>1, <1>7 DEF ReadPrev, WriteDetail, WriteDirectory, Deregister, StatementFails, registryVars,
     ManagerOK, NamesOK, AgesOK
<1>10. ManagerOK' BY <1>8, <1>9 DEF ManagerOK
<1> QED BY <1>2, <1>5, <1>6, <1>10, TypePartsNext
---------------------------------------------------------------------------
(* Tickets are numbered as they are signed, so that a new one replaces     *)
(* none.                                                                   *)
Numbered == Signed = 1..Cardinality(Signed)
New(new, from, u) ==
    /\ new \in SUBSET Tickets /\ new \intersect Signed = {}
    /\ \E m \in Nat : Signed \union new = 1..m
    /\ ticket' = [j \in Tickets |-> ticket'[j]]
    /\ \A j \in Tickets \ new : ticket'[j] = ticket[j]
    /\ \A j \in new : \E n \in from, scp \in {"lease", "admin"} : ticket'[j] = Ticket(n, u, scp)
Grows(from, u) == \E new : New(new, from, u)

LEMMA SignedFacts == Signed \subseteq Tickets /\ IsFiniteSet(Signed) /\ Cardinality(Signed) \in Nat
<1>1. Signed \in SUBSET Tickets BY DEF Signed
<1>2. IsFiniteSet(Tickets) BY Numbers, FS_Interval DEF Tickets
<1> QED BY <1>1, <1>2, FS_Subset, FS_CardinalityType

LEMMA TicketFacts ==
    ASSUME NEW n \in Nodes, NEW u \in Users \union {Operator}, NEW scp \in {"lease", "admin"}
    PROVE  /\ Ticket(n, u, scp) \in TicketType /\ Ticket(n, u, scp) # NoTicket
           /\ Ticket(n, u, scp).nid = n /\ Ticket(n, u, scp).user = u
<1>1. Ticket(n, u, scp) \in TicketType BY Numbers DEF Ticket, TicketType
<1> QED BY <1>1, Nones DEF Ticket

LEMMA SameTickets ==
    ASSUME TypeOK, Numbered, ticket' = ticket, NEW from, NEW u
    PROVE  Grows(from, u)
<1>1. Signed \union {} = 1..Cardinality(Signed) BY DEF Numbered
<1>2. ticket \in [Tickets -> TicketType \union {NoTicket}] BY TypeParts DEF TicketsOK
<1>3. New({}, from, u) BY <1>1, <1>2, SignedFacts DEF New
<1> QED BY <1>3 DEF Grows

LEMMA Picked ==
    ASSUME NEW recs \in Lists, NEW C \in Picks(recs)
    PROVE  C \subseteq {n \in DOMAIN recs : ~recs[n].draining} /\ C \subseteq Nodes /\ IsFiniteSet(C)
<1>1. C \subseteq {n \in DOMAIN recs : ~recs[n].draining} BY DEF Picks, Schedulable
<1>2. C \subseteq Nodes BY <1>1, ListsFacts
<1> QED BY <1>1, <1>2, FleetAssumption, FS_Subset

LEMMA IssueOutcome ==
    ASSUME TypeOK, Numbered, NEW recs \in Lists, NEW u \in Users, IssueAll(recs, u)
    PROVE  Grows({n \in DOMAIN recs : ~recs[n].draining}, u)
<1> DEFINE from == {n \in DOMAIN recs : ~recs[n].draining}
<1>1. PICK C \in Picks(recs) :
        LET k == Cardinality(Signed) IN
        IF ~WithinQuota(recs, u) \/ k + Cardinality(C) > MaxTickets THEN UNCHANGED ticket
        ELSE \E f \in Bijection(C, (k + 1)..(k + Cardinality(C))) :
               ticket' = [j \in Tickets |->
                            IF j \in Range(f)
                            THEN Ticket(CHOOSE n \in C : f[n] = j, u, "lease")
                            ELSE ticket[j]]
  BY DEF IssueAll
<1>2. PICK k : k = Cardinality(Signed) OBVIOUS
<1>3. PICK m : m = Cardinality(C) OBVIOUS
<1>4. k \in Nat /\ Signed = 1..k BY <1>2, SignedFacts DEF Numbered
<1>5. C \subseteq from /\ IsFiniteSet(C) BY Picked
<1>6. m \in Nat BY <1>3, <1>5, FS_CardinalityType
<1>7. CASE UNCHANGED ticket BY <1>7, SameTickets
<1>8. CASE /\ ~(k + m > MaxTickets)
           /\ \E f \in Bijection(C, (k + 1)..(k + m)) :
               ticket' = [j \in Tickets |->
                            IF j \in Range(f)
                            THEN Ticket(CHOOSE n \in C : f[n] = j, u, "lease")
                            ELSE ticket[j]]
  <2>1. PICK f \in Bijection(C, (k + 1)..(k + m)) :
               ticket' = [j \in Tickets |->
                            IF j \in Range(f)
                            THEN Ticket(CHOOSE n \in C : f[n] = j, u, "lease")
                            ELSE ticket[j]]
    BY <1>8
  <2>2. /\ f \in [C -> (k + 1)..(k + m)]
        /\ \A j \in (k + 1)..(k + m) : \E n \in C : f[n] = j
    BY DEF Bijection, Surjection
  <2>3. PICK new : new = (k + 1)..(k + m) OBVIOUS
  <2>4. Range(f) = new BY <2>2, <2>3 DEF Range
  <2>5. new \in SUBSET Tickets /\ new \intersect Signed = {} /\ Signed \union new = 1..(k + m)
    BY <1>4, <1>6, <1>8, <2>3, Numbers DEF Tickets
  <2>6. ASSUME NEW j \in new
        PROVE  \E n \in from : ticket'[j] = Ticket(n, u, "lease")
    <3>1. (CHOOSE n \in C : f[n] = j) \in C BY <2>2, <2>3, <2>6
    <3>2. ticket'[j] = Ticket(CHOOSE n \in C : f[n] = j, u, "lease") BY <2>1, <2>4, <2>5
    <3> QED BY <1>5, <3>1, <3>2
  <2>7. \A j \in Tickets \ new : ticket'[j] = ticket[j] BY <2>1, <2>4
  <2>8. ticket' = [j \in Tickets |-> ticket'[j]] BY <2>1
  <2>9. \E q \in Nat : Signed \union new = 1..q BY <1>4, <1>6, <2>5
  <2>10. New(new, from, u) BY <2>5, <2>6, <2>7, <2>8, <2>9 DEF New
  <2> QED BY <2>10 DEF Grows
<1> QED BY <1>1, <1>2, <1>3, <1>7, <1>8

LEMMA ConsoleOutcome ==
    ASSUME TypeOK, Numbered, NEW n \in Nodes, NEW scp \in {"lease", "admin"}, ConsoleTicket(n, scp)
    PROVE  Grows(Nodes, Operator)
<1>1. PICK k : k = Cardinality(Signed) OBVIOUS
<1>2. k \in Nat /\ Signed = 1..k BY <1>1, SignedFacts DEF Numbered
<1>3. k < MaxTickets /\ ticket' = [ticket EXCEPT ![k + 1] = Ticket(n, Operator, scp)]
  BY <1>1 DEF ConsoleTicket
<1>4. ticket \in [Tickets -> TicketType \union {NoTicket}] BY TypeParts DEF TicketsOK
<1>5. PICK new : new = {k + 1} OBVIOUS
<1>6. new \in SUBSET Tickets /\ new \intersect Signed = {} /\ Signed \union new = 1..(k + 1)
  BY <1>2, <1>3, <1>5, Numbers DEF Tickets
<1>7. \E m \in Nat : Signed \union new = 1..m BY <1>2, <1>6
<1>8. \A j \in new : ticket'[j] = Ticket(n, Operator, scp) BY <1>3, <1>4, <1>5, <1>6
<1>9. ticket' = [j \in Tickets |-> ticket'[j]] /\ \A j \in Tickets \ new : ticket'[j] = ticket[j]
  BY <1>3, <1>4, <1>5
<1>10. New(new, Nodes, Operator) BY <1>6, <1>7, <1>8, <1>9 DEF New
<1> QED BY <1>10 DEF Grows

LEMMA GrowsFacts ==
    ASSUME TypeOK, NEW from \in SUBSET Nodes, NEW u \in Users \union {Operator}, Grows(from, u)
    PROVE  TicketsOK' /\ Signed \subseteq Signed' /\ Numbered'
<1>1. PICK new : New(new, from, u) BY DEF Grows
<1>2. ticket \in [Tickets -> TicketType \union {NoTicket}] BY TypeParts DEF TicketsOK
<1>3. \A j \in new : ticket'[j] \in TicketType /\ ticket'[j] # NoTicket
  BY <1>1, TicketFacts DEF New
<1>4. \A j \in Tickets : ticket'[j] \in TicketType \union {NoTicket}
  BY <1>1, <1>2, <1>3 DEF New
<1>5. ticket' = [j \in Tickets |-> ticket'[j]] BY <1>1 DEF New
<1>6. TicketsOK' BY <1>4, <1>5 DEF TicketsOK
<1>7. \A j \in Tickets : ticket'[j] # NoTicket <=> j \in Signed \/ j \in new
  BY <1>1, <1>3 DEF New, Signed
<1>8. Signed' = Signed \union new BY <1>1, <1>7, SignedFacts DEF Signed, New
<1>9. PICK m \in Nat : Signed \union new = 1..m BY <1>1 DEF New
<1>10. Cardinality(1..m) = m BY <1>9, FS_Interval
<1>11. PICK s : s = Signed' OBVIOUS
<1>12. s = 1..Cardinality(s) BY <1>8, <1>9, <1>10, <1>11
<1>13. Numbered' BY <1>11, <1>12 DEF Numbered
<1> QED BY <1>6, <1>8, <1>13
---------------------------------------------------------------------------
LEMMA SetListerType ==
    ASSUME TypeOK, NEW w \in {"pick", "reconcile"}, NEW s, NEW ids, NEW recs \in Lists,
           s \in {"idle", "ids", "details", "deleted"}, ids \subseteq Nodes,
           SetLister(w, s, ids, recs)
    PROVE  ListersOK'
<1>1. PICK x : x = [stage |-> s, ids |-> ids, recs |-> recs] OBVIOUS
<1>2. x \in ListerType BY <1>1 DEF ListerType
<1>3. lister' = [lister EXCEPT ![w] = x] BY <1>1 DEF SetLister
<1>4. ListersOK BY TypeParts DEF PickOK
<1> QED BY <1>2, <1>3, <1>4 DEF ListersOK

LEMMA ListerFacts ==
    ASSUME TypeOK, NEW w \in {"pick", "reconcile"}
    PROVE  /\ lister[w].ids \subseteq Nodes /\ lister[w].recs \in Lists
           /\ DOMAIN lister[w].recs \subseteq Nodes
<1>1. lister[w] \in ListerType BY TypeParts DEF PickOK, ListersOK
<1>2. lister[w].ids \subseteq Nodes /\ lister[w].recs \in Lists BY <1>1 DEF ListerType
<1> QED BY <1>2, ListsFacts

LEMMA TypeList ==
    ASSUME TypeOK, NEW w \in Listers, ListStep(w) \/ ListFails(w)
    PROVE  TypeOK'
<1>0. w \in {"pick", "reconcile"} /\ ManagerOK /\ SnapshotOK
  BY FleetAssumption, TypeParts DEF PickOK
<1>1. UNCHANGED <<worker, call, registryVars, snapshot, ticket, nodeVars, acts>>
  BY DEF ListStep, ListDirectory, ListDetails, ListFails
<1>2. WorkersOK' /\ CallsOK' /\ ManagerOK' /\ TicketsOK' /\ HeldOK' /\ UsesOK'
  BY <1>1, Frames DEF nodeVars
<1>3. BoundsOK'
  <2>1. CASE ListFails(w) BY <1>1, <2>1, FaultType DEF ListFails
  <2>2. CASE ListStep(w) BY <2>2, Frames DEF ListStep, ListDirectory, ListDetails
  <2> QED BY <2>1, <2>2
<1>4. ListersOK'
  <2>1. CASE ListDirectory(w) \/ ListFails(w)
    <3>1. directory \subseteq Nodes BY <1>0 DEF ManagerOK, NamesOK
    <3>2. CASE ListDirectory(w)
      BY <1>0, <3>1, <3>2, NoLists, SetListerType DEF ListDirectory
    <3>3. CASE ListFails(w) BY <1>0, <3>3, NoLists, SetListerType DEF ListFails
    <3> QED BY <2>1, <3>2, <3>3
  <2>2. CASE ListDetails(w)
    <3>1. PICK there : there = {n \in lister[w].ids : detail[n] # NoRecord} OBVIOUS
    <3>2. PICK recs : recs = [n \in there |-> detail[n]] OBVIOUS
    <3>3. SetLister(w, "details", there, recs) BY <2>2, <3>1, <3>2 DEF ListDetails
    <3>4. there \in SUBSET Nodes BY <1>0, <3>1, ListerFacts
    <3>5. \A n \in there : detail[n] \in Records
      BY <1>0, <3>1, <3>4 DEF ManagerOK, DetailOK
    <3>6. recs \in [there -> Records] BY <3>2, <3>5
    <3>7. recs \in Lists BY <3>4, <3>6, ListsFacts
    <3> QED BY <1>0, <3>3, <3>4, <3>7, SetListerType
  <2> QED BY <2>1, <2>2 DEF ListStep
<1>5. SnapshotOK' BY <1>0, <1>1 DEF SnapshotOK
<1>6. PickOK' BY <1>4, <1>5 DEF PickOK
<1> QED BY <1>2, <1>3, <1>6, TypePartsNext

LEMMA TypeReconcile ==
    ASSUME TypeOK, ReconcileStep \/ \E n \in Nodes : ReconcileSkip(n)
    PROVE  TypeOK'
<1>0. ManagerOK /\ SnapshotOK BY TypeParts DEF PickOK
<1>1. UNCHANGED <<worker, call, detail, drains, drainAge, snapshot, ticket, nodeVars, acts>>
  BY DEF ReconcileStep, ReconcileDelete, ReconcileRestore, ReconcileDone, ReconcileSkip, registryVars
<1>2. WorkersOK' /\ CallsOK' /\ TicketsOK' /\ HeldOK' /\ UsesOK' BY <1>1, Frames DEF nodeVars
<1>3. BoundsOK'
  <2>1. CASE ReconcileStep
    BY <2>1, Frames DEF ReconcileStep, ReconcileDelete, ReconcileRestore, ReconcileDone
  <2>2. CASE \E n \in Nodes : ReconcileSkip(n) BY <1>1, <2>2, FaultType DEF ReconcileSkip
  <2> QED BY <2>1, <2>2
<1>4. NamesOK'
  BY <1>0 DEF ReconcileStep, ReconcileDelete, ReconcileRestore, ReconcileDone, ReconcileSkip,
     registryVars, ManagerOK, NamesOK
<1>5. ManagerOK' BY <1>0, <1>1, <1>4 DEF ManagerOK, DetailOK, AgesOK
<1>6. ListersOK'
  <2>1. PICK s \in {"idle", "deleted"}, ids \in SUBSET Nodes :
          SetLister("reconcile", s, ids, Idle.recs)
    <3>1. lister["reconcile"].ids \subseteq Nodes /\ DOMAIN lister["reconcile"].recs \subseteq Nodes
      BY ListerFacts
    <3>2. CASE ReconcileDelete BY <3>1, <3>2 DEF ReconcileDelete
    <3>3. ASSUME NEW n \in Nodes, ReconcileRestore(n) \/ ReconcileSkip(n)
          PROVE  \E s \in {"idle", "deleted"}, ids \in SUBSET Nodes :
                   SetLister("reconcile", s, ids, Idle.recs)
      <4>1. SetLister("reconcile", "deleted", lister["reconcile"].ids \ {n}, Idle.recs)
        BY <3>3 DEF ReconcileRestore, ReconcileSkip
      <4>2. lister["reconcile"].ids \ {n} \in SUBSET Nodes BY <3>1
      <4> QED BY <4>1, <4>2
    <3>4. CASE ReconcileDone BY <3>4 DEF ReconcileDone
    <3> QED BY <3>2, <3>3, <3>4 DEF ReconcileStep
  <2> QED BY <2>1, NoLists, SetListerType
<1>7. SnapshotOK' BY <1>0, <1>1 DEF SnapshotOK
<1>8. PickOK' BY <1>6, <1>7 DEF PickOK
<1> QED BY <1>2, <1>3, <1>5, <1>8, TypePartsNext

(* The lists that the scheduler picks from.                                *)
LEMMA OverlaidFacts ==
    ASSUME NEW recs \in Lists, NEW marks
    PROVE  /\ Overlaid(recs, marks) \in Lists /\ DOMAIN Overlaid(recs, marks) = DOMAIN recs
           /\ \A n \in DOMAIN recs : ~Overlaid(recs, marks)[n].draining => n \notin marks
<1>1. PICK D : D = DOMAIN recs OBVIOUS
<1>2. D \in SUBSET Nodes /\ \A n \in D : recs[n] \in Records BY <1>1, ListsFacts
<1>3. PICK o : o = Overlaid(recs, marks) OBVIOUS
<1>4. o = [n \in D |-> [recs[n] EXCEPT !.draining = @ \/ n \in marks]]
  BY <1>1, <1>3 DEF Overlaid
<1>5. ASSUME NEW n \in D PROVE o[n] \in Records /\ (~o[n].draining => n \notin marks)
  <2>1. PICK b : b = (recs[n].draining \/ n \in marks) OBVIOUS
  <2>2. o[n] = [recs[n] EXCEPT !.draining = b] BY <1>4, <2>1
  <2>3. recs[n] \in Records BY <1>2
  <2>4. b \in BOOLEAN BY <2>1
  <2>5. o[n] \in Records /\ o[n].draining = b BY <2>2, <2>3, <2>4 DEF Records
  <2> QED BY <2>1, <2>5
<1>6. o \in [D -> Records] BY <1>4, <1>5
<1>7. o \in Lists BY <1>2, <1>6, ListsFacts
<1> QED BY <1>1, <1>3, <1>4, <1>5, <1>7

LEMMA TypeSchedule ==
    ASSUME TypeOK, Numbered, NEW u \in Users,
           ScheduleCached(u) \/ ScheduleReadsMarks(u) \/ ScheduleBlind(u)
    PROVE  TypeOK'
<1>0. ListersOK /\ SnapshotOK BY TypeParts DEF PickOK
<1>1. UNCHANGED <<worker, call, registryVars, nodeVars, acts>>
  BY DEF ScheduleCached, ScheduleReadsMarks, ScheduleBlind, ScheduleListed
<1>2. WorkersOK' /\ CallsOK' /\ ManagerOK' /\ UsesOK' BY <1>1, Frames DEF nodeVars
<1>3. BoundsOK'
  <2>1. CASE ScheduleBlind(u) BY <1>1, <2>1, FaultType DEF ScheduleBlind
  <2>2. CASE ~ScheduleBlind(u)
    BY <2>2, Frames DEF ScheduleCached, ScheduleReadsMarks, ScheduleListed
  <2> QED BY <2>1, <2>2
<1>4. ASSUME NEW recs \in Lists, IssueAll(recs, u) PROVE TicketsOK' /\ HeldOK'
  <2>1. PICK from : from = {n \in DOMAIN recs : ~recs[n].draining} OBVIOUS
  <2>2. Grows(from, u) BY <1>4, <2>1, IssueOutcome
  <2>3. from \in SUBSET Nodes BY <2>1, ListsFacts
  <2>4. TicketsOK' /\ Signed \subseteq Signed' BY <2>2, <2>3, GrowsFacts
  <2> QED BY <1>1, <2>4, Frames DEF nodeVars
<1>5. CASE ScheduleCached(u)
  <2>1. snapshot.nodes \in Lists BY <1>0 DEF SnapshotOK, SnapshotType
  <2>2. TicketsOK' /\ HeldOK' BY <1>4, <1>5, <2>1 DEF ScheduleCached
  <2>3. PickOK' BY <1>5, Frames DEF ScheduleCached
  <2> QED BY <1>2, <1>3, <2>2, <2>3, TypePartsNext
<1>6. ASSUME NEW marks, NEW blind \in BOOLEAN, ScheduleListed(u, marks, blind) PROVE TypeOK'
  <2>1. PICK recs : recs = Overlaid(lister["pick"].recs, marks) OBVIOUS
  <2>2. recs \in Lists BY <2>1, ListerFacts, OverlaidFacts
  <2>3. TicketsOK' /\ HeldOK' BY <1>4, <1>6, <2>1, <2>2 DEF ScheduleListed
  <2>4. snapshot' = [nodes |-> recs, life |-> CacheTtl, blind |-> blind]
    BY <1>6, <2>1 DEF ScheduleListed
  <2>5. SnapshotOK' BY <2>2, <2>4, Numbers DEF SnapshotOK, SnapshotType
  <2>6. ListersOK' BY <1>6, NoLists, SetListerType DEF ScheduleListed
  <2>7. PickOK' BY <2>5, <2>6 DEF PickOK
  <2> QED BY <1>2, <1>3, <2>3, <2>7, TypePartsNext
<1> QED BY <1>5, <1>6 DEF ScheduleReadsMarks, ScheduleBlind

LEMMA TypeConsole ==
    ASSUME TypeOK, Numbered, NEW n \in Nodes, NEW scp \in {"lease", "admin"}, ConsoleTicket(n, scp)
    PROVE  TypeOK'
<1>1. UNCHANGED <<worker, call, registryVars, pickVars, nodeVars, faults, acts>>
  BY DEF ConsoleTicket
<1>2. WorkersOK' /\ CallsOK' /\ ManagerOK' /\ PickOK' /\ UsesOK' /\ BoundsOK'
  BY <1>1, Frames DEF nodeVars
<1>3. TicketsOK' /\ Signed \subseteq Signed' BY ConsoleOutcome, GrowsFacts
<1>4. HeldOK' BY <1>1, <1>3, Frames DEF nodeVars
<1> QED BY <1>2, <1>3, <1>4, TypePartsNext
---------------------------------------------------------------------------
LEMMA ClaimFacts ==
    ASSUME TypeOK, NEW n \in Nodes, NEW j \in Tickets, Claim(n, j)
    PROVE  /\ seen' \in [Nodes -> SUBSET Signed] /\ UsesOK' /\ j \in Signed
           /\ uses' = [uses EXCEPT ![j] = uses[j] + 1] /\ j \notin seen[n]
           /\ ticket[j] # NoTicket /\ ticket[j].nid = n /\ ticket[j].life > 0
           /\ j \in seen'[n] /\ \A i \in seen[n] : ticket[i].life > 0 => i \in seen'[n]
           /\ \A m \in Nodes : m # n => seen'[m] = seen[m]
<1>0. seen \in [Nodes -> SUBSET Signed] /\ uses \in [Tickets -> Nat]
  BY TypeParts DEF HeldOK, UsesOK
<1>1. /\ seen' = [seen EXCEPT ![n] = Purged(n) \union {j}]
      /\ uses' = [uses EXCEPT ![j] = uses[j] + 1] /\ j \notin seen[n]
      /\ ticket[j] # NoTicket /\ ticket[j].nid = n /\ ticket[j].life > 0
  BY DEF Claim, Valid
<1>2. j \in Signed BY <1>1 DEF Signed
<1>3. PICK p : p = Purged(n) \union {j} OBVIOUS
<1>4. /\ p \subseteq seen[n] \union {j} /\ j \in p
      /\ \A i \in seen[n] : ticket[i].life > 0 => i \in p
  BY <1>3 DEF Purged
<1>5. p \in SUBSET Signed BY <1>0, <1>2, <1>4
<1>6. seen' = [seen EXCEPT ![n] = p] BY <1>1, <1>3
<1>7. seen' \in [Nodes -> SUBSET Signed] /\ seen'[n] = p BY <1>0, <1>5, <1>6
<1>8. \A m \in Nodes : m # n => seen'[m] = seen[m] BY <1>0, <1>6
<1>9. UsesOK' BY <1>0, <1>1 DEF UsesOK
<1> QED BY <1>1, <1>2, <1>4, <1>7, <1>8, <1>9

LEMMA TypeTicketUse ==
    ASSUME TypeOK, NEW n \in Nodes, NEW j \in Tickets,
           Exchange(n, j) \/ LeaseEnds(n, j) \/ \E v \in Tickets : Kill(n, j, v)
    PROVE  TypeOK'
<1>0. seen \in [Nodes -> SUBSET Signed] /\ leases \in [Nodes -> SUBSET Signed]
  BY TypeParts DEF HeldOK
<1>1. UNCHANGED <<worker, call, registryVars, pickVars, ticket, faults, acts>>
  BY DEF Exchange, LeaseEnds, Kill
<1>2. WorkersOK' /\ CallsOK' /\ ManagerOK' /\ PickOK' /\ TicketsOK' /\ BoundsOK'
  BY <1>1, Frames
<1>3. CASE LeaseEnds(n, j)
  <2>1. leases' \in [Nodes -> SUBSET Signed] /\ seen' = seen /\ uses' = uses
    BY <1>0, <1>3 DEF LeaseEnds
  <2>2. HeldOK' BY <1>0, <1>1, <2>1, HeldType
  <2>3. UsesOK' BY <2>1, Frames
  <2> QED BY <1>2, <2>2, <2>3, TypePartsNext
<1>4. CASE Exchange(n, j) \/ \E v \in Tickets : Kill(n, j, v)
  <2>1. Claim(n, j) BY <1>4 DEF Exchange, Kill
  <2>2. seen' \in [Nodes -> SUBSET Signed] /\ UsesOK' /\ j \in Signed BY <2>1, ClaimFacts
  <2>3. leases' \in [Nodes -> SUBSET Signed]
    <3>1. CASE Exchange(n, j)
      <4>1. leases' = leases \/ leases' = [leases EXCEPT ![n] = leases[n] \union {j}]
        BY <3>1 DEF Exchange
      <4> QED BY <1>0, <2>2, <4>1
    <3>2. CASE \E v \in Tickets : Kill(n, j, v)
      <4>1. PICK v \in Tickets : leases' = [leases EXCEPT ![n] = leases[n] \ {v}]
        BY <3>2 DEF Kill
      <4> QED BY <1>0, <4>1
    <3> QED BY <1>4, <3>1, <3>2
  <2>4. HeldOK' BY <1>1, <2>2, <2>3, HeldType
  <2> QED BY <1>2, <2>2, <2>4, TypePartsNext
<1> QED BY <1>3, <1>4

LEMMA TypeOperator ==
    ASSUME TypeOK, NEW n \in Nodes, Evict(n) \/ \E b \in BOOLEAN : SetDrain(n, b)
    PROVE  TypeOK'
<1>0. ManagerOK BY TypeParts
<1>1. UNCHANGED <<worker, call, directory, pickVars, ticket, nodeVars, faults>> /\ Act
  BY DEF Evict, SetDrain
<1>2. WorkersOK' /\ CallsOK' /\ PickOK' /\ TicketsOK' /\ HeldOK' /\ UsesOK'
  BY <1>1, Frames DEF nodeVars
<1>3. BoundsOK' BY <1>1, ActType
<1>4. DetailOK' BY <1>0 DEF Evict, SetDrain, ManagerOK, DetailOK
<1>5. NamesOK' BY <1>0, <1>1 DEF Evict, SetDrain, ManagerOK, NamesOK
<1>6. AgesOK'
  <2>1. 0 \in NotDrained..CacheTtl /\ NotDrained \in NotDrained..CacheTtl
    BY Numbers DEF NotDrained
  <2>2. PICK a \in {0, NotDrained} : drainAge' = drainAge \/ drainAge' = [drainAge EXCEPT ![n] = a]
    BY DEF Evict, SetDrain
  <2>3. a \in NotDrained..CacheTtl BY <2>1
  <2> QED BY <1>0, <2>2, <2>3 DEF ManagerOK, AgesOK
<1>7. ManagerOK' BY <1>4, <1>5, <1>6 DEF ManagerOK
<1> QED BY <1>2, <1>3, <1>7, TypePartsNext

(* A tick, for what it ages.                                               *)
Aged(x) == IF x # NoTicket /\ x.life > 0 THEN [x EXCEPT !.life = @ - 1] ELSE x
LEMMA TickFacts ==
    ASSUME TypeOK, Tick
    PROVE  /\ TicketsOK' /\ Signed' = Signed
           /\ \A j \in Tickets : /\ ticket'[j] = NoTicket <=> ticket[j] = NoTicket
                                 /\ ticket[j] # NoTicket =>
                                      /\ ticket'[j].nid = ticket[j].nid
                                      /\ ticket'[j].life > 0 => ticket[j].life > 0
<1>0. ticket \in [Tickets -> TicketType \union {NoTicket}] BY TypeParts DEF TicketsOK
<1>1. ticket' = [j \in Tickets |-> Aged(ticket[j])] BY DEF Tick, Aged
<1>2. ASSUME NEW x \in TicketType
      PROVE  /\ Aged(x) \in TicketType /\ Aged(x).nid = x.nid
             /\ Aged(x).life > 0 => x.life > 0
  BY Numbers DEF Aged, TicketType
<1>3. Aged(NoTicket) = NoTicket BY DEF Aged
<1>4. \A j \in Tickets : ticket'[j] = Aged(ticket[j]) BY <1>1
<1>5. TicketsOK' BY <1>0, <1>1, <1>2, <1>3 DEF TicketsOK
<1>6. \A j \in Tickets : ticket'[j] = NoTicket <=> ticket[j] = NoTicket
  BY <1>0, <1>2, <1>3, <1>4, Nones
<1>7. Signed' = Signed BY <1>6 DEF Signed
<1> QED BY <1>0, <1>2, <1>4, <1>5, <1>6, <1>7

LEMMA TypeTick == ASSUME TypeOK, Tick PROVE TypeOK'
<1>0. WorkersOK /\ ManagerOK /\ PickOK BY TypeParts
<1>1. UNCHANGED <<call, directory, drains, lister, nodeVars, acts>> BY DEF Tick
<1>2. CallsOK' /\ UsesOK' BY <1>1, Frames DEF nodeVars
<1>3. BoundsOK'
  <2>1. CASE UNCHANGED faults BY <1>1, <2>1, Frames
  <2>2. CASE Fault BY <1>1, <2>2, FaultType
  <2> QED BY <2>1, <2>2 DEF Tick
<1>4. TicketsOK' /\ HeldOK' BY <1>1, TickFacts, Frames DEF nodeVars
<1>5. WorkersOK'
  <2>1. \A t \in Timers : Due(t) \in Timers BY DEF Due, Timers
  <2>2. ASSUME NEW n \in Nodes
        PROVE  [worker[n] EXCEPT !.hbTimer = Due(@), !.regTimer = Due(@)] \in WorkerType
    <3>1. worker[n] \in WorkerType BY <1>0 DEF WorkersOK
    <3>2. PICK h : h = Due(worker[n].hbTimer) OBVIOUS
    <3>3. PICK g : g = Due(worker[n].regTimer) OBVIOUS
    <3>4. h \in Timers /\ g \in Timers BY <2>1, <3>1, <3>2, <3>3 DEF WorkerType
    <3>5. [worker[n] EXCEPT !.hbTimer = h, !.regTimer = g] \in WorkerType
      BY <3>1, <3>4 DEF WorkerType
    <3>6. [worker[n] EXCEPT !.hbTimer = Due(@), !.regTimer = Due(@)]
            = [worker[n] EXCEPT !.hbTimer = h, !.regTimer = g]
      BY <3>1, <3>2, <3>3 DEF WorkerType
    <3> QED BY <3>5, <3>6
  <2> QED BY <2>2 DEF Tick, WorkersOK
<1>6. DetailOK'
  <2>1. ASSUME NEW r \in Records \union {NoRecord} PROVE Expired(r) \in Records \union {NoRecord}
    BY Numbers DEF Expired, Records
  <2> QED BY <1>0, <2>1 DEF Tick, ManagerOK, DetailOK
<1>7. AgesOK'
  <2>1. ASSUME NEW a \in NotDrained..CacheTtl
        PROVE  (IF a \in 0..(CacheTtl - 1) THEN a + 1 ELSE a) \in NotDrained..CacheTtl
    BY Numbers DEF NotDrained
  <2> QED BY <1>0, <2>1 DEF Tick, ManagerOK, AgesOK
<1>8. ManagerOK' BY <1>0, <1>1, <1>6, <1>7 DEF ManagerOK, NamesOK
<1>9. ListersOK' BY <1>0, <1>1 DEF PickOK, ListersOK
<1>10. SnapshotOK'
  <2>1. snapshot \in SnapshotType BY <1>0 DEF PickOK, SnapshotOK
  <2>2. CASE snapshot.life <= 1
    <3>1. PICK r : r = Idle.recs OBVIOUS
    <3>2. snapshot' = [nodes |-> r, life |-> 0, blind |-> FALSE] BY <2>2, <3>1 DEF Tick
    <3>3. r \in Lists /\ 0 \in 0..CacheTtl BY <3>1, NoLists, Numbers
    <3> QED BY <3>2, <3>3 DEF SnapshotOK, SnapshotType
  <2>3. CASE ~(snapshot.life <= 1)
    <3>1. snapshot' = [snapshot EXCEPT !.life = snapshot.life - 1] BY <2>3 DEF Tick
    <3> QED BY <2>1, <2>3, <3>1, Numbers DEF SnapshotOK, SnapshotType
  <2> QED BY <2>2, <2>3
<1>11. PickOK' BY <1>9, <1>10 DEF PickOK
<1> QED BY <1>2, <1>3, <1>4, <1>5, <1>8, <1>11, TypePartsNext

LEMMA TypeStep == TypeOK /\ Numbered /\ [Next]_vars => TypeOK'
<1> SUFFICES ASSUME TypeOK, Numbered, [Next]_vars PROVE TypeOK' OBVIOUS
<1>1. ASSUME NEW n \in Nodes,
             \/ Start(n) \/ Stop(n) \/ Exit(n) \/ Crash(n) \/ Evict(n)
             \/ \E c \in Calls : SendRegister(c, n) \/ SendHeartbeat(c, n)
             \/ \E b \in BOOLEAN : SetDrain(n, b)
             \/ \E scp \in {"lease", "admin"} : ConsoleTicket(n, scp)
             \/ \E j \in Tickets : \/ Exchange(n, j) \/ LeaseEnds(n, j)
                                   \/ \E v \in Tickets : Kill(n, j, v)
             \/ ReconcileSkip(n)
      PROVE  TypeOK'
  BY <1>1, TypeStart, TypeStop, TypeGone, TypeOperator, TypeSend, TypeConsole, TypeTicketUse,
     TypeReconcile
<1>2. ASSUME NEW c \in Calls, CallStep(c) \/ CallLost(c) \/ StatementFails(c) PROVE TypeOK'
  BY <1>2, TypeRoutes, TypeAnswer DEF CallStep
<1>3. ASSUME NEW w \in Listers, ListStep(w) \/ ListFails(w) PROVE TypeOK' BY <1>3, TypeList
<1>4. CASE ReconcileStep BY <1>4, TypeReconcile
<1>5. ASSUME NEW u \in Users, ScheduleCached(u) \/ ScheduleReadsMarks(u) \/ ScheduleBlind(u)
      PROVE  TypeOK'
  BY <1>5, TypeSchedule
<1>6. CASE Tick BY <1>6, TypeTick
<1>7. CASE UNCHANGED vars
  <2>1. WorkersOK' /\ CallsOK' /\ ManagerOK' /\ PickOK' /\ TicketsOK' /\ UsesOK' /\ BoundsOK'
    BY <1>7, Frames DEF vars, registryVars, pickVars
  <2>2. HeldOK' BY <1>7, Frames DEF vars
  <2> QED BY <2>1, <2>2, TypePartsNext
<1> QED BY <1>1, <1>2, <1>3, <1>4, <1>5, <1>6, <1>7 DEF Next
---------------------------------------------------------------------------
(* Why a ticket is used once.  A ticket that is alive and was used is in   *)
(* its node's table: the purge keeps the living, and a ticket whose id was *)
(* dropped is refused for its age.  An id not signed yet was never used.   *)
Once(j) ==
    /\ ticket[j] = NoTicket => uses[j] = 0
    /\ ticket[j] # NoTicket /\ ticket[j].life > 0 /\ j \notin seen[ticket[j].nid] => uses[j] = 0
    /\ uses[j] <= 1
OnceKnown == \A j \in Tickets : Once(j)

(* Why a drain takes effect.  What a list says about a node that is not    *)
(* draining was true when its marks were read, CacheTtl - snapshot.life    *)
(* ticks ago: the node has been marked for no longer.                      *)
MarksKnown == \A n \in Nodes : n \notin drains => drainAge[n] = NotDrained
Open(recs) == {n \in DOMAIN recs : ~recs[n].draining}
SnapshotTells ==
    snapshot.life > 0 /\ snapshot.blind = FALSE =>
        \A n \in Open(snapshot.nodes) : drainAge[n] <= CacheTtl - snapshot.life

FleetInv == Numbered /\ OnceKnown /\ MarksKnown /\ SnapshotTells

LEMMA FleetInit == Init => FleetInv
<1> SUFFICES ASSUME Init PROVE FleetInv OBVIOUS
<1>1. \A j \in Tickets : ticket[j] = NoTicket /\ uses[j] = 0 BY DEF Init
<1>2. Signed = {} BY <1>1 DEF Signed
<1>3. Cardinality({}) = 0 BY FS_EmptySet
<1>4. Numbered
  <2>1. PICK s : s = Signed OBVIOUS
  <2>2. Cardinality(s) = 0 /\ s = {} BY <1>2, <1>3, <2>1
  <2>3. s = 1..Cardinality(s) BY <2>2
  <2> QED BY <2>1, <2>3 DEF Numbered
<1>5. OnceKnown BY <1>1 DEF OnceKnown, Once
<1>6. MarksKnown BY DEF Init, MarksKnown
<1>7. SnapshotTells BY DEF Init, SnapshotTells
<1> QED BY <1>4, <1>5, <1>6, <1>7 DEF FleetInv

(* Every step in the terms of the invariant.                               *)
tables == <<ticket, seen, uses>>
marks == <<drains, drainAge, snapshot>>
LEMMA Steps ==
    ASSUME [Next]_vars
    PROVE  \/ UNCHANGED tables /\ UNCHANGED marks
           \/ \E n \in Nodes : Start(n) /\ UNCHANGED marks
           \/ /\ \E n \in Nodes, j \in Tickets : Claim(n, j)
              /\ UNCHANGED ticket /\ UNCHANGED marks
           \/ \E n \in Nodes, scp \in {"lease", "admin"} : ConsoleTicket(n, scp)
           \/ \E u \in Users : ScheduleCached(u) \/ ScheduleReadsMarks(u) \/ ScheduleBlind(u)
           \/ \E n \in Nodes, b \in BOOLEAN : SetDrain(n, b)
           \/ Tick
<1>1. ASSUME NEW n \in Nodes,
             \/ Stop(n) \/ Exit(n) \/ Crash(n) \/ Evict(n)
             \/ \E c \in Calls : SendRegister(c, n) \/ SendHeartbeat(c, n)
             \/ \E j \in Tickets : LeaseEnds(n, j)
             \/ ReconcileSkip(n)
      PROVE  UNCHANGED tables /\ UNCHANGED marks
  BY <1>1 DEF Stop, Exit, Crash, Evict, SendRegister, SendHeartbeat, LeaseEnds, ReconcileSkip,
     tables, marks, registryVars, pickVars, nodeVars
<1>2. ASSUME NEW n \in Nodes, NEW j \in Tickets, Exchange(n, j) \/ \E v \in Tickets : Kill(n, j, v)
      PROVE  Claim(n, j) /\ UNCHANGED ticket /\ UNCHANGED marks
  BY <1>2 DEF Exchange, Kill, marks, registryVars, pickVars
<1>3. ASSUME NEW n \in Nodes, Start(n) PROVE UNCHANGED marks
  BY <1>3 DEF Start, marks, registryVars, pickVars
<1>4. ASSUME NEW c \in Calls, CallStep(c) \/ CallLost(c) \/ StatementFails(c)
      PROVE  UNCHANGED tables /\ UNCHANGED marks
  BY <1>4 DEF CallStep, ReadPrev, WriteDetail, WriteDirectory, Deregister, Answer, CallLost,
     StatementFails, tables, marks, registryVars, pickVars, nodeVars
<1>5. ASSUME NEW w \in Listers, ListStep(w) \/ ListFails(w)
      PROVE  UNCHANGED tables /\ UNCHANGED marks
  BY <1>5 DEF ListStep, ListDirectory, ListDetails, ListFails, tables, marks, registryVars, nodeVars
<1>6. ReconcileStep => UNCHANGED tables /\ UNCHANGED marks
  BY DEF ReconcileStep, ReconcileDelete, ReconcileRestore, ReconcileDone, tables, marks,
     registryVars, nodeVars
<1>7. UNCHANGED vars => UNCHANGED tables /\ UNCHANGED marks BY DEF vars, tables, marks
<1> QED BY <1>1, <1>2, <1>3, <1>4, <1>5, <1>6, <1>7 DEF Next
---------------------------------------------------------------------------
(* New tickets disturb none that are there.                                *)
LEMMA GrowsOnce ==
    ASSUME TypeOK, OnceKnown, NEW from \in SUBSET Nodes, NEW u \in Users \union {Operator},
           Grows(from, u), seen' = seen, uses' = uses
    PROVE  OnceKnown'
<1>1. PICK new : New(new, from, u) BY DEF Grows
<1>2. SUFFICES ASSUME NEW j \in Tickets PROVE Once(j)' BY DEF OnceKnown
<1>3. Once(j) BY DEF OnceKnown
<1>4. CASE j \in new
  <2>1. ticket[j] = NoTicket BY <1>1, <1>4 DEF New, Signed
  <2>2. uses'[j] = 0 BY <1>3, <2>1 DEF Once
  <2> QED BY <2>2 DEF Once
<1>5. CASE j \notin new
  <2>1. ticket'[j] = ticket[j] BY <1>1, <1>5 DEF New
  <2> QED BY <1>3, <2>1 DEF Once
<1> QED BY <1>4, <1>5

LEMMA OnceStart ==
    ASSUME TypeOK, OnceKnown, NEW n \in Nodes, Start(n) PROVE OnceKnown'
<1>1. SUFFICES ASSUME NEW j \in Tickets PROVE Once(j)' BY DEF OnceKnown
<1>2. Once(j) BY DEF OnceKnown
<1>3. ticket' = ticket /\ \A m \in Nodes : m # n => seen'[m] = seen[m]
  <2>1. seen \in [Nodes -> SUBSET Signed] BY TypeParts DEF HeldOK
  <2> QED BY <2>1 DEF Start
<1>4. uses'[j] = IF ticket[j] # NoTicket /\ ticket[j].nid = n THEN 0 ELSE uses[j] BY DEF Start
<1>5. ticket[j] # NoTicket => ticket[j].nid \in Nodes BY DEF TypeOK
<1> QED BY <1>2, <1>3, <1>4, <1>5 DEF Once

LEMMA OnceClaim ==
    ASSUME TypeOK, OnceKnown, NEW n \in Nodes, NEW j \in Tickets, Claim(n, j), UNCHANGED ticket
    PROVE  OnceKnown'
<1>1. SUFFICES ASSUME NEW i \in Tickets PROVE Once(i)' BY DEF OnceKnown
<1>2. Once(i) BY DEF OnceKnown
<1>3. /\ uses' = [uses EXCEPT ![j] = uses[j] + 1] /\ j \notin seen[n]
      /\ ticket[j] # NoTicket /\ ticket[j].nid = n /\ ticket[j].life > 0
      /\ j \in seen'[n] /\ \A k \in seen[n] : ticket[k].life > 0 => k \in seen'[n]
      /\ \A m \in Nodes : m # n => seen'[m] = seen[m]
  BY ClaimFacts
<1>4. uses \in [Tickets -> Nat] BY TypeParts DEF UsesOK
<1>5. ticket[i] # NoTicket => ticket[i].nid \in Nodes BY DEF TypeOK
<1>6. CASE i = j
  <2>1. uses[j] = 0 BY <1>2, <1>3, <1>6 DEF Once
  <2>2. uses'[j] = 1 BY <1>3, <1>4, <2>1
  <2> QED BY <1>3, <1>6, <2>2 DEF Once
<1>7. CASE i # j
  <2>1. uses'[i] = uses[i] BY <1>3, <1>4, <1>7
  <2>2. ticket[i] # NoTicket /\ ticket[i].life > 0 /\ i \notin seen'[ticket[i].nid]
          => i \notin seen[ticket[i].nid]
    BY <1>3, <1>5
  <2> QED BY <1>2, <2>1, <2>2 DEF Once
<1> QED BY <1>6, <1>7

LEMMA OnceTick == ASSUME TypeOK, OnceKnown, Tick PROVE OnceKnown'
<1>1. SUFFICES ASSUME NEW j \in Tickets PROVE Once(j)' BY DEF OnceKnown
<1>2. Once(j) BY DEF OnceKnown
<1>3. /\ ticket'[j] = NoTicket <=> ticket[j] = NoTicket
      /\ ticket[j] # NoTicket => ticket'[j].nid = ticket[j].nid
      /\ ticket[j] # NoTicket /\ ticket'[j].life > 0 => ticket[j].life > 0
  BY TickFacts
<1>4. seen' = seen /\ uses' = uses BY DEF Tick, nodeVars
<1> QED BY <1>2, <1>3, <1>4 DEF Once

LEMMA TickTells ==
    ASSUME TypeOK, MarksKnown, SnapshotTells, Tick PROVE MarksKnown' /\ SnapshotTells'
<1>1. drainAge \in [Nodes -> NotDrained..CacheTtl] BY DEF TypeOK
<1>2. \A n \in Nodes : drainAge'[n] = IF drainAge[n] \in 0..(CacheTtl - 1)
                                      THEN drainAge[n] + 1 ELSE drainAge[n]
  BY DEF Tick
<1>3. \A n \in Nodes : drainAge[n] \in Int /\ drainAge'[n] \in Int /\ drainAge'[n] <= drainAge[n] + 1
  BY <1>1, <1>2, Numbers DEF NotDrained
<1>4. MarksKnown'
  <2>1. drains' = drains BY DEF Tick
  <2>2. NotDrained \notin 0..(CacheTtl - 1) BY Numbers DEF NotDrained
  <2> QED BY <1>2, <2>1, <2>2 DEF MarksKnown
<1>5. snapshot \in SnapshotType BY TypeParts DEF PickOK, SnapshotOK
<1>6. SnapshotTells'
  <2>1. CASE snapshot.life <= 1
    <3>1. snapshot'.life = 0 BY <2>1 DEF Tick
    <3> QED BY <3>1 DEF SnapshotTells
  <2>2. CASE ~(snapshot.life <= 1)
    <3>1. PICK x : x = [snapshot EXCEPT !.life = snapshot.life - 1] OBVIOUS
    <3>2. /\ x.nodes = snapshot.nodes /\ x.blind = snapshot.blind
          /\ x.life = snapshot.life - 1 /\ snapshot.life \in Nat
      BY <1>5, <3>1, Numbers DEF SnapshotType
    <3>3. snapshot' = x BY <2>2, <3>1 DEF Tick
    <3>4. Open(snapshot.nodes) \subseteq Nodes BY <1>5, ListsFacts DEF Open, SnapshotType
    <3>5. ASSUME snapshot.blind = FALSE, NEW n \in Open(snapshot.nodes)
          PROVE  drainAge'[n] <= CacheTtl - x.life
      <4>1. drainAge[n] <= CacheTtl - snapshot.life BY <2>2, <3>2, <3>5 DEF SnapshotTells
      <4> QED BY <1>3, <3>2, <3>4, <3>5, <4>1, Numbers
    <3>6. x.blind = FALSE => \A n \in Open(x.nodes) : drainAge'[n] <= CacheTtl - x.life
      BY <3>2, <3>5
    <3> QED BY <3>3, <3>6 DEF SnapshotTells, Open
  <2> QED BY <2>1, <2>2
<1> QED BY <1>4, <1>6

LEMMA DrainTells ==
    ASSUME TypeOK, MarksKnown, SnapshotTells, NEW n \in Nodes, NEW b \in BOOLEAN, SetDrain(n, b)
    PROVE  MarksKnown' /\ SnapshotTells' /\ UNCHANGED tables
<1>1. UNCHANGED tables /\ snapshot' = snapshot BY DEF SetDrain, tables, nodeVars, pickVars
<1>2. drainAge \in [Nodes -> NotDrained..CacheTtl] BY DEF TypeOK
<1>3. /\ drains' = IF b THEN drains \union {n} ELSE drains \ {n}
      /\ drainAge' = [drainAge EXCEPT ![n] = IF b THEN 0 ELSE NotDrained]
  BY DEF SetDrain
<1>4. MarksKnown' BY <1>2, <1>3 DEF MarksKnown
<1>5. snapshot \in SnapshotType BY TypeParts DEF PickOK, SnapshotOK
<1>6. Open(snapshot.nodes) \subseteq Nodes /\ snapshot.life \in 0..CacheTtl
  BY <1>5, ListsFacts DEF Open, SnapshotType
<1>7. ASSUME NEW m \in Open(snapshot.nodes), snapshot.blind = FALSE, snapshot.life > 0
      PROVE  drainAge'[m] <= CacheTtl - snapshot.life
  <2>1. drainAge[m] <= CacheTtl - snapshot.life BY <1>7 DEF SnapshotTells
  <2>2. drainAge'[m] = drainAge[m] \/ drainAge'[m] \in {0, NotDrained} BY <1>2, <1>3, <1>6
  <2> QED BY <1>6, <2>1, <2>2, Numbers DEF NotDrained
<1>8. SnapshotTells' BY <1>1, <1>7 DEF SnapshotTells, Open
<1> QED BY <1>1, <1>4, <1>8

(* What scheduling does: tickets for open nodes of a list it may trust.    *)
LEMMA ScheduleTells ==
    ASSUME TypeOK, Numbered, MarksKnown, SnapshotTells, NEW u \in Users,
           ScheduleCached(u) \/ ScheduleReadsMarks(u) \/ ScheduleBlind(u)
    PROVE  /\ MarksKnown' /\ SnapshotTells' /\ seen' = seen /\ uses' = uses
           /\ \E from \in SUBSET Nodes :
                /\ Grows(from, u)
                /\ \A n \in from : drainAge[n] < CacheTtl \/ snapshot'.blind = TRUE
<1>1. seen' = seen /\ uses' = uses /\ drains' = drains /\ drainAge' = drainAge
  BY DEF ScheduleCached, ScheduleReadsMarks, ScheduleBlind, ScheduleListed, registryVars, nodeVars
<1>2. MarksKnown' BY <1>1 DEF MarksKnown
<1>3. snapshot \in SnapshotType BY TypeParts DEF PickOK, SnapshotOK
<1>4. drainAge \in [Nodes -> NotDrained..CacheTtl] BY DEF TypeOK
<1>5. CASE ScheduleCached(u)
  <2>1. snapshot' = snapshot /\ snapshot.life > 0 /\ IssueAll(snapshot.nodes, u)
    BY <1>5 DEF ScheduleCached, pickVars
  <2>2. snapshot.nodes \in Lists /\ snapshot.life \in 0..CacheTtl /\ snapshot.blind \in BOOLEAN
    BY <1>3 DEF SnapshotType
  <2>3. Grows(Open(snapshot.nodes), u) BY <2>1, <2>2, IssueOutcome DEF Open
  <2>4. Open(snapshot.nodes) \in SUBSET Nodes BY <2>2, ListsFacts DEF Open
  <2>5. ASSUME NEW n \in Open(snapshot.nodes)
        PROVE  drainAge[n] < CacheTtl \/ snapshot'.blind = TRUE
    <3>1. CASE snapshot.blind = FALSE
      <4>1. drainAge[n] <= CacheTtl - snapshot.life BY <2>1, <2>5, <3>1 DEF SnapshotTells
      <4> QED BY <1>4, <2>1, <2>2, <2>4, <4>1, Numbers DEF NotDrained
    <3>2. CASE snapshot.blind = TRUE BY <2>1, <3>2
    <3> QED BY <2>2, <3>1, <3>2
  <2>6. SnapshotTells' BY <1>1, <2>1 DEF SnapshotTells, Open
  <2> QED BY <1>1, <1>2, <2>3, <2>4, <2>5, <2>6
<1>6. ASSUME NEW known, NEW blind \in BOOLEAN, ScheduleListed(u, known, blind),
             blind = FALSE => known = drains
      PROVE  /\ SnapshotTells'
             /\ \E from \in SUBSET Nodes :
                  /\ Grows(from, u)
                  /\ \A n \in from : drainAge[n] < CacheTtl \/ snapshot'.blind = TRUE
  <2>1. PICK recs : recs = Overlaid(lister["pick"].recs, known) OBVIOUS
  <2>2. recs \in Lists /\ \A n \in Open(recs) : n \notin known
    BY <2>1, ListerFacts, OverlaidFacts DEF Open
  <2>3. Grows(Open(recs), u) BY <1>6, <2>1, <2>2, IssueOutcome DEF ScheduleListed, Open
  <2>4. snapshot' = [nodes |-> recs, life |-> CacheTtl, blind |-> blind]
    BY <1>6, <2>1 DEF ScheduleListed
  <2>5. snapshot'.nodes = recs /\ snapshot'.life = CacheTtl /\ snapshot'.blind = blind BY <2>4
  <2>6. Open(recs) \in SUBSET Nodes BY <2>2, ListsFacts DEF Open
  <2>7. ASSUME NEW n \in Open(recs), blind = FALSE PROVE drainAge[n] = NotDrained
    BY <1>6, <2>2, <2>6, <2>7 DEF MarksKnown
  <2>n. NotDrained < CacheTtl /\ NotDrained <= CacheTtl - CacheTtl BY Numbers DEF NotDrained
  <2>8. ASSUME NEW n \in Open(recs) PROVE drainAge[n] < CacheTtl \/ snapshot'.blind = TRUE
    <3>1. CASE blind = FALSE
      <4>1. drainAge[n] = NotDrained BY <2>7, <2>8, <3>1
      <4> QED BY <2>n, <4>1
    <3>2. CASE blind = TRUE BY <2>5, <3>2
    <3> QED BY <1>6, <3>1, <3>2
  <2>9. ASSUME NEW n \in Open(recs), blind = FALSE PROVE drainAge'[n] <= CacheTtl - CacheTtl
    <3>1. drainAge'[n] = NotDrained BY <1>1, <2>7, <2>9
    <3> QED BY <2>n, <3>1
  <2>10. SnapshotTells' BY <2>5, <2>9 DEF SnapshotTells, Open
  <2> QED BY <2>3, <2>6, <2>8, <2>10
<1>7. CASE ScheduleReadsMarks(u)
  <2>1. ScheduleListed(u, drains, FALSE) BY <1>7 DEF ScheduleReadsMarks
  <2> QED BY <1>1, <1>2, <1>6, <2>1
<1>8. CASE ScheduleBlind(u)
  <2>1. ScheduleListed(u, {}, TRUE) BY <1>8 DEF ScheduleBlind
  <2> QED BY <1>1, <1>2, <1>6, <2>1
<1> QED BY <1>5, <1>7, <1>8
---------------------------------------------------------------------------
LEMMA FleetStep == TypeOK /\ FleetInv /\ [Next]_vars => FleetInv'
<1> SUFFICES ASSUME TypeOK, FleetInv, [Next]_vars PROVE FleetInv' OBVIOUS
<1>0. Numbered /\ OnceKnown /\ MarksKnown /\ SnapshotTells BY DEF FleetInv
<1>1. ticket' = ticket => Numbered' BY <1>0 DEF Numbered, Signed
<1>2. UNCHANGED tables => OnceKnown' BY <1>0 DEF tables, OnceKnown, Once
<1>3. UNCHANGED marks => MarksKnown' /\ SnapshotTells'
  BY <1>0 DEF marks, MarksKnown, SnapshotTells, Open
<1>4. CASE UNCHANGED tables /\ UNCHANGED marks
  BY <1>1, <1>2, <1>3, <1>4 DEF FleetInv, tables
<1>5. ASSUME NEW n \in Nodes, Start(n) /\ UNCHANGED marks PROVE FleetInv'
  <2>1. ticket' = ticket BY <1>5 DEF Start
  <2> QED BY <1>0, <1>1, <1>3, <1>5, <2>1, OnceStart DEF FleetInv
<1>6. ASSUME NEW n \in Nodes, NEW j \in Tickets, Claim(n, j), UNCHANGED ticket, UNCHANGED marks
      PROVE  FleetInv'
  BY <1>0, <1>1, <1>3, <1>6, OnceClaim DEF FleetInv
<1>7. ASSUME NEW n \in Nodes, NEW scp \in {"lease", "admin"}, ConsoleTicket(n, scp)
      PROVE  FleetInv'
  <2>1. Grows(Nodes, Operator) BY <1>0, <1>7, ConsoleOutcome
  <2>2. seen' = seen /\ uses' = uses /\ UNCHANGED marks
    BY <1>7 DEF ConsoleTicket, nodeVars, registryVars, pickVars, marks
  <2>3. Numbered' BY <2>1, GrowsFacts
  <2>4. OnceKnown' BY <1>0, <2>1, <2>2, GrowsOnce
  <2> QED BY <1>3, <2>2, <2>3, <2>4 DEF FleetInv
<1>8. ASSUME NEW u \in Users, ScheduleCached(u) \/ ScheduleReadsMarks(u) \/ ScheduleBlind(u)
      PROVE  FleetInv'
  <2>1. MarksKnown' /\ SnapshotTells' /\ seen' = seen /\ uses' = uses
    BY <1>0, <1>8, ScheduleTells
  <2>2. PICK from \in SUBSET Nodes : Grows(from, u) BY <1>0, <1>8, ScheduleTells
  <2>3. Numbered' BY <2>2, GrowsFacts
  <2>4. OnceKnown' BY <1>0, <2>1, <2>2, GrowsOnce
  <2> QED BY <2>1, <2>3, <2>4 DEF FleetInv
<1>9. ASSUME NEW n \in Nodes, NEW b \in BOOLEAN, SetDrain(n, b) PROVE FleetInv'
  <2>1. MarksKnown' /\ SnapshotTells' /\ UNCHANGED tables BY <1>0, <1>9, DrainTells
  <2> QED BY <1>1, <1>2, <2>1 DEF FleetInv, tables
<1>10. CASE Tick
  <2>1. Numbered'
    <3>1. Signed' = Signed BY <1>10, TickFacts
    <3> QED BY <1>0, <3>1 DEF Numbered
  <2> QED BY <1>0, <1>10, <2>1, OnceTick, TickTells DEF FleetInv
<1> QED BY <1>4, <1>5, <1>6, <1>7, <1>8, <1>9, <1>10, Steps

LEMMA Inductive == Spec => [](TypeOK /\ FleetInv)
<1>1. Init => TypeOK /\ FleetInv BY TypeInit, FleetInit
<1>2. FleetInv => Numbered BY DEF FleetInv
<1>3. TypeOK /\ FleetInv /\ [Next]_vars => TypeOK' /\ FleetInv' BY <1>2, TypeStep, FleetStep
<1> QED BY <1>1, <1>3, PTL DEF Spec

(* Workers, records, lists, tickets and tables keep their types, whatever  *)
(* calls are lost or still carried out after they were given up; a table   *)
(* of used tickets holds signed ones only.                                 *)
THEOREM TypeCorrect == Spec => []TypeOK
BY Inductive, PTL

(* createTicketGuard(): a node accepts no ticket twice in one boot,        *)
(* although the table that remembers them is purged, for any size of the   *)
(* table, any life of a ticket and any number of them.                     *)
THEOREM TicketsAreUsedOnce == Spec => []TicketOnce
<1>1. TypeOK /\ FleetInv => TicketOnce BY DEF FleetInv, OnceKnown, Once, TicketOnce
<1> QED BY <1>1, Inductive, PTL

LEMMA DrainStep ==
    ASSUME TypeOK, FleetInv, [Next]_vars, NEW j \in Tickets, ticket[j] = NoTicket,
           ticket'[j] # NoTicket, ticket'[j].user \in Users
    PROVE  drainAge[ticket'[j].nid] < CacheTtl \/ snapshot'.blind
<1>0. Numbered /\ MarksKnown /\ SnapshotTells BY DEF FleetInv
<1>1. ticket' # ticket OBVIOUS
<1>2. ~Tick BY TickFacts
<1>3. ~(\E n \in Nodes, b \in BOOLEAN : SetDrain(n, b)) BY <1>1 DEF SetDrain
<1>4. ~(\E n \in Nodes : Start(n)) BY <1>1 DEF Start
<1>5. ASSUME NEW from \in SUBSET Nodes, NEW u \in Users \union {Operator}, Grows(from, u)
      PROVE  ticket'[j].user = u /\ ticket'[j].nid \in from
  <2>1. PICK new : New(new, from, u) BY <1>5 DEF Grows
  <2>2. j \in new BY <2>1 DEF New
  <2>3. PICK n \in from, scp \in {"lease", "admin"} : ticket'[j] = Ticket(n, u, scp)
    BY <2>1, <2>2 DEF New
  <2>4. n \in Nodes BY <2>3
  <2> QED BY <2>3, <2>4, TicketFacts
<1>6. ~(\E n \in Nodes, scp \in {"lease", "admin"} : ConsoleTicket(n, scp))
  <2> SUFFICES ASSUME NEW n \in Nodes, NEW scp \in {"lease", "admin"}, ConsoleTicket(n, scp)
               PROVE  FALSE
    OBVIOUS
  <2>1. Grows(Nodes, Operator) BY <1>0, ConsoleOutcome
  <2>2. ticket'[j].user = Operator BY <1>5, <2>1
  <2> QED BY <2>2, FleetAssumption
<1>7. PICK u \in Users : ScheduleCached(u) \/ ScheduleReadsMarks(u) \/ ScheduleBlind(u)
  BY <1>1, <1>2, <1>3, <1>4, <1>6, Steps DEF tables
<1>8. PICK from \in SUBSET Nodes :
        Grows(from, u) /\ \A n \in from : drainAge[n] < CacheTtl \/ snapshot'.blind = TRUE
  BY <1>0, <1>7, ScheduleTells
<1>9. ticket'[j].nid \in from BY <1>5, <1>8
<1> QED BY <1>8, <1>9

(* An operator's drain takes effect within one life of the scheduler's     *)
(* snapshot, whatever the node does meanwhile, unless the marks could not  *)
(* be read (list() and effectiveInMs of /ui/drain): a property of every    *)
(* step that signs a ticket for a user.                                    *)
THEOREM DrainsTakeEffect == Spec => DrainTakesEffect
<1>1. TypeOK /\ FleetInv /\ [Next]_vars =>
        [\A j \in Tickets :
           ticket[j] = NoTicket /\ ticket'[j] # NoTicket /\ ticket'[j].user \in Users
             => drainAge[ticket'[j].nid] < CacheTtl \/ snapshot'.blind]_vars
  BY DrainStep
<1> QED BY <1>1, Inductive, PTL DEF Spec, DrainTakesEffect
=============================================================================
