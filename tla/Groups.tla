------------------------------- MODULE Groups -------------------------------
(***************************************************************************)
(* Groups of users and the models that are offered to them.  An account    *)
(* names its group and a model the groups it is offered to (none: to all); *)
(* both are ids in records of their own, in a store without foreign keys.  *)
(* Each administrator's request is a process whose steps are the store's   *)
(* statements: every other request may run between two of them, and any of *)
(* them may fail and end the request there.                                *)
(***************************************************************************)
EXTENDS Integers, FiniteSets, Sequences

CONSTANTS Groups, People, Models, Names,
          Edits,      \* bound: administrators' requests at a time
          PageSize    \* accounts per page of clearGroup (PAGE_MAX)

VARIABLES
    group,   \* id -> its record, a group or the default group; ids are not reused
    member,  \* username -> its group
    model,   \* id -> the model's name upstream and the groups it is offered to
    edit,    \* the requests in progress
    cut,     \* whether a statement has failed
    back     \* groups written into a record while or after they were deleted

vars == <<group, member, model, edit, cut, back>>

NoGroup == "no group"
Absent == "absent"
NoModel == [name |-> Absent]
Idle == [op |-> "none"]

Exists(g) == group[g] \in {"plain", "default"}
Record(isDefault) == IF isDefault THEN "default" ELSE "plain"
Go(p, e) == edit' = [edit EXCEPT ![p] = e]
Begin(p, e) == edit[p] = Idle /\ Go(p, e)
Deleting(g) == \E p \in Edits : edit[p].op = "delete" /\ edit[p].group = g
\* One put or merge that leaves gs in a record.
Naming(gs) == back' = back \union {g \in gs : Deleting(g) \/ group[g] = "gone"}

-----------------------------------------------------------------------------
(* Groups and the one that new accounts join.                              *)

\* clearDefaultExcept follows the write of a record that is to be the default.
Clearing(g, isDefault) == IF isDefault THEN [op |-> "scan", keep |-> g] ELSE Idle
NoClearing(g, isDefault) == Idle
AfterWrite(g, isDefault) == Clearing(g, isDefault)

CreateGroup(p, g, isDefault) ==
    /\ group[g] = "new"
    /\ group' = [group EXCEPT ![g] = Record(isDefault)]
    /\ Begin(p, AfterWrite(g, isDefault))
    /\ UNCHANGED <<member, model, cut, back>>

UpdateGroup(p, g, isDefault) ==
    /\ Exists(g)
    /\ group' = [group EXCEPT ![g] = Record(isDefault)]
    /\ Begin(p, AfterWrite(g, isDefault))
    /\ UNCHANGED <<member, model, cut, back>>

ScanDefaults(p) ==
    /\ edit[p].op = "scan"
    /\ Go(p, [op |-> "clear",
              others |-> {h \in Groups \ {edit[p].keep} : group[h] = "default"}])
    /\ UNCHANGED <<group, member, model, cut, back>>

ClearDefault(p) ==
    /\ edit[p].op = "clear"
    /\ \E h \in edit[p].others :
         /\ group' = [group EXCEPT ![h] = IF Exists(h) THEN "plain" ELSE @]
         /\ Go(p, [edit[p] EXCEPT !.others = @ \ {h}])
    /\ UNCHANGED <<member, model, cut, back>>

ClearDone(p) ==
    /\ edit[p].op = "clear" /\ edit[p].others = {}
    /\ Go(p, Idle)
    /\ UNCHANGED <<group, member, model, cut, back>>

-----------------------------------------------------------------------------
(* Deleting a group: the accounts, the models, then the group itself.      *)

Detached == <<"users", "models", "remove">>
RemovedFirst == <<"remove", "users", "models">>
Order == Detached

Deletion(g, left) ==
    [op |-> "delete", group |-> g, left |-> left, after |-> 0, todo |-> {}, drops |-> {},
     last |-> FALSE]

DeleteGroup(p, g) ==
    /\ Exists(g)
    /\ Begin(p, Deletion(g, Order))
    /\ back' = IF Deleting(g) THEN back ELSE back \ {g}
    /\ UNCHANGED <<group, member, model, cut>>

\* clearGroup reads a page of accounts, in the order of their names...
PageAfter(u) == {v \in People : member[v] # Absent /\ v > u
                     /\ Cardinality({w \in People : member[w] # Absent /\ w > u /\ w < v})
                          < PageSize}
ReadPage(p) ==
    LET e == edit[p]
        page == PageAfter(e.after) IN
    /\ e.op = "delete" /\ e.left # <<>> /\ Head(e.left) = "users" /\ e.todo = {} /\ ~e.last
    /\ Go(p, [e EXCEPT !.todo = {v \in page : member[v] = e.group},
                       !.after = IF page = {} THEN @
                                 ELSE CHOOSE v \in page : \A w \in page : w <= v,
                       !.last = \A v \in People : member[v] # Absent /\ v > e.after
                                                     => v \in page])
    /\ UNCHANGED <<group, member, model, cut, back>>

\* ... and takes those out of the group that were in it when the page was read.
ClearMember(p) ==
    /\ edit[p].op = "delete" /\ edit[p].left # <<>> /\ Head(edit[p].left) = "users"
    /\ \E v \in edit[p].todo :
         /\ member' = [member EXCEPT ![v] = NoGroup]
         /\ Go(p, [edit[p] EXCEPT !.todo = @ \ {v}])
    /\ UNCHANGED <<group, model, cut, back>>

UsersDone(p) ==
    /\ edit[p].op = "delete" /\ edit[p].left # <<>> /\ Head(edit[p].left) = "users"
    /\ edit[p].todo = {} /\ edit[p].last
    /\ Go(p, Deletion(edit[p].group, Tail(edit[p].left)))
    /\ UNCHANGED <<group, member, model, cut, back>>

\* dropGroup reads every model, then merges what is left of each list it read.
ReadModels(p) ==
    LET e == edit[p] IN
    /\ e.op = "delete" /\ e.left # <<>> /\ Head(e.left) = "models" /\ ~e.last
    /\ Go(p, [e EXCEPT !.last = TRUE,
                       !.drops = {[id |-> m, rest |-> model[m].groups \ {e.group}] :
                                    m \in {n \in Models : /\ model[n] # NoModel
                                                          /\ e.group \in model[n].groups}}])
    /\ UNCHANGED <<group, member, model, cut, back>>

DropFromModel(p) ==
    /\ edit[p].op = "delete" /\ edit[p].left # <<>> /\ Head(edit[p].left) = "models"
    /\ \E d \in edit[p].drops :
         /\ model' = [model EXCEPT ![d.id] =
                        IF @ = NoModel THEN @ ELSE [@ EXCEPT !.groups = d.rest]]
         /\ Naming(d.rest)
         /\ Go(p, [edit[p] EXCEPT !.drops = @ \ {d}])
    /\ UNCHANGED <<group, member, cut>>

ModelsDone(p) ==
    /\ edit[p].op = "delete" /\ edit[p].left # <<>> /\ Head(edit[p].left) = "models"
    /\ edit[p].drops = {} /\ edit[p].last
    /\ Go(p, Deletion(edit[p].group, Tail(edit[p].left)))
    /\ UNCHANGED <<group, member, model, cut, back>>

RemoveGroup(p) ==
    /\ edit[p].op = "delete" /\ edit[p].left # <<>> /\ Head(edit[p].left) = "remove"
    /\ group' = [group EXCEPT ![edit[p].group] = "gone"]
    /\ Go(p, Deletion(edit[p].group, Tail(edit[p].left)))
    /\ UNCHANGED <<member, model, cut, back>>

DeleteDone(p) ==
    /\ edit[p].op = "delete" /\ edit[p].left = <<>>
    /\ Go(p, Idle)
    /\ UNCHANGED <<group, member, model, cut, back>>

-----------------------------------------------------------------------------
(* Accounts join groups.                                                   *)

\* The group is looked up, then written.
SetGroup(p, u, g) ==
    /\ g # NoGroup => Exists(g)
    /\ Begin(p, [op |-> "join", user |-> u, group |-> g])
    /\ UNCHANGED <<group, member, model, cut, back>>

Join(p) ==
    LET e == edit[p] IN
    /\ e.op = "join"
    /\ IF member[e.user] # Absent
       THEN member' = [member EXCEPT ![e.user] = e.group] /\ Naming({e.group} \ {NoGroup})
       ELSE UNCHANGED <<member, back>>
    /\ Go(p, Idle)
    /\ UNCHANGED <<group, model, cut>>

\* create: the group that is named, or else the default group, is looked up and
\* the password derived, then putIfAbsent.
CreateUser(p, u) ==
    /\ \E g \in {h \in Groups : Exists(h)} \union {NoGroup} :
         Begin(p, [op |-> "new", user |-> u, group |-> g])
    /\ UNCHANGED <<group, member, model, cut, back>>

\* A name that is taken is refused, or, if its account was never activated,
\* registered anew.
PutUser(p) ==
    LET e == edit[p] IN
    /\ e.op = "new"
    /\ \/ member' = [member EXCEPT ![e.user] = e.group] /\ Naming({e.group} \ {NoGroup})
       \/ member[e.user] # Absent /\ UNCHANGED <<member, back>>
    /\ Go(p, Idle)
    /\ UNCHANGED <<group, model, cut>>

-----------------------------------------------------------------------------
(* Models.  The form offers the groups that exist when it is sent.         *)

\* assertModelIdFree.
Free(n, m) == \A k \in Models \ {m} : model[k] # NoModel => model[k].name # n

SaveModel(p, m, n, gs) ==
    /\ \A g \in gs : Exists(g)
    /\ model[m] = NoModel \/ model[m].name # n => Free(n, m)
    /\ Begin(p, [op |-> IF model[m] = NoModel THEN "put" ELSE "merge", id |-> m,
                 value |-> [name |-> n, groups |-> gs]])
    /\ UNCHANGED <<group, member, model, cut, back>>

WriteModel(p) ==
    LET e == edit[p] IN
    /\ e.op \in {"put", "merge"}
    /\ IF e.op = "put" \/ model[e.id] # NoModel
       THEN model' = [model EXCEPT ![e.id] = e.value] /\ Naming(e.value.groups)
       ELSE UNCHANGED <<model, back>>
    /\ Go(p, Idle)
    /\ UNCHANGED <<group, member, cut>>

RemoveModel(m) ==
    /\ model[m] # NoModel
    /\ model' = [model EXCEPT ![m] = NoModel]
    /\ UNCHANGED <<group, member, edit, cut, back>>

\* visibleTo: whom a model is offered to.
VisibleTo(m, g) == model[m].groups = {} \/ g \in model[m].groups

-----------------------------------------------------------------------------
\* A statement fails and the request ends with an error.
Fail(p) ==
    /\ edit[p] # Idle
    /\ Go(p, Idle)
    /\ cut' = TRUE
    /\ UNCHANGED <<group, member, model, back>>

Init ==
    /\ group = [g \in Groups |-> "new"]
    /\ member = [u \in People |-> Absent]
    /\ model = [m \in Models |-> NoModel]
    /\ edit = [p \in Edits |-> Idle]
    /\ cut = FALSE /\ back = {}

Next ==
    \/ \E p \in Edits :
         \/ \E g \in Groups : \/ \E d \in BOOLEAN : CreateGroup(p, g, d) \/ UpdateGroup(p, g, d)
                              \/ DeleteGroup(p, g)
         \/ ScanDefaults(p) \/ ClearDefault(p) \/ ClearDone(p)
         \/ ReadPage(p) \/ ClearMember(p) \/ UsersDone(p)
         \/ ReadModels(p) \/ DropFromModel(p) \/ ModelsDone(p)
         \/ RemoveGroup(p) \/ DeleteDone(p)
         \/ \E u \in People : CreateUser(p, u) \/ \E g \in Groups \union {NoGroup} : SetGroup(p, u, g)
         \/ Join(p) \/ PutUser(p)
         \/ \E m \in Models, n \in Names, gs \in SUBSET Groups : SaveModel(p, m, n, gs)
         \/ WriteModel(p) \/ Fail(p)
    \/ \E m \in Models : RemoveModel(m)

Spec == Init /\ [][Next]_vars
-----------------------------------------------------------------------------
TypeOK ==
    /\ group \in [Groups -> {"new", "plain", "default", "gone"}]
    /\ member \in [People -> Groups \union {NoGroup, Absent}]
    /\ model \in [Models -> [name : Names, groups : SUBSET Groups] \union {NoModel}]
    /\ cut \in BOOLEAN /\ back \subseteq Groups
    /\ \A g \in Groups : group[g] = "new" =>
         /\ \A u \in People : member[u] # g
         /\ \A m \in Models : model[m] # NoModel => g \notin model[m].groups

(* However requests that set a default group interleave, when they are     *)
(* done at most one group is the default (clearDefaultExcept follows the   *)
(* write, so that the last to write sees every other); a failed statement  *)
(* may leave two.                                                          *)
OneDefault ==
    ~cut /\ (\A p \in Edits : edit[p].op \notin {"scan", "clear"})
        => Cardinality({g \in Groups : group[g] = "default"}) <= 1

(* Nothing names a group that was deleted, wherever a deletion failed and  *)
(* was tried again, unless a request that overlapped the deletion wrote    *)
(* the group's id back: no account is left in it, and every model that is  *)
(* stored is offered to all or to a group that exists.                     *)
NoDangling ==
    /\ \A g \in Groups \ back, u \in People : group[g] = "gone" => member[u] # g
    /\ back = {} => \A m \in Models : model[m] # NoModel =>
           VisibleTo(m, NoGroup) \/ \E g \in Groups : Exists(g) /\ VisibleTo(m, g)

(* What the records say of each other when no request is under way.        *)
Consistent == OneDefault /\ NoDangling
=============================================================================
