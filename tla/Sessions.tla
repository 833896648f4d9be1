------------------------------ MODULE Sessions ------------------------------
(***************************************************************************)
(* The conversations of one user: a row per session with its project and   *)
(* its numbered transcript lines in another table, the projects that group *)
(* them, and the calls that change them in several statements: turns,      *)
(* compactions, session patches, and the deletion of a session or of a     *)
(* project.  A line is the call that wrote it; titles are left out.  The   *)
(* list's order (pinned, time, key) appears only as what a project's       *)
(* deletion, which pages through it by cursor, still has before it.        *)
(***************************************************************************)
EXTENDS Integers, FiniteSets, Sequences

CONSTANTS
    Keys, Projects, Requests,
    Page,      \* sessions per page of the list
    MaxLines   \* bound on all transcripts together

VARIABLES
    row,      \* session -> the project in its row, NoProject, or NoRow
    entries,  \* session -> its lines by seq
    project,  \* project -> "unborn", "live" or "gone"
    request,  \* call -> its state
    raced,    \* sessions whose deletion and a turn's save overlapped
    left      \* project -> sessions that its deletion may miss

stored == <<row, entries, project>>
sessionsVars == <<stored, request, raced, left>>

NoRow == "no row"
NoProject == "no project"

\* A project is neither of these.
ASSUME SessionsAssumption ==
    /\ IsFiniteSet(Keys) /\ IsFiniteSet(Projects) /\ IsFiniteSet(Requests)
    /\ NoRow \notin Projects /\ NoProject \notin Projects
    /\ Page \in Nat \ {0} /\ MaxLines \in Nat
NoCall == [op |-> "none"]
NoLines == [i \in {} |-> NoCall]

Begin(p, q) == request[p] = NoCall /\ request' = [request EXCEPT ![p] = q]
Go(p, q) == request' = [request EXCEPT ![p] = q]
End(p) == request' = [request EXCEPT ![p] = NoCall]
Calls(k, ops) == {p \in Requests : request[p].op \in ops /\ request[p].key = k}

\* The lines in the order of seq, as load gives them.
Sorted(f) ==
    [n \in 1..Cardinality(DOMAIN f) |->
        f[CHOOSE i \in DOMAIN f : Cardinality({j \in DOMAIN f : j < i}) = n - 1]]

In(j) == {k \in Keys : row[k] = j}
Out(k) == [j \in Projects |-> left[j] \ {k}]

\* What a change of a session's place in the list does to the deletions that
\* page through it: the session may come to be behind their cursor, or before.
Paging == {p \in Requests : request[p].op \in {"list", "release"}}
Moved(k, q, behind) ==
    [p \in Requests |->
        IF p \in Paging
        THEN [request[p] EXCEPT !.rest = IF behind THEN @ \union {k} ELSE @ \ {k}]
        ELSE q[p]]
Bump(k, q) ==
    /\ \E behind \in IF Paging = {} THEN {FALSE} ELSE BOOLEAN : request' = Moved(k, q, behind)
    /\ left' = [j \in Projects |->
            IF k \in In(j) /\ \E p \in Paging : request[p].project = j
            THEN left[j] \union {k} ELSE left[j]]

-----------------------------------------------------------------------------
(* A turn: context, load, prompt, save, title, project.                    *)

\* buildContext: a session without a row is new, and only then does the
\* project that was asked for count: load() gives no project.
Turn(p, k, j) ==
    /\ LET asked == IF row[k] = NoRow THEN j ELSE NoProject IN
       Begin(p, [op |-> IF asked = NoProject THEN "row" ELSE "context", key |-> k,
                 new |-> row[k] = NoRow, turn |-> TRUE, project |-> asked])
    /\ UNCHANGED <<stored, raced, left>>

Context(p) ==
    LET q == request[p] IN
    /\ q.op = "context"
    /\ Go(p, [q EXCEPT !.op = "row", !.project = IF project[@] = "live" THEN @ ELSE NoProject])
    /\ UNCHANGED <<stored, raced, left>>

\* compactSession: the same load and save.
Compact(p, k) ==
    /\ Begin(p, [op |-> "row", key |-> k, new |-> FALSE, turn |-> FALSE, project |-> NoProject])
    /\ UNCHANGED <<stored, raced, left>>

\* load(): the row, then the lines if there is one.  The call adds lines of
\* its own to them; there is nothing to compact in a session without any.
Elsewhere(k) == Cardinality(UNION {{o} \X DOMAIN entries[o] : o \in Keys \ {k}})
Prompted(p, q, alone, lines) ==
    IF ~q.turn /\ lines = <<>> THEN End(p)
    ELSE \E n \in 1..2 :
            /\ Len(lines) + n + Elsewhere(q.key) <= MaxLines
            /\ Go(p, [op |-> "save", key |-> q.key, new |-> q.new, project |-> q.project,
                      alone |-> alone, lines |-> lines \o [i \in 1..n |-> p]])

LoadRow(p) ==
    LET q == request[p] IN
    /\ q.op = "row"
    /\ IF row[q.key] = NoRow THEN Prompted(p, q, TRUE, <<>>)
       ELSE Go(p, [op |-> "lines", key |-> q.key, new |-> q.new, turn |-> q.turn,
                   project |-> q.project, alone |-> TRUE])
    /\ UNCHANGED <<stored, raced, left>>

LoadLines(p) ==
    LET q == request[p] IN
    /\ q.op = "lines"
    /\ Prompted(p, q, q.alone, Sorted(entries[q.key]))
    /\ UNCHANGED <<stored, raced, left>>

\* save(), a transaction: the lines that are there are counted...
Already(k) == Cardinality(DOMAIN entries[k])
AlreadyNext(k) == Cardinality(DOMAIN entries[k]) + 1
Counted(k) == Already(k)
Count(p) ==
    LET q == request[p] IN
    /\ q.op = "save"
    /\ Go(p, [op |-> "insert", key |-> q.key, new |-> q.new,
              project |-> q.project, alone |-> q.alone, lines |-> q.lines,
              already |-> Counted(q.key)])
    /\ UNCHANGED <<stored, raced, left>>

\* ... and those beyond are inserted, each under its number, which must be free.
Fresh(q) == q.already..(Len(q.lines) - 1)
Inserted(q) ==
    [i \in DOMAIN entries[q.key] \union Fresh(q) |->
        IF i \in Fresh(q) THEN q.lines[i + 1] ELSE entries[q.key][i]]

\* The other turns of the session can no longer be stored whole.
NotAlone(k, p, q) ==
    [o \in Requests |->
        IF o = p THEN q
        ELSE IF o \in Calls(k, {"lines", "save", "insert", "saved"})
             THEN [request[o] EXCEPT !.alone = FALSE] ELSE request[o]]
Commit(p) ==
    LET q == request[p] IN
    /\ q.op = "insert"
    /\ IF Fresh(q) \intersect DOMAIN entries[q.key] # {}
       THEN End(p) /\ UNCHANGED <<stored, raced, left>>
       ELSE /\ entries' = [entries EXCEPT ![q.key] = Inserted(q)]
            /\ row' = [row EXCEPT ![q.key] = IF @ = NoRow THEN NoProject ELSE @]
            /\ Bump(q.key, NotAlone(q.key, p,
                    [op |-> "saved", key |-> q.key, new |-> q.new, project |-> q.project,
                     alone |-> q.alone, lines |-> IF q.alone THEN q.lines ELSE <<>>]))
            /\ raced' = IF Calls(q.key, {"remove"}) = {} THEN raced ELSE raced \union {q.key}
            /\ UNCHANGED project

\* The title made for a new session, if one was made in time.
Title(p) ==
    LET q == request[p]
        next == IF q.project = NoProject THEN NoCall
                ELSE [op |-> "assign", key |-> q.key, project |-> q.project] IN
    /\ q.op = "saved"
    /\ \/ Go(p, next) /\ UNCHANGED left
       \/ /\ q.new /\ row[q.key] # NoRow
          /\ Bump(q.key, [request EXCEPT ![p] = next])
    /\ UNCHANGED <<stored, raced>>

\* patch({projectId}), by the turn and by PATCH: the project is not looked up
\* again.
Assign(p) ==
    LET q == request[p]
        there == row[q.key] # NoRow IN
    /\ q.op = "assign"
    /\ row' = IF there THEN [row EXCEPT ![q.key] = q.project] ELSE row
    /\ left' = IF there
               THEN [Out(q.key) EXCEPT ![q.project] =
                        IF project[q.project] = "gone" THEN @ \union {q.key} ELSE @]
               ELSE left
    /\ End(p)
    /\ UNCHANGED <<entries, project, raced>>

-----------------------------------------------------------------------------
(* PATCH and DELETE of a session.                                          *)

\* title, pinned: nothing but the place in the list, which matters while one
\* pages through it.
Touch(k) ==
    /\ row[k] # NoRow /\ Paging # {}
    /\ Bump(k, request)
    /\ UNCHANGED <<stored, raced>>

\* projectId: the project is looked up, and then patched in.
MoveTo(p, k, j) ==
    /\ project[j] = "live"
    /\ Begin(p, [op |-> "assign", key |-> k, project |-> j])
    /\ UNCHANGED <<stored, raced, left>>

Ungroup(k) ==
    /\ row[k] \in Projects
    /\ row' = [row EXCEPT ![k] = NoProject]
    /\ left' = Out(k)
    /\ UNCHANGED <<entries, project, request, raced>>

\* remove(): the lines, then the row.
AllLines(k) == entries[k]
Emptied(k) == NoLines
RemoveEntries(p, k) ==
    /\ request[p] = NoCall
    /\ request' = NotAlone(k, p, [op |-> "remove", key |-> k])
    /\ entries' = [entries EXCEPT ![k] = Emptied(k)]
    /\ raced' = IF Calls(k, {"insert"}) = {} THEN raced \ {k} ELSE raced \union {k}
    /\ UNCHANGED <<row, project, left>>

RemoveRow(p) ==
    LET q == request[p] IN
    /\ q.op = "remove"
    /\ row' = [row EXCEPT ![q.key] = NoRow]
    /\ left' = Out(q.key)
    /\ End(p)
    /\ UNCHANGED <<entries, project, raced>>

-----------------------------------------------------------------------------
(* Projects.                                                               *)

CreateProject(j) ==
    /\ project[j] = "unborn"
    /\ project' = [project EXCEPT ![j] = "live"]
    /\ UNCHANGED <<row, entries, request, raced, left>>

\* DELETE: the record, ...
DeleteProject(p, j) ==
    /\ project[j] = "live"
    /\ project' = [project EXCEPT ![j] = "gone"]
    /\ Begin(p, [op |-> "list", project |-> j, rest |-> Keys])
    /\ UNCHANGED <<row, entries, raced, left>>

\* ... then a page of its sessions after the other, ...
Listed(q) == q.rest \intersect In(q.project)
HasMore(q) == Cardinality(Listed(q)) > Page
List(p) ==
    LET q == request[p] IN
    /\ q.op = "list"
    /\ \E page \in SUBSET Listed(q), passed \in SUBSET (q.rest \ Listed(q)) :
         /\ Cardinality(page) = Page \/ (page = Listed(q) /\ Cardinality(page) <= Page)
         /\ Go(p, [op |-> "release", project |-> q.project, page |-> page,
                   rest |-> q.rest \ (page \union passed), more |-> HasMore(q)])
    /\ UNCHANGED <<stored, raced, left>>

\* ... each session of the page on its own, passing over one that fails.
Release(p) ==
    LET q == request[p] IN
    /\ q.op = "release"
    /\ \/ /\ q.page = {}
          /\ IF q.more THEN Go(p, [op |-> "list", project |-> q.project, rest |-> q.rest]) ELSE End(p)
          /\ UNCHANGED <<row, left>>
       \/ \E k \in q.page, done \in BOOLEAN :
          /\ row' = IF done /\ row[k] # NoRow
                    THEN [row EXCEPT ![k] = NoProject] ELSE row
          /\ left' = IF done THEN Out(k)
                     ELSE [left EXCEPT ![q.project] = @ \union ({k} \intersect In(q.project))]
          /\ Go(p, [q EXCEPT !.page = @ \ {k}])
    /\ UNCHANGED <<entries, project, raced>>

\* A statement fails, a prompt times out, or the process dies.
Abandon(p) ==
    /\ request[p] # NoCall
    /\ left' = IF p \in Paging THEN [left EXCEPT ![request[p].project] = In(request[p].project)] ELSE left
    /\ End(p)
    /\ UNCHANGED <<stored, raced>>

-----------------------------------------------------------------------------
SessionsInit ==
    /\ row = [k \in Keys |-> NoRow]
    /\ entries = [k \in Keys |-> NoLines]
    /\ project = [j \in Projects |-> "unborn"]
    /\ request = [p \in Requests |-> NoCall]
    /\ raced = {}
    /\ left = [j \in Projects |-> {}]

SessionsNext ==
    \/ \E p \in Requests :
         \/ \E k \in Keys :
              \/ \E j \in Projects \union {NoProject} : Turn(p, k, j)
              \/ \E j \in Projects : MoveTo(p, k, j)
              \/ Compact(p, k) \/ RemoveEntries(p, k)
         \/ Context(p) \/ LoadRow(p) \/ LoadLines(p) \/ Count(p) \/ Commit(p)
         \/ Title(p) \/ Assign(p) \/ RemoveRow(p)
         \/ \E j \in Projects : DeleteProject(p, j)
         \/ List(p) \/ Release(p) \/ Abandon(p)
    \/ \E k \in Keys : Touch(k) \/ Ungroup(k)
    \/ \E j \in Projects : CreateProject(j)

SessionsSpec == SessionsInit /\ [][SessionsNext]_sessionsVars
-----------------------------------------------------------------------------
Dense(f) == DOMAIN f = 0..(Cardinality(DOMAIN f) - 1)

(* The variables keep their types.  The lines of a session are numbered    *)
(* without a gap, and there are none without a row that a new session of   *)
(* the same key would continue, unless a save and a deletion overlapped.   *)
SessionsTypeOK ==
    /\ \A k \in Keys :
         /\ row[k] \in Projects \union {NoProject, NoRow}
         /\ DOMAIN entries[k] \subseteq 0..(MaxLines - 1)
         /\ k \notin raced => Dense(entries[k]) /\ (row[k] = NoRow => entries[k] = NoLines)
    /\ project \in [Projects -> {"unborn", "live", "gone"}]
    /\ raced \subseteq Keys
    /\ left \in [Projects -> SUBSET Keys]
    /\ \A p \in Paging : request[p].rest \subseteq Keys /\ request[p].project \in Projects

(* A turn or a compaction that ran without another save or a deletion of   *)
(* its session since its load is stored whole: what the next load gives is *)
(* what the model saw and answered.  (save() inserts only the lines beyond *)
(* those it counts.)                                                       *)
SavedWhole ==
    \A p \in Requests :
        request[p].op = "saved" /\ request[p].alone /\ request[p].key \notin raced
            => Sorted(entries[request[p].key]) = request[p].lines

(* Deleting a project takes every session out of it, however many pages    *)
(* there are, but for those that moved in the list meanwhile, whose patch  *)
(* failed, or that were put into it after its record was gone.             *)
Released ==
    \A j \in Projects :
        project[j] = "gone" /\ (\A p \in Paging : request[p].project # j)
            => In(j) \subseteq left[j]

(* Both: what turns and deletions leave behind is whole.                   *)
StoredWhole == SavedWhole /\ Released
=============================================================================
