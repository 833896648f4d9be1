------------------------------ MODULE Artifacts ------------------------------
(***************************************************************************)
(* Artifacts and their share links.  An artifact is a record (its versions *)
(* and its share field, the authority on whether it is shared) beside the  *)
(* files of its versions; a link is a pointer in a global table from a     *)
(* token to the artifact.  The model's tool calls write versions, the      *)
(* author shares, publishes, revokes and deletes, visitors follow links    *)
(* and list the market, and none of them holds a lock: each statement of   *)
(* the store is a step, and a request may end after any of them because it *)
(* fails or its process dies.                                              *)
(***************************************************************************)
EXTENDS Integers, FiniteSets, FiniteSetsExt

CONSTANTS ArtifactIds, Tokens, Requests,
          Keep,        \* versions whose files are kept (maxVersions)
          MaxVersion   \* bound: versions of an artifact

ASSUME ArtifactsAssumption ==
    /\ IsFiniteSet(ArtifactIds) /\ IsFiniteSet(Tokens) /\ IsFiniteSet(Requests)
    /\ Keep \in Nat \ {0} /\ MaxVersion \in Nat \ {0}

VARIABLES
    record,   \* artifact -> its record in the owner's collection "artifacts"
    files,    \* artifact -> versions with files in the blob store
    pointer,  \* token -> the artifact its entry in "shares" names
    drawn,    \* tokens drawn so far (newShareToken never repeats)
    request,  \* the requests in progress
    revoked,  \* tokens that were an artifact's share and were cleared
    raced     \* artifacts on which two requests got in each other's way

vars == <<record, files, pointer, drawn, request, revoked, raced>>

NoToken == "no token"
Nowhere == "nowhere"
ASSUME NamesAssumption == NoToken \notin Tokens /\ Nowhere \notin ArtifactIds
Unborn == [state |-> "unborn"]
Gone == [state |-> "gone"]
Fresh == [state |-> "live", version |-> 0, kept |-> {}, share |-> NoToken, market |-> FALSE]
Idle == [op |-> "none"]

Live(a) == record[a] \notin {Unborn, Gone}
Share(a) == IF Live(a) THEN record[a].share ELSE NoToken

Begin(p, q) == request[p] = Idle /\ request' = [request EXCEPT ![p] = q]
Go(p, q) == request' = [request EXCEPT ![p] = q]
End(p) == request' = [request EXCEPT ![p] = Idle]
Race(a, condition) == raced' = IF condition THEN raced \union {a} ELSE raced

-----------------------------------------------------------------------------
(* Versions.                                                               *)

\* The versions that stay in the window once there is one more.
Newest(all, k) == {n \in all : Cardinality({m \in all : m > n}) < k}
KeptBesides(r) == Newest(r.kept \union {r.version + 1}, Keep + 1)
Kept(r) == Newest(r.kept \union {r.version + 1}, Keep)

\* create(): a record that is stored with its first version.
Create(p, a) ==
    /\ record[a] = Unborn /\ \A q \in Requests : request[q] # Idle => request[q].on # a
    /\ Begin(p, [op |-> "files", on |-> a, base |-> Unborn, next |-> Fresh])
    /\ UNCHANGED <<record, files, pointer, drawn, revoked, raced>>

\* write() and replace(): the newest version must be readable, ...
Write(p, a) ==
    /\ Live(a) /\ record[a].version < MaxVersion
    /\ record[a].version \in record[a].kept \intersect files[a]
    /\ Begin(p, [op |-> "read", on |-> a])
    /\ UNCHANGED <<record, files, pointer, drawn, revoked, raced>>

\* ... then the record is read again, and all of it but the versions is put
\* back later.  One that is gone by now ends the call.
ReadAgain(p) ==
    LET a == request[p].on IN
    /\ request[p].op = "read"
    /\ IF Live(a) /\ record[a].version < MaxVersion
       THEN Go(p, [op |-> "files", on |-> a, base |-> record[a], next |-> record[a]])
       ELSE End(p)
    /\ UNCHANGED <<record, files, pointer, drawn, revoked, raced>>

\* commitVersion: the files of the new version, ...
AllFiles(a, r) == files[a] \union {r.version + 1}
AllFilesPruned(a, r) == AllFiles(a, r) \ (r.kept \ Kept(r))
WrittenFiles(a, r) == AllFiles(a, r)
WriteFiles(p) ==
    LET q == request[p] IN
    /\ q.op = "files"
    /\ files' = [files EXCEPT ![q.on] = WrittenFiles(q.on, q.next)]
    /\ Go(p, [q EXCEPT !.op = "put"])
    /\ UNCHANGED <<record, pointer, drawn, revoked, raced>>

\* ... then the whole record, whatever became of the stored one meanwhile, ...
PutRecord(p) ==
    LET q == request[p]
        r == q.next IN
    /\ q.op = "put"
    /\ record' = [record EXCEPT ![q.on] =
            [r EXCEPT !.version = @ + 1, !.kept = Kept(r)]]
    /\ Race(q.on, record[q.on] # q.base)
    /\ IF r.kept \subseteq Kept(r) THEN End(p)
       ELSE Go(p, [op |-> "prune", on |-> q.on, old |-> r.kept \ Kept(r)])
    /\ UNCHANGED <<files, pointer, drawn, revoked>>

\* ... then the files that left the window, one version at a time; one that
\* cannot be removed is left behind.
Prune(p) ==
    LET q == request[p] IN
    /\ q.op = "prune"
    /\ \E removed \in SUBSET {Min(q.old)} : files' = [files EXCEPT ![q.on] = @ \ removed]
    /\ IF Cardinality(q.old) = 1 THEN End(p) ELSE Go(p, [q EXCEPT !.old = @ \ {Min(@)}])
    /\ UNCHANGED <<record, pointer, drawn, revoked, raced>>

-----------------------------------------------------------------------------
(* Deletion, of one artifact or of all those of a deleted session: the     *)
(* pointer first, while the record still tells the token.                  *)

Remove(p, a) ==
    /\ Live(a)
    /\ Begin(p, IF Share(a) # NoToken
                THEN [op |-> "unlink", on |-> a, token |-> Share(a)]
                ELSE [op |-> "delete", on |-> a])
    /\ UNCHANGED <<record, files, pointer, drawn, revoked, raced>>

\* From here on the artifact is on its way out; a pointer that cannot be
\* removed does not keep it.
Unlink(p) ==
    LET q == request[p] IN
    /\ q.op = "unlink"
    /\ pointer' \in {pointer, [pointer EXCEPT ![q.token] = Nowhere]}
    /\ Race(q.on, Share(q.on) = q.token)
    /\ Go(p, [op |-> "delete", on |-> q.on])
    /\ UNCHANGED <<record, files, drawn, revoked>>

DeleteRecord(p) ==
    LET q == request[p] IN
    /\ q.op = "delete"
    /\ record' = [record EXCEPT ![q.on] = Gone]
    /\ IF Live(q.on) THEN Go(p, [op |-> "wipe", on |-> q.on]) ELSE End(p)
    /\ UNCHANGED <<files, pointer, drawn, revoked, raced>>

WipeFiles(p) ==
    LET q == request[p] IN
    /\ q.op = "wipe"
    /\ files' = [files EXCEPT ![q.on] = {}]
    /\ End(p)
    /\ UNCHANGED <<record, pointer, drawn, revoked, raced>>

-----------------------------------------------------------------------------
(* Sharing.                                                                *)

\* shares.create: the link there is, or a new token.
ShareAgain(p, a) ==
    /\ Live(a) /\ Share(a) # NoToken
    /\ Begin(p, [op |-> "check", on |-> a, token |-> Share(a)])
    /\ UNCHANGED <<record, files, pointer, drawn, revoked, raced>>

CheckPointer(p) ==
    LET q == request[p] IN
    /\ q.op = "check"
    /\ IF pointer[q.token] = Nowhere THEN Go(p, [q EXCEPT !.op = "restore"]) ELSE End(p)
    /\ UNCHANGED <<record, files, pointer, drawn, revoked, raced>>

ShareNew(p, a, t) ==
    /\ Live(a) /\ Share(a) = NoToken /\ t \notin drawn
    /\ drawn' = drawn \union {t}
    /\ Begin(p, [op |-> "point", on |-> a, token |-> t])
    /\ UNCHANGED <<record, files, pointer, revoked, raced>>

\* The pointer comes before the record; a restored pointer is all there is to do.
PutPointer(p) ==
    LET q == request[p] IN
    /\ q.op \in {"point", "restore"}
    /\ pointer' = [pointer EXCEPT ![q.token] = q.on]
    /\ IF q.op = "point" THEN Go(p, [q EXCEPT !.op = "share"]) ELSE End(p)
    /\ UNCHANGED <<record, files, drawn, revoked, raced>>

\* setShare merges one field into the record, if there is one.
Merged(a, t, m) ==
    IF Live(a) THEN [record EXCEPT ![a].share = t, ![a].market = m] ELSE record

SetShare(p) ==
    LET q == request[p] IN
    /\ q.op = "share"
    /\ record' = Merged(q.on, q.token, FALSE)
    /\ End(p)
    /\ UNCHANGED <<files, pointer, drawn, revoked, raced>>

\* setMarket: the share field is read, and put back whole.
Market(p, a, m) ==
    /\ Live(a) /\ Share(a) # NoToken
    /\ Begin(p, [op |-> "market", on |-> a, token |-> Share(a), market |-> m])
    /\ UNCHANGED <<record, files, pointer, drawn, revoked, raced>>

SetMarket(p) ==
    LET q == request[p] IN
    /\ q.op = "market"
    /\ record' = Merged(q.on, q.token, q.market)
    /\ Race(q.on, Share(q.on) # q.token)
    /\ End(p)
    /\ UNCHANGED <<files, pointer, drawn, revoked>>

\* revoke: the record first, then the pointer.
RevokeStart(a) == [op |-> "clear", on |-> a, token |-> Share(a)]
RevokePointer(a) == [op |-> "forget", on |-> a, token |-> Share(a)]
RevokeRequest(a) == RevokeStart(a)
Revoke(p, a) ==
    /\ Live(a) /\ Share(a) # NoToken
    /\ Begin(p, RevokeRequest(a))
    /\ UNCHANGED <<record, files, pointer, drawn, revoked, raced>>

Delisted(a) == IF Live(a) THEN [record EXCEPT ![a].market = FALSE] ELSE record
Cleared(a) == Merged(a, NoToken, FALSE)
ClearShare(p) ==
    LET q == request[p] IN
    /\ q.op = "clear"
    /\ record' = Cleared(q.on)
    /\ revoked' = revoked \union ({Share(q.on)} \ {NoToken})
    /\ Go(p, [q EXCEPT !.op = "forget"])
    /\ UNCHANGED <<files, pointer, drawn, raced>>

\* The token of a link whose record is about to name it.
Coming(t) == \E p \in Requests : request[p].op = "share" /\ request[p].token = t

\* forget: after a revocation, or because a visitor found the pointer stale.
Forget(p) ==
    LET q == request[p] IN
    /\ q.op \in {"forget", "stale"}
    /\ pointer' = [pointer EXCEPT ![q.token] = Nowhere]
    /\ Race(q.on, q.op = "stale" /\ (Share(q.on) = q.token \/ Coming(q.token)))
    /\ End(p)
    /\ UNCHANGED <<record, files, drawn, revoked>>

-----------------------------------------------------------------------------
(* Visitors, and each entry of the market's list.                          *)

\* resolve: the pointer...
Visit(p, t) ==
    /\ pointer[t] # Nowhere
    /\ Begin(p, [op |-> "resolve", on |-> pointer[t], token |-> t])
    /\ UNCHANGED <<record, files, pointer, drawn, revoked, raced>>

\* ... then the record, which decides.  What is served afterwards is read only
\* (and countView updates a pointer that is there, never makes one).
Resolve(p) ==
    LET q == request[p] IN
    /\ q.op = "resolve"
    /\ IF Share(q.on) = q.token THEN End(p) ELSE Go(p, [q EXCEPT !.op = "stale"])
    /\ UNCHANGED <<record, files, pointer, drawn, revoked, raced>>

\* A statement fails, or the process dies.
Abandon(p) ==
    /\ request[p] # Idle
    /\ End(p)
    /\ UNCHANGED <<record, files, pointer, drawn, revoked, raced>>

-----------------------------------------------------------------------------
Init ==
    /\ record = [a \in ArtifactIds |-> Unborn]
    /\ files = [a \in ArtifactIds |-> {}]
    /\ pointer = [t \in Tokens |-> Nowhere]
    /\ drawn = {} /\ revoked = {} /\ raced = {}
    /\ request = [p \in Requests |-> Idle]

Arrive(p, a) ==
    \/ Create(p, a) \/ Write(p, a) \/ Remove(p, a)
    \/ ShareAgain(p, a) \/ Revoke(p, a)
    \/ \E t \in Tokens : ShareNew(p, a, t)
    \/ \E m \in BOOLEAN : Market(p, a, m)

Proceed(p) ==
    \/ ReadAgain(p) \/ WriteFiles(p) \/ PutRecord(p) \/ Prune(p)
    \/ Unlink(p) \/ DeleteRecord(p) \/ WipeFiles(p)
    \/ CheckPointer(p) \/ PutPointer(p) \/ SetShare(p) \/ SetMarket(p)
    \/ ClearShare(p) \/ Forget(p) \/ Resolve(p) \/ Abandon(p)

Next ==
    \/ \E p \in Requests, a \in ArtifactIds : Arrive(p, a)
    \/ \E p \in Requests, t \in Tokens : Visit(p, t)
    \/ \E p \in Requests : Proceed(p)

Spec == Init /\ [][Next]_vars

-----------------------------------------------------------------------------
Versions == 1..MaxVersion
Records ==
    [state : {"live"}, version : Versions, kept : SUBSET Versions,
     share : Tokens \union {NoToken}, market : BOOLEAN]
Ops == {"none", "read", "files", "put", "prune", "unlink", "delete", "wipe", "check", "restore",
        "point", "share", "market", "clear", "forget", "resolve", "stale"}

(* The variables keep their types; a record names a version of its own,    *)
(* at most maxVersions of them with files, and is on the market only while *)
(* it is shared.                                                           *)
TypeOK ==
    /\ \A a \in ArtifactIds :
         Live(a) => /\ record[a] \in Records
                    /\ Cardinality(record[a].kept) <= Keep
                    /\ record[a].market => record[a].share # NoToken
    /\ files \in [ArtifactIds -> SUBSET Versions]
    /\ pointer \in [Tokens -> ArtifactIds \union {Nowhere}]
    /\ revoked \subseteq drawn /\ drawn \subseteq Tokens
    /\ \A p \in Requests : request[p].op \in Ops
    /\ raced \subseteq ArtifactIds

(* Every version a record lists as kept, the newest among them, has its    *)
(* files: commitVersion may stop between any two of its statements, since  *)
(* files come before the record and are removed after it.                  *)
VersionsReadable ==
    \A a \in ArtifactIds \ raced : Live(a) =>
        /\ record[a].version \in record[a].kept
        /\ record[a].kept \subseteq files[a]

(* An artifact that says it is shared can be opened by its link: create    *)
(* puts the pointer before the record says so, revoke forgets it after.    *)
(* (A deletion removes it first; a visitor between create's two statements *)
(* takes it for stale.  Those are in raced.)                               *)
LinkWorks ==
    \A a \in ArtifactIds \ raced : Share(a) # NoToken => pointer[Share(a)] = a

(* A link that was taken back never opens again: no share, restored        *)
(* pointer, market change or new version that was under way at the time    *)
(* puts the token back into the record, which decides what resolve serves. *)
(* (setMarket and commitVersion, which put back what they read, do so when *)
(* the revocation comes between their two statements: those are in raced.) *)
RevokedStays ==
    \A a \in ArtifactIds \ raced : Share(a) \notin revoked

(* A link opens while the artifact is shared and only then.                *)
LinksFollow == LinkWorks /\ RevokedStays
=============================================================================
