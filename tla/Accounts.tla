------------------------------ MODULE Accounts ------------------------------
(***************************************************************************)
(* Accounts of the agent service: registration with a mailed code, sign-in *)
(* behind a lockout, tokens that carry the account's generation, the       *)
(* replicas' caches of what a token is compared with, and the changes that *)
(* revoke tokens (a new password, an administrator's PATCH).               *)
(*                                                                         *)
(* A request is a process: each statement of the store (a read, an atomic  *)
(* mutate) is a step, and every other request may run between two of them. *)
(* A tick is a unit of the cache's TTL; the far longer timers (a code's    *)
(* validity, the interval between mails, a lockout) end at any time.       *)
(***************************************************************************)
EXTENDS Integers, FiniteSets

CONSTANTS Users, Secrets, Replicas, Requests,
          CacheTtl,     \* AUTH_STATE_TTL_MS, in ticks
          Latency,      \* what one read of the store takes at most, in ticks
          MaxAttempts,  \* wrong guesses a code survives, less one
          UserMax,      \* failed sign-ins before the lockout (userMax)
          MaxRevocations    \* bound: new passwords and disablings

ASSUME AccountsAssumption ==
    /\ IsFiniteSet(Users) /\ IsFiniteSet(Requests) /\ Secrets # {}
    /\ CacheTtl \in Nat \ {0} /\ Latency \in Nat
    /\ MaxAttempts \in Nat \ {0} /\ UserMax \in Nat \ {0} /\ MaxRevocations \in Nat

VARIABLES
    verifying,  \* REGISTER_VERIFY_EMAIL, fixed when the service is deployed
    account,    \* the record of a username in the collection "accounts"
    cache,      \* per replica, authStateCache
    limiter,    \* per replica, the entry of a username in loginLimits.user
    signed,     \* the tokens handed out: generation, and era of the account
    request,    \* the requests in progress
    granted,    \* registrations of a username that ended with a token (2: more)
    clobbered,  \* usernames whose active account a registration overwrote
    wrong,      \* per replica, 401s answered since the entry was last cleared
    era,        \* new passwords and disablings of an account so far
    since       \* ticks since an era of an account ended

vars == <<verifying, account, cache, limiter, signed, request, granted, clobbered, wrong, era, since>>

Versions == 0..MaxRevocations
Grace == CacheTtl + Latency
NoAccount == [state |-> "absent"]
NoCode == [live |-> FALSE, recent |-> FALSE, attempts |-> 0]
NoEntry == [hit |-> FALSE]
Clear == [stamps |-> 0, blocked |-> FALSE]
Idle == [op |-> "none"]
Blank == ""

Account(s, active) ==
    [state |-> "stored", secret |-> s, version |-> 0, disabled |-> FALSE,
     activated |-> active, code |-> NoCode]

Exists(u) == account[u] # NoAccount
\* One mutate, put or putIfAbsent of the store.
Write(u, a) == account' = [account EXCEPT ![u] = a]

\* A request holds what its handler has read and still needs.
Begin(p, q) == request[p] = Idle /\ request' = [request EXCEPT ![p] = q]
Go(p, q) == request' = [request EXCEPT ![p] = q]
End(p) == request' = [request EXCEPT ![p] = Idle]
Simple(op, u) == [op |-> op, user |-> u]
With(op, u, arg) == [op |-> op, user |-> u, arg |-> arg]
Local(op, r, u, arg) == [op |-> op, at |-> r, user |-> u, arg |-> arg]

-----------------------------------------------------------------------------
(* Tokens and the cache of a replica.                                      *)

\* resolveByPassword on a cache hit: whether a token of generation v passes.
Accepts(r, u, v) == LET c == cache[r][u] IN c.hit /\ ~c.disabled /\ c.version = v

AuthState(u) ==
    [hit |-> TRUE, version |-> account[u].version, disabled |-> account[u].disabled, age |-> 0]

\* A request with a token misses the cache and reads the store.
ReadState(p, r, u) ==
    /\ ~cache[r][u].hit /\ signed[u] # {}
    /\ Begin(p, Local("authState", r, u, AuthState(u)))
    /\ UNCHANGED <<verifying, account, cache, limiter, signed, granted, clobbered, wrong, era, since>>

\* ...and caches what it read, dated when the answer arrives.
FillCache(p) ==
    LET q == request[p] IN
    /\ q.op = "authState"
    /\ cache' = [cache EXCEPT ![q.at][q.user] = [q.arg EXCEPT !.age = 0]]
    /\ End(p)
    /\ UNCHANGED <<verifying, account, limiter, signed, granted, clobbered, wrong, era, since>>

Invalidated(r, u) == [cache EXCEPT ![r][u] = NoEntry]

\* signToken with the generation that is stored by now.
Sign(p) ==
    LET q == request[p] IN
    /\ q.op = "sign"
    /\ signed' = [signed EXCEPT ![q.user] =
                    @ \union {[version |-> account[q.user].version, era |-> era[q.user]]}]
    /\ End(p)
    /\ UNCHANGED <<verifying, account, cache, limiter, granted, clobbered, wrong, era, since>>

-----------------------------------------------------------------------------
(* Sign-in and its lockout.                                                *)

\* verify: what the record that was read says of the secret presented.
Verify(u, s) ==
    IF ~Exists(u) THEN "unknown"
    ELSE IF account[u].secret # s \/ account[u].disabled THEN "bad"
    ELSE IF ~account[u].activated THEN "inactive" ELSE "good"

ConsumeOnly(e) ==
    IF e.stamps + 1 > UserMax /\ ~e.blocked THEN [stamps |-> 0, blocked |-> TRUE]
    ELSE [stamps |-> e.stamps + 1, blocked |-> FALSE]
\* consume: one more stamp in the window, and the lock when that is too many.
Consume(e) ==
    IF e.blocked THEN e
    ELSE IF e.stamps + 1 > UserMax THEN [stamps |-> 0, blocked |-> TRUE]
    ELSE [stamps |-> e.stamps + 1, blocked |-> FALSE]

\* peek lets the request through, then verify reads the record and derives.
Login(p, r, u, s) ==
    /\ ~limiter[r][u].blocked
    /\ Begin(p, Local("login", r, u, Verify(u, s)))
    /\ UNCHANGED <<verifying, account, cache, limiter, signed, granted, clobbered, wrong, era, since>>

LoginFails(p) ==
    LET q == request[p]
        e == Consume(limiter[q.at][q.user]) IN
    /\ q.op = "login" /\ q.arg \in {"bad", "unknown"}
    /\ q.arg = "unknown" => \E u \in Users : Exists(u)
    /\ limiter' = [limiter EXCEPT ![q.at][q.user] = e]
    /\ wrong' = [wrong EXCEPT ![q.at][q.user] = IF e.blocked THEN @ ELSE @ + 1]
    /\ End(p)
    /\ UNCHANGED <<verifying, account, cache, signed, granted, clobbered, era, since>>

\* The secret was right: the entry is dropped, lock included.
LoginPasses(p) ==
    LET q == request[p] IN
    /\ q.op = "login" /\ q.arg \in {"good", "inactive"}
    /\ limiter' = [limiter EXCEPT ![q.at][q.user] = Clear]
    /\ wrong' = [wrong EXCEPT ![q.at][q.user] = 0]
    /\ IF q.arg = "good" THEN Go(p, Simple("sign", q.user)) ELSE End(p)
    /\ UNCHANGED <<verifying, account, cache, signed, granted, clobbered, era, since>>

\* There is no account at all: 503, and nothing is counted.
LoginUnready(p) ==
    LET q == request[p] IN
    /\ q.op = "login" /\ q.arg = "unknown" /\ \A u \in Users : ~Exists(u)
    /\ End(p)
    /\ UNCHANGED <<verifying, account, cache, limiter, signed, granted, clobbered, wrong, era, since>>

\* The window slides past the oldest failure.
WindowSlides(r, u) ==
    /\ limiter[r][u].stamps > 0
    /\ limiter' = [limiter EXCEPT ![r][u].stamps = @ - 1]
    /\ wrong' = [wrong EXCEPT ![r][u] = @ - 1]
    /\ UNCHANGED <<verifying, account, cache, signed, request, granted, clobbered, era, since>>

\* A lock runs out, or sweep() drops the entry to make room for other names.
EntryEnds(r, u) ==
    /\ limiter[r][u] # Clear
    /\ limiter' = [limiter EXCEPT ![r][u] = Clear]
    /\ wrong' = [wrong EXCEPT ![r][u] = 0]
    /\ UNCHANGED <<verifying, account, cache, signed, request, granted, clobbered, era, since>>

-----------------------------------------------------------------------------
(* Registration.                                                           *)

\* What follows create(): a code by mail, or a token at once.
AfterCreate == IF verifying THEN "issue" ELSE "welcome"

\* create() up to putIfAbsent: the name is free, pending, or taken.
FreeUntilSigned(u) == signed[u] = {}
Free(u) == ~Exists(u)
Register(p, u, s) ==
    /\ CASE Free(u) ->
              Write(u, Account(s, ~verifying)) /\ Begin(p, Simple(AfterCreate, u))
         [] ~Free(u) /\ ~account[u].activated ->
              UNCHANGED account /\ Begin(p, With("replace", u, s))
         [] OTHER -> UNCHANGED <<account, request>>
    /\ UNCHANGED <<verifying, cache, limiter, signed, granted, clobbered, wrong, era, since>>

\* A pending account is overwritten by a plain put.
Replace(p) ==
    LET q == request[p] IN
    /\ q.op = "replace"
    /\ Write(q.user, Account(q.arg, ~verifying))
    /\ Go(p, Simple(AfterCreate, q.user))
    /\ clobbered' = IF account[q.user].activated THEN clobbered \union {q.user} ELSE clobbered
    /\ UNCHANGED <<verifying, cache, limiter, signed, granted, wrong, era, since>>

\* POST /v1/admin/users: the account is active at once, and nobody is replaced.
AdminCreate(u, s) ==
    /\ ~Exists(u)
    /\ Write(u, Account(s, TRUE))
    /\ UNCHANGED <<verifying, cache, limiter, signed, request, granted, clobbered, wrong, era, since>>

\* The account is handed to the one who registered it: a token is next.
Welcome(p) ==
    LET q == request[p] IN
    /\ q.op = "welcome"
    /\ granted' = [granted EXCEPT ![q.user] = IF @ > 1 THEN @ ELSE @ + 1]
    /\ Go(p, Simple("sign", q.user))
    /\ UNCHANGED <<verifying, account, cache, limiter, signed, clobbered, wrong, era, since>>

\* Another code is asked for (and issued, unless the account is active by now).
Resend(p, u) ==
    /\ verifying /\ Exists(u) /\ ~account[u].activated
    /\ Begin(p, Simple("issue", u))
    /\ UNCHANGED <<verifying, account, cache, limiter, signed, granted, clobbered, wrong, era, since>>

\* issueActivationCode up to its merge: active accounts and recent codes stop it.
MayIssue(u) == Exists(u) /\ ~account[u].activated /\ ~account[u].code.recent
IssueRead(p) ==
    LET q == request[p] IN
    /\ q.op = "issue"
    /\ IF MayIssue(q.user) THEN Go(p, Simple("merge", q.user)) ELSE End(p)
    /\ UNCHANGED <<verifying, account, cache, limiter, signed, granted, clobbered, wrong, era, since>>

\* The merge puts a whole new code in place; the mail may fail after it.
IssueMerge(p) ==
    LET q == request[p] IN
    /\ q.op = "merge"
    /\ Write(q.user, [account[q.user] EXCEPT
            !.code = [live |-> TRUE, recent |-> TRUE, attempts |-> 0]])
    /\ End(p)
    /\ UNCHANGED <<verifying, cache, limiter, signed, granted, clobbered, wrong, era, since>>

GuessedOnceMore(a, right) ==
    IF ~a.code.live THEN a
    ELSE IF right THEN [a EXCEPT !.activated = TRUE, !.code = NoCode]
    ELSE IF a.code.attempts < MaxAttempts THEN [a EXCEPT !.code.attempts = @ + 1]
    ELSE [a EXCEPT !.code = NoCode]
\* verifyActivationCode: one mutate.  A wrong guess counts, the last one drops
\* the code (and with it the time it was sent), the right one activates.
Guessed(a, right) ==
    IF ~a.code.live THEN a
    ELSE IF right THEN [a EXCEPT !.activated = TRUE, !.code = NoCode]
    ELSE IF a.code.attempts + 1 < MaxAttempts THEN [a EXCEPT !.code.attempts = @ + 1]
    ELSE [a EXCEPT !.code = NoCode]

Activate(p, u, right) ==
    /\ verifying /\ Exists(u) /\ ~account[u].activated
    /\ Write(u, Guessed(account[u], right))
    /\ IF account[u].code.live /\ right THEN Begin(p, Simple("welcome", u))
       ELSE UNCHANGED request
    /\ UNCHANGED <<verifying, cache, limiter, signed, granted, clobbered, wrong, era, since>>

\* The interval between mails has passed, or the code has expired.
CodeAges(u) ==
    /\ Exists(u) /\ account[u].code # NoCode
    /\ \/ account[u].code.recent /\ Write(u, [account[u] EXCEPT !.code.recent = FALSE])
       \/ ~account[u].code.recent /\ Write(u, [account[u] EXCEPT !.code = NoCode])
    /\ UNCHANGED <<verifying, cache, limiter, signed, request, granted, clobbered, wrong, era, since>>

-----------------------------------------------------------------------------
(* Changes that revoke tokens.                                             *)

Revokes(u) == era[u] < MaxRevocations /\ era' = [era EXCEPT ![u] = @ + 1]
Rekeyed(a, s) == [a EXCEPT !.secret = s, !.version = @ + 1]
ToggledOnly(a, off) == [a EXCEPT !.disabled = off]
Toggled(a, off) == [a EXCEPT !.disabled = off, !.version = @ + (IF off THEN 1 ELSE 0)]

\* POST /v1/auth/password: the request is let in, the old password verified.
ChangePassword(p, r, u, s) ==
    /\ \E t \in signed[u] : Accepts(r, u, t.version)
    /\ \E old \in Secrets : Verify(u, old) = "good"
    /\ Begin(p, Local("set", r, u, s))
    /\ UNCHANGED <<verifying, account, cache, limiter, signed, granted, clobbered, wrong, era, since>>

SetPassword(p) ==
    LET q == request[p] IN
    /\ q.op = "set"
    /\ Revokes(q.user)
    /\ Write(q.user, Rekeyed(account[q.user], q.arg))
    /\ Go(p, Local("changed", q.at, q.user, Blank))
    /\ UNCHANGED <<verifying, cache, limiter, signed, granted, clobbered, wrong, since>>

\* The handler forgets the cached state and signs a new token.
Changed(p) ==
    LET q == request[p] IN
    /\ q.op = "changed"
    /\ cache' = Invalidated(q.at, q.user)
    /\ Go(p, Simple("sign", q.user))
    /\ UNCHANGED <<verifying, account, limiter, signed, granted, clobbered, wrong, era, since>>

\* PATCH /v1/admin/users/:name: disabled first, then the password, then the
\* group, whose check may refuse the request after the others are stored.
Patch(p, r, u, body) ==
    /\ Exists(u)
    /\ IF body.disabled = "on" THEN Revokes(u) ELSE UNCHANGED era
    /\ Write(u, IF body.disabled = Blank THEN account[u]
                ELSE Toggled(account[u], body.disabled = "on"))
    /\ Begin(p, Local("patch", r, u, [secret |-> body.secret, badGroup |-> body.badGroup]))
    /\ UNCHANGED <<verifying, cache, limiter, signed, granted, clobbered, wrong, since>>

PatchPassword(p) ==
    LET q == request[p] IN
    /\ q.op = "patch" /\ q.arg.secret \in Secrets
    /\ Revokes(q.user)
    /\ Write(q.user, Rekeyed(account[q.user], q.arg.secret))
    /\ request' = [request EXCEPT ![p].arg.secret = Blank]
    /\ UNCHANGED <<verifying, cache, limiter, signed, granted, clobbered, wrong, since>>

PatchEnds(p) ==
    LET q == request[p] IN
    /\ q.op = "patch" /\ q.arg.secret \notin Secrets
    /\ cache' = IF q.arg.badGroup THEN cache ELSE Invalidated(q.at, q.user)
    /\ End(p)
    /\ UNCHANGED <<verifying, account, limiter, signed, granted, clobbered, wrong, era, since>>

-----------------------------------------------------------------------------
(* Time.                                                                   *)

Older(c) == IF ~c.hit \/ c.age + 1 >= CacheTtl THEN NoEntry ELSE [c EXCEPT !.age = @ + 1]
Aged(n) == IF n > Grace THEN n ELSE n + 1

InTime(q) == q.op = "authState" /\ q.arg.hit => q.arg.age < Latency
Tick ==
    /\ \A p \in Requests : InTime(request[p])
    /\ cache' = [r \in Replicas |-> [u \in Users |-> Older(cache[r][u])]]
    /\ request' = [p \in Requests |->
            IF request[p].op = "authState" /\ request[p].arg.hit
            THEN [request[p] EXCEPT !.arg.age = @ + 1] ELSE request[p]]
    /\ since' = [u \in Users |-> [e \in Versions |->
            IF e < era[u] THEN Aged(since[u][e]) ELSE 0]]
    /\ UNCHANGED <<verifying, account, limiter, signed, granted, clobbered, wrong, era>>

-----------------------------------------------------------------------------
\* CONSOLE_USERS seeds an account, or the deployment starts empty.
Init ==
    /\ verifying \in BOOLEAN
    /\ account \in [Users -> {NoAccount} \union {Account(s, TRUE) : s \in Secrets}]
    /\ cache = [r \in Replicas |-> [u \in Users |-> NoEntry]]
    /\ limiter = [r \in Replicas |-> [u \in Users |-> Clear]]
    /\ signed = [u \in Users |-> {}]
    /\ request = [p \in Requests |-> Idle]
    /\ granted = [u \in Users |-> 0]
    /\ clobbered = {}
    /\ wrong = [r \in Replicas |-> [u \in Users |-> 0]]
    /\ era = [u \in Users |-> 0]
    /\ since = [u \in Users |-> [e \in Versions |-> 0]]

Bodies == [disabled : {Blank, "on", "off"}, secret : Secrets \union {Blank}, badGroup : BOOLEAN]

Arrive(p, r, u) ==
    \/ ReadState(p, r, u)
    \/ \E s \in Secrets : Login(p, r, u, s) \/ ChangePassword(p, r, u, s)
    \/ \E b \in Bodies : Patch(p, r, u, b)

Enrol(p, u) ==
    \/ Resend(p, u)
    \/ \E s \in Secrets : Register(p, u, s)
    \/ \E right \in BOOLEAN : Activate(p, u, right)

Proceed(p) ==
    \/ FillCache(p) \/ Sign(p) \/ LoginFails(p) \/ LoginPasses(p) \/ LoginUnready(p)
    \/ Replace(p) \/ Welcome(p) \/ IssueRead(p) \/ IssueMerge(p)
    \/ SetPassword(p) \/ Changed(p) \/ PatchPassword(p) \/ PatchEnds(p)

Next ==
    \/ \E p \in Requests, r \in Replicas, u \in Users : Arrive(p, r, u)
    \/ \E p \in Requests, u \in Users : Enrol(p, u)
    \/ \E p \in Requests : Proceed(p)
    \/ \E r \in Replicas, u \in Users : WindowSlides(r, u) \/ EntryEnds(r, u)
    \/ \E u \in Users, s \in Secrets : AdminCreate(u, s)
    \/ \E u \in Users : CodeAges(u)
    \/ Tick

Spec == Init /\ [][Next]_vars

-----------------------------------------------------------------------------
Accounts ==
    {NoAccount} \union
    [state : {"stored"}, secret : Secrets, version : Versions, disabled : BOOLEAN,
     activated : BOOLEAN, code : [live : BOOLEAN, recent : BOOLEAN, attempts : 0..(MaxAttempts - 1)]]
Entries == [hit : {TRUE}, version : Versions, disabled : BOOLEAN, age : 0..(Grace - 1)]
Ops == {"none", "authState", "sign", "login", "replace", "issue", "merge", "welcome",
        "set", "changed", "patch"}

(* The variables keep their types: in particular a stored code never holds *)
(* as many wrong guesses as end it (verifyActivationCode drops it), an     *)
(* entry of a cache never outlives its TTL, and the window of a lockout    *)
(* never holds more than userMax failures.                                 *)
TypeOK ==
    /\ verifying \in BOOLEAN
    /\ \A u \in Users : account[u] \in Accounts
    /\ \A r \in Replicas, u \in Users :
         cache[r][u] = NoEntry \/ (cache[r][u] \in Entries /\ cache[r][u].age < CacheTtl)
    /\ limiter \in [Replicas -> [Users -> [stamps : 0..UserMax, blocked : BOOLEAN]]]
    /\ signed \in [Users -> SUBSET [version : Versions, era : Versions]]
    /\ \A p \in Requests :
         /\ request[p].op \in Ops
         /\ request[p].op = "authState" => request[p].arg \in Entries /\ request[p].arg.age <= Latency
    /\ granted \in [Users -> 0..2]
    /\ clobbered \subseteq Users
    /\ wrong \in [Replicas -> [Users -> Nat]]
    /\ era \in [Users -> Versions]
    /\ since \in [Users -> [Versions -> 0..(Grace + 1)]]

(* Revocation reaches every token: one handed out before the account got a *)
(* new password or was disabled is let in nowhere once a TTL of the cache  *)
(* and a read of the store have passed, also after the account is enabled  *)
(* again.  A read that began before the change and fills the cache after   *)
(* invalidateUser makes the bound larger than the TTL, on the replica that *)
(* made the change too.  (An account that a late registration overwrites   *)
(* starts again at generation 0 and is left out: clobbered.)               *)
Revoked ==
    \A r \in Replicas, u \in Users \ clobbered : \A t \in signed[u] :
        Accepts(r, u, t.version) => since[u][t.era] < Grace

(* A username is given away once: of the requests that register it at the  *)
(* same time, and of the codes mailed for it, at most one ends with a      *)
(* token, whether or not the deployment verifies mail addresses.           *)
OneRegistration == \A u \in Users \ clobbered : granted[u] <= 1

(* Between two resets of a username's entry (a sign-in that succeeds, a    *)
(* lock that ends) at most userMax sign-ins are told that the password is  *)
(* wrong, however many of them passed peek() before the lock was set.      *)
WrongAnswersBounded == \A r \in Replicas, u \in Users : wrong[r][u] <= UserMax
=============================================================================
