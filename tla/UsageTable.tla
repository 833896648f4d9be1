----------------------------- MODULE UsageTable -----------------------------
(***************************************************************************)
(* The administrator's table of tokens per person, read page by page while *)
(* rows are written: first the people with rows in the time window, by     *)
(* tokens, then the accounts without any, by name.  The two halves come    *)
(* from two tables with two orders, and one page may hold the end of the   *)
(* first and the beginning of the second.  Every query is a step.          *)
(***************************************************************************)
EXTENDS Integers, FiniteSets

CONSTANTS People,      \* usernames, ordered: a set of positive integers
          MaxTokens,   \* bound: tokens of a person in the window
          MaxChanges,  \* bound: rows written, rows that leave the window, new accounts
          PageLimit,   \* rows per page of the table
          ProbeMax     \* IDLE_PROBE_MAX

VARIABLES
    window,    \* username -> tokens in the window, None without a row in it
    accounts,  \* usernames that have an account
    changes,   \* what is left of MaxChanges
    pager,     \* the administrator's reading of the table
    listed,    \* username -> rows of the table it was given so far
    shown,     \* tokens in the rows given so far
    still      \* usernames that nothing has happened to since the first page

vars == <<window, accounts, changes, pager, listed, shown, still>>

None == -1
HasRows(u) == window[u] # None

\* A row of the table, which is the cursor of a page that ends with it: the
\* tokens of a person in the window, None in the row of an account without any.
Row(u) == [t |-> window[u], u |-> u]
NotUsed(u) == [t |-> None, u |-> u]
Start == [t |-> MaxTokens + 1, u |-> 0]

\* By tokens and then by name; the accounts without any come last.
Precedes(r, s) == r.t > s.t \/ (r.t = s.t /\ r.u < s.u)
First(n, S) == {r \in S : Cardinality({s \in S : Precedes(s, r)}) < n}
Last(S) == CHOOSE r \in S : \A s \in S : s = r \/ Precedes(s, r)

\* The sum of the rows' tokens.
Tokens(S) == Cardinality(UNION {{r} \X (1..r.t) : r \in S})

-----------------------------------------------------------------------------
(* What changes meanwhile.                                                 *)

Change(u) == changes > 0 /\ changes' = changes - 1 /\ still' = still \ {u}

Insert(u, n) ==
    LET sum == IF HasRows(u) THEN window[u] + n ELSE n IN
    /\ sum <= MaxTokens
    /\ window' = [window EXCEPT ![u] = sum]
    /\ Change(u)
    /\ UNCHANGED <<accounts, pager, listed, shown>>

\* The next page's window begins later.
Slide(u) ==
    /\ \E w \in None..(window[u] - 1) : window' = [window EXCEPT ![u] = w]
    /\ Change(u)
    /\ UNCHANGED <<accounts, pager, listed, shown>>

Register(u) ==
    /\ u \notin accounts /\ ~HasRows(u)
    /\ accounts' = accounts \union {u}
    /\ Change(u)
    /\ UNCHANGED <<window, pager, listed, shown>>

-----------------------------------------------------------------------------
(* The queries.                                                            *)

\* HAVING: what comes after the row that the last page ended with.
Beyond(c, u) == Precedes(c, Row(u))
BeyondTies(c, u) == c.t > window[u]
After(c, u) == Beyond(c, u)

TopUsers(c) == {Row(u) : u \in {v \in People : HasRows(v) /\ After(c, v)}}
AccountsAfter(c) == {NotUsed(v) : v \in {w \in accounts : w > c.u}}

\* The sum of byModel(), which every page repeats.
Total == Tokens({Row(u) : u \in {v \in People : HasRows(v)}})

-----------------------------------------------------------------------------
(* userPage.                                                               *)

Reading(out, at, probes, sum) ==
    [st |-> IF at.t = None THEN "probe" ELSE "top", at |-> at, out |-> out,
     probes |-> probes, names |-> {}, sum |-> sum]
Need == PageLimit + 1 - Cardinality(pager.out)

\* The sums of the whole window, then the page.
AskPage ==
    /\ pager.st \in {"idle", "next"}
    /\ pager' = Reading({}, IF pager.st = "idle" THEN Start ELSE pager.at, 0, Total)
    /\ still' = IF pager.st = "idle" THEN People ELSE still
    /\ UNCHANGED <<window, accounts, changes, listed, shown>>

Give(rows) ==
    /\ listed' = [u \in People |-> listed[u] + Cardinality({r \in rows : r.u = u})]
    /\ shown' = shown + Tokens(rows)

\* finishPage: the row too many says that there is another page.
Page(out) == First(PageLimit, out)
Finish(out) ==
    /\ Give(Page(out))
    /\ pager' = IF Cardinality(out) > PageLimit THEN [st |-> "next", at |-> Last(Page(out))]
                ELSE [st |-> "done", sum |-> pager.sum]

ReadTop ==
    LET more == Cardinality(TopUsers(pager.at)) > Need
        out == pager.out \union First(Need, TopUsers(pager.at)) IN
    /\ pager.st = "top"
    /\ IF more \/ Cardinality(out) > PageLimit THEN Finish(out)
       ELSE pager' = Reading(out, NotUsed(0), 0, pager.sum) /\ UNCHANGED <<listed, shown>>
    /\ UNCHANGED <<window, accounts, changes, still>>

\* A page of accounts...
Probe ==
    /\ pager.st = "probe"
    /\ pager' = [pager EXCEPT !.st = "filter", !.probes = @ + 1,
                              !.names = First(Need + 1, AccountsAfter(pager.at))]
    /\ UNCHANGED <<window, accounts, changes, listed, shown, still>>

\* ... less those that are in the ledger; not too many pages for one answer.
Filter ==
    LET items == First(Need, pager.names)
        out == pager.out \union {r \in items : ~HasRows(r.u)} IN
    /\ pager.st = "filter"
    /\ IF Cardinality(pager.names) <= Need THEN Finish(out)
       ELSE IF pager.probes >= ProbeMax
       THEN /\ Give(Page(out))
            /\ pager' = [st |-> "next",
                         at |-> Last(IF Cardinality(out) > PageLimit THEN Page(out) ELSE items)]
       ELSE IF Cardinality(out) > PageLimit THEN Finish(out)
       ELSE pager' = Reading(out, Last(items), pager.probes, pager.sum) /\ UNCHANGED <<listed, shown>>
    /\ UNCHANGED <<window, accounts, changes, still>>

-----------------------------------------------------------------------------
\* Accounts may be gone that still have rows, and rows may hold no tokens but
\* those read from the cache.
Init ==
    /\ window \in [People -> None..MaxTokens]
    /\ accounts \in SUBSET People
    /\ changes = MaxChanges
    /\ pager = [st |-> "idle"]
    /\ listed = [u \in People |-> 0]
    /\ shown = 0
    /\ still = People

Next ==
    \/ \E u \in People : Slide(u) \/ Register(u) \/ \E n \in 0..MaxTokens : Insert(u, n)
    \/ AskPage \/ ReadTop \/ Probe \/ Filter

Spec == Init /\ [][Next]_vars
-----------------------------------------------------------------------------
TypeOK ==
    /\ window \in [People -> None..MaxTokens]
    /\ accounts \subseteq People /\ still \subseteq People
    /\ pager.st \in {"idle", "top", "probe", "filter", "next", "done"}
    /\ pager.st \in {"top", "probe", "filter"} => Cardinality(pager.out) \in 0..PageLimit

(* The table has every person once, whatever is written between two pages: *)
(* whoever nothing happens to is not listed twice, is listed when the last *)
(* page has been given, and, if nothing happened at all, the rows add up   *)
(* to the total that every page repeats.  (userPage and the cursors that   *)
(* join its two halves.)                                                   *)
ListedOnce ==
    /\ \A u \in still : listed[u] <= 1
    /\ pager.st = "done" =>
         /\ \A u \in still : HasRows(u) \/ u \in accounts => listed[u] = 1
         /\ still = People => shown = pager.sum
=============================================================================
