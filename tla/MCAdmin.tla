------------------------------ MODULE MCAdmin ------------------------------
(* Accounts, Groups, Quota and UsageTable for TLC.  They share no variable,  *)
(* so that one run checks them side by side: in a behaviour only one of them *)
(* moves.                                                                    *)
EXTENDS Accounts, TLC

CONSTANTS Groups, Members, Models, Names, Edits, PageSize,
          Payers, Turns, MaxTokens, Limits, MaxChanges, PerUser,
          People, MaxSum, MaxWrites, PageLimit, ProbeMax

VARIABLES group, member, model, edit, cut, back,
          limit, members, ledger, turn, changes,
          window, accounts, writes, pager, listed, shown, still,
          part    \* the module that moves

G == INSTANCE Groups WITH People <- Members
Q == INSTANCE Quota WITH People <- Payers
T == INSTANCE UsageTable WITH MaxTokens <- MaxSum, MaxChanges <- MaxWrites, changes <- writes

\* Usernames are ordered; a page has at least one row; ids are none of the words
\* that stand for no id; and limits and token counts are numbers.
ASSUME AdminAssumption ==
    /\ Members \subseteq Nat \ {0} /\ IsFiniteSet(Members) /\ PageSize \in Nat \ {0}
    /\ G!NoGroup \notin Groups /\ G!Absent \notin Groups
    /\ IsFiniteSet(Turns) /\ PerUser \in Nat
    /\ Limits \subseteq Nat /\ MaxTokens \in Nat
    /\ People \subseteq Nat \ {0} /\ IsFiniteSet(People) /\ MaxSum \in Nat /\ PageLimit \in Nat \ {0}

groupsVars == <<group, member, model, edit, cut, back>>
quotaVars == <<limit, members, ledger, turn, changes>>
tableVars == <<window, accounts, writes, pager, listed, shown, still>>
allVars == <<vars, groupsVars, quotaVars, tableVars, part>>

Off == "off"
GroupsOff == group = Off /\ member = Off /\ model = Off /\ edit = Off /\ cut = Off /\ back = Off
QuotaOff == limit = Off /\ members = Off /\ ledger = Off /\ turn = Off /\ changes = Off
TableOff == /\ window = Off /\ accounts = Off /\ writes = Off /\ pager = Off
            /\ listed = Off /\ shown = Off /\ still = Off

AdminInit ==
    /\ part \in {"accounts", "groups", "quota", "table"}
    /\ Init /\ (part # "accounts" => verifying /\ \A u \in Users : ~Exists(u))
    /\ IF part = "groups" THEN G!Init ELSE GroupsOff
    /\ IF part = "quota" THEN Q!Init ELSE QuotaOff
    /\ IF part = "table" THEN T!Init ELSE TableOff

AdminNext ==
    \/ part = "accounts" /\ Next /\ UNCHANGED <<groupsVars, quotaVars, tableVars, part>>
    \/ part = "groups" /\ G!Next /\ UNCHANGED <<vars, quotaVars, tableVars, part>>
    \/ part = "quota" /\ Q!Next /\ UNCHANGED <<vars, groupsVars, tableVars, part>>
    \/ part = "table" /\ T!Next /\ UNCHANGED <<vars, groupsVars, quotaVars, part>>

AdminSpec == AdminInit /\ [][AdminNext]_allVars

(* The type invariants of the four.                                          *)
AllTypeOK ==
    /\ TypeOK
    /\ part = "groups" => G!TypeOK
    /\ part = "quota" => Q!TypeOK
    /\ part = "table" => T!TypeOK
(* Groups, accounts and models agree (see Groups).                           *)
Consistent == part = "groups" => G!Consistent
(* A limit that is reached refuses the next turn (see Quota).                *)
Gated == part = "quota" => Q!Gated
(* The table of tokens has every person once (see UsageTable).               *)
ListedOnce == part = "table" => T!ListedOnce

Perms == Permutations(Secrets) \union Permutations(Replicas) \union Permutations(Requests)
=============================================================================
