------------------------------- MODULE Challenges -------------------------------
(***************************************************************************)
(* Formal challenges of one canonical subject: challenge-commands.ts and   *)
(* challenge-ledger.ts.  Subjects share nothing (the cap and the active    *)
(* key are per subject hash), so one subject is modelled.                  *)
(*                                                                         *)
(* Filing, answering, closing and listing are Serializable transactions:   *)
(* one action each.  Removing a text runs at the default isolation level,  *)
(* query by query, and repairs the active keys from an old read on its     *)
(* way.  What it writes counts from its commit; until then the rows it     *)
(* changed are locked.                                                     *)
(*                                                                         *)
(* Operators named Broken... are deliberate bugs for the mutation runs.    *)
(***************************************************************************)
EXTENDS Integers, Sequences, FiniteSets

CONSTANTS
    Users, Editors, Admins,   \* roles: Admins \subseteq Editors \subseteq Users
    Contributors,             \* contributors of record of the container
    Assessors,                \* who assessed, verified or adjudicated the subject
    LegacyFiler,              \* filed LegacyRows active challenges before keys existed
    LegacyRows,
    Cap,                      \* MAX_ACTIVE_CHALLENGES_PER_SUBJECT
    MaxChallenges,            \* rows before the model stops (bound)
    Removals,                 \* removal requests in flight
    None

ASSUME ChallengeConstants ==
    /\ Admins \subseteq Editors /\ Editors \subseteq Users /\ LegacyFiler \in Users
    /\ Contributors \subseteq Users /\ Assessors \subseteq Users
    /\ {LegacyRows, Cap, MaxChallenges} \subseteq Nat
    /\ LegacyRows <= MaxChallenges /\ LegacyRows <= Cap
    /\ None \notin Users

VARIABLES
    rows,       \* Challenge rows, oldest first
    ledger,     \* ChallengeTransition rows of each challenge
    readable,   \* the container is in a readable public state
    removal     \* local variables of the removals in flight

challengeVars == <<rows, ledger, readable, removal>>

Active == {"open", "author-responded"}
Outcomes == {"resolved", "dismissed"}
ChallengeStatus == Active \union Outcomes \union {"withdrawn"}

BrokenLegal(from, to) ==    \* an outcome can be revised
    \/ from = "open" /\ to = "author-responded"
    \/ from # "open" /\ to \in Outcomes \union {"withdrawn"}

Legal(from, to) ==
    \/ from = "open" /\ to = "author-responded"
    \/ from = "author-responded" /\ to \in Outcomes \union {"withdrawn"}

\* key: the row owns the active key of its challenger and this subject.
Row(u, keyed) ==
    [challenger |-> u, status |-> "open", revision |-> 0, key |-> keyed,
     text |-> "visible", responder |-> None, reply |-> "visible"]

Entry(to, a, override) == [to |-> to, actor |-> a, override |-> override]

Resting == [phase |-> "idle"]

ChallengeInit ==
    /\ rows = [i \in 1 .. LegacyRows |-> Row(LegacyFiler, FALSE)]
    /\ ledger = [i \in 1 .. LegacyRows |-> <<Entry("open", LegacyFiler, FALSE)>>]
    /\ readable = TRUE
    /\ removal = [r \in Removals |-> Resting]

-----------------------------------------------------------------------------
(* The active key *)

ActiveRows(table) == {i \in DOMAIN table : table[i].status \in Active}
ActiveOf(table, u) == {i \in ActiveRows(table) : table[i].challenger = u}

IsOldest(i, table, u) ==
    i \in ActiveOf(table, u) /\ \A j \in ActiveOf(table, u) : i <= j

\* reconcileActiveChallengeGroup in one transaction: the oldest active row of u,
\* and it alone, owns the key.  Without an active row nothing is touched.
Reconcile(table, u) ==
    IF ActiveOf(table, u) = {} THEN table
    ELSE [i \in DOMAIN table |->
            IF table[i].challenger = u THEN [table[i] EXCEPT !.key = IsOldest(i, table, u)]
            ELSE table[i]]

\* Rows an uncommitted removal has changed.
LockedBy(r) ==
    IF removal[r].phase = "reconciled" THEN removal[r].cleared \union removal[r].adopted ELSE {}
Locked == UNION {LockedBy(r) : r \in Removals}

\* A transaction that changes a locked row waits, and is refused after the commit.
Untouched(table) == \A i \in DOMAIN rows : i \in Locked => table[i] = rows[i]

Store(table) == Untouched(table) /\ rows' = table
-----------------------------------------------------------------------------
(* The Serializable commands *)

BrokenHasDuplicate(u) == \E i \in DOMAIN rows : rows[i].challenger = u /\ rows[i].status = "open"

HasDuplicate(u) == ActiveOf(rows, u) # {}

BrokenActiveCount == Cardinality({i \in DOMAIN rows : rows[i].status = "open"})

ActiveCount == Cardinality(ActiveRows(rows))

\* createChallenge, createNodeChallenge; the unique key is the last conjunct but two.
File(u) ==
    /\ Len(rows) < MaxChallenges
    /\ readable
    /\ ~HasDuplicate(u)
    /\ ActiveCount < Cap
    /\ \A i \in DOMAIN rows : ~(rows[i].challenger = u /\ rows[i].key)
    /\ rows' = Append(rows, Row(u, TRUE))
    /\ ledger' = Append(ledger, <<Entry("open", u, FALSE)>>)
    /\ UNCHANGED <<readable, removal>>

BrokenRespond(i, a) ==    \* the projection moves, the ledger does not
    /\ readable
    /\ rows[i].status = "open"
    /\ rows[i].responder = None
    /\ a \in Contributors
    /\ Store([Reconcile(rows, rows[i].challenger) EXCEPT
                ![i].status = "author-responded", ![i].revision = @ + 1, ![i].responder = a])
    /\ UNCHANGED <<ledger, readable, removal>>

\* createChallengeResponse.
Respond(i, a) ==
    /\ readable
    /\ rows[i].status = "open"
    /\ rows[i].responder = None
    /\ a \in Contributors
    /\ Store([Reconcile(rows, rows[i].challenger) EXCEPT
                ![i].status = "author-responded", ![i].revision = @ + 1, ![i].responder = a])
    /\ ledger' = [ledger EXCEPT ![i] = Append(@, Entry("author-responded", a, FALSE))]
    /\ UNCHANGED <<readable, removal>>

BrokenInvolved(i, a) == a \in {rows[i].responder} \union Contributors \union Assessors

\* directlyInvolved.
Involved(i, a) == a \in {rows[i].challenger, rows[i].responder} \union Contributors \union Assessors

\* An outcome needs an editor; who is involved needs the administrator's override,
\* which nobody else may exercise.  An override request declares its conflict, or is
\* refused.
MayConclude(i, a, override) ==
    /\ a \in Editors
    /\ Involved(i, a) <=> override
    /\ override => a \in Admins

\* transitionChallenge; the bare transition to author-responded is refused.
Close(i, a, to, override) ==
    /\ readable
    /\ Legal(rows[i].status, to)
    /\ \/ to = "withdrawn" /\ a = rows[i].challenger /\ ~override
       \/ to \in Outcomes /\ MayConclude(i, a, override)
    /\ Store([Reconcile(rows, rows[i].challenger) EXCEPT
                ![i].status = to, ![i].revision = @ + 1, ![i].key = FALSE])
    /\ ledger' = [ledger EXCEPT ![i] = Append(@, Entry(to, a, override))]
    /\ UNCHANGED <<readable, removal>>

\* listChallenges, listNodeChallenges, listOpenChallengePage repair the groups of the
\* rows on their page, one group after the other.
List(u) ==
    /\ readable
    /\ Store(Reconcile(rows, u))
    /\ UNCHANGED <<ledger, readable, removal>>

\* The container stops being public (review-lifecycle.ts, node lifecycle).
Tombstone ==
    /\ readable
    /\ readable' = FALSE
    /\ UNCHANGED <<rows, ledger, removal>>
-----------------------------------------------------------------------------
(* Removing a text at the default isolation level *)

Author(i, what) == IF what = "text" THEN rows[i].challenger ELSE rows[i].responder
Shown(i, what) == IF what = "text" THEN rows[i].text = "visible"
                  ELSE rows[i].responder # None /\ rows[i].reply = "visible"

\* removeChallengeContent, removeChallengeResponseContent: the row is loaded; what it
\* fails on later it is spared here, for a refused removal leaves nothing behind.
Load(r, i, a, what) ==
    /\ removal[r].phase = "idle"
    /\ readable
    /\ Shown(i, what)
    /\ a \in Editors \union {Author(i, what)}
    /\ removal' = [removal EXCEPT ![r] =
                 [phase |-> IF rows[i].status \in Active THEN "loaded" ELSE "reconciled",
                  row |-> i, what |-> what, cleared |-> {}, adopted |-> {}]]
    /\ UNCHANGED <<rows, ledger, readable>>

\* The first query of reconcileActiveChallengeGroup.  Without a winner it returns.
PickWinner(r) ==
    /\ removal[r].phase = "loaded"
    /\ LET u == rows[removal[r].row].challenger
       IN  removal' = [removal EXCEPT ![r] =
             IF ActiveOf(rows, u) = {}
             THEN [@ EXCEPT !.phase = "reconciled"]
             ELSE LET w == CHOOSE i \in ActiveOf(rows, u) : IsOldest(i, rows, u)
                  IN  [phase |-> "picked", row |-> @.row, what |-> @.what,
                       winner |-> w, unkeyed |-> ~rows[w].key]]
    /\ UNCHANGED <<rows, ledger, readable>>

BrokenAdopts(w, unkeyed) == IF unkeyed /\ ~rows[w].key THEN {w} ELSE {}    \* whatever its status

\* The second updateMany: the winner it read, if it is still active and unkeyed.
Adopts(w, unkeyed) ==
    IF unkeyed /\ rows[w].status \in Active /\ ~rows[w].key THEN {w} ELSE {}

\* Both updates of reconcileActiveChallengeGroup, which wait for locked rows: every
\* other row of the challenger loses the key, the winner gets it if it was unkeyed.
Update(r) ==
    /\ removal[r].phase = "picked"
    /\ LET w == removal[r].winner
           u == rows[w].challenger
           cleared == {i \in DOMAIN rows \ {w} : rows[i].challenger = u /\ rows[i].key}
           adopted == Adopts(w, removal[r].unkeyed)
       IN  /\ Locked \intersect (cleared \union adopted) = {}
           /\ removal' = [removal EXCEPT ![r] = [phase |-> "reconciled", row |-> @.row, what |-> @.what,
                                         cleared |-> cleared, adopted |-> adopted]]
    /\ UNCHANGED <<rows, ledger, readable>>

\* The guarded update of the content, and the commit.
Remove(r) ==
    /\ removal[r].phase = "reconciled"
    /\ Shown(removal[r].row, removal[r].what)
    /\ removal[r].what = "text" => \A q \in Removals \ {r} : removal[r].row \notin LockedBy(q)
    /\ LET keyed == [i \in DOMAIN rows |->
                       IF i \in removal[r].cleared THEN [rows[i] EXCEPT !.key = FALSE]
                       ELSE IF i \in removal[r].adopted THEN [rows[i] EXCEPT !.key = TRUE]
                       ELSE rows[i]]
       IN  rows' = IF removal[r].what = "text"
                   THEN [keyed EXCEPT ![removal[r].row].text = "removed"]
                   ELSE [keyed EXCEPT ![removal[r].row].reply = "removed"]
    /\ removal' = [removal EXCEPT ![r] = Resting]
    /\ UNCHANGED <<ledger, readable>>

\* A refused, failed or dead removal is rolled back.
GiveUp(r) ==
    /\ removal[r].phase # "idle"
    /\ removal' = [removal EXCEPT ![r] = Resting]
    /\ UNCHANGED <<rows, ledger, readable>>

ChallengeNext ==
    \/ \E u \in Users : File(u) \/ List(u)
    \/ \E i \in DOMAIN rows, a \in Users :
          \/ Respond(i, a)
          \/ \E to \in ChallengeStatus, override \in BOOLEAN : Close(i, a, to, override)
          \/ \E r \in Removals, what \in {"text", "reply"} : Load(r, i, a, what)
    \/ \E r \in Removals : PickWinner(r) \/ Update(r) \/ Remove(r) \/ GiveUp(r)
    \/ Tombstone

ChallengeSpec == ChallengeInit /\ [][ChallengeNext]_challengeVars
-----------------------------------------------------------------------------
(* Properties *)

RowType == [challenger : Users, status : ChallengeStatus, revision : 0 .. 2, key : BOOLEAN,
            text : {"visible", "removed"}, responder : Users \union {None},
            reply : {"visible", "removed"}]
EntryType == [to : ChallengeStatus, actor : Users, override : BOOLEAN]

Indices == 1 .. MaxChallenges

RemovalLocals == {Resting}
    \union [phase : {"loaded", "reconciled"}, row : Indices, what : {"text", "reply"},
            cleared : SUBSET Indices, adopted : SUBSET Indices]
    \union [phase : {"picked"}, row : Indices, what : {"text", "reply"},
            winner : Indices, unkeyed : BOOLEAN]

ChallengeTypeOK ==
    /\ rows \in Seq(RowType) /\ Len(rows) <= MaxChallenges
    /\ ledger \in Seq(Seq(EntryType)) /\ Len(ledger) = Len(rows)
    /\ readable \in BOOLEAN
    /\ removal \in [Removals -> RemovalLocals]
    /\ \A r \in Removals : removal[r] # Resting => removal[r].row \in DOMAIN rows

\* docs/data-model.md:124: "At most ten active challenges may target one canonical
\* subject", whatever filings and closures race.
CapHolds == Cardinality(ActiveRows(rows)) <= Cap

\* docs/data-model.md:125-130: no duplicate active filing.  Two active challenges of
\* one person can only both stem from before the keys.
NoDuplicateFiling ==
    \A i, j \in ActiveRows(rows) :
        i < j /\ rows[i].challenger = rows[j].challenger => j <= LegacyRows

\* docs/data-model.md:127-130: the key belongs to the oldest active row of its
\* challenger, and a closed challenge has none: "a later filing is possible".  Holds
\* although removals repair keys from an old read.
KeyOwnerIsOldest ==
    \A i \in DOMAIN rows : rows[i].key => IsOldest(i, rows, rows[i].challenger)

\* What filings, closures and removals leave agrees: rows of their types, no more
\* active ones than the cap allows, none twice by one person, and the key with the
\* oldest.
FilingsAreSound == ChallengeTypeOK /\ CapHolds /\ NoDuplicateFiling /\ KeyOwnerIsOldest

\* docs/data-model.md:119-123: the projection agrees with the ledger, whose edges are
\* legal, and the response is the ledger's (assertChallengeLedger,
\* assertChallengeResponseIntegrity never fail on what the commands wrote).
LedgerExplainsRow ==
    \A i \in DOMAIN rows :
        LET log == ledger[i]
            n == Len(log)
        IN  /\ rows[i].revision = n - 1
            /\ rows[i].status = log[n].to
            /\ log[1].to = "open" /\ log[1].actor = rows[i].challenger
            /\ \A k \in 2 .. n : Legal(log[k - 1].to, log[k].to)
            /\ IF n >= 2 THEN log[2].actor = rows[i].responder ELSE rows[i].responder = None

\* docs/conflict-of-interest.md:19-25: nobody concludes a challenge they are part of, save
\* an administrator under the override, and "An override cannot be attached to an
\* uninvolved outcome."
OutcomeIsDisinterested ==
    \A i \in DOMAIN rows : \A k \in DOMAIN ledger[i] :
        LET e == ledger[i][k]
        IN  e.to \in Outcomes =>
              /\ e.override <=> e.actor \in {rows[i].challenger, rows[i].responder} \union Contributors \union Assessors
              /\ e.override => e.actor \in Admins
===============================================================================
