---------------------------- MODULE EditorialReview ----------------------------
(***************************************************************************)
(* The editorial life of submissions: apps/web/src/lib/                    *)
(* editorial-lifecycle.ts (assignments, review rounds, formal reports,     *)
(* decision letters), submission-editorial.ts (direct decisions, and the   *)
(* archive decision both paths share) and the resubmission part of         *)
(* submission-creation.ts.                                                 *)
(*                                                                         *)
(* Every operation is one transaction at isolation level Serializable,     *)
(* repeated when the database refuses it, so it is one action; a request   *)
(* that throws changes nothing and is no action.  What makes the system    *)
(* hard is that several actors use overlapping operations in any order,    *)
(* and that a client may repeat a decision whose answer it never saw.      *)
(*                                                                         *)
(* What a decision request says is its actor, its outcome, whether it      *)
(* exercises the administrator override (then also conflict-declared), and *)
(* everything else its operation hash binds, one member of Notes.          *)
(* Operators named Broken... are deliberate bugs for the mutation runs.    *)
(***************************************************************************)
EXTENDS Naturals, Sequences, FiniteSets

CONSTANTS
    Submissions,    \* submission ids that may be created
    Users,
    InitialRole,    \* [Users -> {"USER", "EDITOR", "ADMIN"}]
    Notes,
    Nothing,
    MaxRounds       \* bound on the rounds opened per submission

Outcomes == {"accept", "reject", "request-changes"}

Bodies == [by : Users, outcome : Outcomes, override : BOOLEAN, note : Notes]

Rows == [submitter : Users,
         status    : {"pending-editorial-review", "automated-checks-failed", "accepted",
                      "rejected", "changes-requested", "superseded"},
         checks    : {"pass", "overridable", "hard"},
         previous  : Submissions \union {Nothing},
         reviewer  : Users \union {Nothing}]

RoundRows == [status : {"open", "decided"}, letter : Bodies \union {Nothing}]

\* Nothing is the null of the database: no key, no row and no decision.
ASSUME ReviewConstants ==
    /\ InitialRole \in [Users -> {"USER", "EDITOR", "ADMIN"}]
    /\ MaxRounds \in Nat \ {0}
    /\ Nothing \notin Submissions \union Users \union Rows \union Bodies

VARIABLES
    role,           \* User.role
    submission,     \* Submission rows
    assignment,     \* EditorAssignment.status by submission and editor
    rounds,         \* ReviewRound rows by submission, with their letters
    reports,        \* FormalReviewReport keys: submission, round, reviewer
    provenance,     \* EditorialDecisionProvenance of direct decisions
    claims,         \* IdempotencyKey rows: key and operation hash
    answers         \* history: decisions acknowledged to a client

vars == <<role, submission, assignment, rounds, reports, provenance, claims, answers>>

StatusOf(outcome) ==
    CASE outcome = "accept" -> "accepted"
      [] outcome = "reject" -> "rejected"
      [] outcome = "request-changes" -> "changes-requested"

Init ==
    /\ role = InitialRole
    /\ submission = [s \in Submissions |-> Nothing]
    /\ assignment = [s \in Submissions |-> [u \in Users |-> "none"]]
    /\ rounds = [s \in Submissions |-> <<>>]
    /\ reports = {}
    /\ provenance = [s \in Submissions |-> Nothing]
    /\ claims = {}
    /\ answers = {}

Exists(s) == submission[s] # Nothing
IsEditor(u) == role[u] \in {"EDITOR", "ADMIN"}

\* An administrator takes a role away.
Demote(u) ==
    /\ IsEditor(u)
    /\ role' = [role EXCEPT ![u] = "USER"]
    /\ UNCHANGED <<submission, assignment, rounds, reports, provenance, claims, answers>>

-----------------------------------------------------------------------------
(* createSubmission *)

Row(u, checks, previous) ==
    [submitter |-> u,
     status    |-> IF checks = "pass" THEN "pending-editorial-review"
                   ELSE "automated-checks-failed",
     checks    |-> checks,      \* "hard" errors can never be overridden
     previous  |-> previous,
     reviewer  |-> Nothing]

Submit(s, u, checks) ==
    /\ ~Exists(s)
    /\ submission' = [submission EXCEPT ![s] = Row(u, checks, Nothing)]
    /\ UNCHANGED <<role, assignment, rounds, reports, provenance, claims, answers>>

BrokenResubmit(s, u, checks, p) ==    \* the previous submission is left as it is
    /\ ~Exists(s)
    /\ Exists(p)
    /\ submission[p].submitter = u
    /\ submission[p].status = "changes-requested"
    /\ submission' = [submission EXCEPT ![s] = Row(u, checks, p)]
    /\ UNCHANGED <<role, assignment, rounds, reports, provenance, claims, answers>>

\* A revision supersedes its predecessor and inherits its active editors.
Resubmit(s, u, checks, p) ==
    /\ ~Exists(s)
    /\ Exists(p)
    /\ submission[p].submitter = u
    /\ submission[p].status = "changes-requested"
    /\ submission' = [submission EXCEPT ![s] = Row(u, checks, p),
                                        ![p].status = "superseded"]
    /\ assignment' = [assignment EXCEPT ![s] =
          [e \in Users |-> IF assignment[p][e] = "active" THEN "active" ELSE "none"]]
    /\ UNCHANGED <<role, rounds, reports, provenance, claims, answers>>

-----------------------------------------------------------------------------
(* assignEditor, recuseEditor *)

Assignable == {"automated-checks-failed", "pending-editorial-review", "changes-requested"}

Assign(s, e, declared) ==
    /\ \E actor \in Users : IsEditor(actor)
    /\ Exists(s)
    /\ submission[s].status \in Assignable
    /\ IsEditor(e)
    /\ e # submission[s].submitter
    /\ assignment[s][e] = "none"
    /\ assignment' = [assignment EXCEPT ![s][e] = IF declared THEN "recused" ELSE "active"]
    /\ UNCHANGED <<role, submission, rounds, reports, provenance, claims, answers>>

Recuse(s, e) ==
    /\ assignment[s][e] = "active"
    /\ assignment' = [assignment EXCEPT ![s][e] = "recused"]
    /\ UNCHANGED <<role, submission, rounds, reports, provenance, claims, answers>>

-----------------------------------------------------------------------------
(* openReviewRound, submitReviewReport *)

Open(s, n) == rounds[s][n].status = "open"
HasOpenRound(s) == \E n \in DOMAIN rounds[s] : Open(s, n)

OpenRound(s, e) ==
    /\ Exists(s)
    /\ submission[s].status = "pending-editorial-review"
    /\ assignment[s][e] = "active"
    /\ ~HasOpenRound(s)
    /\ Len(rounds[s]) < MaxRounds
    /\ rounds' = [rounds EXCEPT ![s] = Append(@, [status |-> "open", letter |-> Nothing])]
    /\ UNCHANGED <<role, submission, assignment, reports, provenance, claims, answers>>

SubmitReport(s, n, u) ==
    /\ Open(s, n)
    /\ submission[s].submitter # u
    /\ assignment[s][u] = "none"
    /\ <<s, n, u>> \notin reports
    /\ reports' = reports \union {<<s, n, u>>}
    /\ UNCHANGED <<role, submission, assignment, rounds, provenance, claims, answers>>

-----------------------------------------------------------------------------
(* acceptSubmission and decideSubmission: the archive decision *)

Decidable == {"pending-editorial-review", "automated-checks-failed"}

BrokenCanDecide(s, body) ==    \* a decided submission is decided again
    body.outcome = "accept" => submission[s].checks # "hard"

\* The part of the transaction both paths share.
CanDecide(s, body) ==
    /\ submission[s].status \in Decidable
    /\ body.outcome = "accept" => submission[s].checks # "hard"

Move(s, body) ==
    submission' = [submission EXCEPT ![s].status = StatusOf(body.outcome),
                                     ![s].reviewer = body.by]

OutcomeClaim(s, body) == [key |-> <<"submission", s, body.outcome>>, hash |-> body]

Acknowledge(s, body) == answers' = answers \union {<<s, body>>}

\* Direct self-involvement goes with the administrator override, and only with it.
OverrideRule(body, involved) ==
    /\ body.override = involved
    /\ body.override => role[body.by] = "ADMIN"

Wrote(u, s, n) == <<s, n, u>> \in reports

\* decisionConflictProvenance
ConflictCleared(s, body) ==
    /\ IsEditor(body.by)
    /\ OverrideRule(body, \/ body.by = submission[s].submitter
                          \/ \E n \in DOMAIN rounds[s] : Wrote(body.by, s, n))
    /\ assignment[s][body.by] = "recused" => body.override

BrokenOutsideRounds(s) == TRUE    \* a direct decision ignores an open round

\* assertFormalRoundDecisionScope without a round
OutsideRounds(s) == ~HasOpenRound(s)

DecideDirectly(s, body) ==
    /\ Exists(s)
    /\ OutsideRounds(s)
    /\ CanDecide(s, body)
    /\ ConflictCleared(s, body)
    /\ Move(s, body)
    /\ claims' = claims \union {OutcomeClaim(s, body)}
    /\ provenance' = [provenance EXCEPT ![s] = body]
    /\ Acknowledge(s, body)
    /\ UNCHANGED <<role, assignment, rounds, reports>>

BrokenReplayDirectly(s, body) ==    \* the operation hash is not compared
    /\ Exists(s)
    /\ OutsideRounds(s)
    /\ submission[s].status = StatusOf(body.outcome)
    /\ Acknowledge(s, body)
    /\ UNCHANGED <<role, submission, assignment, rounds, reports, provenance, claims>>

\* The same decision again, whichever path applied it first; for an acceptance
\* also on the way out of a failed transaction (readAcceptedResult).
ReplayDirectly(s, body) ==
    /\ Exists(s)
    /\ OutsideRounds(s)
    /\ submission[s].status = StatusOf(body.outcome)
    /\ OutcomeClaim(s, body) \in claims
    /\ Acknowledge(s, body)
    /\ UNCHANGED <<role, submission, assignment, rounds, reports, provenance, claims>>

-----------------------------------------------------------------------------
(* issueDecision *)

RoundClaim(s, n, body) == [key |-> <<"round", s, n>>, hash |-> body]

BrokenRoundConflictCleared(s, n, body) ==    \* reports do not count as involvement
    /\ IsEditor(body.by)
    /\ OverrideRule(body, body.by = submission[s].submitter)

RoundConflictCleared(s, n, body) ==
    /\ IsEditor(body.by)
    /\ OverrideRule(body, body.by = submission[s].submitter \/ Wrote(body.by, s, n))

BrokenMayChair(s, body) == TRUE    \* any editor may decide a round

MayChair(s, body) ==
    \/ assignment[s][body.by] = "active"
    \/ assignment[s][body.by] = "recused" /\ body.override

StandDown(s, outcome) ==
    assignment' = IF outcome = "request-changes" THEN assignment
                  ELSE [assignment EXCEPT ![s] =
                          [e \in Users |-> IF @[e] = "active" THEN "completed" ELSE @[e]]]

\* The letter, the archive decision, the end of the round and of the
\* assignments commit together.  The archive decision has no replay here: no
\* open round has a submission that is already decided (OpenRoundIsPending).
IssueDecision(s, n, body) ==
    /\ RoundConflictCleared(s, n, body)
    /\ \A c \in claims : c.key # RoundClaim(s, n, body).key
    /\ Open(s, n) /\ rounds[s][n].letter = Nothing
    /\ MayChair(s, body)
    /\ CanDecide(s, body)
    /\ Move(s, body)
    /\ claims' = claims \union {OutcomeClaim(s, body), RoundClaim(s, n, body)}
    /\ rounds' = [rounds EXCEPT ![s][n] = [status |-> "decided", letter |-> body]]
    /\ StandDown(s, body.outcome)
    /\ Acknowledge(s, body)
    /\ UNCHANGED <<role, reports, provenance>>

ReplayDecision(s, n, body) ==
    /\ RoundConflictCleared(s, n, body)
    /\ RoundClaim(s, n, body) \in claims
    /\ rounds[s][n] = [status |-> "decided", letter |-> body]
    /\ Acknowledge(s, body)
    /\ UNCHANGED <<role, submission, assignment, rounds, reports, provenance, claims>>

-----------------------------------------------------------------------------
Intake(s) ==
    \E u \in Users, checks \in {"pass", "overridable", "hard"} :
        \/ Submit(s, u, checks)
        \/ \E p \in Submissions : Resubmit(s, u, checks, p)

Team(s) ==
    \E e \in Users :
        \/ \E declared \in BOOLEAN : Assign(s, e, declared)
        \/ Recuse(s, e)
        \/ OpenRound(s, e)

Decisions(s) ==
    \E body \in Bodies :
        \/ DecideDirectly(s, body)
        \/ ReplayDirectly(s, body)
        \/ \E n \in DOMAIN rounds[s] :
              \/ IssueDecision(s, n, body)
              \/ ReplayDecision(s, n, body)

Next ==
    \/ \E u \in Users : Demote(u)
    \/ \E s \in Submissions :
          \/ Intake(s)
          \/ Team(s)
          \/ Decisions(s)
          \/ \E u \in Users, n \in DOMAIN rounds[s] : SubmitReport(s, n, u)

Spec == Init /\ [][Next]_vars
-----------------------------------------------------------------------------
(* Properties *)

TypeOK ==
    /\ role \in [Users -> {"USER", "EDITOR", "ADMIN"}]
    /\ submission \in [Submissions -> Rows \union {Nothing}]
    /\ assignment \in [Submissions -> [Users -> {"none", "active", "recused", "completed"}]]
    /\ rounds \in [Submissions -> Seq(RoundRows)]
    /\ reports \subseteq Submissions \X Nat \X Users
    /\ \A r \in reports : r[2] \in DOMAIN rounds[r[1]]
    /\ provenance \in [Submissions -> Bodies \union {Nothing}]
    /\ \A c, d \in claims : c.key = d.key => c = d
    /\ answers \subseteq Submissions \X Bodies

\* The decisions of the ledger: letters, and provenance of direct decisions.
LettersOf(s) == {rounds[s][n].letter : n \in {m \in DOMAIN rounds[s] : ~Open(s, m)}}
DecisionsOf(s) == LettersOf(s) \union ({provenance[s]} \ {Nothing})

\* editorial-governance.md:97-98: rounds are opened on pending submissions and
\* closed by a letter.  Whatever else editors do, the direct decision endpoint
\* included, a submission under formal review stays undecided, in one round.
OpenRoundIsPending ==
    \A s \in Submissions : \A n \in DOMAIN rounds[s] :
        Open(s, n) => /\ submission[s].status = "pending-editorial-review"
                      /\ \A m \in DOMAIN rounds[s] : Open(s, m) => m = n

\* A submission is decided at most once, by a letter or directly but never by
\* both, and its status and reviewer are those of that decision, which is also
\* the one a repeated request is compared with.
OneDecision ==
    \A s \in Submissions : Exists(s) =>
        IF submission[s].status \in Decidable
        THEN DecisionsOf(s) = {}
        ELSE \E d \in DecisionsOf(s) :
                /\ DecisionsOf(s) = {d}
                /\ provenance[s] = Nothing \/ LettersOf(s) = {}
                /\ submission[s].reviewer = d.by
                /\ submission[s].status \in {StatusOf(d.outcome), "superseded"}
                /\ OutcomeClaim(s, d) \in claims

\* conflict-of-interest.md:51-53: whoever decided their own submission, or one
\* they wrote a formal report on, before or after becoming its editor, did so
\* under the override, and nobody else's decision carries one.
InvolvementIsOverridden ==
    \A s \in Submissions : \A d \in DecisionsOf(s) :
        d.override <=> \/ d.by = submission[s].submitter
                       \/ \E n \in DOMAIN rounds[s] : Wrote(d.by, s, n)

\* conflict-of-interest.md:58-61: a letter is signed by an assigned editor, and
\* if a final one is signed by a recused editor, then under the override.
ChairWasAssigned ==
    \A s \in Submissions : \A d \in LettersOf(s) :
        /\ assignment[s][d.by] # "none"
        /\ (assignment[s][d.by] = "recused" /\ d.outcome # "request-changes") => d.override

\* A client that was told its decision stands, at once or when repeating the
\* request over either endpoint, finds that very decision in the ledger.
AcknowledgedDecisionStands == \A a \in answers : a[2] \in DecisionsOf(a[1])

\* "A changes-requested submission is superseded by its revision": revisions form
\* lines, in which every superseded submission has one successor, by the same
\* submitter, and every predecessor was asked for changes.
RevisionsAreLinear ==
    \A p \in Submissions : Exists(p) =>
        LET next == {s \in Submissions : Exists(s) /\ submission[s].previous = p}
        IN  /\ submission[p].status = "superseded" <=> next # {}
            /\ \A s, t \in next : s = t
            /\ \A s \in next : submission[s].submitter = submission[p].submitter
            /\ next # {} => \A d \in DecisionsOf(p) : d.outcome = "request-changes"

\* Formal review and decisions agree, in rows of their types: rounds stay open only
\* on undecided submissions, and the letters that close them are duly signed.
RoundsAreSound == TypeOK /\ OpenRoundIsPending /\ ChairWasAssigned

\* Whichever endpoint decided a submission, letter or direct decision, there is one
\* decision, and it is the one every client was told of.
DecisionsAreFinal == OneDecision /\ AcknowledgedDecisionStands
===============================================================================
