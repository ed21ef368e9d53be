------------------------------- MODULE RelationTrust -------------------------------
(***************************************************************************)
(* TRUST assessments of one proposed relation of the knowledge graph       *)
(* (apps/web/src/lib): verifyNodeRelationTrustAssessmentInTransaction of   *)
(* trust-provenance.ts and trust-adjudication.ts, beside the decisions of  *)
(* GraphProposals that change what was assessed.                           *)
(*                                                                         *)
(* The assessments are inserted with the publication that creates the      *)
(* proposal and never change; those modelled follow one protocol, are      *)
(* superseded by none, and disagree.  What they are verified and           *)
(* adjudicated about is hashed: the proposal, the edge it confirms, and    *)
(* whether the editor who signed that edge still is one.  A hash stands    *)
(* for what it is computed from.  Both transactions run at the default     *)
(* isolation level, so their queries are steps of their own.               *)
(***************************************************************************)
EXTENDS GraphProposals, FiniteSets

CONSTANTS
    Assessed,        \* the proposal the assessments are about
    Assessments,
    Involved,        \* deciders who submitted it or wrote an assessment
    Admins,          \* deciders whose editorial role is ADMIN
    Candidates,      \* users who may be designated as adjudicators
    Outcomes,        \* what an adjudication can say
    Seats,           \* requests of verifiers and adjudicators in flight
    MaxAnswers       \* requests acknowledged or in flight before no new one comes (bound)

\* What a hash stands for, and the marker of a verification, which holds one.
SubjectRecords == [proposal : ProposalRows, edge : EdgeRows \union {NoRow}, signedByEditor : BOOLEAN]
Markers == [by : Deciders, subject : SubjectRecords]

ASSUME TrustConstants ==
    /\ NoRow \notin Markers
    /\ Assessed \in Proposals /\ TupleOf[Assessed] # NoTuple
    /\ MaxAnswers \in Nat
    /\ Involved \subseteq Deciders /\ Admins \subseteq Deciders /\ Candidates \subseteq Deciders

VARIABLES
    assessment,      \* revision and marker of each assessment
    adjudications,   \* TrustAdjudication rows
    designated,      \* users with an active TrustAdjudicatorDesignation
    seat,            \* local variables of the requests
    reviews,         \* history: verifications that were acknowledged
    verdicts         \* history: adjudications that were acknowledged

trustVars == <<assessment, adjudications, designated, seat, reviews, verdicts>>
relationVars == <<graphVars, trustVars>>

Free == [pc |-> "free"]

TrustInit ==
    /\ GraphInit
    /\ assessment = [a \in Assessments |-> [revision |-> 0, marker |-> NoRow]]
    /\ adjudications = {}
    /\ designated = {}
    /\ seat = [r \in Seats |-> Free]
    /\ reviews = {}
    /\ verdicts = {}

Take(r, local) == seat' = [seat EXCEPT ![r] = local]

\* The request is refused or dies.
Leave(r) ==
    /\ seat[r] # Free
    /\ Take(r, Free)
    /\ UNCHANGED <<graphVars, assessment, adjudications, designated, reviews, verdicts>>

-----------------------------------------------------------------------------
(* What is hashed *)

OwnEdge == IF proposal[Assessed].confirms THEN edge[TupleOf[Assessed]] ELSE NoRow

BrokenSubject ==    \* the decision alone
    [proposal |-> proposal[Assessed], edge |-> NoRow, signedByEditor |-> FALSE]

\* reviewedNodeRelationTrustSubjectHash.
Subject ==
    [proposal |-> proposal[Assessed], edge |-> OwnEdge,
     signedByEditor |-> OwnEdge # NoRow /\ OwnEdge.by \in editors]

\* isAuthoritativeNodeRelationTrustSubject.
OnAuthoritativeEdge ==
    /\ proposal[Assessed].status = "confirmed"
    /\ OwnEdge # NoRow
    /\ OwnEdge.status = "confirmed"
    /\ OwnEdge.target = TargetOf[Assessed]
    /\ OwnEdge.by \in editors

\* resolveNodeRelationTrustVerification: the state "platform-verified".
Verified(a) ==
    /\ assessment[a].marker # NoRow
    /\ OnAuthoritativeEdge
    /\ assessment[a].marker.subject = Subject

\* The editorial queue and the disagreement queue show hashes and revisions,
\* which a request then sends as what it expects.
Look(r, u) ==
    /\ seat[r] = Free
    /\ Cardinality(reviews) + Cardinality(verdicts) + Cardinality({q \in Seats : seat[q] # Free})
          < MaxAnswers
    /\ proposal[Assessed] # NoRow
    /\ Take(r, [pc |-> "looked", by |-> u, subject |-> Subject,
                revision |-> [a \in Assessments |-> assessment[a].revision],
                seen |-> <<proposal[Assessed], OwnEdge>>])
    /\ UNCHANGED <<graphVars, assessment, adjudications, designated, reviews, verdicts>>

-----------------------------------------------------------------------------
(* verifyNodeRelationTrustAssessmentInTransaction *)

BrokenUnchanged(r, a) == assessment[a].revision = seat[r].revision[a]

Unchanged(r, a) ==
    /\ assessment[a].revision = seat[r].revision[a]
    /\ Subject = seat[r].subject

LoadAssessment(r, a) ==
    /\ seat[r].pc = "looked"
    /\ seat[r].by \in editors
    /\ OnAuthoritativeEdge
    /\ Unchanged(r, a)
    /\ Take(r, [pc |-> "mark", by |-> seat[r].by, assessment |-> a,
                revision |-> seat[r].revision[a], subject |-> Subject, seen |-> seat[r].seen])
    /\ UNCHANGED <<graphVars, assessment, adjudications, designated, reviews, verdicts>>

BrokenSwap(r, a) == TRUE    \* the update is not conditional

\* updateMany with the revision that was read.
Swap(r, a) == assessment[a].revision = seat[r].revision

Mark(r) ==
    /\ seat[r].pc = "mark"
    /\ LET a == seat[r].assessment IN
       /\ Swap(r, a)
       /\ assessment' = [assessment EXCEPT ![a] =
             [revision |-> @.revision + 1,
              marker |-> [by |-> seat[r].by, subject |-> seat[r].subject]]]
       /\ reviews' = reviews \union
             {[assessment |-> a, by |-> seat[r].by,
               revision |-> seat[r].revision + 1, seen |-> seat[r].seen]}
    /\ Take(r, Free)
    /\ UNCHANGED <<graphVars, adjudications, designated, verdicts>>

-----------------------------------------------------------------------------
(* createTrustAdjudication and setTrustAdjudicatorDesignation *)

\* An administrator designates an adjudicator or revokes the designation.
Designate(u) ==
    /\ Admins \intersect editors # {}
    /\ designated' = IF u \in designated THEN designated \ {u} ELSE designated \union {u}
    /\ UNCHANGED <<graphVars, assessment, adjudications, seat, reviews, verdicts>>

HasAuthority(u) == u \in editors \/ u \in designated

BrokenMayAdjudicate(u, override) == TRUE    \* direct involvement goes unnoticed

\* Direct involvement requires recusal or the override of an administrator, who
\* may attach one to nothing else.
MayAdjudicate(u, override) ==
    /\ override <=> u \in Involved
    /\ override => u \in Admins \intersect editors

LoadDisagreement(r, outcome, override) ==
    /\ seat[r].pc = "looked"
    /\ HasAuthority(seat[r].by)
    /\ Subject = seat[r].subject
    /\ MayAdjudicate(seat[r].by, override)
    /\ Take(r, [pc |-> "adjudicate", seen |-> seat[r].seen,
                row |-> [subject |-> Subject, outcome |-> outcome, by |-> seat[r].by,
                         asEditor |-> seat[r].by \in editors, override |-> override]])
    /\ UNCHANGED <<graphVars, assessment, adjudications, designated, reviews, verdicts>>

BrokenDecidable(row) == TRUE    \* any row under the hash is taken for its own

\* The unique disagreement hash: an existing row must be the very same one, which
\* includes the role the adjudicator had.
Decidable(row) == \A other \in adjudications : other.subject = row.subject => other = row

Adjudicate(r) ==
    /\ seat[r].pc = "adjudicate"
    /\ Decidable(seat[r].row)
    /\ adjudications' = IF \E other \in adjudications : other.subject = seat[r].row.subject
                        THEN adjudications ELSE adjudications \union {seat[r].row}
    /\ verdicts' = verdicts \union {[row |-> seat[r].row, seen |-> seat[r].seen]}
    /\ Take(r, Free)
    /\ UNCHANGED <<graphVars, assessment, designated, reviews>>

TrustNext ==
    \/ GraphNext /\ UNCHANGED trustVars
    \/ \E u \in Candidates : Designate(u)
    \/ \E r \in Seats :
          \/ \E u \in Deciders : Look(r, u)
          \/ \E a \in Assessments : LoadAssessment(r, a)
          \/ Mark(r)
          \/ \E o \in Outcomes, override \in BOOLEAN : LoadDisagreement(r, o, override)
          \/ Adjudicate(r)
          \/ Leave(r)

TrustSpec == TrustInit /\ [][TrustNext]_relationVars

-----------------------------------------------------------------------------
(* Properties *)

TrustTypeOK ==
    /\ DOMAIN assessment = Assessments
    /\ \A a \in Assessments :
          /\ assessment[a].revision \in Nat
          /\ assessment[a].marker # NoRow => assessment[a].marker.by \in Deciders
          /\ assessment[a].marker = NoRow <=> assessment[a].revision = 0
    /\ \A row \in adjudications : row.by \in Deciders /\ row.outcome \in Outcomes
    /\ designated \subseteq Candidates
    /\ \A r \in Seats : seat[r].pc \in {"free", "looked", "mark", "adjudicate"}

\* docs/data-model.md:301-303: an Atlas-reviewed record has "a separate, current"
\* marker.  An assessment is shown as verified only while the relation is confirmed
\* on an edge an editor of today signed, and only if the last editor who was told
\* of a verification of it had seen that very decision and that very edge; and no
\* two editors were told of the same revision.
BadgesAreEarned ==
    /\ TrustTypeOK
    /\ \A a \in Assessments : Verified(a) =>
          /\ edge[TupleOf[Assessed]].by \in editors
          /\ \E v \in reviews :
                /\ v.assessment = a
                /\ v.revision = assessment[a].revision
                /\ v.by = assessment[a].marker.by
                /\ v.seen = <<proposal[Assessed], edge[TupleOf[Assessed]]>>
    /\ \A v, w \in reviews :
          v.assessment = w.assessment /\ v.revision = w.revision => v = w

\* docs/trust-adjudication.md:11-21: what an adjudicator was told it decided, at first
\* or again, is the one record of that disagreement, about what it had seen; and no
\* one decided about a relation or assessment of its own without the override.
AdjudicationsStand ==
    /\ \A v \in verdicts :
          /\ v.row \in adjudications
          /\ v.row.subject.proposal = v.seen[1]
          /\ \A w \in verdicts :
                w.seen = v.seen /\ w.row.subject.signedByEditor = v.row.subject.signedByEditor
                => w.row = v.row
    /\ \A row \in adjudications :
          /\ row.override <=> row.by \in Involved
          /\ row.override => row.by \in Admins
===============================================================================
