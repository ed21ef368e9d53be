------------------------- MODULE EditorialReview_proofs -------------------------
(***************************************************************************)
(* Proofs about EditorialReview, for every set of submissions and users    *)
(* and every bound on the rounds.                                          *)
(*                                                                         *)
(* The four properties need each other: a submission is decided once       *)
(* because a decided one is never open for decision again; a letter closes *)
(* the only round because a second one would need a submission that was    *)
(* decided and is pending; the parties of a decision stay what they were   *)
(* because reports are only written in an open round.  SubmissionInv says  *)
(* all this of one submission, so that a step is followed where it acts    *)
(* and framed elsewhere.                                                   *)
(***************************************************************************)
EXTENDS EditorialReview, SequenceTheorems, TLAPS

Undecided(s) == Exists(s) /\ submission[s].status \in Decidable

\* Who decides is a party of the submission, as its author or by a formal report.
Party(u, s) ==
    \/ u = submission[s].submitter
    \/ \E n \in DOMAIN rounds[s] : Wrote(u, s, n)

\* The decision that explains a decided submission.
Explains(s, d) ==
    /\ DecisionsOf(s) = {d}
    /\ provenance[s] = Nothing \/ LettersOf(s) = {}
    /\ submission[s].reviewer = d.by
    /\ submission[s].status \in {StatusOf(d.outcome), "superseded"}
    /\ OutcomeClaim(s, d) \in claims
    /\ d.override <=> Party(d.by, s)

\* A letter's chair, who after a final letter is not active any more.
ChairStays(s, d) ==
    /\ assignment[s][d.by] # "none"
    /\ d.outcome # "request-changes" =>
          /\ assignment[s][d.by] # "active"
          /\ assignment[s][d.by] = "recused" => d.override

SubmissionInv(s) ==
    /\ Len(rounds[s]) <= 1
    /\ \A n \in DOMAIN rounds[s] : Open(s, n) <=> rounds[s][n].letter = Nothing
    /\ ~Exists(s) => rounds[s] = <<>> /\ provenance[s] = Nothing
    /\ Undecided(s) => provenance[s] = Nothing /\ \A n \in DOMAIN rounds[s] : Open(s, n)
    /\ \A n \in DOMAIN rounds[s] : Open(s, n) =>
          Exists(s) /\ submission[s].status = "pending-editorial-review"
    /\ Exists(s) /\ ~Undecided(s) => \E d \in Bodies : Explains(s, d)
    /\ \A d \in LettersOf(s) : ChairStays(s, d)

\* Every claim is that of a decision of the ledger.
IsRoundClaim(c, s, d) ==
    \E n \in DOMAIN rounds[s] : /\ c = RoundClaim(s, n, d)
                                /\ ~Open(s, n) /\ rounds[s][n].letter = d

ClaimsAreDecisions ==
    \A c \in claims : \E s \in Submissions : \E d \in DecisionsOf(s) :
        c = OutcomeClaim(s, d) \/ IsRoundClaim(c, s, d)

PredecessorsExist ==
    \A s \in Submissions : Exists(s) /\ submission[s].previous # Nothing =>
        Exists(submission[s].previous)

ReviewInv ==
    /\ TypeOK
    /\ \A s \in Submissions : SubmissionInv(s)
    /\ ClaimsAreDecisions
    /\ AcknowledgedDecisionStands
    /\ RevisionsAreLinear
    /\ PredecessorsExist

LEMMA RoundTypes ==
    ASSUME TypeOK, NEW s \in Submissions
    PROVE  /\ rounds[s] \in Seq(RoundRows) /\ Len(rounds[s]) \in Nat
           /\ DOMAIN rounds[s] = 1 .. Len(rounds[s])
           /\ \A n \in DOMAIN rounds[s] :
                 rounds[s][n].status \in {"open", "decided"}
                 /\ rounds[s][n].letter \in Bodies \union {Nothing}
  <1>1. /\ rounds[s] \in Seq(RoundRows) /\ Len(rounds[s]) \in Nat
        /\ DOMAIN rounds[s] = 1 .. Len(rounds[s])
    BY LenProperties DEF TypeOK
  <1>2. \A n \in DOMAIN rounds[s] : rounds[s][n] \in RoundRows
    BY <1>1, ElementOfSeq
  <1>. QED BY <1>1, <1>2 DEF RoundRows

\* The letters of a submission: none, or that of its one round.
LEMMA LettersShape ==
    ASSUME TypeOK, NEW s \in Submissions, SubmissionInv(s)
    PROVE  /\ LettersOf(s) \subseteq Bodies
           /\ DecisionsOf(s) \subseteq Bodies
           /\ \A n \in DOMAIN rounds[s] : n = 1
           /\ \A n \in DOMAIN rounds[s] : ~Open(s, n) => LettersOf(s) = {rounds[s][n].letter}
           /\ (\A n \in DOMAIN rounds[s] : Open(s, n)) => LettersOf(s) = {}
           /\ ~Exists(s) \/ Undecided(s) => DecisionsOf(s) = {}
  <1>1. \A n \in DOMAIN rounds[s] : n = 1
    BY RoundTypes DEF SubmissionInv
  <1>2. \A n \in DOMAIN rounds[s] : ~Open(s, n) => rounds[s][n].letter \in Bodies
    BY RoundTypes DEF SubmissionInv
  <1>3. LettersOf(s) \subseteq Bodies
    BY <1>2 DEF LettersOf
  <1>4. DecisionsOf(s) \subseteq Bodies
    BY <1>3 DEF DecisionsOf, TypeOK
  <1>5. \A n \in DOMAIN rounds[s] : ~Open(s, n) => LettersOf(s) = {rounds[s][n].letter}
    BY <1>1 DEF LettersOf
  <1>6. (\A n \in DOMAIN rounds[s] : Open(s, n)) => LettersOf(s) = {}
    BY DEF LettersOf
  <1>7. ~Exists(s) \/ Undecided(s) => DecisionsOf(s) = {}
    <2>1. ASSUME ~Exists(s) \/ Undecided(s)
          PROVE  provenance[s] = Nothing /\ \A n \in DOMAIN rounds[s] : Open(s, n)
      BY <2>1, RoundTypes, EmptySeq DEF SubmissionInv
    <2>. QED BY <1>6, <2>1 DEF DecisionsOf
  <1>. QED BY <1>1, <1>3, <1>4, <1>5, <1>6, <1>7

\* Where no open round is left, the submission was decided or was never open.
LEMMA OpenIsUndecided ==
    ASSUME TypeOK, NEW s \in Submissions, SubmissionInv(s), NEW n \in DOMAIN rounds[s], Open(s, n)
    PROVE  Undecided(s) /\ DecisionsOf(s) = {}
  <1>1. Undecided(s)
    BY DEF SubmissionInv, Undecided, Decidable
  <1>. QED BY <1>1, LettersShape

LEMMA ReviewInvSuffices ==
    ReviewInv => RoundsAreSound /\ DecisionsAreFinal /\ InvolvementIsOverridden /\ RevisionsAreLinear
  <1>. SUFFICES ASSUME ReviewInv
                PROVE  RoundsAreSound /\ DecisionsAreFinal /\ InvolvementIsOverridden
                       /\ RevisionsAreLinear
    OBVIOUS
  <1>. USE DEF ReviewInv
  <1>1. OpenRoundIsPending
    BY LettersShape DEF OpenRoundIsPending, SubmissionInv
  <1>2. ChairWasAssigned
    BY DEF ChairWasAssigned, SubmissionInv, ChairStays
  <1>3. OneDecision
    <2>. SUFFICES ASSUME NEW s \in Submissions, Exists(s)
                  PROVE  IF submission[s].status \in Decidable
                         THEN DecisionsOf(s) = {}
                         ELSE \E d \in DecisionsOf(s) :
                                 /\ DecisionsOf(s) = {d}
                                 /\ provenance[s] = Nothing \/ LettersOf(s) = {}
                                 /\ submission[s].reviewer = d.by
                                 /\ submission[s].status \in {StatusOf(d.outcome), "superseded"}
                                 /\ OutcomeClaim(s, d) \in claims
      BY DEF OneDecision
    <2>1. CASE submission[s].status \in Decidable
      BY <2>1, LettersShape DEF Undecided
    <2>2. CASE submission[s].status \notin Decidable
      BY <2>2 DEF SubmissionInv, Undecided, Explains
    <2>. QED BY <2>1, <2>2
  <1>4. InvolvementIsOverridden
    <2>. SUFFICES ASSUME NEW s \in Submissions, NEW d \in DecisionsOf(s)
                  PROVE  d.override <=> Party(d.by, s)
      BY DEF InvolvementIsOverridden, Party
    <2>1. PICK e \in Bodies : Explains(s, e)
      BY LettersShape DEF SubmissionInv
    <2>. QED BY <2>1 DEF Explains
  <1>. QED BY <1>1, <1>2, <1>3, <1>4 DEF RoundsAreSound, DecisionsAreFinal

-----------------------------------------------------------------------------
(* Steps. *)

\* A submission of which a step changes nothing but what no decision rests on.
LEMMA Framed ==
    ASSUME ReviewInv, NEW s \in Submissions,
           rounds'[s] = rounds[s], provenance'[s] = provenance[s],
           submission'[s] = submission[s], claims \subseteq claims',
           \A d \in LettersOf(s) : ChairStays(s, d) => ChairStays(s, d)',
           \A u \in Users, n \in DOMAIN rounds[s] : Open(s, n) \/ (Wrote(u, s, n)' <=> Wrote(u, s, n))
    PROVE  SubmissionInv(s)' /\ DecisionsOf(s)' = DecisionsOf(s)
  <1>. USE DEF ReviewInv
  <1>1. /\ LettersOf(s)' = LettersOf(s) /\ DecisionsOf(s)' = DecisionsOf(s)
        /\ (Exists(s)' <=> Exists(s)) /\ (Undecided(s)' <=> Undecided(s))
        /\ \A n : Open(s, n)' <=> Open(s, n)
    BY DEF LettersOf, DecisionsOf, Open, Exists, Undecided
  <1>2. ASSUME NEW d \in Bodies, Explains(s, d)
        PROVE  Explains(s, d)'
    <2>1. \A n \in DOMAIN rounds[s] : ~Open(s, n)
      BY <1>2, OpenIsUndecided DEF Explains
    <2>2. d.by \in Users
      BY DEF Bodies
    <2>3. Party(d.by, s)' <=> Party(d.by, s)
      BY <2>1, <2>2 DEF Party
    <2>. QED BY <1>1, <1>2, <2>3 DEF Explains, OutcomeClaim
  <1>3. SubmissionInv(s)
    OBVIOUS
  <1>4. \A d \in LettersOf(s)' : ChairStays(s, d)'
    BY <1>1, <1>3 DEF SubmissionInv
  <1>5. Exists(s)' /\ ~Undecided(s)' => \E d \in Bodies : Explains(s, d)'
    BY <1>1, <1>2, <1>3 DEF SubmissionInv
  <1>6. SubmissionInv(s)'
    BY <1>1, <1>3, <1>4, <1>5 DEF SubmissionInv
  <1>. QED BY <1>1, <1>6

\* Decisions are kept, and the rounds they closed.
Settled ==
    \A s \in Submissions :
        /\ DecisionsOf(s) \subseteq DecisionsOf(s)'
        /\ \A n \in DOMAIN rounds[s] : ~Open(s, n) =>
              n \in DOMAIN rounds'[s] /\ rounds'[s][n] = rounds[s][n]

\* New claims are those of a decision of the ledger, so are the decisions told.
LEMMA LedgerStep ==
    ASSUME ReviewInv, Settled,
           \A c \in claims' \ claims : \E s \in Submissions : \E d \in DecisionsOf(s)' :
               c = OutcomeClaim(s, d) \/ IsRoundClaim(c, s, d)',
           \A a \in answers' \ answers : a[2] \in DecisionsOf(a[1])',
           answers' \subseteq Submissions \X Bodies
    PROVE  ClaimsAreDecisions' /\ AcknowledgedDecisionStands'
  <1>. USE DEF ReviewInv
  <1>1. ASSUME NEW c \in claims
        PROVE  \E s \in Submissions : \E d \in DecisionsOf(s)' :
                  c = OutcomeClaim(s, d) \/ IsRoundClaim(c, s, d)'
    <2>0. PICK s \in Submissions :
            \E d \in DecisionsOf(s) : c = OutcomeClaim(s, d) \/ IsRoundClaim(c, s, d)
      BY DEF ClaimsAreDecisions
    <2>1. PICK d \in DecisionsOf(s) : c = OutcomeClaim(s, d) \/ IsRoundClaim(c, s, d)
      BY <2>0
    <2>2. d \in DecisionsOf(s)'
      BY DEF Settled
    <2>3. IsRoundClaim(c, s, d) => IsRoundClaim(c, s, d)'
      BY DEF IsRoundClaim, Settled, Open, RoundClaim
    <2>. QED BY <2>1, <2>2, <2>3
  <1>2. ClaimsAreDecisions'
    BY <1>1 DEF ClaimsAreDecisions, OutcomeClaim
  <1>3. \A a \in answers : a[1] \in Submissions /\ a[2] \in DecisionsOf(a[1])
    BY DEF TypeOK, AcknowledgedDecisionStands
  <1>4. \A a \in answers : a[2] \in DecisionsOf(a[1])'
    BY <1>3 DEF Settled
  <1>. QED BY <1>2, <1>4 DEF AcknowledgedDecisionStands

\* A step that decides nothing and tells at most what is decided.
LEMMA UndecidingStep ==
    ASSUME ReviewInv, TypeOK', UNCHANGED <<claims, provenance>>,
           \A s \in Submissions : SubmissionInv(s)' /\ DecisionsOf(s)' = DecisionsOf(s),
           \A s \in Submissions : \A n \in DOMAIN rounds[s] : ~Open(s, n) =>
               n \in DOMAIN rounds'[s] /\ rounds'[s][n] = rounds[s][n],
           \A a \in answers' \ answers : a[2] \in DecisionsOf(a[1])
                                         /\ a[1] \in Submissions,
           RevisionsAreLinear', PredecessorsExist'
    PROVE  ReviewInv'
  <1>1. Settled
    BY DEF Settled
  <1>2. ClaimsAreDecisions' /\ AcknowledgedDecisionStands'
    BY <1>1, LedgerStep DEF TypeOK
  <1>. QED BY <1>2 DEF ReviewInv

\* Decisions and submissions as they were keep the revisions in line.
LEMMA RevisionsStay ==
    ASSUME ReviewInv, UNCHANGED submission,
           \A s \in Submissions : DecisionsOf(s)' = DecisionsOf(s)
    PROVE  RevisionsAreLinear' /\ PredecessorsExist'
  <1>. USE DEF ReviewInv
  <1>1. \A s : Exists(s)' <=> Exists(s)
    BY DEF Exists
  <1>2. PredecessorsExist'
    BY <1>1 DEF PredecessorsExist, Exists
  <1>3. RevisionsAreLinear'
    BY <1>1 DEF RevisionsAreLinear, Exists
  <1>. QED BY <1>2, <1>3

\* A request that only repeats what the ledger holds, and a change of roles.
LEMMA TellingStep ==
    ASSUME ReviewInv, TypeOK',
           UNCHANGED <<submission, assignment, rounds, reports, provenance, claims>>,
           \A a \in answers' \ answers : a[2] \in DecisionsOf(a[1]) /\ a[1] \in Submissions
    PROVE  ReviewInv'
  <1>1. \A s \in Submissions : SubmissionInv(s)' /\ DecisionsOf(s)' = DecisionsOf(s)
    BY Framed DEF Wrote, ChairStays
  <1>2. RevisionsAreLinear' /\ PredecessorsExist'
    BY <1>1, RevisionsStay
  <1>. QED BY <1>1, <1>2, UndecidingStep

LEMMA DemoteStep ==
    ASSUME ReviewInv, NEW u \in Users, Demote(u)
    PROVE  ReviewInv'
  <1>1. TypeOK'
    BY DEF ReviewInv, TypeOK, Demote
  <1>. QED BY <1>1, TellingStep DEF Demote

\* Only the decision itself has a claim that equals a request's.
LEMMA ClaimNamesDecision ==
    ASSUME ReviewInv, NEW s \in Submissions, NEW d \in Bodies, OutcomeClaim(s, d) \in claims
    PROVE  d \in DecisionsOf(s)
  <1>0. PICK t \in Submissions : \E e \in DecisionsOf(t) :
            \/ OutcomeClaim(s, d) = OutcomeClaim(t, e)
            \/ IsRoundClaim(OutcomeClaim(s, d), t, e)
    BY DEF ReviewInv, ClaimsAreDecisions
  <1>1. PICK e \in DecisionsOf(t) :
            \/ OutcomeClaim(s, d) = OutcomeClaim(t, e)
            \/ IsRoundClaim(OutcomeClaim(s, d), t, e)
    BY <1>0
  <1>2. \A n : OutcomeClaim(s, d) # RoundClaim(t, n, e)
    BY DEF OutcomeClaim, RoundClaim
  <1>3. OutcomeClaim(s, d) = OutcomeClaim(t, e)
    BY <1>1, <1>2 DEF IsRoundClaim
  <1>4. s = t /\ d = e
    BY <1>3 DEF OutcomeClaim
  <1>. QED BY <1>1, <1>4

LEMMA ReplayDirectlyStep ==
    ASSUME ReviewInv, NEW s \in Submissions, NEW d \in Bodies, ReplayDirectly(s, d)
    PROVE  ReviewInv'
  <1>1. d \in DecisionsOf(s)
    BY ClaimNamesDecision DEF ReplayDirectly
  <1>2. answers' = answers \union {<<s, d>>}
    BY DEF ReplayDirectly, Acknowledge
  <1>3. TypeOK'
    BY <1>2 DEF ReviewInv, TypeOK, ReplayDirectly
  <1>. QED BY <1>1, <1>2, <1>3, TellingStep DEF ReplayDirectly

LEMMA ReplayDecisionStep ==
    ASSUME ReviewInv, NEW s \in Submissions, NEW d \in Bodies, NEW n \in DOMAIN rounds[s],
           ReplayDecision(s, n, d)
    PROVE  ReviewInv'
  <1>1. d \in DecisionsOf(s)
    <2>1. ~Open(s, n) /\ rounds[s][n].letter = d
      BY DEF ReplayDecision, Open
    <2>. QED BY <2>1, LettersShape DEF ReviewInv, DecisionsOf
  <1>2. answers' = answers \union {<<s, d>>}
    BY DEF ReplayDecision, Acknowledge
  <1>3. TypeOK'
    BY <1>2 DEF ReviewInv, TypeOK, ReplayDecision
  <1>. QED BY <1>1, <1>2, <1>3, TellingStep DEF ReplayDecision

\* A new submission starts undecided.
LEMMA NewSubmission ==
    ASSUME ReviewInv, NEW s \in Submissions, ~Exists(s), NEW row \in Rows,
           row.status \in Decidable, submission'[s] = row, UNCHANGED <<rounds, provenance>>
    PROVE  SubmissionInv(s)' /\ DecisionsOf(s)' = DecisionsOf(s) /\ Exists(s)'
  <1>1. /\ rounds'[s] = <<>> /\ provenance'[s] = Nothing /\ DOMAIN rounds'[s] = {}
        /\ Len(rounds'[s]) = 0
    BY EmptySeq DEF ReviewInv, SubmissionInv
  <1>2. Exists(s)' /\ Undecided(s)'
    BY ReviewConstants DEF Exists, Undecided
  <1>3. LettersOf(s)' = {} /\ LettersOf(s) = {} /\ DecisionsOf(s)' = DecisionsOf(s)
    BY <1>1 DEF LettersOf, DecisionsOf
  <1>. QED BY <1>1, <1>2, <1>3 DEF SubmissionInv

LEMMA RowIsNew ==
    ASSUME NEW u \in Users, NEW checks \in {"pass", "overridable", "hard"},
           NEW previous \in Submissions \union {Nothing}
    PROVE  LET row == Row(u, checks, previous)
           IN  /\ row \in Rows /\ row # Nothing /\ row.status \in Decidable
               /\ row.submitter = u /\ row.previous = previous
               /\ row.status # "superseded"
  <1>1. Row(u, checks, previous) \in Rows
    BY DEF Row, Rows
  <1>. QED BY <1>1, ReviewConstants DEF Row, Decidable

LEMMA SubmitStep ==
    ASSUME ReviewInv, NEW s \in Submissions, NEW u \in Users,
           NEW checks \in {"pass", "overridable", "hard"}, Submit(s, u, checks)
    PROVE  ReviewInv'
  <1>. USE DEF ReviewInv
  <1>. DEFINE row == Row(u, checks, Nothing)
  <1>1. /\ row \in Rows /\ row # Nothing /\ row.status \in Decidable
        /\ row.previous = Nothing /\ row.status # "superseded"
    BY RowIsNew
  <1>2. ~Exists(s) /\ submission' = [submission EXCEPT ![s] = row]
        /\ UNCHANGED <<assignment, rounds, reports, provenance, claims, answers>>
    BY DEF Submit
  <1>. HIDE DEF row
  <1>3. /\ submission' \in [Submissions -> Rows \union {Nothing}] /\ submission'[s] = row
        /\ \A t \in Submissions : t # s => submission'[t] = submission[t]
    BY <1>1, <1>2 DEF TypeOK
  <1>4. TypeOK'
    BY <1>2, <1>3 DEF TypeOK, Submit
  <1>5. ASSUME NEW t \in Submissions
        PROVE  SubmissionInv(t)' /\ DecisionsOf(t)' = DecisionsOf(t)
    <2>1. CASE t = s
      BY <1>1, <1>2, <1>3, <2>1, NewSubmission
    <2>2. CASE t # s
      BY <1>2, <1>3, <2>2, Framed DEF Wrote, ChairStays
    <2>. QED BY <2>1, <2>2
  <1>6. \A t \in Submissions : Exists(t)' <=> Exists(t) \/ t = s
    BY <1>1, <1>3 DEF Exists
  <1>7. \A t \in Submissions : Exists(t)' /\ submission'[t].previous # Nothing =>
            /\ t # s /\ Exists(t) /\ submission'[t].previous = submission[t].previous
            /\ Exists(submission[t].previous)
    BY <1>1, <1>3, <1>6 DEF PredecessorsExist
  <1>8. PredecessorsExist'
    <2>1. \A t \in Submissions : Exists(t) /\ submission[t].previous # Nothing =>
             submission[t].previous \in Submissions
      BY DEF TypeOK, Rows, Exists
    <2>. QED BY <1>3, <1>6, <1>7, <2>1 DEF PredecessorsExist, Exists
  <1>9. RevisionsAreLinear'
    <2>. SUFFICES ASSUME NEW p \in Submissions, Exists(p)'
                  PROVE  LET next == {t \in Submissions : Exists(t)' /\ submission'[t].previous = p}
                         IN  /\ submission'[p].status = "superseded" <=> next # {}
                             /\ \A t, v \in next : t = v
                             /\ \A t \in next : submission'[t].submitter = submission'[p].submitter
                             /\ next # {} => \A d \in DecisionsOf(p)' : d.outcome = "request-changes"
      BY DEF RevisionsAreLinear, Exists
    <2>0. p # Nothing
      BY ReviewConstants
    <2>1. \A t \in Submissions : Exists(t)' /\ submission'[t].previous = p <=>
                                 Exists(t) /\ submission[t].previous = p
      BY <1>1, <1>2, <1>3, <1>6, <1>7, <2>0
    <2>2. CASE p = s
      <3>1. \A t \in Submissions : ~(Exists(t) /\ submission[t].previous = p)
        BY <1>2, <2>0, <2>2 DEF PredecessorsExist
      <3>. QED BY <1>1, <1>3, <2>1, <2>2, <3>1
    <2>3. CASE p # s
      <3>1. Exists(p) /\ submission'[p] = submission[p] /\ DecisionsOf(p)' = DecisionsOf(p)
        BY <1>3, <1>5, <1>6, <2>3
      <3>2. \A t \in Submissions : Exists(t) /\ submission[t].previous = p =>
                                   submission'[t] = submission[t]
        BY <1>2, <1>3
      <3>. QED BY <2>1, <3>1, <3>2 DEF RevisionsAreLinear
    <2>. QED BY <2>2, <2>3
  <1>. QED BY <1>2, <1>4, <1>5, <1>8, <1>9, UndecidingStep

\* The predecessor of a revision: decided, and now superseded.
LEMMA SupersededPredecessor ==
    ASSUME ReviewInv, NEW p \in Submissions, Exists(p),
           submission[p].status = "changes-requested",
           submission'[p] = [submission[p] EXCEPT !.status = "superseded"],
           assignment'[p] = assignment[p], UNCHANGED <<rounds, provenance, claims, reports>>
    PROVE  /\ SubmissionInv(p)' /\ DecisionsOf(p)' = DecisionsOf(p)
           /\ \A d \in DecisionsOf(p) : d.outcome = "request-changes"
  <1>. USE DEF ReviewInv
  <1>1. submission[p] \in Rows
    BY DEF TypeOK, Exists
  <1>2. /\ submission'[p] \in Rows /\ submission'[p].status = "superseded"
        /\ submission'[p].submitter = submission[p].submitter
        /\ submission'[p].reviewer = submission[p].reviewer
    BY <1>1 DEF Rows
  <1>3. Exists(p)' /\ ~Undecided(p) /\ ~Undecided(p)'
    BY <1>2, ReviewConstants DEF Exists, Undecided, Decidable
  <1>4. /\ LettersOf(p)' = LettersOf(p) /\ DecisionsOf(p)' = DecisionsOf(p)
        /\ \A n : Open(p, n)' <=> Open(p, n)
    BY DEF LettersOf, DecisionsOf, Open
  <1>5. \A n \in DOMAIN rounds[p] : ~Open(p, n)
    BY DEF SubmissionInv
  <1>6. PICK d \in Bodies : Explains(p, d)
    BY <1>3 DEF SubmissionInv
  <1>7. Party(d.by, p)' <=> Party(d.by, p)
    BY <1>2 DEF Party, Wrote
  <1>8. Explains(p, d)'
    BY <1>2, <1>4, <1>6, <1>7 DEF Explains
  <1>9. \A b \in LettersOf(p) : ChairStays(p, b)'
    BY DEF SubmissionInv, ChairStays
  <1>10. SubmissionInv(p)'
    BY <1>3, <1>4, <1>5, <1>8, <1>9 DEF SubmissionInv
  <1>11. d.outcome = "request-changes"
    BY <1>6 DEF Explains, StatusOf, Bodies, Outcomes
  <1>. QED BY <1>4, <1>6, <1>10, <1>11 DEF Explains

LEMMA ResubmitStep ==
    ASSUME ReviewInv, NEW s \in Submissions, NEW u \in Users,
           NEW checks \in {"pass", "overridable", "hard"}, NEW p \in Submissions,
           Resubmit(s, u, checks, p)
    PROVE  ReviewInv'
  <1>. USE DEF ReviewInv
  <1>. DEFINE row == Row(u, checks, p)
              old == [submission[p] EXCEPT !.status = "superseded"]
              team == [e \in Users |-> IF assignment[p][e] = "active" THEN "active" ELSE "none"]
  <1>1. /\ row \in Rows /\ row # Nothing /\ row.status \in Decidable
        /\ row.previous = p /\ row.status # "superseded" /\ row.submitter = u
    BY RowIsNew
  <1>2. /\ ~Exists(s) /\ Exists(p) /\ p # s /\ submission[p] \in Rows
        /\ submission[p].submitter = u /\ submission[p].status = "changes-requested"
        /\ UNCHANGED <<rounds, reports, provenance, claims, answers>>
    BY DEF Resubmit, TypeOK, Exists
  <1>3. /\ old \in Rows /\ old # Nothing /\ old.status = "superseded"
        /\ old.submitter = u /\ old.previous = submission[p].previous
    <2>1. old \in Rows
      BY <1>2 DEF Rows
    <2>. QED BY <1>2, <2>1, ReviewConstants DEF Rows
  <1>4. /\ submission' = [submission EXCEPT ![s] = row, ![p].status = "superseded"]
        /\ assignment' = [assignment EXCEPT ![s] = team]
    BY DEF Resubmit
  <1>. HIDE DEF row
  <1>5. /\ submission'[s] = row /\ submission'[p] = old
        /\ \A t \in Submissions : t # s /\ t # p => submission'[t] = submission[t]
        /\ DOMAIN submission' = Submissions
    BY <1>2, <1>4 DEF TypeOK
  <1>. HIDE DEF old
  <1>6. submission' \in [Submissions -> Rows \union {Nothing}]
    <2>1. submission' = [t \in Submissions |-> submission'[t]]
      BY <1>4, <1>5 DEF TypeOK
    <2>2. \A t \in Submissions : submission'[t] \in Rows \union {Nothing}
      BY <1>1, <1>3, <1>5 DEF TypeOK
    <2>. QED BY <2>1, <2>2
  <1>7. team \in [Users -> {"none", "active", "recused", "completed"}]
    OBVIOUS
  <1>. HIDE DEF team
  <1>8. /\ assignment' \in [Submissions -> [Users -> {"none", "active", "recused", "completed"}]]
        /\ \A t \in Submissions : t # s => assignment'[t] = assignment[t]
    BY <1>4, <1>7 DEF TypeOK
  <1>9. TypeOK'
    BY <1>2, <1>6, <1>8 DEF TypeOK, Resubmit
  <1>10. submission'[p] = [submission[p] EXCEPT !.status = "superseded"]
    BY <1>5 DEF old
  <1>11. \A d \in DecisionsOf(p) : d.outcome = "request-changes"
    BY <1>2, <1>8, <1>10, SupersededPredecessor
  <1>12. ASSUME NEW t \in Submissions
         PROVE  SubmissionInv(t)' /\ DecisionsOf(t)' = DecisionsOf(t)
    <2>1. CASE t = s
      BY <1>1, <1>2, <1>5, <2>1, NewSubmission
    <2>2. CASE t = p
      BY <1>2, <1>8, <1>10, <2>2, SupersededPredecessor
    <2>3. CASE t # s /\ t # p
      BY <1>2, <1>5, <1>8, <2>3, Framed DEF Wrote, ChairStays
    <2>. QED BY <2>1, <2>2, <2>3
  <1>13. \A t \in Submissions : Exists(t)' <=> Exists(t) \/ t = s
    BY <1>1, <1>2, <1>3, <1>5 DEF Exists
  <1>14. \A t \in Submissions : t # s /\ Exists(t) =>
            /\ submission'[t].previous = submission[t].previous
            /\ submission'[t].submitter = submission[t].submitter
            /\ t # p => submission'[t] = submission[t]
    BY <1>2, <1>3, <1>5
  <1>15. \A t \in Submissions : Exists(t) /\ submission[t].previous # Nothing =>
             /\ submission[t].previous \in Submissions
             /\ Exists(submission[t].previous) /\ submission[t].previous # s
    BY <1>2 DEF TypeOK, Rows, Exists, PredecessorsExist
  <1>16. PredecessorsExist'
    <2>. SUFFICES ASSUME NEW t \in Submissions, Exists(t)', submission'[t].previous # Nothing
                  PROVE  submission'[t].previous \in Submissions
                         /\ (Exists(submission'[t].previous) \/ submission'[t].previous = s)
      BY <1>13 DEF PredecessorsExist, Exists
    <2>1. CASE t = s
      BY <1>1, <1>2, <1>5, <2>1
    <2>2. CASE t # s
      BY <1>13, <1>14, <1>15, <2>2
    <2>. QED BY <2>1, <2>2
  <1>17. RevisionsAreLinear'
    <2>. SUFFICES ASSUME NEW q \in Submissions, Exists(q)'
                  PROVE  LET next == {t \in Submissions : Exists(t)' /\ submission'[t].previous = q}
                         IN  /\ submission'[q].status = "superseded" <=> next # {}
                             /\ \A t, v \in next : t = v
                             /\ \A t \in next : submission'[t].submitter = submission'[q].submitter
                             /\ next # {} => \A d \in DecisionsOf(q)' : d.outcome = "request-changes"
      BY DEF RevisionsAreLinear, Exists
    <2>0. q # Nothing
      BY ReviewConstants
    <2>1. \A t \in Submissions : Exists(t)' /\ submission'[t].previous = q <=>
                                 \/ Exists(t) /\ submission[t].previous = q
                                 \/ t = s /\ q = p
      BY <1>1, <1>2, <1>5, <1>13, <1>14
    <2>2. CASE q = s
      <3>1. \A t \in Submissions : ~(Exists(t) /\ submission[t].previous = q)
        BY <1>15, <2>0, <2>2
      <3>. QED BY <1>1, <1>2, <1>5, <2>1, <2>2, <3>1
    <2>3. CASE q = p
      <3>1. \A t \in Submissions : ~(Exists(t) /\ submission[t].previous = p)
        BY <1>2 DEF RevisionsAreLinear
      <3>. QED BY <1>1, <1>3, <1>5, <1>11, <1>12, <2>1, <2>3, <3>1
    <2>4. CASE q # s /\ q # p
      <3>1. Exists(q) /\ submission'[q] = submission[q] /\ DecisionsOf(q)' = DecisionsOf(q)
        BY <1>12, <1>13, <1>14, <2>4
      <3>2. \A t \in Submissions : Exists(t) /\ submission[t].previous = q =>
                t # s /\ submission'[t].submitter = submission[t].submitter
        BY <1>2, <1>14
      <3>. QED BY <2>1, <2>4, <3>1, <3>2 DEF RevisionsAreLinear
    <2>. QED BY <2>2, <2>3, <2>4
  <1>. QED BY <1>2, <1>9, <1>12, <1>16, <1>17, UndecidingStep

LEMMA AssignStep ==
    ASSUME ReviewInv, NEW s \in Submissions, NEW e \in Users,
           \/ \E declared \in BOOLEAN : Assign(s, e, declared)
           \/ Recuse(s, e)
    PROVE  ReviewInv'
  <1>. USE DEF ReviewInv
  <1>1. PICK status \in {"active", "recused"} :
            /\ assignment' = [assignment EXCEPT ![s][e] = status]
            /\ assignment[s][e] = "none" \/ (assignment[s][e] = "active" /\ status = "recused")
    BY DEF Assign, Recuse
  <1>2. UNCHANGED <<role, submission, rounds, reports, provenance, claims, answers>>
    BY DEF Assign, Recuse
  <1>3. /\ assignment' \in [Submissions -> [Users -> {"none", "active", "recused", "completed"}]]
        /\ \A t \in Submissions, u \in Users : t # s \/ u # e => assignment'[t][u] = assignment[t][u]
        /\ assignment'[s][e] = status
    BY <1>1 DEF TypeOK
  <1>4. TypeOK'
    BY <1>2, <1>3 DEF TypeOK
  <1>5. ASSUME NEW t \in Submissions, NEW d \in LettersOf(t), ChairStays(t, d)
        PROVE  ChairStays(t, d)'
    <2>1. d.by \in Users
      BY LettersShape DEF Bodies
    <2>2. CASE t = s /\ d.by = e
      BY <1>1, <1>3, <1>5, <2>2 DEF ChairStays
    <2>3. CASE ~(t = s /\ d.by = e)
      BY <1>3, <1>5, <2>1, <2>3 DEF ChairStays
    <2>. QED BY <2>2, <2>3
  <1>6. \A t \in Submissions : SubmissionInv(t)' /\ DecisionsOf(t)' = DecisionsOf(t)
    BY <1>2, <1>5, Framed DEF Wrote
  <1>7. RevisionsAreLinear' /\ PredecessorsExist'
    BY <1>2, <1>6, RevisionsStay
  <1>. QED BY <1>2, <1>4, <1>6, <1>7, UndecidingStep

\* A round is opened on a pending submission, whose rounds would all be open: it
\* has none.
LEMMA OpenRoundStep ==
    ASSUME ReviewInv, NEW s \in Submissions, NEW e \in Users, OpenRound(s, e)
    PROVE  ReviewInv'
  <1>. USE DEF ReviewInv
  <1>. DEFINE round == [status |-> "open", letter |-> Nothing]
  <1>1. round \in RoundRows /\ round.status = "open" /\ round.letter = Nothing
    BY DEF RoundRows
  <1>. HIDE DEF round
  <1>2. Undecided(s) /\ submission[s].status = "pending-editorial-review" /\ Exists(s)
    BY DEF OpenRound, Undecided, Decidable
  <1>3. DOMAIN rounds[s] = {} /\ Len(rounds[s]) = 0
    <2>1. \A n \in DOMAIN rounds[s] : FALSE
      BY <1>2 DEF OpenRound, HasOpenRound, SubmissionInv
    <2>. QED BY <2>1, RoundTypes
  <1>4. /\ rounds' = [rounds EXCEPT ![s] = Append(@, round)]
        /\ UNCHANGED <<role, submission, assignment, reports, provenance, claims, answers>>
    BY DEF OpenRound, round
  <1>5. /\ Append(rounds[s], round) \in Seq(RoundRows)
        /\ Len(Append(rounds[s], round)) = 1
        /\ Append(rounds[s], round)[1] = round
    BY <1>1, <1>3, RoundTypes, AppendProperties
  <1>6. /\ rounds' \in [Submissions -> Seq(RoundRows)]
        /\ rounds'[s] \in Seq(RoundRows) /\ Len(rounds'[s]) = 1 /\ rounds'[s][1] = round
        /\ \A t \in Submissions : t # s => rounds'[t] = rounds[t]
    BY <1>4, <1>5 DEF TypeOK
  <1>7. DOMAIN rounds'[s] = {1}
    BY <1>6, LenProperties
  <1>8. \A t \in Submissions : DOMAIN rounds[t] \subseteq DOMAIN rounds'[t]
    BY <1>3, <1>6
  <1>9. TypeOK'
    <2>1. \A r \in reports : r[1] \in Submissions /\ r[2] \in DOMAIN rounds'[r[1]]
      BY <1>8 DEF TypeOK
    <2>. QED BY <1>4, <1>6, <2>1 DEF TypeOK
  <1>10. ASSUME NEW t \in Submissions
         PROVE  SubmissionInv(t)' /\ DecisionsOf(t)' = DecisionsOf(t)
    <2>1. CASE t = s
      <3>1. \A n \in DOMAIN rounds'[s] : Open(s, n)' /\ rounds'[s][n].letter = Nothing
        BY <1>1, <1>6, <1>7 DEF Open
      <3>2. LettersOf(s)' = {} /\ LettersOf(s) = {}
        BY <1>3, <3>1 DEF LettersOf
      <3>3. Exists(s)' /\ Undecided(s)'
        BY <1>2, <1>4 DEF Exists, Undecided
      <3>4. DecisionsOf(s)' = DecisionsOf(s)
        BY <1>4, <3>2 DEF DecisionsOf
      <3>5. provenance'[s] = Nothing /\ submission'[s].status = "pending-editorial-review"
        BY <1>2, <1>4 DEF SubmissionInv
      <3>6. Len(rounds'[s]) <= 1
        BY <1>6
      <3>7. SubmissionInv(s)'
        BY <3>1, <3>2, <3>3, <3>5, <3>6 DEF SubmissionInv
      <3>. QED BY <2>1, <3>4, <3>7
    <2>2. CASE t # s
      BY <1>4, <1>6, <2>2, Framed DEF Wrote, ChairStays
    <2>. QED BY <2>1, <2>2
  <1>11. \A t \in Submissions : \A n \in DOMAIN rounds[t] :
             n \in DOMAIN rounds'[t] /\ rounds'[t][n] = rounds[t][n]
    BY <1>3, <1>6
  <1>12. RevisionsAreLinear' /\ PredecessorsExist'
    BY <1>4, <1>10, RevisionsStay
  <1>. QED BY <1>4, <1>9, <1>10, <1>11, <1>12, UndecidingStep

\* Reports are written in open rounds, on which no decision rests yet.
LEMMA SubmitReportStep ==
    ASSUME ReviewInv, NEW s \in Submissions, NEW n \in DOMAIN rounds[s], NEW u \in Users,
           SubmitReport(s, n, u)
    PROVE  ReviewInv'
  <1>. USE DEF ReviewInv
  <1>1. /\ Open(s, n) /\ reports' = reports \union {<<s, n, u>>}
        /\ UNCHANGED <<role, submission, assignment, rounds, provenance, claims, answers>>
    BY DEF SubmitReport
  <1>2. TypeOK'
    <2>1. <<s, n, u>> \in Submissions \X Nat \X Users
      BY RoundTypes
    <2>. QED BY <1>1, <2>1 DEF TypeOK
  <1>3. ASSUME NEW t \in Submissions
        PROVE  SubmissionInv(t)' /\ DecisionsOf(t)' = DecisionsOf(t)
    <2>1. \A v \in Users, m \in DOMAIN rounds[t] : Open(t, m) \/ (Wrote(v, t, m)' <=> Wrote(v, t, m))
      BY <1>1 DEF Wrote
    <2>. QED BY <1>1, <2>1, Framed DEF ChairStays
  <1>4. RevisionsAreLinear' /\ PredecessorsExist'
    BY <1>1, <1>3, RevisionsStay
  <1>. QED BY <1>1, <1>2, <1>3, <1>4, UndecidingStep

-----------------------------------------------------------------------------
(* Decisions. *)

LEMMA ClaimsOfDecided ==
    ASSUME ReviewInv, NEW s \in Submissions, DecisionsOf(s) = {}, NEW c \in claims
    PROVE  /\ \A d : c.key # OutcomeClaim(s, d).key
           /\ \A n, d : c.key # RoundClaim(s, n, d).key
  <1>0. PICK t \in Submissions : \E e \in DecisionsOf(t) :
            c = OutcomeClaim(t, e) \/ IsRoundClaim(c, t, e)
    BY DEF ReviewInv, ClaimsAreDecisions
  <1>1. PICK e \in DecisionsOf(t) : c = OutcomeClaim(t, e) \/ IsRoundClaim(c, t, e)
    BY <1>0
  <1>2. t # s
    BY <1>1
  <1>. QED BY <1>1, <1>2 DEF OutcomeClaim, IsRoundClaim, RoundClaim

\* What the two paths of a decision share.
LEMMA DecisionStep ==
    ASSUME ReviewInv, NEW s \in Submissions, NEW d \in Bodies, Undecided(s), CanDecide(s, d),
           Move(s, d), Acknowledge(s, d),
           TypeOK', SubmissionInv(s)', DecisionsOf(s)' = {d},
           \A t \in Submissions : t # s => SubmissionInv(t)' /\ DecisionsOf(t)' = DecisionsOf(t),
           \A t \in Submissions : \A n \in DOMAIN rounds[t] : ~Open(t, n) =>
               n \in DOMAIN rounds'[t] /\ rounds'[t][n] = rounds[t][n],
           \A c \in claims' \ claims : c = OutcomeClaim(s, d) \/ IsRoundClaim(c, s, d)'
    PROVE  ReviewInv'
  <1>. USE DEF ReviewInv
  <1>1. DecisionsOf(s) = {}
    BY LettersShape
  <1>2. Settled
    BY <1>1 DEF Settled
  <1>3. \A c \in claims' \ claims : \E t \in Submissions : \E e \in DecisionsOf(t)' :
            c = OutcomeClaim(t, e) \/ IsRoundClaim(c, t, e)'
    OBVIOUS
  <1>4. answers' = answers \union {<<s, d>>}
    BY DEF Acknowledge
  <1>5. ClaimsAreDecisions' /\ AcknowledgedDecisionStands'
    BY <1>2, <1>3, <1>4, LedgerStep DEF TypeOK
  <1>6. /\ Exists(s) /\ submission[s] \in Rows /\ submission[s].status # "superseded"
    BY DEF Undecided, Exists, TypeOK, Decidable
  <1>. DEFINE row == [submission[s] EXCEPT !.status = StatusOf(d.outcome), !.reviewer = d.by]
  <1>7. /\ row.status # "superseded" /\ row.submitter = submission[s].submitter
        /\ row.previous = submission[s].previous
        /\ row \in Rows
    <2>1. d.outcome \in Outcomes /\ d.by \in Users
      BY DEF Bodies
    <2>2. StatusOf(d.outcome) \in {"accepted", "rejected", "changes-requested"}
      BY <2>1 DEF StatusOf, Outcomes
    <2>. QED BY <1>6, <2>1, <2>2 DEF Rows
  <1>8. submission' = [submission EXCEPT ![s] = row]
    BY <1>6 DEF Move, TypeOK
  <1>. HIDE DEF row
  <1>9. submission'[s] = row /\ \A t \in Submissions : t # s => submission'[t] = submission[t]
    BY <1>8 DEF TypeOK
  <1>10. \A t \in Submissions : Exists(t)' <=> Exists(t)
    BY <1>6, <1>7, <1>9, ReviewConstants DEF Exists
  <1>11. \A t \in Submissions : /\ submission'[t].previous = submission[t].previous
                                /\ submission'[t].submitter = submission[t].submitter
    BY <1>7, <1>9
  <1>12. PredecessorsExist'
    <2>1. \A t \in Submissions : Exists(t) /\ submission[t].previous # Nothing =>
             submission[t].previous \in Submissions
      BY DEF TypeOK, Rows, Exists
    <2>. QED BY <1>10, <1>11, <2>1 DEF PredecessorsExist, Exists
  <1>13. RevisionsAreLinear'
    <2>. SUFFICES ASSUME NEW q \in Submissions, Exists(q)'
                  PROVE  LET next == {t \in Submissions : Exists(t)' /\ submission'[t].previous = q}
                         IN  /\ submission'[q].status = "superseded" <=> next # {}
                             /\ \A t, v \in next : t = v
                             /\ \A t \in next : submission'[t].submitter = submission'[q].submitter
                             /\ next # {} => \A e \in DecisionsOf(q)' : e.outcome = "request-changes"
      BY DEF RevisionsAreLinear, Exists
    <2>1. \A t \in Submissions : Exists(t)' /\ submission'[t].previous = q <=>
                                 Exists(t) /\ submission[t].previous = q
      BY <1>10, <1>11
    <2>2. CASE q = s
      <3>1. \A t \in Submissions : ~(Exists(t) /\ submission[t].previous = q)
        BY <1>6, <2>2 DEF RevisionsAreLinear
      <3>. QED BY <1>7, <1>9, <2>1, <2>2, <3>1
    <2>3. CASE q # s
      <3>1. Exists(q) /\ submission'[q] = submission[q] /\ DecisionsOf(q)' = DecisionsOf(q)
        BY <1>9, <1>10, <2>3
      <3>. QED BY <1>11, <2>1, <3>1 DEF RevisionsAreLinear
    <2>. QED BY <2>2, <2>3
  <1>. QED BY <1>5, <1>12, <1>13

\* The row a decision leaves.
LEMMA MovedRow ==
    ASSUME TypeOK, NEW s \in Submissions, NEW d \in Bodies, Undecided(s), Move(s, d)
    PROVE  /\ submission' \in [Submissions -> Rows \union {Nothing}]
           /\ \A t \in Submissions : t # s => submission'[t] = submission[t]
           /\ Exists(s)' /\ ~Undecided(s)'
           /\ submission'[s].status = StatusOf(d.outcome)
           /\ submission'[s].reviewer = d.by
           /\ submission'[s].submitter = submission[s].submitter
  <1>. DEFINE row == [submission[s] EXCEPT !.status = StatusOf(d.outcome), !.reviewer = d.by]
  <1>1. submission[s] \in Rows
    BY DEF TypeOK, Undecided, Exists
  <1>2. d.by \in Users /\ StatusOf(d.outcome) \in {"accepted", "rejected", "changes-requested"}
    BY DEF Bodies, StatusOf, Outcomes
  <1>3. /\ row \in Rows /\ row.status = StatusOf(d.outcome) /\ row.reviewer = d.by
        /\ row.submitter = submission[s].submitter
    BY <1>1, <1>2 DEF Rows
  <1>4. submission' = [submission EXCEPT ![s] = row]
    BY <1>1 DEF Move, TypeOK
  <1>. HIDE DEF row
  <1>5. submission'[s] = row
    BY <1>4 DEF TypeOK
  <1>6. Exists(s)' /\ ~Undecided(s)'
    BY <1>2, <1>3, <1>5, ReviewConstants DEF Exists, Undecided, Decidable
  <1>. QED BY <1>3, <1>4, <1>5, <1>6 DEF TypeOK


\* Outside of rounds: the submission has none, and gets its provenance.
LEMMA DecideDirectlyStep ==
    ASSUME ReviewInv, NEW s \in Submissions, NEW d \in Bodies, DecideDirectly(s, d)
    PROVE  ReviewInv'
  <1>. USE DEF ReviewInv
  <1>1. /\ Exists(s) /\ ~HasOpenRound(s) /\ CanDecide(s, d) /\ Move(s, d) /\ Acknowledge(s, d)
        /\ ConflictCleared(s, d)
        /\ claims' = claims \union {OutcomeClaim(s, d)}
        /\ provenance' = [provenance EXCEPT ![s] = d]
        /\ UNCHANGED <<role, assignment, rounds, reports>>
    BY DEF DecideDirectly, OutsideRounds
  <1>2. Undecided(s)
    BY <1>1 DEF CanDecide, Undecided
  <1>3. DOMAIN rounds[s] = {} /\ DecisionsOf(s) = {}
    BY <1>1, <1>2, LettersShape DEF HasOpenRound, SubmissionInv
  <1>4. /\ submission' \in [Submissions -> Rows \union {Nothing}]
        /\ \A t \in Submissions : t # s => submission'[t] = submission[t]
        /\ Exists(s)' /\ ~Undecided(s)'
        /\ submission'[s].status = StatusOf(d.outcome)
        /\ submission'[s].reviewer = d.by
        /\ submission'[s].submitter = submission[s].submitter
    BY <1>1, <1>2, MovedRow
  <1>5. /\ provenance' \in [Submissions -> Bodies \union {Nothing}]
        /\ provenance'[s] = d /\ \A t \in Submissions : t # s => provenance'[t] = provenance[t]
    BY <1>1 DEF TypeOK
  <1>6. TypeOK'
    <2>1. \A c, e \in claims' : c.key = e.key => c = e
      <3>1. \A c \in claims : c.key # OutcomeClaim(s, d).key
        BY <1>3, ClaimsOfDecided
      <3>2. \A c, e \in claims : c.key = e.key => c = e
        BY DEF TypeOK
      <3>. QED BY <1>1, <3>1, <3>2
    <2>2. answers' \subseteq Submissions \X Bodies
      BY <1>1 DEF TypeOK, Acknowledge
    <2>. QED BY <1>1, <1>4, <1>5, <2>1, <2>2 DEF TypeOK
  <1>7. d # Nothing
    BY ReviewConstants
  <1>8. LettersOf(s)' = {} /\ DecisionsOf(s)' = {d}
    BY <1>1, <1>3, <1>5, <1>7 DEF LettersOf, DecisionsOf
  <1>9. d.override <=> Party(d.by, s)'
    <2>1. d.override \in BOOLEAN
      BY DEF Bodies
    <2>2. d.override = (\/ d.by = submission[s].submitter
                        \/ \E n \in DOMAIN rounds[s] : Wrote(d.by, s, n))
      BY <1>1 DEF ConflictCleared, OverrideRule
    <2>3. Party(d.by, s)' <=> Party(d.by, s)
      BY <1>1, <1>4 DEF Party, Wrote
    <2>. QED BY <2>1, <2>2, <2>3 DEF Party
  <1>10. Explains(s, d)'
    BY <1>1, <1>4, <1>8, <1>9 DEF Explains, OutcomeClaim
  <1>11. SubmissionInv(s)'
    <2>1. Len(rounds'[s]) <= 1
      BY <1>1 DEF SubmissionInv
    <2>2. \A n \in DOMAIN rounds'[s] : FALSE
      BY <1>1, <1>3
    <2>. QED BY <1>4, <1>8, <1>10, <2>1, <2>2 DEF SubmissionInv
  <1>12. \A t \in Submissions : t # s => SubmissionInv(t)' /\ DecisionsOf(t)' = DecisionsOf(t)
    BY <1>1, <1>4, <1>5, Framed DEF Wrote, ChairStays
  <1>. QED BY <1>1, <1>2, <1>6, <1>8, <1>11, <1>12, DecisionStep

LEMMA Replaced ==
    ASSUME NEW S, NEW q \in Seq(S), NEW i \in 1 .. Len(q), NEW e \in S,
           NEW r, r = [q EXCEPT ![i] = e]
    PROVE  r \in Seq(S) /\ Len(r) = Len(q)
  <1>. QED BY ExceptSeq

\* By the letter of the round: the only one, which it closes.
LEMMA IssueDecisionStep ==
    ASSUME ReviewInv, NEW s \in Submissions, NEW d \in Bodies, NEW n \in DOMAIN rounds[s],
           IssueDecision(s, n, d)
    PROVE  ReviewInv'
  <1>. USE DEF ReviewInv
  <1>. DEFINE round == [status |-> "decided", letter |-> d]
  <1>1. /\ Open(s, n) /\ CanDecide(s, d) /\ Move(s, d) /\ Acknowledge(s, d)
        /\ RoundConflictCleared(s, n, d) /\ MayChair(s, d)
        /\ claims' = claims \union {OutcomeClaim(s, d), RoundClaim(s, n, d)}
        /\ rounds' = [rounds EXCEPT ![s][n] = round]
        /\ StandDown(s, d.outcome)
        /\ UNCHANGED <<role, reports, provenance>>
    BY DEF IssueDecision
  <1>2. round \in RoundRows /\ round.status # "open" /\ round.letter = d
    BY DEF RoundRows
  <1>. HIDE DEF round
  <1>3. Undecided(s) /\ DecisionsOf(s) = {} /\ n = 1 /\ provenance[s] = Nothing
    BY <1>1, OpenIsUndecided, LettersShape DEF SubmissionInv
  <1>4. /\ submission' \in [Submissions -> Rows \union {Nothing}]
        /\ \A t \in Submissions : t # s => submission'[t] = submission[t]
        /\ Exists(s)' /\ ~Undecided(s)'
        /\ submission'[s].status = StatusOf(d.outcome)
        /\ submission'[s].reviewer = d.by
        /\ submission'[s].submitter = submission[s].submitter
    BY <1>1, <1>3, MovedRow
  <1>5. rounds[s] \in Seq(RoundRows) /\ Len(rounds[s]) = 1 /\ DOMAIN rounds[s] = {1}
    <2>1. /\ rounds[s] \in Seq(RoundRows) /\ Len(rounds[s]) \in Nat /\ Len(rounds[s]) <= 1
          /\ DOMAIN rounds[s] = 1 .. Len(rounds[s])
      BY RoundTypes DEF SubmissionInv
    <2>2. \A k \in Nat : 1 \in 1 .. k /\ k <= 1 => k = 1
      OBVIOUS
    <2>3. 1 \in DOMAIN rounds[s]
      BY <1>3
    <2>4. Len(rounds[s]) = 1
      BY <2>1, <2>2, <2>3, Zenon
    <2>. QED BY <2>1, <2>4
  <1>6. rounds'[s] \in Seq(RoundRows) /\ Len(rounds'[s]) = 1
    <2>1. rounds'[s] = [rounds[s] EXCEPT ![n] = round]
      BY <1>1 DEF TypeOK
    <2>2. n \in 1 .. Len(rounds[s])
      BY <1>3, <1>5
    <2>3. \A r : r = [rounds[s] EXCEPT ![n] = round] => r \in Seq(RoundRows) /\ Len(r) = Len(rounds[s])
      BY <1>2, <1>5, <2>2, Replaced
    <2>. QED BY <1>5, <2>1, <2>3
  <1>7. /\ rounds' \in [Submissions -> Seq(RoundRows)]
        /\ Len(rounds'[s]) = 1 /\ DOMAIN rounds'[s] = {1} /\ rounds'[s][1] = round
        /\ \A t \in Submissions : t # s => rounds'[t] = rounds[t]
    <2>1. rounds'[s] = [rounds[s] EXCEPT ![n] = round]
      BY <1>1 DEF TypeOK
    <2>2. rounds'[s][1] = round
      BY <1>3, <1>5, <2>1
    <2>. QED BY <1>1, <1>5, <1>6, <2>1, <2>2 DEF TypeOK
  <1>8. /\ assignment' \in [Submissions -> [Users -> {"none", "active", "recused", "completed"}]]
        /\ \A t \in Submissions : t # s => assignment'[t] = assignment[t]
        /\ d.outcome = "request-changes" => assignment' = assignment
        /\ d.outcome # "request-changes" =>
              \A e \in Users : assignment'[s][e] =
                  IF assignment[s][e] = "active" THEN "completed" ELSE assignment[s][e]
    <2>1. CASE d.outcome = "request-changes"
      BY <1>1, <2>1 DEF StandDown, TypeOK
    <2>2. CASE d.outcome # "request-changes"
      BY <1>1, <2>2 DEF StandDown, TypeOK
    <2>. QED BY <2>1, <2>2
  <1>9. TypeOK'
    <2>1. \A c, e \in claims' : c.key = e.key => c = e
      <3>1. OutcomeClaim(s, d).key # RoundClaim(s, n, d).key
        BY DEF OutcomeClaim, RoundClaim
      <3>2. \A c \in claims : c.key # OutcomeClaim(s, d).key /\ c.key # RoundClaim(s, n, d).key
        BY <1>3, ClaimsOfDecided
      <3>3. \A c, e \in claims : c.key = e.key => c = e
        BY DEF TypeOK
      <3>. QED BY <1>1, <3>1, <3>2, <3>3
    <2>2. answers' \subseteq Submissions \X Bodies
      BY <1>1 DEF TypeOK, Acknowledge
    <2>3. \A r \in reports : r[1] \in Submissions /\ r[2] \in DOMAIN rounds'[r[1]]
      BY <1>5, <1>7 DEF TypeOK
    <2>. QED BY <1>1, <1>4, <1>7, <1>8, <2>1, <2>2, <2>3 DEF TypeOK
  <1>10. \A m \in DOMAIN rounds'[s] : m = 1 /\ ~Open(s, m)' /\ rounds'[s][m].letter = d
    BY <1>2, <1>7 DEF Open
  <1>11. LettersOf(s)' = {d} /\ DecisionsOf(s)' = {d}
    BY <1>1, <1>3, <1>7, <1>10 DEF LettersOf, DecisionsOf
  <1>12. d.override <=> Party(d.by, s)'
    <2>1. d.override \in BOOLEAN
      BY DEF Bodies
    <2>2. d.override = (d.by = submission[s].submitter \/ Wrote(d.by, s, n))
      BY <1>1 DEF RoundConflictCleared, OverrideRule
    <2>3. Party(d.by, s)' <=> (d.by = submission[s].submitter \/ Wrote(d.by, s, n))
      BY <1>1, <1>3, <1>4, <1>7 DEF Party, Wrote
    <2>. QED BY <2>1, <2>2, <2>3
  <1>13. Explains(s, d)'
    BY <1>1, <1>3, <1>4, <1>11, <1>12 DEF Explains, OutcomeClaim
  <1>14. ChairStays(s, d)'
    <2>1. d.by \in Users
      BY DEF Bodies
    <2>. QED BY <1>1, <1>8, <2>1 DEF ChairStays, MayChair
  <1>15. SubmissionInv(s)'
    <2>1. \A m \in DOMAIN rounds'[s] : rounds'[s][m].letter # Nothing
      BY <1>10, ReviewConstants
    <2>2. Len(rounds'[s]) <= 1
      BY <1>7
    <2>. QED BY <1>4, <1>10, <1>11, <1>13, <1>14, <2>1, <2>2 DEF SubmissionInv
  <1>16. \A t \in Submissions : t # s => SubmissionInv(t)' /\ DecisionsOf(t)' = DecisionsOf(t)
    BY <1>1, <1>4, <1>7, <1>8, Framed DEF Wrote, ChairStays
  <1>17. \A t \in Submissions : \A m \in DOMAIN rounds[t] : ~Open(t, m) =>
             m \in DOMAIN rounds'[t] /\ rounds'[t][m] = rounds[t][m]
    BY <1>1, <1>3, <1>5, <1>7
  <1>18. \A c \in claims' \ claims : c = OutcomeClaim(s, d) \/ IsRoundClaim(c, s, d)'
    <2>1. IsRoundClaim(RoundClaim(s, n, d), s, d)'
      BY <1>3, <1>7, <1>10 DEF IsRoundClaim, RoundClaim
    <2>. QED BY <1>1, <2>1
  <1>. QED BY <1>1, <1>3, <1>9, <1>11, <1>15, <1>16, <1>17, <1>18, DecisionStep


-----------------------------------------------------------------------------
(* Every step. *)

LEMMA ReviewStep == ReviewInv /\ [Next]_vars => ReviewInv'
  <1>. SUFFICES ASSUME ReviewInv, [Next]_vars
                PROVE  ReviewInv'
    OBVIOUS
  <1>1. ASSUME NEW u \in Users, Demote(u)
        PROVE  ReviewInv'
    BY <1>1, DemoteStep
  <1>2. ASSUME NEW s \in Submissions, Intake(s)
        PROVE  ReviewInv'
    BY <1>2, SubmitStep, ResubmitStep DEF Intake
  <1>3. ASSUME NEW s \in Submissions, Team(s)
        PROVE  ReviewInv'
    BY <1>3, AssignStep, OpenRoundStep DEF Team
  <1>4. ASSUME NEW s \in Submissions, Decisions(s)
        PROVE  ReviewInv'
    BY <1>4, DecideDirectlyStep, ReplayDirectlyStep, IssueDecisionStep, ReplayDecisionStep
       DEF Decisions
  <1>5. ASSUME NEW s \in Submissions, NEW u \in Users, NEW n \in DOMAIN rounds[s],
               SubmitReport(s, n, u)
        PROVE  ReviewInv'
    BY <1>5, SubmitReportStep
  <1>6. CASE UNCHANGED vars
    <2>1. /\ UNCHANGED <<submission, assignment, rounds, reports, provenance, claims>>
          /\ UNCHANGED <<role, answers>>
      BY <1>6 DEF vars
    <2>2. TypeOK'
      BY <2>1 DEF ReviewInv, TypeOK
    <2>. QED BY <2>1, <2>2, TellingStep
  <1>. QED BY <1>1, <1>2, <1>3, <1>4, <1>5, <1>6 DEF Next

LEMMA ReviewStarts == Init => ReviewInv
  <1>. SUFFICES ASSUME Init
                PROVE  ReviewInv
    OBVIOUS
  <1>. USE DEF Init
  <1>1. \A s \in Submissions : ~Exists(s) /\ rounds[s] = <<>> /\ provenance[s] = Nothing
    BY DEF Exists
  <1>2. <<>> \in Seq(RoundRows) /\ Len(<<>>) = 0 /\ 1 .. 0 = {}
    BY EmptySeq
  <1>3. TypeOK
    BY <1>2, ReviewConstants DEF TypeOK
  <1>4. \A s \in Submissions : DOMAIN rounds[s] = {} /\ Len(rounds[s]) <= 1
    BY <1>1, <1>2
  <1>5. \A s \in Submissions : SubmissionInv(s)
    BY <1>1, <1>4 DEF SubmissionInv, LettersOf, Undecided
  <1>6. ClaimsAreDecisions /\ AcknowledgedDecisionStands
    BY DEF ClaimsAreDecisions, AcknowledgedDecisionStands
  <1>7. RevisionsAreLinear /\ PredecessorsExist
    BY <1>1 DEF RevisionsAreLinear, PredecessorsExist
  <1>. QED BY <1>3, <1>5, <1>6, <1>7 DEF ReviewInv

LEMMA ReviewInvariance == Spec => []ReviewInv
  <1>. QED BY ReviewStarts, ReviewStep, PTL DEF Spec

-----------------------------------------------------------------------------
(* The theorems. *)

\* Rounds are opened on pending submissions and closed by a letter, whose chair was
\* assigned to the submission and did not sign a final one while recused without
\* the override: openReviewRound and issueDecision against all that editors do.
THEOREM Rounds == Spec => []RoundsAreSound
  <1>. QED BY ReviewInvariance, ReviewInvSuffices, PTL

\* A submission is decided at most once, by a letter or by the direct endpoint, and
\* every client that was told of a decision was told of that one: the guards of
\* issueDecision and decideSubmission, and the replays through the keys they claim.
THEOREM Finality == Spec => []DecisionsAreFinal
  <1>. QED BY ReviewInvariance, ReviewInvSuffices, PTL

\* A decision carries the administrator override exactly if its author was, when it
\* was made and ever since, a party of the submission: decisionConflictProvenance
\* against reports and resubmissions made by the same people.
THEOREM Involvement == Spec => []InvolvementIsOverridden
  <1>. QED BY ReviewInvariance, ReviewInvSuffices, PTL

\* Revisions form lines: a submission is superseded by exactly one revision of its
\* own author, who had been asked for changes (createSubmission).
THEOREM Revisions == Spec => []RevisionsAreLinear
  <1>. QED BY ReviewInvariance, ReviewInvSuffices, PTL
=============================================================================
