----------------------------- MODULE Records_proofs -----------------------------
(***************************************************************************)
(* Proofs about what editors record: VerificationRegistry, GraphProposals  *)
(* and RelationTrust, for every set of editors, requests, credentials,     *)
(* keys, proposals and assessments.  The registry and the graph share no   *)
(* variable; each has an inductive invariant of its own.                   *)
(***************************************************************************)
EXTENDS VerificationRegistry, RelationTrust, TLAPS

-----------------------------------------------------------------------------
(***************************************************************************)
(* VerificationRegistry.  Between its read and its writes a handler holds  *)
(* one of these records; a revocation and a run are written once, so what  *)
(* a handler learned of them remains true.                                 *)
(***************************************************************************)
RegistryLocals ==
    [pc : {"setStatus"}, verifier : Verifiers, status : VerifierStatus]
    \union [pc : {"issue"}, verifier : Verifiers]
    \union [pc : {"revoke", "audit"}, editor : Editors, credential : Credentials]
    \union [pc : {"checkProtocol", "insertRun"}, key : Keys, subject : Subjects]

Revoked(c) == credential[c] # Nothing /\ credential[c].revokedBy # Nothing

\* A revocation is audited only after the row has it.
RevokersAreCurrent ==
    \A r \in Requests :
        /\ req[r].pc = "revoke" => credential[req[r].credential] # Nothing
        /\ req[r].pc = "audit" => Revoked(req[r].credential)

RegistryInv ==
    /\ RecordsAreAccounted
    /\ req \in [Requests -> RegistryLocals \union {Idle}]
    /\ RevokersAreCurrent

LEMMA RegistryShapes ==
    ASSUME NEW r \in RegistryLocals \union {Idle}
    PROVE  /\ r.pc = "setStatus" =>
                 r \in [pc : {"setStatus"}, verifier : Verifiers, status : VerifierStatus]
           /\ r.pc = "issue" => r \in [pc : {"issue"}, verifier : Verifiers]
           /\ r.pc \in {"revoke", "audit"} =>
                 r \in [pc : {"revoke", "audit"}, editor : Editors, credential : Credentials]
           /\ r.pc \in {"checkProtocol", "insertRun"} =>
                 r \in [pc : {"checkProtocol", "insertRun"}, key : Keys, subject : Subjects]
           /\ r # Idle <=> r.pc # "idle"
  BY DEF RegistryLocals, Idle

\* A revocation, once recorded, is never changed: the row guard refuses a second
\* one, and a new credential is never issued under a used id.
LEMMA RevocationStands ==
    ASSUME RegistryInv, [Next]_vars, NEW c \in Credentials, Revoked(c)
    PROVE  credential'[c] = credential[c]
  <1>. USE DEF Revoked
  <1>1. ASSUME NEW r \in Requests, NEW d \in Credentials, Issue(r, d)
        PROVE  credential'[c] = credential[c]
    BY <1>1 DEF Issue, RegistryInv, RecordsAreAccounted, TypeOK
  <1>2. ASSUME NEW r \in Requests, Revoke(r)
        PROVE  credential'[c] = credential[c]
    BY <1>2 DEF Revoke, CredentialGuard, RegistryInv, RecordsAreAccounted, TypeOK
  <1>. QED BY <1>1, <1>2 DEF Next, vars, RetireProtocol, ReadVerifier, SetStatus, BeginIssue,
              BeginRevoke, AuditRevocation, FindRun, Replay, CheckProtocol, InsertRun, Abandon

\* A step that leaves credentials, runs and the histories alone, and moves one
\* request to a state that suits what is in the table.
LEMMA RegistryLocalStep ==
    ASSUME RegistryInv, NEW r \in Requests, NEW local \in RegistryLocals \union {Idle},
           Goto(r, local), UNCHANGED <<credential, runs, audits, answers>>,
           verifier' \in [Verifiers -> VerifierStatus], protocol' \in {"active", "retired"},
           local.pc = "revoke" => credential[local.credential] # Nothing,
           local.pc = "audit" => Revoked(local.credential)
    PROVE  RegistryInv'
  <1>. USE DEF RegistryInv, RecordsAreAccounted
  <1>1. /\ req' \in [Requests -> RegistryLocals \union {Idle}]
        /\ req'[r] = local
        /\ \A q \in Requests : q # r => req'[q] = req[q]
    BY DEF Goto
  <1>2. TypeOK'
    BY <1>1 DEF TypeOK
  <1>3. AuditedMeansRevoked' /\ RunAnswersNameTheRow'
    BY DEF AuditedMeansRevoked, RunAnswersNameTheRow
  <1>4. RevokersAreCurrent'
    BY <1>1 DEF RevokersAreCurrent, Revoked
  <1>. QED BY <1>1, <1>2, <1>3, <1>4

LEMMA RegistryFinish ==
    ASSUME RegistryInv, NEW r \in Requests, Finish(r),
           UNCHANGED <<credential, runs, audits, answers>>,
           verifier' \in [Verifiers -> VerifierStatus], protocol' \in {"active", "retired"}
    PROVE  RegistryInv'
  <1>1. Idle \in RegistryLocals \union {Idle} /\ Idle.pc = "idle"
    BY DEF Idle
  <1>. QED BY <1>1, RegistryLocalStep DEF Finish

\* A step of a credential: whatever was revoked stays so, and the row it writes
\* has its type.
LEMMA CredentialStep ==
    ASSUME RegistryInv, NEW r \in Requests, NEW c \in Credentials, NEW row \in CredentialRows,
           NEW local \in RegistryLocals \union {Idle},
           Goto(r, local), credential' = [credential EXCEPT ![c] = row],
           Revoked(c) => row = credential[c],
           UNCHANGED <<verifier, protocol, runs, audits, answers>>,
           local.pc # "revoke",
           local.pc = "audit" => local.credential = c /\ row.revokedBy # Nothing
    PROVE  RegistryInv'
  <1>. USE DEF RegistryInv, RecordsAreAccounted
  <1>1. /\ req' \in [Requests -> RegistryLocals \union {Idle}]
        /\ req'[r] = local
        /\ \A q \in Requests : q # r => req'[q] = req[q]
    BY DEF Goto
  <1>2. row # Nothing
    BY RegistryConstants
  <1>3. /\ credential' \in [Credentials -> CredentialRows \union {Nothing}]
        /\ credential'[c] = row
        /\ \A d \in Credentials : d # c => credential'[d] = credential[d]
    BY DEF TypeOK
  <1>4. \A d \in Credentials : /\ Revoked(d) => Revoked(d)'
                               /\ credential[d] # Nothing => credential'[d] # Nothing
    BY <1>2, <1>3 DEF Revoked
  <1>5. TypeOK'
    BY <1>1, <1>3 DEF TypeOK
  <1>6. AuditedMeansRevoked'
    BY <1>4 DEF AuditedMeansRevoked, TypeOK, Revoked
  <1>7. RunAnswersNameTheRow'
    BY DEF RunAnswersNameTheRow
  <1>8. RevokersAreCurrent'
    <2>1. \A q \in Requests : req[q].pc \in {"revoke", "audit"} => req[q].credential \in Credentials
      BY RegistryShapes
    <2>. QED BY <1>1, <1>2, <1>3, <1>4, <2>1 DEF RevokersAreCurrent, Revoked
  <1>. QED BY <1>1, <1>5, <1>6, <1>7, <1>8

\* What a creator is told it requested: the row under its key, found or inserted.
LEMMA RunStep ==
    ASSUME RegistryInv, NEW r \in Requests, NEW k \in Keys, NEW s \in Subjects,
           Finish(r), runs' \in [Keys -> Subjects \union {Nothing}],
           runs'[k] = s,
           \A j \in Keys : runs[j] # Nothing => runs'[j] = runs[j],
           answers' = answers \union {<<k, s>>},
           UNCHANGED <<verifier, credential, protocol, audits>>
    PROVE  RegistryInv'
  <1>. USE DEF RegistryInv, RecordsAreAccounted
  <1>1. /\ req' \in [Requests -> RegistryLocals \union {Idle}]
        /\ req'[r] = Idle
        /\ \A q \in Requests : q # r => req'[q] = req[q]
    BY DEF Goto, Finish
  <1>2. TypeOK'
    BY <1>1 DEF TypeOK
  <1>3. AuditedMeansRevoked'
    BY DEF AuditedMeansRevoked
  <1>4. RunAnswersNameTheRow'
    <2>. SUFFICES ASSUME NEW a \in answers' PROVE runs'[a[1]] = a[2]
      BY DEF RunAnswersNameTheRow
    <2>1. CASE a \in answers
      <3>1. a[1] \in Keys /\ a[2] \in Subjects /\ runs[a[1]] = a[2]
        BY <2>1 DEF TypeOK, RunAnswersNameTheRow
      <3>. QED BY <3>1, RegistryConstants
    <2>2. CASE a = <<k, s>>
      BY <2>2
    <2>. QED BY <2>1, <2>2
  <1>5. RevokersAreCurrent'
    BY <1>1 DEF RevokersAreCurrent, Revoked, Idle
  <1>. QED BY <1>1, <1>2, <1>3, <1>4, <1>5

LEMMA RegistryStep == RegistryInv /\ [Next]_vars => RegistryInv'
  <1>. SUFFICES ASSUME RegistryInv, [Next]_vars PROVE RegistryInv'
    OBVIOUS
  <1>. USE DEF RegistryInv, RecordsAreAccounted
  <1>0. /\ verifier \in [Verifiers -> VerifierStatus]
        /\ protocol \in {"active", "retired"}
        /\ runs \in [Keys -> Subjects \union {Nothing}]
        /\ \A r \in Requests : req[r] \in RegistryLocals \union {Idle}
    BY DEF TypeOK
  <1>1. CASE RetireProtocol
    BY <1>1 DEF RetireProtocol, TypeOK, AuditedMeansRevoked, RunAnswersNameTheRow,
                RevokersAreCurrent, Revoked
  <1>2. ASSUME NEW r \in Requests, NEW v \in Verifiers, NEW s \in VerifierStatus,
               ReadVerifier(r, v, s)
        PROVE  RegistryInv'
    <2>. DEFINE local == [pc |-> "setStatus", verifier |-> v, status |-> s]
    <2>1. local \in RegistryLocals /\ local.pc = "setStatus"
      BY DEF RegistryLocals
    <2>. QED BY <1>0, <1>2, <2>1, RegistryLocalStep DEF ReadVerifier
  <1>3. ASSUME NEW r \in Requests, SetStatus(r)
        PROVE  RegistryInv'
    <2>1. req[r] \in [pc : {"setStatus"}, verifier : Verifiers, status : VerifierStatus]
      BY <1>0, <1>3, RegistryShapes DEF SetStatus
    <2>2. verifier' \in [Verifiers -> VerifierStatus]
      BY <1>0, <1>3, <2>1 DEF SetStatus
    <2>. QED BY <1>0, <1>3, <2>2, RegistryFinish DEF SetStatus
  <1>4. ASSUME NEW r \in Requests, NEW v \in Verifiers, BeginIssue(r, v)
        PROVE  RegistryInv'
    <2>. DEFINE local == [pc |-> "issue", verifier |-> v]
    <2>1. local \in RegistryLocals /\ local.pc = "issue"
      BY DEF RegistryLocals
    <2>. QED BY <1>0, <1>4, <2>1, RegistryLocalStep DEF BeginIssue
  <1>5. ASSUME NEW r \in Requests, NEW c \in Credentials, Issue(r, c)
        PROVE  RegistryInv'
    <2>. DEFINE row == [verifier |-> req[r].verifier, revokedBy |-> Nothing]
    <2>1. row \in CredentialRows
      BY <1>0, <1>5, RegistryShapes DEF Issue, CredentialRows
    <2>2. Idle \in RegistryLocals \union {Idle} /\ Idle.pc = "idle"
      BY DEF Idle
    <2>3. ~Revoked(c)
      BY <1>5 DEF Issue, Revoked
    <2>. HIDE DEF row
    <2>4. credential' = [credential EXCEPT ![c] = row] /\ Goto(r, Idle)
      BY <1>5 DEF Issue, row, Finish
    <2>. QED BY <1>5, <2>1, <2>2, <2>3, <2>4, CredentialStep DEF Issue
  <1>6. ASSUME NEW r \in Requests, NEW e \in Editors, NEW c \in Credentials, BeginRevoke(r, e, c)
        PROVE  RegistryInv'
    <2>. DEFINE local == [pc |-> IF credential[c].revokedBy = Nothing THEN "revoke" ELSE "audit",
                          editor |-> e, credential |-> c]
    <2>1. local \in RegistryLocals /\ local.credential = c
      BY DEF RegistryLocals
    <2>2. credential[c] # Nothing /\ (local.pc = "audit" => Revoked(c))
      BY <1>6 DEF BeginRevoke, Revoked
    <2>3. Goto(r, local) /\ UNCHANGED <<verifier, credential, protocol, runs, audits, answers>>
      BY <1>6 DEF BeginRevoke
    <2>. HIDE DEF local
    <2>. QED BY <1>0, <2>1, <2>2, <2>3, RegistryLocalStep
  <1>7. ASSUME NEW r \in Requests, Revoke(r)
        PROVE  RegistryInv'
    <2>. SUFFICES ASSUME NEW c, c = req[r].credential PROVE RegistryInv'
      OBVIOUS
    <2>. DEFINE row == [credential[c] EXCEPT !.revokedBy = req[r].editor]
                local == [req[r] EXCEPT !.pc = "audit"]
    <2>1. req[r] \in [pc : {"revoke", "audit"}, editor : Editors, credential : Credentials]
      BY <1>0, <1>7, RegistryShapes DEF Revoke
    <2>2. c \in Credentials /\ credential[c] \in CredentialRows
      BY <1>7, <2>1 DEF Revoke, RevokersAreCurrent, TypeOK
    <2>3. row \in CredentialRows /\ row.revokedBy # Nothing
      BY <2>1, <2>2, RegistryConstants DEF CredentialRows
    <2>4. local \in RegistryLocals /\ local.pc = "audit" /\ local.credential = c
      BY <2>1 DEF RegistryLocals
    <2>5. ~Revoked(c)
      BY <1>7 DEF Revoke, CredentialGuard, Revoked
    <2>6. credential' = [credential EXCEPT ![c] = row] /\ Goto(r, local)
          /\ UNCHANGED <<verifier, protocol, runs, audits, answers>>
      BY <1>7 DEF Revoke
    <2>. HIDE DEF row, local
    <2>. QED BY <2>2, <2>3, <2>4, <2>5, <2>6, CredentialStep
  <1>8. ASSUME NEW r \in Requests, AuditRevocation(r)
        PROVE  RegistryInv'
    <2>1. req[r] \in [pc : {"revoke", "audit"}, editor : Editors, credential : Credentials]
      BY <1>0, <1>8, RegistryShapes DEF AuditRevocation
    <2>2. Revoked(req[r].credential)
      BY <1>8 DEF AuditRevocation, RevokersAreCurrent
    <2>3. /\ req' \in [Requests -> RegistryLocals \union {Idle}]
          /\ req'[r] = Idle
          /\ \A q \in Requests : q # r => req'[q] = req[q]
      BY <1>8 DEF AuditRevocation, Finish, Goto
    <2>4. TypeOK'
      BY <1>8, <2>1, <2>3 DEF AuditRevocation, TypeOK
    <2>5. AuditedMeansRevoked'
      BY <1>8, <2>2 DEF AuditRevocation, AuditedMeansRevoked, Revoked
    <2>6. RunAnswersNameTheRow' /\ RevokersAreCurrent'
      BY <1>8, <2>3 DEF AuditRevocation, RunAnswersNameTheRow, RevokersAreCurrent, Revoked, Idle
    <2>. QED BY <2>3, <2>4, <2>5, <2>6
  <1>9. ASSUME NEW r \in Requests, NEW k \in Keys, NEW s \in Subjects, Replay(r, k, s)
        PROVE  RegistryInv'
    BY <1>0, <1>9, RunStep DEF Replay
  <1>10. ASSUME NEW r \in Requests, NEW k \in Keys, NEW s \in Subjects, FindRun(r, k, s)
         PROVE  RegistryInv'
    <2>. DEFINE local == [pc |-> "checkProtocol", key |-> k, subject |-> s]
    <2>1. local \in RegistryLocals /\ local.pc = "checkProtocol"
      BY DEF RegistryLocals
    <2>. QED BY <1>0, <1>9, <1>10, <2>1, RegistryLocalStep DEF FindRun
  <1>11. ASSUME NEW r \in Requests, CheckProtocol(r)
         PROVE  RegistryInv'
    <2>. DEFINE local == [req[r] EXCEPT !.pc = "insertRun"]
    <2>1. local \in RegistryLocals /\ local.pc = "insertRun"
      BY <1>0, <1>11, RegistryShapes DEF CheckProtocol, RegistryLocals
    <2>. QED BY <1>0, <1>11, <2>1, RegistryLocalStep DEF CheckProtocol
  <1>12. ASSUME NEW r \in Requests, InsertRun(r)
         PROVE  RegistryInv'
    <2>. SUFFICES ASSUME NEW k, k = req[r].key, NEW s, s = req[r].subject PROVE RegistryInv'
      OBVIOUS
    <2>1. k \in Keys /\ s \in Subjects
      BY <1>0, <1>12, RegistryShapes DEF InsertRun
    <2>2. CASE Replay(r, k, s)
      BY <1>9, <2>1, <2>2
    <2>3. CASE /\ runs[k] = Nothing
               /\ runs' = [runs EXCEPT ![k] = s]
               /\ answers' = answers \union {<<k, s>>}
               /\ Finish(r)
               /\ UNCHANGED <<verifier, credential, protocol, audits>>
      BY <1>0, <2>1, <2>3, RunStep
    <2>. QED BY <1>12, <2>2, <2>3 DEF InsertRun
  <1>13. ASSUME NEW r \in Requests, Abandon(r)
         PROVE  RegistryInv'
    BY <1>0, <1>13, RegistryFinish DEF Abandon
  <1>14. CASE UNCHANGED vars
    BY <1>14 DEF vars, TypeOK, AuditedMeansRevoked, RunAnswersNameTheRow, RevokersAreCurrent,
                 Revoked
  <1>. QED BY <1>1, <1>2, <1>3, <1>4, <1>5, <1>6, <1>7, <1>8, <1>10, <1>11, <1>12, <1>13, <1>14
           DEF Next

LEMMA RegistryInvariance == Spec => []RegistryInv
  <1>1. Init => RegistryInv
    BY RegistryConstants DEF Init, RegistryInv, RecordsAreAccounted, TypeOK, VerifierStatus,
       AuditedMeansRevoked, RunAnswersNameTheRow, RevokersAreCurrent, Idle
  <1>. QED BY <1>1, RegistryStep, PTL DEF Spec

\* The registry's records account for what was done: every audited revocation took
\* place, and every answer of createVerificationRun names the run under its key,
\* however requests of several editors interleave and die.
THEOREM RegistryIsAccounted == Spec => []RecordsAreAccounted
  <1>1. RegistryInv => RecordsAreAccounted
    BY DEF RegistryInv
  <1>. QED BY <1>1, RegistryInvariance, PTL

\* Of editors that race to revoke one credential, the first stays on record.
THEOREM FirstRevocation == Spec => FirstRevocationStands
  <1>1. RegistryInv /\ [Next]_vars =>
          [\A c \in Credentials : (credential[c] # Nothing /\ credential[c].revokedBy # Nothing)
                                  => credential'[c] = credential[c]]_vars
    BY RevocationStands DEF Revoked
  <1>. QED BY <1>1, RegistryInvariance, PTL DEF Spec, FirstRevocationStands

-----------------------------------------------------------------------------
(***************************************************************************)
(* GraphProposals.  The two properties need each other and two facts about *)
(* the rows: a proposal that confirmed an edge is marked as having done    *)
(* so, which is how the others are counted when one is superseded; and an  *)
(* edge somebody signed names the version it was signed for.               *)
(***************************************************************************)
OriginsAreMarked ==
    \A p \in Proposals : proposal[p] # NoRow =>
        /\ proposal[p].status = "confirmed" /\ TupleOf[p] # NoTuple => proposal[p].confirms
        /\ proposal[p].confirms => TupleOf[p] # NoTuple /\ proposal[p].status # "proposed"

SignedHaveTargets ==
    \A t \in Tuples : edge[t] # NoRow /\ edge[t].by # NoRow => edge[t].target # NoRow

ToldAreRows == \A c \in decisions : proposal[c.proposal] # NoRow

GraphInv ==
    /\ EdgesAreBacked
    /\ DecisionsAreOwned
    /\ OriginsAreMarked
    /\ SignedHaveTargets
    /\ ToldAreRows

LEMMA TupleTypes ==
    ASSUME NEW p \in Proposals, TupleOf[p] # NoTuple
    PROVE  TupleOf[p] \in Tuples /\ TargetOf[p] \in Targets /\ TargetOf[p] # NoRow
  BY GraphConstants DEF Tuples, Targets

\* What EdgesAreBacked says of one edge.
Backed(t) ==
    /\ \A p \in Confirming(t) : /\ edge[t] # NoRow
                                /\ edge[t].status = "confirmed"
                                /\ edge[t].target = TargetOf[p]
    /\ edge[t] # NoRow /\ edge[t].by # NoRow =>
          /\ edge[t].status = "confirmed" <=> Confirming(t) # {}
          /\ \E c \in decisions : /\ c.status = "confirmed" /\ c.by = edge[t].by
                                  /\ TupleOf[c.proposal] = t
                                  /\ TargetOf[c.proposal] = edge[t].target

LEMMA BackedOne == EdgesAreBacked <=> GraphTypeOK /\ \A t \in Tuples : Backed(t)
  BY DEF EdgesAreBacked, Backed

\* A step that decides nothing.
LEMMA UndecidedStep ==
    ASSUME GraphInv, UNCHANGED <<edge, decisions>>, editors' \subseteq Deciders,
           desk' \in [Desks -> Deciders \union {NoRow}],
           \/ UNCHANGED proposal
           \/ \E p \in Proposals : Create(p)
    PROVE  GraphInv'
  <1>. USE DEF GraphInv
  <1>1. GraphTypeOK
    BY DEF EdgesAreBacked
  <1>2. /\ proposal' \in [Proposals -> ProposalRows \union {NoRow}]
        /\ \A p \in Proposals :
              \/ proposal'[p] = proposal[p]
              \/ /\ proposal[p] = NoRow /\ proposal'[p] # NoRow
                 /\ proposal'[p].status = "proposed" /\ ~proposal'[p].confirms
    <2>1. CASE UNCHANGED proposal
      BY <1>1, <2>1 DEF GraphTypeOK
    <2>2. ASSUME NEW p \in Proposals, Create(p)
          PROVE  /\ proposal' \in [Proposals -> ProposalRows \union {NoRow}]
                 /\ \A q \in Proposals :
                       \/ proposal'[q] = proposal[q]
                       \/ /\ proposal[q] = NoRow /\ proposal'[q] # NoRow
                          /\ proposal'[q].status = "proposed" /\ ~proposal'[q].confirms
      <3>. DEFINE row == [status |-> "proposed", revision |-> 0, by |-> NoRow, confirms |-> FALSE]
      <3>4. row \in ProposalRows
        BY DEF ProposalRows
      <3>1. row \in ProposalRows /\ row # NoRow
        BY <3>4, GraphConstants
      <3>2. row.status = "proposed" /\ row.confirms = FALSE
        OBVIOUS
      <3>. HIDE DEF row
      <3>3. proposal[p] = NoRow /\ proposal' = [proposal EXCEPT ![p] = row]
        BY <2>2 DEF Create, row
      <3>. QED BY <1>1, <3>1, <3>2, <3>3 DEF GraphTypeOK
    <2>. QED BY <2>1, <2>2
  <1>3. GraphTypeOK'
    BY <1>1, <1>2 DEF GraphTypeOK
  <1>4. \A t \in Tuples : Confirming(t)' = Confirming(t)
    BY <1>2 DEF Confirming
  <1>5. \A t \in Tuples : Backed(t)'
    BY <1>4, BackedOne DEF Backed
  <1>6. EdgesAreBacked'
    BY <1>3, <1>5 DEF EdgesAreBacked, Backed
  <1>7. DecisionsAreOwned' /\ ToldAreRows'
    BY <1>1, <1>2 DEF DecisionsAreOwned, ToldAreRows, GraphTypeOK
  <1>8. OriginsAreMarked' /\ SignedHaveTargets'
    BY <1>2 DEF OriginsAreMarked, SignedHaveTargets
  <1>. QED BY <1>6, <1>7, <1>8

\* A decision that is told again was told of the row as it is.
LEMMA RepeatStep ==
    ASSUME GraphInv, NEW d \in Desks, NEW p \in Proposals, NEW status \in Decided,
           NEW expected \in 0 .. 1, desk[d] # NoRow, proposal[p] # NoRow,
           Repeat(d, p, status, expected)
    PROVE  GraphInv'
  <1>. USE DEF GraphInv
  <1>. DEFINE c == [proposal |-> p, by |-> desk[d], status |-> status, revision |-> expected + 1]
  <1>1. GraphTypeOK
    BY DEF EdgesAreBacked
  <1>2. /\ decisions' = decisions \union {c} /\ UNCHANGED <<proposal, edge, editors>>
        /\ desk' = [desk EXCEPT ![d] = NoRow]
        /\ proposal[p].status = status /\ proposal[p].by = desk[d]
        /\ proposal[p].revision = expected + 1
    BY DEF Repeat, Tell
  <1>3. c \in [proposal : Proposals, by : Deciders, status : Decided, revision : 1 .. 2]
        /\ c.proposal = p /\ c.by = desk[d] /\ c.status = status /\ c.revision = expected + 1
    BY <1>1 DEF GraphTypeOK
  <1>4. \A o \in decisions : o.proposal = p /\ o.revision = expected + 1 => o = c
    BY <1>1, <1>2 DEF DecisionsAreOwned, GraphTypeOK
  <1>. HIDE DEF c
  <1>5. GraphTypeOK'
    BY <1>1, <1>2, <1>3 DEF GraphTypeOK
  <1>6. \A t \in Tuples : Backed(t)'
    <2>1. \A t \in Tuples : Confirming(t)' = Confirming(t)
      BY <1>2 DEF Confirming
    <2>. QED BY <1>2, <2>1, BackedOne DEF Backed
  <1>7. EdgesAreBacked'
    BY <1>5, <1>6 DEF EdgesAreBacked, Backed
  <1>8. DecisionsAreOwned'
    <2>. SUFFICES ASSUME NEW a \in decisions'
                  PROVE  /\ a.revision <= proposal[a.proposal].revision
                         /\ a.revision = proposal[a.proposal].revision =>
                               /\ a.status = proposal[a.proposal].status
                               /\ a.by = proposal[a.proposal].by
                         /\ \A o \in decisions' :
                               o.proposal = a.proposal /\ o.revision = a.revision => o = a
      BY <1>2 DEF DecisionsAreOwned
    <2>1. CASE a \in decisions
      BY <1>2, <1>3, <1>4, <2>1 DEF DecisionsAreOwned
    <2>2. CASE a = c
      BY <1>2, <1>3, <1>4, <2>2
    <2>. QED BY <1>2, <2>1, <2>2
  <1>9. ToldAreRows'
    BY <1>2, <1>3 DEF ToldAreRows
  <1>10. OriginsAreMarked' /\ SignedHaveTargets'
    BY <1>2 DEF OriginsAreMarked, SignedHaveTargets
  <1>. QED BY <1>7, <1>8, <1>9, <1>10

\* What a decision that is applied does to its proposal.
LEMMA AppliedRow ==
    ASSUME GraphInv, NEW d \in Desks, NEW p \in Proposals, NEW status \in Decided,
           NEW expected \in 0 .. 1, desk[d] # NoRow, proposal[p] # NoRow,
           Apply(d, p, status, expected)
    PROVE  /\ proposal' \in [Proposals -> ProposalRows \union {NoRow}]
           /\ proposal'[p] # NoRow
           /\ proposal'[p].status = status /\ proposal'[p].by = desk[d]
           /\ proposal'[p].revision = expected + 1
           /\ proposal'[p].confirms <=>
                 proposal[p].confirms \/ (status = "confirmed" /\ TupleOf[p] # NoTuple)
           /\ \A q \in Proposals : q # p => proposal'[q] = proposal[q]
           /\ proposal[p].revision = expected
           /\ proposal[p].status \in {"proposed", "confirmed"}
           /\ proposal[p].status = "proposed" => ~proposal[p].confirms
           /\ proposal[p].status = "confirmed" => status = "superseded" /\ TupleOf[p] # NoTuple
           /\ status = "superseded" => TupleOf[p] # NoTuple
  <1>. DEFINE row == [status |-> status, revision |-> expected + 1, by |-> desk[d],
                      confirms |-> proposal[p].confirms
                                   \/ (status = "confirmed" /\ TupleOf[p] # NoTuple)]
  <1>1. GraphTypeOK
    BY DEF GraphInv, EdgesAreBacked
  <1>2. proposal[p] \in ProposalRows /\ desk[d] \in Deciders
    BY <1>1 DEF GraphTypeOK
  <1>3. row \in ProposalRows
    BY <1>2 DEF ProposalRows
  <1>4. row # NoRow
    BY <1>3, GraphConstants
  <1>5. proposal' = [proposal EXCEPT ![p] = row]
    BY DEF Apply
  <1>6. row.status = status /\ row.revision = expected + 1 /\ row.by = desk[d]
        /\ (row.confirms <=> proposal[p].confirms
                             \/ (status = "confirmed" /\ TupleOf[p] # NoTuple))
    OBVIOUS
  <1>7. status \in MayBecome(p) /\ proposal[p].revision = expected
    BY DEF Apply
  <1>8. /\ proposal[p].status \in {"proposed", "confirmed"}
        /\ proposal[p].status = "confirmed" => status = "superseded" /\ TupleOf[p] # NoTuple
        /\ status = "superseded" => TupleOf[p] # NoTuple
    BY <1>7 DEF MayBecome
  <1>9. proposal[p].status = "proposed" => ~proposal[p].confirms
    BY <1>2 DEF GraphInv, OriginsAreMarked
  <1>. HIDE DEF row
  <1>. QED BY <1>1, <1>3, <1>4, <1>5, <1>6, <1>7, <1>8, <1>9 DEF GraphTypeOK

\* What it does to the edge, and to the set of proposals that confirm it.
LEMMA AppliedEdge ==
    ASSUME GraphInv, NEW d \in Desks, NEW p \in Proposals, NEW status \in Decided,
           NEW expected \in 0 .. 1, desk[d] # NoRow, proposal[p] # NoRow,
           Apply(d, p, status, expected)
    PROVE  /\ edge' \in [Tuples -> EdgeRows \union {NoRow}]
           /\ \A t \in Tuples : t # TupleOf[p] => edge'[t] = edge[t]
           /\ TupleOf[p] # NoTuple =>
                 LET t == TupleOf[p] IN
                 \/ /\ edge'[t] = edge[t]
                    /\ status = "confirmed" => edge[t] # NoRow /\ Authoritative(t) /\ Reusable(t, p)
                    /\ status = "superseded" /\ proposal[p].status = "confirmed" =>
                          OtherConfirmations(p) # {}
                 \/ /\ status = "confirmed"
                    /\ edge'[t] = Signed(t, p, desk[d])
                    /\ edge'[t] # NoRow
                    /\ Reusable(t, p)
                    /\ edge[t] # NoRow => ~Authoritative(t)
                 \/ /\ status = "superseded" /\ proposal[p].status = "confirmed"
                    /\ edge[t] # NoRow /\ edge[t].status = "confirmed"
                    /\ edge'[t] = Superseded(edge[t])
                    /\ edge'[t] # NoRow
                    /\ OtherConfirmations(p) = {}
  <1>. DEFINE t == TupleOf[p]
  <1>1. GraphTypeOK
    BY DEF GraphInv, EdgesAreBacked
  <1>2. proposal[p] \in ProposalRows /\ desk[d] \in Deciders /\ edge \in [Tuples -> EdgeRows \union {NoRow}]
    BY <1>1 DEF GraphTypeOK
  <1>3. CASE t = NoTuple
    BY <1>2, <1>3 DEF Apply
  <1>4. CASE t # NoTuple /\ status = "rejected"
    BY <1>2, <1>4 DEF Apply
  <1>5. CASE t # NoTuple /\ status = "confirmed"
    <2>1. Reusable(t, p) /\ ConfirmEdge(t, p, desk[d])
      BY <1>5 DEF Apply
    <2>2. t \in Tuples /\ TargetOf[p] \in Targets
      BY <1>5, TupleTypes
    <2>3. CASE edge[t] # NoRow /\ Authoritative(t)
      BY <1>2, <1>5, <2>1, <2>3 DEF ConfirmEdge
    <2>4. CASE ~(edge[t] # NoRow /\ Authoritative(t))
      <3>1. Signed(t, p, desk[d]) \in EdgeRows
        <4>1. (IF edge[t] = NoRow THEN 0 ELSE edge[t].revision + 1) \in Nat
          BY <1>2, <2>2 DEF EdgeRows
        <4>. QED BY <1>2, <2>2, <4>1 DEF Signed, EdgeRows
      <3>2. Signed(t, p, desk[d]) # NoRow
        BY <3>1, GraphConstants
      <3>3. edge' = [edge EXCEPT ![t] = Signed(t, p, desk[d])]
        BY <2>1, <2>4 DEF ConfirmEdge
      <3>. QED BY <1>2, <1>5, <2>1, <2>2, <2>4, <3>1, <3>2, <3>3
    <2>. QED BY <2>3, <2>4
  <1>6. CASE t # NoTuple /\ status = "superseded"
    <2>1. SupersedeEdge(p)
      BY <1>6 DEF Apply
    <2>2. t \in Tuples
      BY <1>6, TupleTypes
    <2>3. CASE proposal[p].status = "confirmed"
      <3>1. proposal[p].confirms
        BY <1>6, <2>3 DEF GraphInv, OriginsAreMarked
      <3>2. edge[t] # NoRow /\ edge[t].status = "confirmed" /\ edge[t] \in EdgeRows
        BY <1>2, <2>2, <2>3 DEF GraphInv, EdgesAreBacked, Confirming
      <3>3. CASE OtherConfirmations(p) = {}
        <4>1. edge' = [edge EXCEPT ![t] = Superseded(edge[t])]
          BY <2>1, <3>1, <3>2, <3>3 DEF SupersedeEdge
        <4>2. Superseded(edge[t]) \in EdgeRows
          <5>1. ASSUME NEW e \in EdgeRows PROVE Superseded(e) \in EdgeRows
            <6>1. e.revision + 1 \in Nat
              BY DEF EdgeRows
            <6>. QED BY <6>1 DEF Superseded, EdgeRows
          <5>. QED BY <3>2, <5>1
        <4>3. Superseded(edge[t]) # NoRow
          BY <4>2, GraphConstants
        <4>. QED BY <1>2, <1>6, <2>2, <2>3, <3>2, <3>3, <4>1, <4>2, <4>3
      <3>4. CASE OtherConfirmations(p) # {}
        BY <1>2, <1>6, <2>1, <2>3, <3>4 DEF SupersedeEdge
      <3>. QED BY <3>3, <3>4
    <2>4. CASE proposal[p].status # "confirmed"
      <3>1. proposal[p].status = "proposed" /\ ~proposal[p].confirms
        BY <2>4, AppliedRow
      <3>. QED BY <1>2, <1>6, <2>1, <3>1 DEF SupersedeEdge
    <2>. QED BY <2>3, <2>4
  <1>. QED BY <1>3, <1>4, <1>5, <1>6 DEF Decided

\* The decision that is applied is told once, and is what the row now says.
LEMMA AppliedDecision ==
    ASSUME GraphInv, NEW d \in Desks, NEW p \in Proposals, NEW status \in Decided,
           NEW expected \in 0 .. 1, desk[d] # NoRow, proposal[p] # NoRow,
           Apply(d, p, status, expected)
    PROVE  /\ GraphTypeOK'
           /\ DecisionsAreOwned'
           /\ ToldAreRows'
           /\ \E c \in decisions' : /\ c.proposal = p /\ c.status = status /\ c.by = desk[d]
           /\ decisions \subseteq decisions'
  <1>. USE DEF GraphInv
  <1>. DEFINE c == [proposal |-> p, by |-> desk[d], status |-> status, revision |-> expected + 1]
  <1>1. GraphTypeOK
    BY DEF EdgesAreBacked
  <1>2. /\ decisions' = decisions \union {c} /\ UNCHANGED editors
        /\ desk' = [desk EXCEPT ![d] = NoRow]
    BY DEF Apply, Tell
  <1>3. c \in [proposal : Proposals, by : Deciders, status : Decided, revision : 1 .. 2]
        /\ c.proposal = p /\ c.by = desk[d] /\ c.status = status /\ c.revision = expected + 1
    BY <1>1 DEF GraphTypeOK
  <1>. HIDE DEF c
  <1>4. /\ proposal' \in [Proposals -> ProposalRows \union {NoRow}]
        /\ proposal'[p] # NoRow
        /\ proposal'[p].status = status /\ proposal'[p].by = desk[d]
        /\ proposal'[p].revision = expected + 1
        /\ \A q \in Proposals : q # p => proposal'[q] = proposal[q]
        /\ proposal[p].revision = expected
    BY AppliedRow
  <1>5. GraphTypeOK'
    <2>1. edge' \in [Tuples -> EdgeRows \union {NoRow}]
      BY AppliedEdge
    <2>. QED BY <1>1, <1>2, <1>3, <1>4, <2>1 DEF GraphTypeOK
  <1>6. \A o \in decisions : o.proposal = p => o.revision <= expected /\ o.revision \in Nat
    BY <1>1, <1>4 DEF DecisionsAreOwned, GraphTypeOK
  <1>7. DecisionsAreOwned'
    <2>. SUFFICES ASSUME NEW a \in decisions'
                  PROVE  /\ a.revision <= proposal'[a.proposal].revision
                         /\ a.revision = proposal'[a.proposal].revision =>
                               /\ a.status = proposal'[a.proposal].status
                               /\ a.by = proposal'[a.proposal].by
                         /\ \A o \in decisions' :
                               o.proposal = a.proposal /\ o.revision = a.revision => o = a
      BY DEF DecisionsAreOwned
    <2>0. a.proposal \in Proposals
      BY <1>5 DEF GraphTypeOK
    <2>1. CASE a \in decisions /\ a.proposal = p
      BY <1>2, <1>3, <1>4, <1>6, <2>1 DEF DecisionsAreOwned
    <2>2. CASE a \in decisions /\ a.proposal # p
      BY <1>2, <1>3, <1>4, <2>0, <2>2 DEF DecisionsAreOwned
    <2>3. CASE a = c
      BY <1>2, <1>3, <1>4, <1>6, <2>3
    <2>. QED BY <1>2, <2>1, <2>2, <2>3
  <1>8. ToldAreRows'
    <2>1. \A o \in decisions : o.proposal \in Proposals
      BY <1>1 DEF GraphTypeOK
    <2>. QED BY <1>2, <1>3, <1>4, <2>1 DEF ToldAreRows
  <1>. QED BY <1>2, <1>3, <1>5, <1>7, <1>8

LEMMA ApplyStep ==
    ASSUME GraphInv, NEW d \in Desks, NEW p \in Proposals, NEW status \in Decided,
           NEW expected \in 0 .. 1, desk[d] # NoRow, proposal[p] # NoRow,
           Apply(d, p, status, expected)
    PROVE  GraphInv'
  <1>. USE DEF GraphInv
  <1>. DEFINE t == TupleOf[p]
  <1>1. GraphTypeOK
    BY DEF EdgesAreBacked
  <1>2. /\ GraphTypeOK' /\ DecisionsAreOwned' /\ ToldAreRows'
        /\ \E c \in decisions' : /\ c.proposal = p /\ c.status = status /\ c.by = desk[d]
        /\ decisions \subseteq decisions'
    BY AppliedDecision
  <1>3. /\ proposal'[p] # NoRow
        /\ proposal'[p].status = status
        /\ proposal'[p].confirms <=> proposal[p].confirms \/ (status = "confirmed" /\ t # NoTuple)
        /\ \A q \in Proposals : q # p => proposal'[q] = proposal[q]
        /\ proposal[p].status = "proposed" => ~proposal[p].confirms
        /\ proposal[p].status \in {"proposed", "confirmed"}
        /\ proposal[p].status = "confirmed" => status = "superseded" /\ t # NoTuple
        /\ status = "superseded" => t # NoTuple
    BY AppliedRow
  <1>4. OriginsAreMarked'
    BY <1>3 DEF OriginsAreMarked, Decided
  <1>5. ASSUME NEW s \in Tuples, s # t
        PROVE  edge'[s] = edge[s] /\ Confirming(s)' = Confirming(s)
    <2>1. edge'[s] = edge[s]
      BY <1>5, AppliedEdge
    <2>. QED BY <1>3, <1>5, <2>1 DEF Confirming
  <1>6. \A s \in Tuples : s # t => Backed(s)'
    BY <1>2, <1>5, BackedOne DEF Backed
  <1>7. CASE t = NoTuple
    <2>1. t \notin Tuples
      BY <1>7 DEF Tuples
    <2>2. SignedHaveTargets'
      BY <1>5, <2>1 DEF SignedHaveTargets
    <2>. QED BY <1>2, <1>4, <1>6, <2>1, <2>2 DEF EdgesAreBacked, Backed
  <1>8. CASE t # NoTuple
    <2>1. t \in Tuples /\ TargetOf[p] \in Targets /\ TargetOf[p] # NoRow
          /\ Backed(t) /\ desk[d] \in Deciders
      BY <1>1, <1>8, TupleTypes, BackedOne DEF GraphTypeOK
    <2>2. /\ edge[t] \in EdgeRows \union {NoRow}
          /\ \A q \in Proposals : TargetOf[q] # NoRow
      BY <1>1, <2>1, GraphConstants DEF GraphTypeOK, Targets
    <2>3. CASE status = "confirmed"
      <3>1. Confirming(t)' = Confirming(t) \union {p}
        BY <1>3, <2>3 DEF Confirming
      <3>2. CASE /\ edge'[t] = edge[t] /\ edge[t] # NoRow /\ Authoritative(t) /\ Reusable(t, p)
        <4>1. edge[t].by # NoRow
          BY <1>1, <3>2, GraphConstants DEF Authoritative, GraphTypeOK
        <4>2. edge[t].status = "confirmed" /\ edge[t].target = TargetOf[p]
          BY <2>1, <3>2, <4>1 DEF SignedHaveTargets, Reusable
        <4>3. Backed(t)'
          BY <1>2, <2>1, <3>1, <3>2, <4>2 DEF Backed
        <4>4. SignedHaveTargets'
          BY <1>5, <3>2 DEF SignedHaveTargets
        <4>. QED BY <1>2, <1>4, <1>6, <4>3, <4>4 DEF EdgesAreBacked, Backed
      <3>3. CASE edge'[t] = Signed(t, p, desk[d]) /\ edge'[t] # NoRow /\ Reusable(t, p)
        <4>1. edge'[t].status = "confirmed" /\ edge'[t].target = TargetOf[p] /\ edge'[t].by = desk[d]
          BY <3>3 DEF Signed
        <4>2. \A q \in Confirming(t) : TargetOf[q] = TargetOf[p]
          <5>. SUFFICES ASSUME NEW q \in Confirming(t) PROVE TargetOf[q] = TargetOf[p]
            OBVIOUS
          <5>1. edge[t] # NoRow /\ edge[t].target = TargetOf[q] /\ TargetOf[q] # NoRow
            BY <2>1, <2>2 DEF Backed, Confirming
          <5>. QED BY <3>3, <5>1 DEF Reusable
        <4>3. Backed(t)'
          BY <1>2, <2>3, <3>1, <3>3, <4>1, <4>2 DEF Backed
        <4>4. SignedHaveTargets'
          BY <1>5, <2>1, <4>1 DEF SignedHaveTargets
        <4>. QED BY <1>2, <1>4, <1>6, <4>3, <4>4 DEF EdgesAreBacked, Backed
      <3>. QED BY <1>8, <2>3, <3>2, <3>3, AppliedEdge
    <2>4. CASE status = "superseded" /\ proposal[p].status = "confirmed"
      <3>1. Confirming(t)' = Confirming(t) \ {p}
        BY <1>3, <2>4 DEF Confirming
      <3>2. Confirming(t) \ {p} = OtherConfirmations(p)
        BY <2>1, <1>8 DEF Confirming, OtherConfirmations, OriginsAreMarked
      <3>3. CASE edge'[t] = edge[t] /\ OtherConfirmations(p) # {}
        <4>1. Confirming(t)' # {} /\ Confirming(t) # {}
          BY <3>1, <3>2, <3>3
        <4>2. Backed(t)'
          BY <1>2, <2>1, <3>1, <3>3, <4>1 DEF Backed
        <4>3. SignedHaveTargets'
          BY <1>5, <3>3 DEF SignedHaveTargets
        <4>. QED BY <1>2, <1>4, <1>6, <4>2, <4>3 DEF EdgesAreBacked, Backed
      <3>4. CASE /\ edge[t] # NoRow /\ edge'[t] = Superseded(edge[t]) /\ edge'[t] # NoRow
                 /\ OtherConfirmations(p) = {}
        <4>1. /\ edge'[t].status = "superseded" /\ edge'[t].target = edge[t].target
              /\ edge'[t].by = edge[t].by
          BY <2>2, <3>4 DEF Superseded, EdgeRows
        <4>2. Confirming(t)' = {}
          BY <3>1, <3>2, <3>4
        <4>3. Backed(t)'
          BY <1>2, <2>1, <3>4, <4>1, <4>2 DEF Backed
        <4>4. SignedHaveTargets'
          BY <1>5, <2>1, <3>4, <4>1 DEF SignedHaveTargets
        <4>. QED BY <1>2, <1>4, <1>6, <4>3, <4>4 DEF EdgesAreBacked, Backed
      <3>. QED BY <1>8, <2>4, <3>3, <3>4, AppliedEdge
    <2>5. CASE status # "confirmed" /\ proposal[p].status = "proposed"
      <3>1. Confirming(t)' = Confirming(t)
        BY <1>3, <2>5 DEF Confirming
      <3>2. edge'[t] = edge[t]
        BY <1>8, <2>5, AppliedEdge
      <3>3. Backed(t)'
        BY <1>2, <2>1, <3>1, <3>2 DEF Backed
      <3>4. SignedHaveTargets'
        BY <1>5, <3>2 DEF SignedHaveTargets
      <3>. QED BY <1>2, <1>4, <1>6, <3>3, <3>4 DEF EdgesAreBacked, Backed
    <2>. QED BY <1>3, <2>3, <2>4, <2>5
  <1>. QED BY <1>7, <1>8

LEMMA GraphStep == GraphInv /\ [GraphNext]_graphVars => GraphInv'
  <1>. SUFFICES ASSUME GraphInv, [GraphNext]_graphVars PROVE GraphInv'
    OBVIOUS
  <1>0. GraphTypeOK /\ editors \subseteq Deciders /\ desk \in [Desks -> Deciders \union {NoRow}]
    BY DEF GraphInv, EdgesAreBacked, GraphTypeOK
  <1>1. ASSUME NEW p \in Proposals, Create(p)
        PROVE  GraphInv'
    BY <1>0, <1>1, UndecidedStep DEF Create
  <1>2. ASSUME NEW u \in Movers, ChangeRole(u)
        PROVE  GraphInv'
    BY <1>0, <1>2, UndecidedStep, GraphConstants DEF ChangeRole
  <1>3. ASSUME NEW d \in Desks, NEW u \in Deciders, RequireCurrentEditor(d, u)
        PROVE  GraphInv'
    BY <1>0, <1>3, UndecidedStep DEF RequireCurrentEditor
  <1>4. ASSUME NEW d \in Desks, Refuse(d)
        PROVE  GraphInv'
    BY <1>0, <1>4, UndecidedStep DEF Refuse
  <1>5. ASSUME NEW d \in Desks, Decide(d)
        PROVE  GraphInv'
    BY <1>5, RepeatStep, ApplyStep DEF Decide, Decided
  <1>6. CASE UNCHANGED graphVars
    BY <1>0, <1>6, UndecidedStep DEF graphVars
  <1>. QED BY <1>1, <1>2, <1>3, <1>4, <1>5, <1>6 DEF GraphNext

LEMMA GraphStart == GraphInit => GraphInv
  <1>. SUFFICES ASSUME GraphInit PROVE GraphInv
    OBVIOUS
  <1>. USE DEF GraphInit
  <1>1. Legacy \in EdgeRows /\ Legacy.by = NoRow
    BY DEF Legacy, EdgeRows
  <1>2. GraphTypeOK
    BY <1>1 DEF GraphTypeOK
  <1>3. \A t \in Tuples : Confirming(t) = {} /\ (edge[t] # NoRow => edge[t].by = NoRow)
    BY <1>1 DEF Confirming
  <1>4. EdgesAreBacked
    BY <1>2, <1>3 DEF EdgesAreBacked
  <1>5. DecisionsAreOwned /\ OriginsAreMarked /\ SignedHaveTargets /\ ToldAreRows
    BY <1>3 DEF DecisionsAreOwned, OriginsAreMarked, SignedHaveTargets, ToldAreRows
  <1>. QED BY <1>4, <1>5 DEF GraphInv

LEMMA GraphInvariance == GraphSpec => []GraphInv
  <1>. QED BY GraphStart, GraphStep, PTL DEF GraphSpec

\* An edge editors confirmed stands exactly as long as one of the proposals of
\* its tuple is confirmed, all of them for its target version, and whoever signed
\* it confirmed one; in whatever order origins are decided and roles change.
THEOREM EdgesBacked == GraphSpec => []EdgesAreBacked
  <1>1. GraphInv => EdgesAreBacked
    BY DEF GraphInv
  <1>. QED BY <1>1, GraphInvariance, PTL

\* No two editors are ever told of one revision of a proposal, and what was told
\* of the present one is what the row says.
THEOREM DecisionsOwned == GraphSpec => []DecisionsAreOwned
  <1>1. GraphInv => DecisionsAreOwned
    BY DEF GraphInv
  <1>. QED BY <1>1, GraphInvariance, PTL

\* What a step may do to an edge.
LEMMA EdgeStands ==
    ASSUME GraphInv, GraphNext, NEW t \in Tuples, edge[t] # NoRow
    PROVE  /\ edge[t].status = "superseded" => edge'[t] = edge[t]
           /\ edge[t].target # NoRow => edge'[t].target = edge[t].target
           /\ Authoritative(t) => edge'[t].by = edge[t].by
  <1>1. edge[t] \in EdgeRows
    BY DEF GraphInv, EdgesAreBacked, GraphTypeOK
  <1>2. ASSUME NEW d \in Desks, NEW p \in Proposals, NEW status \in Decided,
               NEW expected \in 0 .. 1, desk[d] # NoRow, proposal[p] # NoRow,
               Apply(d, p, status, expected)
        PROVE  /\ edge[t].status = "superseded" => edge'[t] = edge[t]
               /\ edge[t].target # NoRow => edge'[t].target = edge[t].target
               /\ Authoritative(t) => edge'[t].by = edge[t].by
    <2>1. CASE edge'[t] = edge[t]
      BY <2>1
    <2>2. CASE edge'[t] = Signed(t, p, desk[d]) /\ Reusable(t, p) /\ ~Authoritative(t)
      BY <2>2 DEF Signed, Reusable
    <2>3. CASE edge[t].status = "confirmed" /\ edge'[t] = Superseded(edge[t])
      BY <1>1, <2>3 DEF Superseded, EdgeRows
    <2>4. t # NoTuple
      BY DEF Tuples
    <2>. QED BY <1>2, <2>1, <2>2, <2>3, <2>4, AppliedEdge
  <1>3. CASE UNCHANGED edge
    BY <1>3
  <1>. QED BY <1>2, <1>3 DEF GraphNext, Create, ChangeRole, RequireCurrentEditor, Refuse, Decide,
                              Repeat, Decided

\* An edge keeps the version and the signature it was confirmed with, and a
\* superseded one is never touched again.
THEOREM Signatures == GraphSpec => SignaturesStand
  <1>1. GraphInv /\ [GraphNext]_graphVars =>
          [\A t \in Tuples : edge[t] # NoRow =>
              /\ edge[t].status = "superseded" => edge'[t] = edge[t]
              /\ edge[t].target # NoRow => edge'[t].target = edge[t].target
              /\ Authoritative(t) => edge'[t].by = edge[t].by]_graphVars
    BY EdgeStands
  <1>. QED BY <1>1, GraphInvariance, PTL DEF GraphSpec, SignaturesStand

-----------------------------------------------------------------------------
(***************************************************************************)
(* RelationTrust.  A hash stands for what it is computed from, so the      *)
(* invariant says of every request, marker and record what its author had  *)
(* seen; neither the relation nor the editors as they are now occur in it. *)
(***************************************************************************)
Seen == ProposalRows \X (EdgeRows \union {NoRow})

AdjudicationRows ==
    [subject : SubjectRecords, outcome : Outcomes, by : Deciders, asEditor : BOOLEAN,
     override : BOOLEAN]

SeatLocals ==
    [pc : {"looked"}, by : Deciders, subject : SubjectRecords,
     revision : [Assessments -> Nat], seen : Seen]
    \union [pc : {"mark"}, by : Deciders, assessment : Assessments, revision : Nat,
            subject : SubjectRecords, seen : Seen]
    \union [pc : {"adjudicate"}, seen : Seen, row : AdjudicationRows]

\* What was seen is what the hash stands for.
Hashed(subject, seen) == seen = <<subject.proposal, subject.edge>>

\* Nobody decides about a relation or assessment of its own without an override.
Impartial(row) ==
    /\ row.override <=> row.by \in Involved
    /\ row.override => row.by \in Admins

SeatsAreSound ==
    /\ seat \in [Seats -> SeatLocals \union {Free}]
    /\ \A r \in Seats :
          /\ seat[r].pc \in {"looked", "mark"} => Hashed(seat[r].subject, seat[r].seen)
          /\ seat[r].pc = "adjudicate" =>
                Hashed(seat[r].row.subject, seat[r].seen) /\ Impartial(seat[r].row)

\* The marker of an assessment is the review of its present revision.
MarkersAreReviews ==
    /\ \A a \in Assessments :
          /\ assessment[a].revision \in Nat
          /\ assessment[a] = [revision |-> assessment[a].revision, marker |-> assessment[a].marker]
          /\ assessment[a].marker = NoRow <=> assessment[a].revision = 0
          /\ assessment[a].marker # NoRow =>
                /\ assessment[a].marker \in Markers
                /\ \E v \in reviews :
                      /\ v.assessment = a
                      /\ v.revision = assessment[a].revision
                      /\ v.by = assessment[a].marker.by
                      /\ Hashed(assessment[a].marker.subject, v.seen)
    /\ \A v \in reviews : /\ v.assessment \in Assessments
                          /\ v.revision \in Nat
                          /\ v.revision <= assessment[v.assessment].revision
    /\ \A v, w \in reviews : v.assessment = w.assessment /\ v.revision = w.revision => v = w

\* One record per disagreement, and every verdict is its record.
RecordsAreUnique ==
    /\ adjudications \subseteq AdjudicationRows
    /\ \A row, other \in adjudications : other.subject = row.subject => other = row
    /\ \A row \in adjudications : Impartial(row)
    /\ \A v \in verdicts : v.row \in adjudications /\ Hashed(v.row.subject, v.seen)

TrustInv ==
    /\ GraphInv
    /\ DOMAIN assessment = Assessments
    /\ designated \subseteq Candidates
    /\ SeatsAreSound
    /\ MarkersAreReviews
    /\ RecordsAreUnique

\* The invariant says more than the two properties.
LEMMA TrustInvSuffices == TrustInv => BadgesAreEarned /\ AdjudicationsStand
  <1>. SUFFICES ASSUME TrustInv PROVE BadgesAreEarned /\ AdjudicationsStand
    OBVIOUS
  <1>. USE DEF TrustInv
  <1>1. TrustTypeOK
    <2>1. \A r \in Seats : seat[r].pc \in {"free", "looked", "mark", "adjudicate"}
      BY DEF SeatsAreSound, SeatLocals, Free
    <2>. QED BY <2>1 DEF TrustTypeOK, MarkersAreReviews, Markers, RecordsAreUnique, AdjudicationRows
  <1>2. ASSUME NEW a \in Assessments, Verified(a)
        PROVE  /\ edge[TupleOf[Assessed]].by \in editors
               /\ \E v \in reviews :
                     /\ v.assessment = a
                     /\ v.revision = assessment[a].revision
                     /\ v.by = assessment[a].marker.by
                     /\ v.seen = <<proposal[Assessed], edge[TupleOf[Assessed]]>>
    <2>1. OwnEdge # NoRow /\ OwnEdge.by \in editors
      BY <1>2 DEF Verified, OnAuthoritativeEdge
    <2>2. OwnEdge = edge[TupleOf[Assessed]]
      BY <2>1 DEF OwnEdge
    <2>3. PICK v \in reviews : /\ v.assessment = a
                               /\ v.revision = assessment[a].revision
                               /\ v.by = assessment[a].marker.by
                               /\ Hashed(assessment[a].marker.subject, v.seen)
      BY <1>2 DEF Verified, MarkersAreReviews
    <2>4. v.seen = <<Subject.proposal, Subject.edge>>
      BY <1>2, <2>3 DEF Verified, Hashed
    <2>5. Subject.proposal = proposal[Assessed] /\ Subject.edge = OwnEdge
      BY DEF Subject
    <2>. QED BY <2>1, <2>2, <2>3, <2>4, <2>5
  <1>3. BadgesAreEarned
    BY <1>1, <1>2 DEF BadgesAreEarned, MarkersAreReviews
  <1>4. ASSUME NEW v \in verdicts, NEW w \in verdicts, w.seen = v.seen,
               w.row.subject.signedByEditor = v.row.subject.signedByEditor
        PROVE  w.row = v.row
    <2>1. /\ v.row.subject \in SubjectRecords /\ w.row.subject \in SubjectRecords
          /\ v.row \in adjudications /\ w.row \in adjudications
      BY DEF RecordsAreUnique, AdjudicationRows
    <2>2. w.row.subject.proposal = v.row.subject.proposal /\ w.row.subject.edge = v.row.subject.edge
      BY <1>4 DEF RecordsAreUnique, Hashed
    <2>3. w.row.subject = v.row.subject
      BY <1>4, <2>1, <2>2 DEF SubjectRecords
    <2>. QED BY <2>1, <2>3 DEF RecordsAreUnique
  <1>5. AdjudicationsStand
    BY <1>4 DEF AdjudicationsStand, RecordsAreUnique, Hashed, Impartial
  <1>. QED BY <1>3, <1>5

\* What is hashed of a relation that exists.
LEMMA SubjectTyped ==
    ASSUME GraphInv, proposal[Assessed] # NoRow
    PROVE  /\ Subject \in SubjectRecords
           /\ <<proposal[Assessed], OwnEdge>> \in Seen
           /\ Hashed(Subject, <<proposal[Assessed], OwnEdge>>)
  <1>1. proposal[Assessed] \in ProposalRows
    BY TrustConstants DEF GraphInv, EdgesAreBacked, GraphTypeOK
  <1>2. OwnEdge \in EdgeRows \union {NoRow}
    <2>1. TupleOf[Assessed] \in Tuples
      BY TrustConstants, TupleTypes
    <2>. QED BY <2>1 DEF OwnEdge, GraphInv, EdgesAreBacked, GraphTypeOK
  <1>3. (OwnEdge # NoRow /\ OwnEdge.by \in editors) \in BOOLEAN
    OBVIOUS
  <1>. QED BY <1>1, <1>2, <1>3 DEF Subject, SubjectRecords, Seen, Hashed

LEMMA SeatShapes ==
    ASSUME NEW s \in SeatLocals \union {Free}
    PROVE  /\ s.pc = "looked" =>
                 s \in [pc : {"looked"}, by : Deciders, subject : SubjectRecords,
                        revision : [Assessments -> Nat], seen : Seen]
           /\ s.pc = "mark" =>
                 s \in [pc : {"mark"}, by : Deciders, assessment : Assessments, revision : Nat,
                        subject : SubjectRecords, seen : Seen]
           /\ s.pc = "adjudicate" =>
                 s \in [pc : {"adjudicate"}, seen : Seen, row : AdjudicationRows]
  BY DEF SeatLocals, Free

\* Whatever a request comes to hold, it must have been seen.
LEMMA TakeSound ==
    ASSUME SeatsAreSound, NEW r \in Seats, NEW local \in SeatLocals \union {Free}, Take(r, local),
           local.pc \in {"looked", "mark"} => Hashed(local.subject, local.seen),
           local.pc = "adjudicate" =>
              Hashed(local.row.subject, local.seen) /\ Impartial(local.row)
    PROVE  SeatsAreSound'
  <1>1. /\ seat' \in [Seats -> SeatLocals \union {Free}]
        /\ seat'[r] = local
        /\ \A q \in Seats : q # r => seat'[q] = seat[q]
    BY DEF SeatsAreSound, Take
  <1>. QED BY <1>1 DEF SeatsAreSound

LEMMA TrustStep == TrustInv /\ [TrustNext]_relationVars => TrustInv'
  <1>. SUFFICES ASSUME TrustInv, [TrustNext]_relationVars PROVE TrustInv'
    OBVIOUS
  <1>. USE DEF TrustInv
  <1>0. GraphInv'
    <2>1. [GraphNext]_graphVars
      BY DEF TrustNext, relationVars, Designate, Look, LoadAssessment, Mark, LoadDisagreement,
             Adjudicate, Leave
    <2>. QED BY <2>1, GraphStep
  <1>1. CASE UNCHANGED trustVars
    <2>1. SeatsAreSound' /\ MarkersAreReviews' /\ RecordsAreUnique'
      BY <1>1 DEF trustVars, SeatsAreSound, MarkersAreReviews, RecordsAreUnique
    <2>. QED BY <1>0, <1>1, <2>1 DEF trustVars
  <1>2. ASSUME NEW u \in Candidates, Designate(u)
        PROVE  TrustInv'
    <2>1. SeatsAreSound' /\ MarkersAreReviews' /\ RecordsAreUnique'
      BY <1>2 DEF Designate, SeatsAreSound, MarkersAreReviews, RecordsAreUnique
    <2>. QED BY <1>0, <1>2, <2>1 DEF Designate
  <1>3. ASSUME SeatsAreSound', UNCHANGED <<assessment, adjudications, designated, reviews, verdicts>>
        PROVE  TrustInv'
    BY <1>0, <1>3 DEF MarkersAreReviews, RecordsAreUnique
  <1>4. ASSUME NEW r \in Seats, NEW u \in Deciders, Look(r, u)
        PROVE  TrustInv'
    <2>. DEFINE local == [pc |-> "looked", by |-> u, subject |-> Subject,
                          revision |-> [a \in Assessments |-> assessment[a].revision],
                          seen |-> <<proposal[Assessed], OwnEdge>>]
    <2>1. [a \in Assessments |-> assessment[a].revision] \in [Assessments -> Nat]
      BY DEF MarkersAreReviews
    <2>2. proposal[Assessed] # NoRow /\ Take(r, local)
      BY <1>4 DEF Look
    <2>3. local \in SeatLocals /\ local.pc = "looked" /\ Hashed(local.subject, local.seen)
      BY <2>1, <2>2, SubjectTyped DEF SeatLocals
    <2>. HIDE DEF local
    <2>4. SeatsAreSound'
      BY <2>2, <2>3, TakeSound
    <2>. QED BY <1>3, <1>4, <2>4 DEF Look
  <1>5. ASSUME NEW r \in Seats, NEW a \in Assessments, LoadAssessment(r, a)
        PROVE  TrustInv'
    <2>. DEFINE local == [pc |-> "mark", by |-> seat[r].by, assessment |-> a,
                          revision |-> seat[r].revision[a], subject |-> Subject, seen |-> seat[r].seen]
    <2>1. seat[r] \in [pc : {"looked"}, by : Deciders, subject : SubjectRecords,
                       revision : [Assessments -> Nat], seen : Seen]
      BY <1>5, SeatShapes DEF LoadAssessment, SeatsAreSound
    <2>2. Hashed(seat[r].subject, seat[r].seen) /\ Subject = seat[r].subject
      BY <1>5 DEF LoadAssessment, SeatsAreSound, Unchanged
    <2>3. local \in SeatLocals
      BY <2>1, <2>2 DEF SeatLocals
    <2>4. local.pc = "mark" /\ Hashed(local.subject, local.seen) /\ Take(r, local)
      BY <1>5, <2>2 DEF LoadAssessment
    <2>. HIDE DEF local
    <2>5. SeatsAreSound'
      BY <2>3, <2>4, TakeSound
    <2>. QED BY <1>3, <1>5, <2>5 DEF LoadAssessment
  <1>6. ASSUME NEW r \in Seats, Mark(r)
        PROVE  TrustInv'
    <2>. SUFFICES ASSUME NEW s, s = seat[r], NEW a, a = s.assessment PROVE TrustInv'
      OBVIOUS
    <2>. DEFINE marker == [by |-> s.by, subject |-> s.subject]
                review == [assessment |-> a, by |-> s.by, revision |-> s.revision + 1, seen |-> s.seen]
    <2>1. s \in [pc : {"mark"}, by : Deciders, assessment : Assessments, revision : Nat,
                 subject : SubjectRecords, seen : Seen]
      BY <1>6, SeatShapes DEF Mark, SeatsAreSound
    <2>2. /\ assessment[a].revision = s.revision
          /\ assessment' = [assessment EXCEPT ![a] = [revision |-> s.revision + 1, marker |-> marker]]
          /\ reviews' = reviews \union {review}
          /\ Take(r, Free)
          /\ UNCHANGED <<adjudications, designated, verdicts>>
      BY <1>6 DEF Mark, Swap
    <2>3. a \in Assessments /\ s.revision \in Nat /\ Hashed(s.subject, s.seen)
      BY <1>6, <2>1 DEF Mark, SeatsAreSound
    <2>4. marker \in Markers /\ marker # NoRow /\ marker.by = s.by /\ marker.subject = s.subject
      <3>1. marker \in Markers
        BY <2>1 DEF Markers
      <3>. QED BY <3>1, TrustConstants
    <2>5. /\ review.assessment = a /\ review.by = s.by
          /\ review.revision = s.revision + 1 /\ review.seen = s.seen
      OBVIOUS
    <2>. HIDE DEF marker, review
    <2>6. /\ DOMAIN assessment' = Assessments
          /\ assessment'[a] = [revision |-> s.revision + 1, marker |-> marker]
          /\ \A b \in Assessments : b # a => assessment'[b] = assessment[b]
      BY <2>2, <2>3
    <2>7. MarkersAreReviews'
      <3>1. ASSUME NEW b \in Assessments
            PROVE  /\ assessment'[b].revision \in Nat
                   /\ assessment'[b] = [revision |-> assessment'[b].revision,
                                        marker |-> assessment'[b].marker]
                   /\ assessment'[b].marker = NoRow <=> assessment'[b].revision = 0
                   /\ assessment'[b].marker # NoRow =>
                         /\ assessment'[b].marker \in Markers
                         /\ \E v \in reviews' :
                               /\ v.assessment = b
                               /\ v.revision = assessment'[b].revision
                               /\ v.by = assessment'[b].marker.by
                               /\ Hashed(assessment'[b].marker.subject, v.seen)
        <4>1. CASE b = a
          <5>1. assessment'[a].revision = s.revision + 1 /\ assessment'[a].marker = marker
            BY <2>6
          <5>. QED BY <2>2, <2>3, <2>4, <2>5, <2>6, <4>1, <5>1
        <4>2. CASE b # a
          BY <2>2, <2>6, <4>2 DEF MarkersAreReviews
        <4>. QED BY <4>1, <4>2
      <3>2. ASSUME NEW v \in reviews'
            PROVE  /\ v.assessment \in Assessments
                   /\ v.revision \in Nat
                   /\ v.revision <= assessment'[v.assessment].revision
        <4>1. CASE v = review
          BY <2>3, <2>5, <2>6, <4>1
        <4>2. CASE v \in reviews
          <5>1. v.assessment \in Assessments /\ v.revision \in Nat
                /\ v.revision <= assessment[v.assessment].revision
            BY <4>2 DEF MarkersAreReviews
          <5>. QED BY <2>2, <2>3, <2>6, <5>1
        <4>. QED BY <2>2, <4>1, <4>2
      <3>3. \A v \in reviews : v.assessment = a => v.revision # s.revision + 1
        BY <2>2, <2>3 DEF MarkersAreReviews
      <3>4. \A v, w \in reviews' : v.assessment = w.assessment /\ v.revision = w.revision => v = w
        BY <2>2, <2>5, <3>3 DEF MarkersAreReviews
      <3>. QED BY <3>1, <3>2, <3>4 DEF MarkersAreReviews
    <2>8. SeatsAreSound'
      BY <2>2, TakeSound DEF Free
    <2>. QED BY <1>0, <2>2, <2>6, <2>7, <2>8 DEF RecordsAreUnique
  <1>7. ASSUME NEW r \in Seats, NEW o \in Outcomes, NEW override \in BOOLEAN,
               LoadDisagreement(r, o, override)
        PROVE  TrustInv'
    <2>. DEFINE row == [subject |-> Subject, outcome |-> o, by |-> seat[r].by,
                        asEditor |-> seat[r].by \in editors, override |-> override]
                local == [pc |-> "adjudicate", seen |-> seat[r].seen, row |-> row]
    <2>1. seat[r] \in [pc : {"looked"}, by : Deciders, subject : SubjectRecords,
                       revision : [Assessments -> Nat], seen : Seen]
      BY <1>7, SeatShapes DEF LoadDisagreement, SeatsAreSound
    <2>2. Hashed(seat[r].subject, seat[r].seen) /\ Subject = seat[r].subject
      BY <1>7 DEF LoadDisagreement, SeatsAreSound
    <2>3. Impartial(row) /\ row.subject = Subject
      BY <1>7 DEF LoadDisagreement, MayAdjudicate, Impartial
    <2>4. row \in AdjudicationRows
      <3>1. (seat[r].by \in editors) \in BOOLEAN
        OBVIOUS
      <3>. QED BY <2>1, <2>2, <3>1 DEF AdjudicationRows
    <2>5. Take(r, local)
      BY <1>7 DEF LoadDisagreement
    <2>. HIDE DEF row
    <2>6. local \in SeatLocals /\ local.pc = "adjudicate" /\ local.row = row /\ local.seen = seat[r].seen
      BY <2>1, <2>4 DEF SeatLocals
    <2>. HIDE DEF local
    <2>7. SeatsAreSound'
      BY <2>2, <2>3, <2>5, <2>6, TakeSound
    <2>. QED BY <1>3, <1>7, <2>7 DEF LoadDisagreement
  <1>8. ASSUME NEW r \in Seats, Adjudicate(r)
        PROVE  TrustInv'
    <2>. SUFFICES ASSUME NEW s, s = seat[r], NEW row, row = s.row PROVE TrustInv'
      OBVIOUS
    <2>1. s \in [pc : {"adjudicate"}, seen : Seen, row : AdjudicationRows]
      BY <1>8, SeatShapes DEF Adjudicate, SeatsAreSound
    <2>2. row \in AdjudicationRows /\ Hashed(row.subject, s.seen) /\ Impartial(row)
      BY <1>8, <2>1 DEF Adjudicate, SeatsAreSound
    <2>3. /\ \A other \in adjudications : other.subject = row.subject => other = row
          /\ adjudications' = IF \E other \in adjudications : other.subject = row.subject
                              THEN adjudications ELSE adjudications \union {row}
          /\ verdicts' = verdicts \union {[row |-> row, seen |-> s.seen]}
          /\ Take(r, Free)
          /\ UNCHANGED <<assessment, designated, reviews>>
      BY <1>8 DEF Adjudicate, Decidable
    <2>4. adjudications' = adjudications \union {row}
      BY <2>3
    <2>5. RecordsAreUnique'
      BY <2>2, <2>3, <2>4 DEF RecordsAreUnique
    <2>6. SeatsAreSound'
      BY <2>3, TakeSound DEF Free
    <2>. QED BY <1>0, <2>3, <2>5, <2>6 DEF MarkersAreReviews
  <1>9. ASSUME NEW r \in Seats, Leave(r)
        PROVE  TrustInv'
    <2>1. SeatsAreSound'
      BY <1>9, TakeSound DEF Leave, Free
    <2>. QED BY <1>3, <1>9, <2>1 DEF Leave
  <1>. QED BY <1>1, <1>2, <1>4, <1>5, <1>6, <1>7, <1>8, <1>9 DEF TrustNext, relationVars

LEMMA TrustInvariance == TrustSpec => []TrustInv
  <1>1. TrustInit => TrustInv
    <2>. SUFFICES ASSUME TrustInit PROVE TrustInv
      OBVIOUS
    <2>. USE DEF TrustInit
    <2>1. GraphInv
      BY GraphStart
    <2>2. SeatsAreSound
      BY DEF SeatsAreSound, Free
    <2>3. MarkersAreReviews /\ RecordsAreUnique
      BY DEF MarkersAreReviews, RecordsAreUnique
    <2>. QED BY <2>1, <2>2, <2>3 DEF TrustInv
  <1>. QED BY <1>1, TrustStep, PTL DEF TrustSpec

\* An assessment is shown as verified only on an edge that an editor of today
\* signed, and only while the last editor told of its verification had seen that
\* very decision and edge.
THEOREM Badges == TrustSpec => []BadgesAreEarned
  <1>. QED BY TrustInvSuffices, TrustInvariance, PTL

\* What an adjudicator was told it decided is the one record of what it had seen,
\* and whoever was involved had the override.
THEOREM Adjudications == TrustSpec => []AdjudicationsStand
  <1>. QED BY TrustInvSuffices, TrustInvariance, PTL
===============================================================================
