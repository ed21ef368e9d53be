---------------------- MODULE VerificationEvidence_proofs ----------------------
(***************************************************************************)
(* Proofs about VerificationEvidence, for every set of verifiers, handlers, *)
(* artifacts and findings and every value of the bounds.                    *)
(*                                                                         *)
(* A handler acts on what it read before it lost the lease, so the          *)
(* invariant says of every handler what its next statement rests on.  All   *)
(* of it stays true by itself: rows only grow (Grow), and a grant that was  *)
(* made stays on record whoever holds the run now.                          *)
(***************************************************************************)
EXTENDS VerificationEvidence, SequenceTheorems, TLAPS

Granted(v) == \E g \in DOMAIN grants : grants[g] = v
GrantedAs(g, v) == g \in DOMAIN grants /\ grants[g] = v

\* The history of grants is that of the row's generations.
GrantsAreKept ==
    /\ Len(grants) = run.generation
    /\ run.status \in Leased => run.generation # 0
    /\ run.generation # 0 => grants[run.generation] = run.claimant

ArtifactHolds(k) ==
    artifacts[k] # Nothing =>
        /\ GrantedAs(artifacts[k].generation, artifacts[k].by)
        /\ artifacts[k].blob \in {Nothing, artifacts[k].meta}
        /\ artifacts[k].status # "prepared" => artifacts[k].blob = artifacts[k].meta

FindingHolds(f) ==
    findings[f] # Nothing =>
        /\ Granted(findings[f].by)
        /\ \A k \in findings[f].body.refs : Citable(k)
        /\ findings[f].body.supersedes # Nothing => findings[findings[f].body.supersedes] # Nothing

Announces(k, meta) == artifacts[k] # Nothing /\ artifacts[k].meta = meta

\* What the next statement of a handler rests on, by the handler's locals.
LocalHolds(l) ==
    /\ l.pc \in {"prepare", "insertArtifact"} => GrantedAs(l.generation, l.by)
    /\ l.pc = "upload" => Announces(l.key, l.row.meta)
    /\ l.pc = "storeBlob" => Announces(l.key, l.bytes)
    /\ l.pc = "setCompleted" =>
          artifacts[l.key] # Nothing /\ artifacts[l.key].blob = artifacts[l.key].meta
    /\ l.pc \in {"submit", "insertFinding", "commitFinding"} => Granted(l.by)
    /\ l.pc \in {"insertFinding", "commitFinding"} =>
          (l.body.supersedes # Nothing => findings[l.body.supersedes] # Nothing)

LocalsHold == \A r \in Requests : LocalHolds(req[r])

\* Findings, committed or about to be, under different keys correct different
\* findings.
Apart(key, body, otherKey, other) ==
    /\ key # otherKey
    /\ body.supersedes # Nothing => body.supersedes # other.supersedes

ApartFromCommitted(key, body) ==
    \A f \in FindingKeys : findings[f] # Nothing => Apart(key, body, f, findings[f].body)

FindingsApart ==
    /\ \A f, g \in FindingKeys : f # g /\ findings[f] # Nothing /\ findings[g] # Nothing =>
          Apart(f, findings[f].body, g, findings[g].body)
    /\ \A r \in Requests : req[r].pc = "commitFinding" =>
          /\ ApartFromCommitted(req[r].key, req[r].body)
          /\ \A q \in Requests : q # r /\ req[q].pc = "commitFinding" =>
                Apart(req[r].key, req[r].body, req[q].key, req[q].body)

NamesRow(a) ==
    \/ a[1] \in ArtifactKeys /\ Announces(a[1], a[2])
    \/ a[1] \in FindingKeys /\ findings[a[1]] # Nothing /\ findings[a[1]].body = a[2]

\* No chain of corrections bites its tail.
Corrections ==
    {f \in FindingKeys : findings[f] # Nothing /\ findings[f].body.supersedes # Nothing}

Acyclic ==
    \A chain \in SUBSET Corrections : chain # {} =>
        \E f \in chain : findings[f].body.supersedes \notin chain

EvidenceInv ==
    /\ TypeOK
    /\ GrantsAreKept
    /\ \A k \in ArtifactKeys : ArtifactHolds(k)
    /\ \A f \in FindingKeys : FindingHolds(f)
    /\ LocalsHold
    /\ FindingsApart
    /\ \A a \in answers : NamesRow(a)
    /\ Acyclic

-----------------------------------------------------------------------------
(* Types. *)

LEMMA LocalShapes ==
    ASSUME NEW l \in Locals \union {Idle}
    PROVE  /\ l.pc = "prepare" =>
                 l \in [pc : {"prepare"}, by : Verifiers, key : ArtifactKeys, meta : Metas,
                        generation : 1 .. MaxGeneration, leaseUntil : Nat]
           /\ l.pc = "insertArtifact" =>
                 l \in [pc : {"insertArtifact"}, by : Verifiers, key : ArtifactKeys, meta : Metas,
                        generation : 1 .. MaxGeneration, preparedAt : 0 .. MaxTime, until : Nat]
           /\ l.pc = "upload" =>
                 l \in [pc : {"upload"}, by : Verifiers, token : 1 .. MaxGeneration,
                        key : ArtifactKeys, bytes : Metas, row : ArtifactRows]
           /\ l.pc = "storeBlob" => l \in [pc : {"storeBlob"}, key : ArtifactKeys, bytes : Metas]
           /\ l.pc = "complete" => l \in [pc : {"complete"}, by : Verifiers, key : ArtifactKeys]
           /\ l.pc = "setCompleted" => l \in [pc : {"setCompleted"}, key : ArtifactKeys]
           /\ l.pc \in {"submit", "insertFinding", "commitFinding"} =>
                 l \in [pc : {"submit", "insertFinding", "commitFinding"}, by : Verifiers,
                        key : FindingKeys, body : Bodies]
           /\ l = Idle => l.pc = "idle"
  <1>. QED BY DEF Locals, Idle

LEMMA RequestTypes ==
    ASSUME TypeOK, NEW r \in Requests
    PROVE  req[r] \in Locals \union {Idle}
  <1>. QED BY DEF TypeOK

LEMMA BodyTypes ==
    ASSUME NEW body \in Bodies
    PROVE  body.refs \subseteq ArtifactKeys /\ body.supersedes \in FindingKeys \union {Nothing}
  <1>. QED BY DEF Bodies

LEMMA RowTypes ==
    ASSUME TypeOK
    PROVE  /\ \A k \in ArtifactKeys : artifacts[k] # Nothing =>
                 /\ artifacts[k] \in ArtifactRows
                 /\ artifacts[k].meta \in Metas /\ artifacts[k].by \in Verifiers
           /\ \A f \in FindingKeys : findings[f] # Nothing =>
                 /\ findings[f] \in FindingRows
                 /\ findings[f].body \in Bodies /\ findings[f].by \in Verifiers
           /\ run.generation \in 0 .. MaxGeneration /\ run.expiresAt \in Nat
           /\ run.status \in Status /\ run.claimant \in Verifiers \union {NoVerifier}
  <1>. QED BY DEF TypeOK, ArtifactRows, FindingRows

LEMMA EvidenceInvSuffices ==
    EvidenceInv => AnswersNameTheRow /\ AttributedToGrant /\ CitedBytesAreChecked
                   /\ SupersessionIsLinear
  <1>. SUFFICES ASSUME EvidenceInv
                PROVE  AnswersNameTheRow /\ AttributedToGrant /\ CitedBytesAreChecked
                       /\ SupersessionIsLinear
    OBVIOUS
  <1>. USE DEF EvidenceInv
  <1>1. AnswersNameTheRow
    BY DEF AnswersNameTheRow, NamesRow, Announces
  <1>2. AttributedToGrant
    BY DEF AttributedToGrant, ArtifactHolds, FindingHolds, GrantedAs, Granted
  <1>3. CitedBytesAreChecked
    <2>1. \A f \in FindingKeys : findings[f] # Nothing => findings[f].body.refs \subseteq ArtifactKeys
      BY RowTypes, BodyTypes
    <2>. QED BY <2>1 DEF CitedBytesAreChecked, ArtifactHolds, FindingHolds, Citable
  <1>4. SupersessionIsLinear
    <2>1. \A f, g \in Corrections :
              findings[f].body.supersedes = findings[g].body.supersedes => f = g
      BY DEF Corrections, FindingsApart, Apart
    <2>. QED BY <2>1 DEF SupersessionIsLinear, Corrections, Acyclic
  <1>. QED BY <1>1, <1>2, <1>3, <1>4

-----------------------------------------------------------------------------
(* Steps. *)

\* Rows only grow: what was announced, stored, completed or found stays so.
Grow ==
    /\ \A k \in ArtifactKeys : artifacts[k] # Nothing =>
          /\ artifacts'[k] # Nothing /\ artifacts'[k].meta = artifacts[k].meta
          /\ artifacts[k].status = "completed" => artifacts'[k].status = "completed"
          /\ artifacts[k].blob = artifacts[k].meta => artifacts'[k].blob = artifacts'[k].meta
    /\ \A f \in FindingKeys : findings[f] # Nothing => findings'[f] = findings[f]
    /\ \A g \in DOMAIN grants : g \in DOMAIN grants' /\ grants'[g] = grants[g]

LEMMA GrantsStay ==
    ASSUME Grow
    PROVE  /\ \A v : Granted(v) => Granted(v)'
           /\ \A g, v : GrantedAs(g, v) => GrantedAs(g, v)'
  <1>. QED BY DEF Grow, Granted, GrantedAs

LEMMA LocalStays ==
    ASSUME Grow, NEW l \in Locals \union {Idle}, LocalHolds(l)
    PROVE  LocalHolds(l)'
  <1>1. CASE l.pc \in {"prepare", "insertArtifact"}
    BY <1>1, GrantsStay DEF LocalHolds
  <1>2. CASE l.pc = "upload"
    <2>1. l.key \in ArtifactKeys
      BY <1>2, LocalShapes
    <2>. QED BY <1>2, <2>1 DEF LocalHolds, Announces, Grow
  <1>3. CASE l.pc = "storeBlob"
    <2>1. l.key \in ArtifactKeys
      BY <1>3, LocalShapes
    <2>. QED BY <1>3, <2>1 DEF LocalHolds, Announces, Grow
  <1>4. CASE l.pc = "setCompleted"
    <2>1. l.key \in ArtifactKeys
      BY <1>4, LocalShapes
    <2>. QED BY <1>4, <2>1 DEF LocalHolds, Grow
  <1>5. CASE l.pc \in {"submit", "insertFinding", "commitFinding"}
    <2>1. l.body.supersedes \in FindingKeys \union {Nothing}
      BY <1>5, LocalShapes, BodyTypes
    <2>2. Granted(l.by)'
      BY <1>5, GrantsStay DEF LocalHolds
    <2>3. l.pc \in {"insertFinding", "commitFinding"} =>
             (l.body.supersedes # Nothing => findings'[l.body.supersedes] # Nothing)
      BY <1>5, <2>1 DEF LocalHolds, Grow
    <2>. QED BY <1>5, <2>2, <2>3 DEF LocalHolds
  <1>6. CASE l.pc \notin {"prepare", "insertArtifact", "upload", "storeBlob", "setCompleted",
                          "submit", "insertFinding", "commitFinding"}
    BY <1>6 DEF LocalHolds
  <1>. QED BY <1>1, <1>2, <1>3, <1>4, <1>5, <1>6

LEMMA AnswerStays ==
    ASSUME Grow, NEW a, NamesRow(a)
    PROVE  NamesRow(a)'
  <1>. QED BY DEF Grow, NamesRow, Announces

\* A row that a step leaves alone.
LEMMA RowsStay ==
    ASSUME EvidenceInv, Grow
    PROVE  /\ \A k \in ArtifactKeys : artifacts'[k] = artifacts[k] => ArtifactHolds(k)'
           /\ \A f \in FindingKeys : findings'[f] = findings[f] => FindingHolds(f)'
  <1>1. ASSUME NEW k \in ArtifactKeys, artifacts'[k] = artifacts[k]
        PROVE  ArtifactHolds(k)'
    BY <1>1, GrantsStay DEF EvidenceInv, ArtifactHolds
  <1>2. ASSUME NEW f \in FindingKeys, findings'[f] = findings[f], findings[f] # Nothing
        PROVE  FindingHolds(f)'
    <2>1. findings[f].body \in Bodies
      BY <1>2, RowTypes DEF EvidenceInv
    <2>2. \A k \in findings[f].body.refs : Citable(k) /\ k \in ArtifactKeys
      BY <1>2, <2>1, BodyTypes DEF EvidenceInv, FindingHolds
    <2>3. \A k \in findings[f].body.refs : Citable(k)'
      BY <2>2 DEF Citable, Grow
    <2>4. findings[f].body.supersedes # Nothing =>
             /\ findings[f].body.supersedes \in FindingKeys
             /\ findings[findings[f].body.supersedes] # Nothing
      BY <1>2, <2>1, BodyTypes DEF EvidenceInv, FindingHolds
    <2>5. findings[f].body.supersedes # Nothing => findings'[findings[f].body.supersedes] # Nothing
      BY <2>4 DEF Grow
    <2>6. Granted(findings[f].by)'
      BY <1>2, GrantsStay DEF EvidenceInv, FindingHolds
    <2>. QED BY <1>2, <2>3, <2>5, <2>6 DEF FindingHolds
  <1>3. ASSUME NEW f \in FindingKeys, findings'[f] = findings[f], findings[f] = Nothing
        PROVE  FindingHolds(f)'
    BY <1>3 DEF FindingHolds
  <1>. QED BY <1>1, <1>2, <1>3

-----------------------------------------------------------------------------

LEMMA ApartIsSymmetric ==
    ASSUME NEW k, NEW b, NEW j, NEW c, Apart(k, b, j, c)
    PROVE  Apart(j, c, k, b)
  <1>. QED BY DEF Apart

LEMMA NothingFoundAgain ==
    ASSUME FindingsApart, Acyclic, UNCHANGED findings
    PROVE  Acyclic'
  <1>1. Corrections' = Corrections
    BY DEF Corrections
  <1>. QED BY <1>1 DEF Acyclic

\* A handler moves on, and may write an artifact.
LEMMA HandlerStep ==
    ASSUME EvidenceInv, TypeOK', Grow, UNCHANGED <<now, run, grants, findings>>,
           NEW r \in Requests, NEW l \in Locals \union {Idle}, req' = [req EXCEPT ![r] = l],
           LocalHolds(l)',
           l.pc = "commitFinding" =>
               /\ ApartFromCommitted(l.key, l.body)
               /\ \A q \in Requests : q # r /\ req[q].pc = "commitFinding" =>
                     Apart(l.key, l.body, req[q].key, req[q].body),
           \A k \in ArtifactKeys : artifacts'[k] = artifacts[k] \/ ArtifactHolds(k)',
           \A a \in answers' : a \in answers \/ NamesRow(a)'
    PROVE  EvidenceInv'
  <1>. USE DEF EvidenceInv
  <1>1. req'[r] = l /\ \A q \in Requests : q # r => req'[q] = req[q]
    BY DEF TypeOK
  <1>2. GrantsAreKept'
    BY DEF GrantsAreKept
  <1>3. \A k \in ArtifactKeys : ArtifactHolds(k)'
    BY RowsStay
  <1>4. \A f \in FindingKeys : FindingHolds(f)'
    BY RowsStay
  <1>5. LocalsHold'
    <2>. SUFFICES ASSUME NEW q \in Requests, NEW m, m = req'[q]
                  PROVE  LocalHolds(m)'
      BY DEF LocalsHold, LocalHolds, GrantedAs, Granted, Announces
    <2>1. CASE q = r
      BY <1>1, <2>1
    <2>2. CASE q # r
      <3>1. m = req[q] /\ m \in Locals \union {Idle}
        BY <1>1, <2>2, RequestTypes
      <3>2. LocalHolds(m)
        BY <3>1 DEF LocalsHold
      <3>. QED BY <3>1, <3>2, LocalStays
    <2>. QED BY <2>1, <2>2
  <1>6. FindingsApart'
    <2>1. \A f, g \in FindingKeys : f # g /\ findings'[f] # Nothing /\ findings'[g] # Nothing =>
             Apart(f, findings'[f].body, g, findings'[g].body)
      BY DEF FindingsApart
    <2>2. ASSUME NEW p \in Requests, req'[p].pc = "commitFinding"
          PROVE  /\ ApartFromCommitted(req'[p].key, req'[p].body)
                 /\ \A q \in Requests : q # p /\ req'[q].pc = "commitFinding" =>
                       Apart(req'[p].key, req'[p].body, req'[q].key, req'[q].body)
      <3>1. CASE p = r
        BY <1>1, <2>2, <3>1
      <3>2. CASE p # r
        <4>1. /\ ApartFromCommitted(req[p].key, req[p].body)
              /\ \A q \in Requests : q # p /\ req[q].pc = "commitFinding" =>
                    Apart(req[p].key, req[p].body, req[q].key, req[q].body)
          BY <1>1, <2>2, <3>2 DEF FindingsApart
        <4>2. l.pc = "commitFinding" => Apart(req[p].key, req[p].body, l.key, l.body)
          BY <1>1, <2>2, <3>2, ApartIsSymmetric
        <4>. QED BY <1>1, <3>2, <4>1, <4>2
      <3>. QED BY <3>1, <3>2
    <2>. QED BY <2>1, <2>2 DEF FindingsApart, ApartFromCommitted, Apart
  <1>7. \A a \in answers' : NamesRow(a)'
    BY AnswerStays
  <1>8. Acyclic'
    BY NothingFoundAgain
  <1>. QED BY <1>2, <1>3, <1>4, <1>5, <1>6, <1>7, <1>8

\* A handler that changes nothing but its own locals, and may tell what is stored.
LEMMA LocalStep ==
    ASSUME EvidenceInv, UNCHANGED <<now, run, grants, artifacts, findings>>,
           NEW r \in Requests, NEW l \in Locals \union {Idle}, Goto(r, l), LocalHolds(l),
           l.pc = "commitFinding" =>
               /\ ApartFromCommitted(l.key, l.body)
               /\ \A q \in Requests : q # r /\ req[q].pc = "commitFinding" =>
                     Apart(l.key, l.body, req[q].key, req[q].body),
           answers' \subseteq (ArtifactKeys \X Metas) \union (FindingKeys \X Bodies),
           \A a \in answers' : a \in answers \/ NamesRow(a)
    PROVE  EvidenceInv'
  <1>. USE DEF EvidenceInv
  <1>1. req' = [req EXCEPT ![r] = l]
    BY DEF Goto
  <1>2. TypeOK'
    BY <1>1 DEF TypeOK
  <1>3. Grow
    BY DEF Grow
  <1>4. LocalHolds(l)'
    BY <1>3, LocalStays
  <1>5. \A a \in answers' : a \in answers \/ NamesRow(a)'
    BY <1>3, AnswerStays
  <1>6. \A k \in ArtifactKeys : artifacts'[k] = artifacts[k]
    OBVIOUS
  <1>. QED BY <1>1, <1>2, <1>3, <1>4, <1>5, <1>6, HandlerStep

LEMMA FinishStep ==
    ASSUME EvidenceInv, UNCHANGED <<now, run, grants, artifacts, findings>>,
           NEW r \in Requests, Finish(r),
           answers' \subseteq (ArtifactKeys \X Metas) \union (FindingKeys \X Bodies),
           \A a \in answers' : a \in answers \/ NamesRow(a)
    PROVE  EvidenceInv'
  <1>1. LocalHolds(Idle) /\ Idle \in Locals \union {Idle} /\ Idle.pc # "commitFinding"
    BY DEF LocalHolds, Idle
  <1>2. Goto(r, Idle)
    BY DEF Finish
  <1>. HIDE DEF Idle
  <1>. QED BY <1>1, <1>2, LocalStep

\* A handler that ends or moves without telling anyone anything.
LEMMA QuietStep ==
    ASSUME EvidenceInv, UNCHANGED <<now, run, grants, artifacts, findings, answers>>,
           NEW r \in Requests, NEW l \in Locals \union {Idle}, Goto(r, l), LocalHolds(l),
           l.pc # "commitFinding"
    PROVE  EvidenceInv'
  <1>. QED BY LocalStep DEF EvidenceInv, TypeOK

LEMMA QuietEnd ==
    ASSUME EvidenceInv, UNCHANGED <<now, run, grants, artifacts, findings, answers>>,
           NEW r \in Requests, Finish(r)
    PROVE  EvidenceInv'
  <1>. QED BY FinishStep DEF EvidenceInv, TypeOK

LEMMA ReplayArtifactStep ==
    ASSUME EvidenceInv, NEW r \in Requests, req[r].pc \in {"prepare", "insertArtifact"},
           ReplayArtifact(r)
    PROVE  EvidenceInv'
  <1>1. req[r].key \in ArtifactKeys /\ req[r].meta \in Metas
    BY RequestTypes, LocalShapes DEF EvidenceInv
  <1>2. /\ answers' = answers \union {<<req[r].key, req[r].meta>>} /\ Finish(r)
        /\ UNCHANGED <<now, run, grants, artifacts, findings>>
    BY DEF ReplayArtifact, Answer
  <1>3. NamesRow(<<req[r].key, req[r].meta>>)
    BY <1>1 DEF ReplayArtifact, NamesRow, Announces
  <1>. QED BY <1>1, <1>2, <1>3, FinishStep DEF EvidenceInv, TypeOK

LEMMA ReplayFindingStep ==
    ASSUME EvidenceInv, NEW r \in Requests, req[r].pc \in {"submit", "insertFinding"},
           ReplayFinding(r)
    PROVE  EvidenceInv'
  <1>1. req[r].key \in FindingKeys /\ req[r].body \in Bodies
    BY RequestTypes, LocalShapes DEF EvidenceInv
  <1>2. /\ answers' = answers \union {<<req[r].key, req[r].body>>} /\ Finish(r)
        /\ UNCHANGED <<now, run, grants, artifacts, findings>>
    BY DEF ReplayFinding, Answer
  <1>3. NamesRow(<<req[r].key, req[r].body>>)
    BY <1>1 DEF ReplayFinding, NamesRow
  <1>. QED BY <1>1, <1>2, <1>3, FinishStep DEF EvidenceInv, TypeOK

-----------------------------------------------------------------------------
(* The artifact handlers. *)

\* Who holds the lease was granted the generation it holds.
LEMMA HolderIsGranted ==
    ASSUME TypeOK, GrantsAreKept, run.status \in Leased
    PROVE  /\ run.generation \in 1 .. MaxGeneration /\ run.generation \in DOMAIN grants
           /\ GrantedAs(run.generation, run.claimant) /\ Granted(run.claimant)
  <1>1. run.generation \in 0 .. MaxGeneration /\ run.generation # 0
    BY RowTypes DEF GrantsAreKept
  <1>2. DOMAIN grants = 1 .. run.generation
    BY LenProperties DEF TypeOK, GrantsAreKept
  <1>3. run.generation \in 1 .. MaxGeneration /\ run.generation \in 1 .. run.generation
    BY <1>1, LeaseConstants
  <1>. QED BY <1>1, <1>2, <1>3 DEF GrantsAreKept, GrantedAs, Granted

LEMMA PrepareStep ==
    ASSUME EvidenceInv, NEW r \in Requests, NEW v \in Verifiers, NEW token,
           NEW key \in ArtifactKeys, NEW meta \in Metas, BeginPrepare(r, v, token, key, meta)
    PROVE  EvidenceInv'
  <1>. USE DEF EvidenceInv
  <1>. DEFINE l == [pc |-> "prepare", by |-> v, key |-> key, meta |-> meta,
                    generation |-> run.generation, leaseUntil |-> run.expiresAt]
  <1>1. run.status \in Leased /\ run.claimant = v
    BY DEF BeginPrepare, HoldsLease, Live
  <1>2. /\ run.generation \in 1 .. MaxGeneration /\ GrantedAs(run.generation, v)
        /\ run.expiresAt \in Nat
    BY <1>1, HolderIsGranted, RowTypes
  <1>3. l \in Locals /\ l.pc = "prepare" /\ l.generation = run.generation /\ l.by = v
    BY <1>2 DEF Locals
  <1>4. Goto(r, l) /\ UNCHANGED <<now, run, grants, artifacts, findings, answers>>
    BY DEF BeginPrepare
  <1>. HIDE DEF l
  <1>5. LocalHolds(l)
    BY <1>2, <1>3 DEF LocalHolds
  <1>. QED BY <1>3, <1>4, <1>5, QuietStep

LEMMA FindPreparedStep ==
    ASSUME EvidenceInv, NEW r \in Requests, FindPrepared(r)
    PROVE  EvidenceInv'
  <1>. USE DEF EvidenceInv
  <1>1. CASE ReplayArtifact(r)
    BY <1>1, ReplayArtifactStep DEF FindPrepared
  <1>2. CASE ~ReplayArtifact(r)
    <2>. DEFINE l == [pc |-> "insertArtifact", by |-> req[r].by, key |-> req[r].key,
                      meta |-> req[r].meta, generation |-> req[r].generation,
                      preparedAt |-> now,
                      until |-> Min2(req[r].leaseUntil, now + UploadWindow)]
    <2>1. req[r].pc = "prepare"
      BY DEF FindPrepared
    <2>2. req[r] \in [pc : {"prepare"}, by : Verifiers, key : ArtifactKeys, meta : Metas,
                      generation : 1 .. MaxGeneration, leaseUntil : Nat]
      BY <2>1, RequestTypes, LocalShapes
    <2>3. now \in 0 .. MaxTime /\ now + UploadWindow \in Nat
      BY EvidenceConstants, LeaseConstants DEF TypeOK
    <2>4. Min2(req[r].leaseUntil, now + UploadWindow) \in Nat
      BY <2>2, <2>3 DEF Min2
    <2>5. /\ l \in Locals /\ l.pc = "insertArtifact" /\ l.generation = req[r].generation
          /\ l.by = req[r].by
      BY <2>2, <2>3, <2>4 DEF Locals
    <2>6. Goto(r, l) /\ UNCHANGED <<now, run, grants, artifacts, findings, answers>>
      BY <1>2 DEF FindPrepared
    <2>. HIDE DEF l
    <2>7. LocalHolds(l)
      BY <2>1, <2>5 DEF LocalHolds, LocalsHold
    <2>. QED BY <2>5, <2>6, <2>7, QuietStep
  <1>. QED BY <1>1, <1>2

LEMMA InsertArtifactStep ==
    ASSUME EvidenceInv, NEW r \in Requests, InsertArtifact(r)
    PROVE  EvidenceInv'
  <1>. USE DEF EvidenceInv
  <1>1. CASE ReplayArtifact(r)
    BY <1>1, ReplayArtifactStep DEF InsertArtifact
  <1>2. CASE ~ReplayArtifact(r)
    <2>. SUFFICES ASSUME NEW h, h = req[r]
                  PROVE  EvidenceInv'
      OBVIOUS
    <2>. DEFINE row == [meta |-> h.meta, by |-> h.by, generation |-> h.generation,
                        until |-> h.until, status |-> "prepared", blob |-> Nothing]
    <2>1. h.pc = "insertArtifact"
      BY DEF InsertArtifact
    <2>2. h \in [pc : {"insertArtifact"}, by : Verifiers, key : ArtifactKeys, meta : Metas,
                 generation : 1 .. MaxGeneration, preparedAt : 0 .. MaxTime, until : Nat]
      BY <2>1, RequestTypes, LocalShapes
    <2>3. row \in ArtifactRows
      BY <2>2 DEF ArtifactRows
    <2>4. /\ row.meta = h.meta /\ row.by = h.by /\ row.generation = h.generation
          /\ row.status = "prepared" /\ row.blob = Nothing
      OBVIOUS
    <2>5. /\ artifacts[h.key] = Nothing
          /\ artifacts' = [artifacts EXCEPT ![h.key] = row]
          /\ answers' = answers \union {<<h.key, h.meta>>}
          /\ Finish(r) /\ UNCHANGED <<now, run, grants, findings>>
      BY <1>2 DEF InsertArtifact
    <2>6. h.key \in ArtifactKeys /\ h.meta \in Metas /\ GrantedAs(h.generation, h.by)
      BY <2>1, <2>2 DEF LocalsHold, LocalHolds
    <2>. HIDE DEF row
    <2>7. row # Nothing
      BY <2>3, EvidenceConstants
    <2>8. /\ artifacts'[h.key] = row
          /\ \A k \in ArtifactKeys : k # h.key => artifacts'[k] = artifacts[k]
          /\ artifacts' \in [ArtifactKeys -> ArtifactRows \union {Nothing}]
      BY <2>3, <2>5, <2>6 DEF TypeOK
    <2>9. req' = [req EXCEPT ![r] = Idle]
      BY <2>5 DEF Finish, Goto
    <2>10. TypeOK'
      BY <2>5, <2>6, <2>8, <2>9 DEF TypeOK
    <2>11. Grow
      BY <2>5, <2>8 DEF Grow
    <2>12. ArtifactHolds(h.key)'
      <3>1. GrantedAs(h.generation, h.by)'
        BY <2>6, <2>11, GrantsStay
      <3>. QED BY <2>4, <2>8, <3>1 DEF ArtifactHolds
    <2>13. LocalHolds(Idle)' /\ Idle \in Locals \union {Idle} /\ Idle.pc # "commitFinding"
      BY DEF LocalHolds, Idle
    <2>14. NamesRow(<<h.key, h.meta>>)'
      BY <2>4, <2>6, <2>7, <2>8 DEF NamesRow, Announces
    <2>15. \A k \in ArtifactKeys : artifacts'[k] = artifacts[k] \/ ArtifactHolds(k)'
      BY <2>8, <2>12
    <2>16. \A a \in answers' : a \in answers \/ NamesRow(a)'
      BY <2>5, <2>14
    <2>. HIDE DEF Idle
    <2>. QED BY <2>5, <2>9, <2>10, <2>11, <2>13, <2>15, <2>16, HandlerStep
  <1>. QED BY <1>1, <1>2

LEMMA BeginUploadStep ==
    ASSUME EvidenceInv, NEW r \in Requests, NEW v \in Verifiers, NEW token \in 1 .. run.generation,
           NEW key \in ArtifactKeys, NEW bytes \in Metas, BeginUpload(r, v, token, key, bytes)
    PROVE  EvidenceInv'
  <1>. USE DEF EvidenceInv
  <1>. DEFINE l == [pc |-> "upload", by |-> v, token |-> token, key |-> key, bytes |-> bytes,
                    row |-> artifacts[key]]
  <1>1. artifacts[key] # Nothing /\ artifacts[key] \in ArtifactRows
    BY RowTypes DEF BeginUpload
  <1>2. token \in 1 .. MaxGeneration
    BY RowTypes, LeaseConstants
  <1>3. l \in Locals /\ l.pc = "upload" /\ l.key = key /\ l.row = artifacts[key]
    BY <1>1, <1>2 DEF Locals
  <1>4. Goto(r, l) /\ UNCHANGED <<now, run, grants, artifacts, findings, answers>>
    BY DEF BeginUpload
  <1>. HIDE DEF l
  <1>5. LocalHolds(l)
    BY <1>1, <1>3 DEF LocalHolds, Announces
  <1>. QED BY <1>3, <1>4, <1>5, QuietStep

LEMMA CheckUploadStep ==
    ASSUME EvidenceInv, NEW r \in Requests, CheckUpload(r)
    PROVE  EvidenceInv'
  <1>. USE DEF EvidenceInv
  <1>1. CASE Finish(r)
    BY <1>1, QuietEnd DEF CheckUpload
  <1>2. CASE ~Finish(r)
    <2>. DEFINE l == [pc |-> "storeBlob", key |-> req[r].key, bytes |-> req[r].bytes]
    <2>1. req[r].pc = "upload"
      BY DEF CheckUpload
    <2>2. req[r].key \in ArtifactKeys /\ req[r].bytes \in Metas
      BY <2>1, RequestTypes, LocalShapes
    <2>3. l \in Locals /\ l.pc = "storeBlob" /\ l.key = req[r].key /\ l.bytes = req[r].bytes
      BY <2>2 DEF Locals
    <2>4. /\ Goto(r, l) /\ UNCHANGED <<now, run, grants, artifacts, findings, answers>>
          /\ req[r].bytes = req[r].row.meta
      BY <1>2 DEF CheckUpload
    <2>. HIDE DEF l
    <2>5. LocalHolds(l)
      BY <2>1, <2>3, <2>4 DEF LocalHolds, LocalsHold
    <2>. QED BY <2>3, <2>4, <2>5, QuietStep
  <1>. QED BY <1>1, <1>2

\* A handler ends after it moved an artifact on, under its own key.
LEMMA ArtifactStep ==
    ASSUME EvidenceInv, NEW r \in Requests, NEW key \in ArtifactKeys, NEW row \in ArtifactRows,
           artifacts[key] # Nothing, artifacts' = [artifacts EXCEPT ![key] = row],
           row.meta = artifacts[key].meta, row.by = artifacts[key].by,
           row.generation = artifacts[key].generation, row.blob = row.meta,
           row.status = "completed" \/ artifacts[key].status # "completed",
           Finish(r), UNCHANGED <<now, run, grants, findings, answers>>
    PROVE  EvidenceInv'
  <1>. USE DEF EvidenceInv
  <1>1. row # Nothing
    BY EvidenceConstants
  <1>2. /\ artifacts'[key] = row
        /\ \A k \in ArtifactKeys : k # key => artifacts'[k] = artifacts[k]
        /\ artifacts' \in [ArtifactKeys -> ArtifactRows \union {Nothing}]
    BY DEF TypeOK
  <1>3. req' = [req EXCEPT ![r] = Idle]
    BY DEF Finish, Goto
  <1>4. TypeOK'
    BY <1>2, <1>3 DEF TypeOK
  <1>5. Grow
    BY <1>1, <1>2 DEF Grow
  <1>6. ArtifactHolds(key)'
    <2>1. GrantedAs(row.generation, row.by)
      BY DEF ArtifactHolds
    <2>2. GrantedAs(row.generation, row.by)'
      BY <1>5, <2>1, GrantsStay
    <2>. QED BY <1>2, <2>2 DEF ArtifactHolds
  <1>7. LocalHolds(Idle)' /\ Idle \in Locals \union {Idle} /\ Idle.pc # "commitFinding"
    BY DEF LocalHolds, Idle
  <1>8. \A k \in ArtifactKeys : artifacts'[k] = artifacts[k] \/ ArtifactHolds(k)'
    BY <1>2, <1>6
  <1>. HIDE DEF Idle
  <1>. QED BY <1>3, <1>4, <1>5, <1>7, <1>8, HandlerStep

LEMMA StoreBlobStep ==
    ASSUME EvidenceInv, NEW r \in Requests, StoreBlob(r)
    PROVE  EvidenceInv'
  <1>. USE DEF EvidenceInv
  <1>. DEFINE row == [artifacts[req[r].key] EXCEPT !.blob = req[r].bytes, !.status = "uploaded"]
  <1>1. req[r].pc = "storeBlob"
    BY DEF StoreBlob
  <1>2. req[r].key \in ArtifactKeys /\ req[r].bytes \in Metas
    BY <1>1, RequestTypes, LocalShapes
  <1>3. artifacts[req[r].key] # Nothing /\ artifacts[req[r].key].meta = req[r].bytes
    BY <1>1 DEF LocalsHold, LocalHolds, Announces
  <1>4. artifacts[req[r].key] \in ArtifactRows
    BY <1>2, <1>3, RowTypes
  <1>5. /\ row \in ArtifactRows /\ row.meta = artifacts[req[r].key].meta
        /\ row.by = artifacts[req[r].key].by
        /\ row.generation = artifacts[req[r].key].generation
        /\ row.blob = row.meta /\ row.status = "uploaded"
    BY <1>2, <1>3, <1>4 DEF ArtifactRows
  <1>6. /\ artifacts' = [artifacts EXCEPT ![req[r].key] = row]
        /\ artifacts[req[r].key].status = "prepared"
        /\ Finish(r) /\ UNCHANGED <<now, run, grants, findings, answers>>
    BY DEF StoreBlob
  <1>. HIDE DEF row
  <1>. QED BY <1>2, <1>3, <1>5, <1>6, ArtifactStep

LEMMA BeginCompleteStep ==
    ASSUME EvidenceInv, NEW r \in Requests, NEW v \in Verifiers, NEW token,
           NEW key \in ArtifactKeys, BeginComplete(r, v, token, key)
    PROVE  EvidenceInv'
  <1>. DEFINE l == [pc |-> "complete", by |-> v, key |-> key]
  <1>1. l \in Locals /\ l.pc = "complete"
    BY DEF Locals
  <1>2. Goto(r, l) /\ UNCHANGED <<now, run, grants, artifacts, findings, answers>>
    BY DEF BeginComplete
  <1>. HIDE DEF l
  <1>3. LocalHolds(l)
    BY <1>1 DEF LocalHolds
  <1>. QED BY <1>1, <1>2, <1>3, QuietStep

LEMMA LoadForCompleteStep ==
    ASSUME EvidenceInv, NEW r \in Requests, LoadForComplete(r)
    PROVE  EvidenceInv'
  <1>. USE DEF EvidenceInv
  <1>1. CASE Finish(r)
    BY <1>1, QuietEnd DEF LoadForComplete
  <1>2. CASE ~Finish(r)
    <2>. DEFINE l == [pc |-> "setCompleted", key |-> req[r].key]
    <2>1. req[r].pc = "complete"
      BY DEF LoadForComplete
    <2>2. req[r].key \in ArtifactKeys
      BY <2>1, RequestTypes, LocalShapes
    <2>3. l \in Locals /\ l.pc = "setCompleted" /\ l.key = req[r].key
      BY <2>2 DEF Locals
    <2>4. /\ Goto(r, l) /\ UNCHANGED <<now, run, grants, artifacts, findings, answers>>
          /\ artifacts[req[r].key] # Nothing
          /\ artifacts[req[r].key].blob = artifacts[req[r].key].meta
      BY <1>2 DEF LoadForComplete
    <2>. HIDE DEF l
    <2>5. LocalHolds(l)
      BY <2>3, <2>4 DEF LocalHolds
    <2>. QED BY <2>3, <2>4, <2>5, QuietStep
  <1>. QED BY <1>1, <1>2

LEMMA SetCompletedStep ==
    ASSUME EvidenceInv, NEW r \in Requests, SetCompleted(r)
    PROVE  EvidenceInv'
  <1>. USE DEF EvidenceInv
  <1>. DEFINE row == [artifacts[req[r].key] EXCEPT !.status = "completed"]
  <1>1. req[r].pc = "setCompleted"
    BY DEF SetCompleted
  <1>2. req[r].key \in ArtifactKeys
    BY <1>1, RequestTypes, LocalShapes
  <1>3. /\ artifacts[req[r].key] # Nothing
        /\ artifacts[req[r].key].blob = artifacts[req[r].key].meta
    BY <1>1 DEF LocalsHold, LocalHolds
  <1>4. artifacts[req[r].key] \in ArtifactRows
    BY <1>2, <1>3, RowTypes
  <1>5. /\ row \in ArtifactRows /\ row.meta = artifacts[req[r].key].meta
        /\ row.by = artifacts[req[r].key].by
        /\ row.generation = artifacts[req[r].key].generation
        /\ row.blob = row.meta /\ row.status = "completed"
    BY <1>3, <1>4 DEF ArtifactRows
  <1>6. /\ artifacts' = [artifacts EXCEPT ![req[r].key] = row]
        /\ Finish(r) /\ UNCHANGED <<now, run, grants, findings, answers>>
    BY <1>2, <1>4 DEF SetCompleted, TypeOK
  <1>. HIDE DEF row
  <1>. QED BY <1>2, <1>3, <1>5, <1>6, ArtifactStep

-----------------------------------------------------------------------------
(* The finding handler. *)

LEMMA BeginSubmitStep ==
    ASSUME EvidenceInv, NEW r \in Requests, NEW v \in Verifiers, NEW token,
           NEW key \in FindingKeys, NEW body \in Bodies, BeginSubmit(r, v, token, key, body)
    PROVE  EvidenceInv'
  <1>. USE DEF EvidenceInv
  <1>. DEFINE l == [pc |-> "submit", by |-> v, key |-> key, body |-> body]
  <1>1. run.status \in Leased /\ run.claimant = v
    BY DEF BeginSubmit, HoldsLease, Live
  <1>2. Granted(v)
    BY <1>1, HolderIsGranted
  <1>3. l \in Locals /\ l.pc = "submit" /\ l.by = v
    BY DEF Locals
  <1>4. Goto(r, l) /\ UNCHANGED <<now, run, grants, artifacts, findings, answers>>
    BY DEF BeginSubmit
  <1>. HIDE DEF l
  <1>5. LocalHolds(l)
    BY <1>2, <1>3 DEF LocalHolds
  <1>. QED BY <1>3, <1>4, <1>5, QuietStep

\* The locals of a submission that has passed one more check.
LEMMA FindingLocals ==
    ASSUME TypeOK, NEW r \in Requests, req[r].pc \in {"submit", "insertFinding", "commitFinding"},
           NEW pc \in {"submit", "insertFinding", "commitFinding"},
           NEW l, l = [req[r] EXCEPT !.pc = pc]
    PROVE  /\ l \in Locals /\ l.pc = pc
           /\ l.by = req[r].by /\ l.key = req[r].key /\ l.body = req[r].body
           /\ l.by \in Verifiers /\ l.key \in FindingKeys /\ l.body \in Bodies
  <1>1. req[r] \in [pc : {"submit", "insertFinding", "commitFinding"}, by : Verifiers,
                    key : FindingKeys, body : Bodies]
    BY RequestTypes, LocalShapes
  <1>2. l \in [pc : {"submit", "insertFinding", "commitFinding"}, by : Verifiers,
               key : FindingKeys, body : Bodies]
    BY <1>1
  <1>. QED BY <1>1, <1>2 DEF Locals

LEMMA ValidateFindingStep ==
    ASSUME EvidenceInv, NEW r \in Requests, ValidateFinding(r)
    PROVE  EvidenceInv'
  <1>. USE DEF EvidenceInv
  <1>1. CASE ReplayFinding(r)
    BY <1>1, ReplayFindingStep DEF ValidateFinding
  <1>2. CASE ~ReplayFinding(r)
    <2>. SUFFICES ASSUME NEW l, l = [req[r] EXCEPT !.pc = "insertFinding"]
                  PROVE  EvidenceInv'
      OBVIOUS
    <2>1. req[r].pc = "submit"
      BY DEF ValidateFinding
    <2>2. /\ l \in Locals /\ l.pc = "insertFinding" /\ l.by = req[r].by
          /\ l.body = req[r].body
      BY <2>1, FindingLocals
    <2>3. /\ Goto(r, l) /\ UNCHANGED <<now, run, grants, artifacts, findings, answers>>
          /\ req[r].body.supersedes # Nothing => findings[req[r].body.supersedes] # Nothing
      BY <1>2 DEF ValidateFinding
    <2>4. LocalHolds(l)
      BY <2>1, <2>2, <2>3 DEF LocalHolds, LocalsHold
    <2>. QED BY <2>2, <2>3, <2>4, QuietStep
  <1>. QED BY <1>1, <1>2

\* The unique indexes keep an insert apart from all others.
LEMMA InsertFindingStep ==
    ASSUME EvidenceInv, NEW r \in Requests, InsertFinding(r)
    PROVE  EvidenceInv'
  <1>. USE DEF EvidenceInv
  <1>1. CASE ReplayFinding(r)
    BY <1>1, ReplayFindingStep DEF InsertFinding
  <1>2. CASE ~ReplayFinding(r)
    <2>. SUFFICES ASSUME NEW l, l = [req[r] EXCEPT !.pc = "commitFinding"]
                  PROVE  EvidenceInv'
      OBVIOUS
    <2>1. req[r].pc = "insertFinding"
      BY DEF InsertFinding
    <2>2. /\ l \in Locals /\ l.pc = "commitFinding" /\ l.by = req[r].by
          /\ l.key = req[r].key /\ l.body = req[r].body
      BY <2>1, FindingLocals
    <2>3. /\ Goto(r, l) /\ UNCHANGED <<now, run, grants, artifacts, findings, answers>>
          /\ \A other \in Pending : ~Collides(l.body, l.key, other)
          /\ \A other \in Committed : ~Collides(l.body, l.key, other)
      BY <1>2, <2>2 DEF InsertFinding
    <2>4. LocalHolds(l)
      BY <2>1, <2>2 DEF LocalHolds, LocalsHold
    <2>5. ApartFromCommitted(l.key, l.body)
      <3>. SUFFICES ASSUME NEW f \in FindingKeys, findings[f] # Nothing
                    PROVE  Apart(l.key, l.body, f, findings[f].body)
        BY DEF ApartFromCommitted
      <3>1. [key |-> f, body |-> findings[f].body] \in Committed
        BY DEF Committed
      <3>2. ~Collides(l.body, l.key, [key |-> f, body |-> findings[f].body])
        BY <2>3, <3>1
      <3>. QED BY <3>2 DEF Collides, Apart
    <2>6. ASSUME NEW q \in Requests, req[q].pc = "commitFinding"
          PROVE  Apart(l.key, l.body, req[q].key, req[q].body)
      <3>1. [key |-> req[q].key, body |-> req[q].body] \in Pending
        BY <2>6 DEF Pending
      <3>2. ~Collides(l.body, l.key, [key |-> req[q].key, body |-> req[q].body])
        BY <2>3, <3>1
      <3>. QED BY <3>2 DEF Collides, Apart
    <2>7. answers' \subseteq (ArtifactKeys \X Metas) \union (FindingKeys \X Bodies)
      BY <2>3 DEF TypeOK
    <2>. QED BY <2>2, <2>3, <2>4, <2>5, <2>6, <2>7, LocalStep
  <1>. QED BY <1>1, <1>2

\* A new finding corrects one that was there before, so it closes no chain.
LEMMA CommitFindingStep ==
    ASSUME EvidenceInv, NEW r \in Requests, CommitFinding(r)
    PROVE  EvidenceInv'
  <1>. USE DEF EvidenceInv
  <1>. SUFFICES ASSUME NEW h, h = req[r]
                PROVE  EvidenceInv'
    OBVIOUS
  <1>. DEFINE row == [body |-> h.body, by |-> h.by]
  <1>1. /\ h.pc = "commitFinding" /\ \A key \in h.body.refs : Citable(key)
        /\ findings' = [findings EXCEPT ![h.key] = row]
        /\ answers' = answers \union {<<h.key, h.body>>}
        /\ Finish(r) /\ UNCHANGED <<now, run, grants, artifacts>>
    BY DEF CommitFinding
  <1>2. /\ h.by \in Verifiers /\ h.key \in FindingKeys /\ h.body \in Bodies
        /\ h.body.supersedes \in FindingKeys \union {Nothing}
    BY <1>1, RequestTypes, LocalShapes, BodyTypes
  <1>3. row \in FindingRows /\ row.body = h.body /\ row.by = h.by
    BY <1>2 DEF FindingRows
  <1>. HIDE DEF row
  <1>4. row # Nothing
    BY <1>3, EvidenceConstants
  <1>5. /\ Granted(h.by)
        /\ h.body.supersedes # Nothing => findings[h.body.supersedes] # Nothing
    BY <1>1 DEF LocalsHold, LocalHolds
  <1>6. /\ ApartFromCommitted(h.key, h.body)
        /\ \A q \in Requests : q # r /\ req[q].pc = "commitFinding" =>
              Apart(h.key, h.body, req[q].key, req[q].body)
    BY <1>1 DEF FindingsApart
  <1>7. findings[h.key] = Nothing
    BY <1>2, <1>6 DEF ApartFromCommitted, Apart
  <1>8. /\ findings'[h.key] = row
        /\ \A f \in FindingKeys : f # h.key => findings'[f] = findings[f]
        /\ findings' \in [FindingKeys -> FindingRows \union {Nothing}]
    BY <1>1, <1>2, <1>3 DEF TypeOK
  <1>9. req'[r] = Idle /\ \A q \in Requests : q # r => req'[q] = req[q]
    BY <1>1 DEF Finish, Goto, TypeOK
  <1>10. TypeOK'
    <2>1. req' \in [Requests -> Locals \union {Idle}]
      BY <1>1 DEF Finish, Goto, TypeOK
    <2>. QED BY <1>1, <1>2, <1>8, <2>1 DEF TypeOK
  <1>11. Grow
    BY <1>1, <1>7, <1>8 DEF Grow
  <1>12. GrantsAreKept'
    BY <1>1 DEF GrantsAreKept
  <1>13. \A k \in ArtifactKeys : ArtifactHolds(k)'
    BY <1>1, <1>11, RowsStay
  <1>14. ASSUME NEW f \in FindingKeys
         PROVE  FindingHolds(f)'
    <2>1. CASE f = h.key
      <3>1. Granted(h.by)'
        BY <1>5, <1>11, GrantsStay
      <3>2. \A key \in h.body.refs : Citable(key)'
        BY <1>1 DEF Citable
      <3>3. h.body.supersedes # Nothing => findings'[h.body.supersedes] # Nothing
        BY <1>2, <1>5, <1>7, <1>8
      <3>. QED BY <1>3, <1>8, <2>1, <3>1, <3>2, <3>3 DEF FindingHolds
    <2>2. CASE f # h.key
      BY <1>8, <1>11, <2>2, RowsStay
    <2>. QED BY <2>1, <2>2
  <1>15. LocalsHold'
    <2>. SUFFICES ASSUME NEW q \in Requests, NEW m, m = req'[q]
                  PROVE  LocalHolds(m)'
      BY DEF LocalsHold, LocalHolds, GrantedAs, Granted, Announces
    <2>1. CASE q = r
      BY <1>9, <2>1 DEF Idle, LocalHolds
    <2>2. CASE q # r
      <3>1. m = req[q] /\ m \in Locals \union {Idle}
        BY <1>9, <2>2, RequestTypes
      <3>2. LocalHolds(m)
        BY <3>1 DEF LocalsHold
      <3>. QED BY <1>11, <3>1, <3>2, LocalStays
    <2>. QED BY <2>1, <2>2
  <1>16. FindingsApart'
    <2>1. ASSUME NEW f \in FindingKeys, NEW g \in FindingKeys, f # g, findings'[f] # Nothing,
                 findings'[g] # Nothing
          PROVE  Apart(f, findings'[f].body, g, findings'[g].body)
      <3>1. CASE f = h.key
        BY <1>3, <1>6, <1>8, <2>1, <3>1 DEF ApartFromCommitted
      <3>2. CASE g = h.key
        <4>1. Apart(g, findings'[g].body, f, findings'[f].body)
          BY <1>3, <1>6, <1>8, <2>1, <3>2 DEF ApartFromCommitted
        <4>. QED BY <4>1, ApartIsSymmetric
      <3>3. CASE f # h.key /\ g # h.key
        BY <1>8, <2>1, <3>3 DEF FindingsApart
      <3>. QED BY <3>1, <3>2, <3>3
    <2>2. ASSUME NEW p \in Requests, req'[p].pc = "commitFinding"
          PROVE  /\ \A f \in FindingKeys : findings'[f] # Nothing =>
                       Apart(req'[p].key, req'[p].body, f, findings'[f].body)
                 /\ \A q \in Requests : q # p /\ req'[q].pc = "commitFinding" =>
                       Apart(req'[p].key, req'[p].body, req'[q].key, req'[q].body)
      <3>1. p # r /\ req'[p] = req[p]
        BY <1>9, <2>2 DEF Idle
      <3>2. /\ ApartFromCommitted(req[p].key, req[p].body)
            /\ \A q \in Requests : q # p /\ req[q].pc = "commitFinding" =>
                  Apart(req[p].key, req[p].body, req[q].key, req[q].body)
        BY <2>2, <3>1 DEF FindingsApart
      <3>3. Apart(req[p].key, req[p].body, h.key, h.body)
        BY <1>1, <3>1, <3>2
      <3>4. \A q \in Requests : q # p /\ req'[q].pc = "commitFinding" =>
               Apart(req[p].key, req[p].body, req'[q].key, req'[q].body)
        BY <1>9, <3>2 DEF Idle
      <3>5. \A f \in FindingKeys : findings'[f] # Nothing =>
               Apart(req[p].key, req[p].body, f, findings'[f].body)
        BY <1>3, <1>8, <3>2, <3>3 DEF ApartFromCommitted
      <3>. QED BY <3>1, <3>4, <3>5
    <2>. QED BY <2>1, <2>2 DEF FindingsApart, ApartFromCommitted, Apart
  <1>17. \A a \in answers' : NamesRow(a)'
    <2>1. NamesRow(<<h.key, h.body>>)'
      BY <1>2, <1>3, <1>4, <1>8 DEF NamesRow
    <2>. QED BY <1>1, <1>11, <2>1, AnswerStays
  <1>18. Acyclic'
    <2>. SUFFICES ASSUME NEW chain \in SUBSET Corrections', chain # {}
                  PROVE  \E f \in chain : findings'[f].body.supersedes \notin chain
      BY DEF Acyclic
    <2>1. \A f \in chain : f \in FindingKeys /\ (f # h.key => f \in Corrections)
      BY <1>8 DEF Corrections
    <2>2. CASE chain \subseteq {h.key}
      <3>1. h.body.supersedes # h.key
        BY <1>2, <1>5, <1>7, EvidenceConstants
      <3>. QED BY <1>3, <1>8, <2>2, <3>1
    <2>3. CASE ~(chain \subseteq {h.key})
      <3>1. PICK f \in chain \ {h.key} : findings[f].body.supersedes \notin chain \ {h.key}
        <4>1. chain \ {h.key} \in SUBSET Corrections /\ chain \ {h.key} # {}
          BY <2>1, <2>3
        <4>. QED BY <4>1 DEF Acyclic
      <3>2. findings[f].body.supersedes # Nothing /\ findings[f] # Nothing /\ f \in FindingKeys
        BY <2>1, <3>1 DEF Corrections
      <3>3. findings[findings[f].body.supersedes] # Nothing
        BY <3>2 DEF FindingHolds
      <3>4. findings[f].body.supersedes # h.key
        BY <1>7, <3>3
      <3>. QED BY <1>8, <2>1, <3>1, <3>4
    <2>. QED BY <2>2, <2>3
  <1>. QED BY <1>10, <1>12, <1>13, <1>14, <1>15, <1>16, <1>17, <1>18

-----------------------------------------------------------------------------
(* The environment, and every step. *)

\* A change of generation is a grant; the other changes of the row leave the grant.
LEMMA LeaseMoves ==
    ASSUME TypeOK, GrantsAreKept, LeaseNext
    PROVE  /\ now' \in 0 .. MaxTime
           /\ run' \in [status     : Status,
                        claimant   : Verifiers \union {NoVerifier},
                        generation : 0 .. MaxGeneration,
                        expiresAt  : Nat]
           /\ \/ /\ run'.generation = run.generation /\ run'.claimant = run.claimant
                 /\ run'.status \in Leased => run'.generation # 0
              \/ run'.generation = run.generation + 1 /\ run'.claimant \in Verifiers
  <1>. USE LeaseConstants DEF Status, Open, Leased, Terminal
  <1>0. /\ now \in 0 .. MaxTime
        /\ run \in [status     : Status,
                    claimant   : Verifiers \union {NoVerifier},
                    generation : 0 .. MaxGeneration,
                    expiresAt  : Nat]
        /\ run.status \in Leased => run.generation # 0
    BY DEF TypeOK, GrantsAreKept
  <1>1. CASE Tick
    BY <1>0, <1>1 DEF Tick
  <1>2. ASSUME NEW v \in Verifiers, NEW e \in Expiries, Grant(v, e)
        PROVE  /\ now' \in 0 .. MaxTime
               /\ run' \in [status     : Status,
                            claimant   : Verifiers \union {NoVerifier},
                            generation : 0 .. MaxGeneration,
                            expiresAt  : Nat]
               /\ run'.generation = run.generation + 1 /\ run'.claimant \in Verifiers
    <2>1. e \in Nat
      BY <1>0 DEF Expiries
    <2>2. run.generation + 1 \in 0 .. MaxGeneration
      BY <1>0, <1>2 DEF Grant
    <2>. QED BY <1>0, <1>2, <2>1, <2>2 DEF Grant
  <1>3. ASSUME NEW from, NEW to, Move(from, to), to \in Status,
               to \in Leased => from \subseteq Leased
        PROVE  /\ now' \in 0 .. MaxTime
               /\ run' \in [status     : Status,
                            claimant   : Verifiers \union {NoVerifier},
                            generation : 0 .. MaxGeneration,
                            expiresAt  : Nat]
               /\ run'.generation = run.generation /\ run'.claimant = run.claimant
               /\ run'.status \in Leased => run'.generation # 0
    BY <1>0, <1>3 DEF Move
  <1>4. CASE Start
    BY <1>3, <1>4 DEF Start
  <1>5. CASE Complete
    BY <1>3, <1>5 DEF Complete
  <1>6. CASE Fail
    BY <1>3, <1>6 DEF Fail
  <1>7. CASE Cancel
    BY <1>3, <1>7 DEF Cancel
  <1>. QED BY <1>1, <1>2, <1>4, <1>5, <1>6, <1>7, <1>0 DEF LeaseNext, Tick

LEMMA EnvironmentStep ==
    ASSUME EvidenceInv, Environment
    PROVE  EvidenceInv'
  <1>. USE DEF EvidenceInv
  <1>1. /\ now' \in 0 .. MaxTime
        /\ run' \in [status     : Status,
                     claimant   : Verifiers \union {NoVerifier},
                     generation : 0 .. MaxGeneration,
                     expiresAt  : Nat]
        /\ \/ /\ run'.generation = run.generation /\ run'.claimant = run.claimant
              /\ run'.status \in Leased => run'.generation # 0
           \/ run'.generation = run.generation + 1 /\ run'.claimant \in Verifiers
    BY LeaseMoves DEF Environment
  <1>2. /\ grants' = IF run'.generation = run.generation THEN grants
                     ELSE Append(grants, run'.claimant)
        /\ UNCHANGED <<artifacts, findings, req, answers>>
    BY DEF Environment, evidenceVars
  <1>3. /\ grants \in Seq(Verifiers) /\ Len(grants) = run.generation
        /\ DOMAIN grants = 1 .. run.generation
        /\ run.generation \in Nat
        /\ run.generation # 0 => grants[run.generation] = run.claimant
    BY RowTypes, LenProperties, LeaseConstants DEF TypeOK, GrantsAreKept
  <1>4. /\ grants' \in Seq(Verifiers) /\ GrantsAreKept'
        /\ \A g \in DOMAIN grants : g \in DOMAIN grants' /\ grants'[g] = grants[g]
    <2>1. CASE run'.generation = run.generation
      <3>1. run'.claimant = run.claimant /\ (run'.status \in Leased => run'.generation # 0)
        BY <1>1, <1>3, <2>1
      <3>. QED BY <1>2, <1>3, <2>1, <3>1 DEF GrantsAreKept
    <2>2. CASE run'.generation # run.generation
      <3>1. /\ run'.generation = run.generation + 1 /\ run'.claimant \in Verifiers
            /\ grants' = Append(grants, run'.claimant)
        BY <1>1, <1>2, <2>2
      <3>. DEFINE v == run'.claimant
      <3>2. v \in Verifiers /\ grants' = Append(grants, v)
        BY <3>1
      <3>3. /\ Append(grants, v) \in Seq(Verifiers)
            /\ Len(Append(grants, v)) = run.generation + 1
            /\ Append(grants, v)[run.generation + 1] = v
            /\ \A i \in 1 .. run.generation : Append(grants, v)[i] = grants[i]
        BY <1>3, <3>2, AppendProperties
      <3>4. DOMAIN grants' = 1 .. (run.generation + 1)
        BY <3>2, <3>3, LenProperties
      <3>5. run.generation + 1 # 0
        BY <1>3
      <3>. QED BY <1>3, <3>1, <3>2, <3>3, <3>4, <3>5 DEF GrantsAreKept
    <2>. QED BY <2>1, <2>2
  <1>5. TypeOK'
    BY <1>1, <1>2, <1>4 DEF TypeOK
  <1>6. Grow
    BY <1>2, <1>4 DEF Grow
  <1>7. /\ \A k \in ArtifactKeys : ArtifactHolds(k)'
        /\ \A f \in FindingKeys : FindingHolds(f)'
    BY <1>2, <1>6, RowsStay
  <1>8. LocalsHold'
    <2>. SUFFICES ASSUME NEW q \in Requests, NEW m, m = req'[q]
                  PROVE  LocalHolds(m)'
      BY DEF LocalsHold, LocalHolds, GrantedAs, Granted, Announces
    <2>1. m = req[q] /\ m \in Locals \union {Idle}
      BY <1>2, RequestTypes
    <2>2. LocalHolds(m)
      BY <2>1 DEF LocalsHold
    <2>. QED BY <1>6, <2>1, <2>2, LocalStays
  <1>9. FindingsApart'
    BY <1>2 DEF FindingsApart, ApartFromCommitted
  <1>10. \A a \in answers' : NamesRow(a)'
    BY <1>2, <1>6, AnswerStays
  <1>11. Acyclic'
    BY <1>2, NothingFoundAgain
  <1>. QED BY <1>4, <1>5, <1>7, <1>8, <1>9, <1>10, <1>11

LEMMA EvidenceStep == EvidenceInv /\ [Next]_vars => EvidenceInv'
  <1>. SUFFICES ASSUME EvidenceInv, [Next]_vars
                PROVE  EvidenceInv'
    OBVIOUS
  <1>1. ASSUME NEW r \in Requests, Artifacts(r)
        PROVE  EvidenceInv'
    BY <1>1, PrepareStep, BeginUploadStep, BeginCompleteStep, FindPreparedStep,
       InsertArtifactStep, CheckUploadStep, StoreBlobStep, LoadForCompleteStep, SetCompletedStep
       DEF Artifacts
  <1>2. ASSUME NEW r \in Requests, Submissions(r)
        PROVE  EvidenceInv'
    <2>1. ASSUME NEW v \in Verifiers, NEW token, NEW f \in Findings, BeginSubmit(r, v, token, f[1], f[2])
          PROVE  EvidenceInv'
      <3>1. f[1] \in FindingKeys /\ f[2] \in Bodies
        BY EvidenceConstants
      <3>. QED BY <2>1, <3>1, BeginSubmitStep
    <2>. QED BY <1>2, <2>1, ValidateFindingStep, InsertFindingStep, CommitFindingStep
             DEF Submissions
  <1>3. ASSUME NEW r \in Requests, Abandon(r)
        PROVE  EvidenceInv'
    BY <1>3, QuietEnd DEF Abandon
  <1>4. CASE UNCHANGED vars
    <2>1. UNCHANGED <<now, run, grants, artifacts, findings, req, answers>>
      BY <1>4 DEF vars, evidenceVars
    <2>2. /\ TypeOK' /\ GrantsAreKept' /\ LocalsHold' /\ FindingsApart' /\ Acyclic'
      <3>1. TypeOK' /\ GrantsAreKept'
        BY <2>1 DEF EvidenceInv, TypeOK, GrantsAreKept
      <3>2. LocalsHold'
        BY <2>1 DEF EvidenceInv, LocalsHold, LocalHolds, GrantedAs, Granted, Announces
      <3>3. FindingsApart'
        BY <2>1 DEF EvidenceInv, FindingsApart, ApartFromCommitted
      <3>4. Acyclic'
        BY <2>1, NothingFoundAgain DEF EvidenceInv
      <3>. QED BY <3>1, <3>2, <3>3, <3>4
    <2>3. Grow
      BY <2>1 DEF Grow
    <2>. QED BY <2>1, <2>2, <2>3, RowsStay, AnswerStays DEF EvidenceInv
  <1>. QED BY <1>1, <1>2, <1>3, <1>4, EnvironmentStep DEF Next

LEMMA EvidenceStarts == Init => EvidenceInv
  <1>. SUFFICES ASSUME Init
                PROVE  EvidenceInv
    OBVIOUS
  <1>. USE DEF Init, LeaseInit
  <1>1. <<>> \in Seq(Verifiers) /\ Len(<<>>) = 0
    BY EmptySeq
  <1>2. TypeOK
    BY <1>1, LeaseConstants DEF TypeOK, Status, Open
  <1>3. GrantsAreKept
    BY <1>1 DEF GrantsAreKept, Leased
  <1>4. /\ \A k \in ArtifactKeys : ArtifactHolds(k)
        /\ \A f \in FindingKeys : FindingHolds(f)
    BY DEF ArtifactHolds, FindingHolds
  <1>5. LocalsHold /\ FindingsApart
    BY DEF LocalsHold, LocalHolds, FindingsApart, Idle
  <1>6. Corrections = {}
    BY DEF Corrections
  <1>. QED BY <1>2, <1>3, <1>4, <1>5, <1>6 DEF EvidenceInv, Acyclic

LEMMA EvidenceInvariance == Spec => []EvidenceInv
  <1>. QED BY EvidenceStarts, EvidenceStep, PTL DEF Spec

-----------------------------------------------------------------------------
(* The theorems. *)

\* Whatever prepareVerificationArtifact or submitVerificationFinding answered, at
\* once, on a replay or after losing a race for the unique key, is what is stored.
THEOREM Replies == Spec => []AnswersNameTheRow
  <1>. QED BY EvidenceInvariance, EvidenceInvSuffices, PTL

\* An artifact carries the generation under which its author was granted the run,
\* and a finding an author who once was, though the lease may be lost between the
\* check and the write.
THEOREM Attribution == Spec => []AttributedToGrant
  <1>. QED BY EvidenceInvariance, EvidenceInvSuffices, PTL

\* Stored bytes are those the metadata announced, and what findings cite is
\* completed: the checks of the upload on the row it read earlier, the guards of
\* the blob and of the link table.
THEOREM CitedBytes == Spec => []CitedBytesAreChecked
  <1>. QED BY EvidenceInvariance, EvidenceInvSuffices, PTL

\* Corrections form lines, though findings that correct one another may be in
\* flight at once: the unique index on the superseded finding, and the query that
\* looks it up before the insert.
THEOREM Corrected == Spec => []SupersessionIsLinear
  <1>. QED BY EvidenceInvariance, EvidenceInvSuffices, PTL
=============================================================================
