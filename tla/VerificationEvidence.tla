-------------------------- MODULE VerificationEvidence --------------------------
(***************************************************************************)
(* The evidence a verifier attaches to one verification run:               *)
(* prepareVerificationArtifact, uploadVerificationArtifact,                *)
(* completeVerificationArtifact and submitVerificationFinding of           *)
(* apps/web/src/lib/scientific-verification.ts.                            *)
(*                                                                         *)
(* The run's row moves as RunLease allows; VerificationRun shows that the  *)
(* claim and transition handlers do no more than that.  Here a request     *)
(* checks its caller's lease in one query and writes in a later one, and   *)
(* the lease may be lost in between.                                       *)
(*                                                                         *)
(* Queries of one handler that only establish facts which never change     *)
(* again (an artifact is completed, a finding exists) are one step.  A     *)
(* finding is inserted by one statement and becomes visible when its       *)
(* transaction commits; PostgreSQL's default isolation lets the run change *)
(* in between.  Operators named Broken... are deliberate bugs for the      *)
(* mutation runs.                                                          *)
(***************************************************************************)
EXTENDS RunLease, Sequences, FiniteSets

CONSTANTS
    Requests,       \* request handlers in flight at once
    ArtifactKeys,   \* artifact keys of the run
    Metas,          \* immutable metadata; each fixes the digest of its bytes
    FindingKeys,    \* finding keys of the run
    Findings,       \* the findings clients submit: pairs of a key and a body
    Nothing,        \* no row, no bytes, no superseded finding
    UploadWindow    \* lifetime of an upload negotiation (15 minutes)

\* The content of a finding: the artifacts it cites, the finding it corrects.
Bodies == [refs : SUBSET ArtifactKeys, supersedes : FindingKeys \union {Nothing}]

ArtifactRows == [meta       : Metas,
                 by         : Verifiers,
                 generation : 1 .. MaxGeneration,
                 until      : Nat,
                 status     : {"prepared", "uploaded", "completed"},
                 blob       : Metas \union {Nothing}]

FindingRows == [body : Bodies, by : Verifiers]

\* Nothing is the null of the database: no bytes, no key and no row.
ASSUME EvidenceConstants ==
    /\ UploadWindow \in Nat \ {0}
    /\ Nothing \notin Metas \union FindingKeys \union ArtifactRows \union FindingRows
    /\ Findings \subseteq FindingKeys \X Bodies

VARIABLES
    artifacts,  \* VerificationArtifact rows with their blobs, by key
    findings,   \* committed VerificationFinding rows, by key
    req,        \* local variables of the request handlers
    grants,     \* history: the claimant of each generation
    answers     \* history: what successful responses said

evidenceVars == <<artifacts, findings, req, answers>>
vars == <<now, run, grants, evidenceVars>>

Idle == [pc |-> "idle"]

Init ==
    /\ LeaseInit
    /\ artifacts = [k \in ArtifactKeys |-> Nothing]
    /\ findings = [k \in FindingKeys |-> Nothing]
    /\ req = [r \in Requests |-> Idle]
    /\ grants = <<>>
    /\ answers = {}

\* The clock, and the run as its other handlers move it.
Environment ==
    /\ LeaseNext
    /\ grants' = IF run'.generation = run.generation THEN grants
                 ELSE Append(grants, run'.claimant)
    /\ UNCHANGED evidenceVars

Goto(r, local) == req' = [req EXCEPT ![r] = local]

Finish(r) == Goto(r, Idle)

\* The handler throws, or its process dies; its transaction is rolled back.
Abandon(r) ==
    /\ req[r] # Idle
    /\ Finish(r)
    /\ UNCHANGED <<now, run, grants, artifacts, findings, answers>>

Answer(r, key, value) ==
    /\ answers' = answers \union {<<key, value>>}
    /\ Finish(r)
    /\ UNCHANGED <<now, run, grants, artifacts, findings>>

BrokenHoldsLease(v, token) ==    \* the verifier is not compared
    Live /\ token = run.generation

\* requireVerificationLease; a token is identified with its generation.
HoldsLease(v, token) ==
    /\ Live
    /\ token = run.generation
    /\ run.claimant = v

\* The BEFORE INSERT guard of artifacts and findings.
ActiveClaimant(v) == run.claimant = v /\ run.status \in Leased

Min2(a, b) == IF a < b THEN a ELSE b

-----------------------------------------------------------------------------
(* prepareVerificationArtifact *)

BeginPrepare(r, v, token, key, meta) ==
    /\ req[r] = Idle
    /\ HoldsLease(v, token)
    /\ Goto(r, [pc |-> "prepare", by |-> v, key |-> key, meta |-> meta,
                generation |-> run.generation, leaseUntil |-> run.expiresAt])
    /\ UNCHANGED <<now, run, grants, artifacts, findings, answers>>

\* A row under the key is replayed when its metadata is the same; otherwise
\* the request conflicts (Abandon).
ReplayArtifact(r) ==
    /\ artifacts[req[r].key] # Nothing
    /\ artifacts[req[r].key].meta = req[r].meta
    /\ Answer(r, req[r].key, req[r].meta)

FindPrepared(r) ==
    /\ req[r].pc = "prepare"
    /\ \/ ReplayArtifact(r)
       \/ /\ artifacts[req[r].key] = Nothing
          /\ Goto(r, [pc |-> "insertArtifact", by |-> req[r].by, key |-> req[r].key,
                      meta |-> req[r].meta, generation |-> req[r].generation,
                      preparedAt |-> now,
                      until |-> Min2(req[r].leaseUntil, now + UploadWindow)])
          /\ UNCHANGED <<now, run, grants, artifacts, findings, answers>>

\* One INSERT: the binding guard, the CHECK on the window, then the unique key,
\* whose violation is answered by comparing with the row that won.
InsertArtifact(r) ==
    /\ req[r].pc = "insertArtifact"
    /\ ActiveClaimant(req[r].by)
    /\ req[r].until > req[r].preparedAt
    /\ \/ ReplayArtifact(r)
       \/ /\ artifacts[req[r].key] = Nothing
          /\ artifacts' = [artifacts EXCEPT ![req[r].key] =
                [meta |-> req[r].meta, by |-> req[r].by, generation |-> req[r].generation,
                 until |-> req[r].until, status |-> "prepared", blob |-> Nothing]]
          /\ answers' = answers \union {<<req[r].key, req[r].meta>>}
          /\ Finish(r)
          /\ UNCHANGED <<now, run, grants, findings>>

-----------------------------------------------------------------------------
(* uploadVerificationArtifact *)

BeginUpload(r, v, token, key, bytes) ==
    /\ req[r] = Idle
    /\ artifacts[key] # Nothing
    /\ Goto(r, [pc |-> "upload", by |-> v, token |-> token, key |-> key, bytes |-> bytes,
                row |-> artifacts[key]])
    /\ UNCHANGED <<now, run, grants, artifacts, findings, answers>>

BrokenCheckUpload(r) ==    \* the digest is not compared
    /\ req[r].pc = "upload"
    /\ HoldsLease(req[r].by, req[r].token)
    /\ LET row == req[r].row IN
        /\ row.by = req[r].by
        /\ row.status = "prepared" /\ row.until > now
        /\ Goto(r, [pc |-> "storeBlob", key |-> req[r].key, bytes |-> req[r].bytes])
    /\ UNCHANGED <<now, run, grants, artifacts, findings, answers>>

\* The lease, then everything else on the row read before it.
CheckUpload(r) ==
    /\ req[r].pc = "upload"
    /\ HoldsLease(req[r].by, req[r].token)
    /\ LET row == req[r].row IN
        /\ row.by = req[r].by
        /\ req[r].bytes = row.meta
        /\ \/ row.blob # Nothing /\ Finish(r)
           \/ /\ row.blob = Nothing /\ row.status = "prepared" /\ row.until > now
              /\ Goto(r, [pc |-> "storeBlob", key |-> req[r].key, bytes |-> req[r].bytes])
    /\ UNCHANGED <<now, run, grants, artifacts, findings, answers>>

\* The blob's primary key and the row guard admit the first of two uploads; the
\* other fails with an error no handler maps (Abandon).
StoreBlob(r) ==
    /\ req[r].pc = "storeBlob"
    /\ LET row == artifacts[req[r].key] IN
        /\ row.blob = Nothing /\ row.status = "prepared"
        /\ artifacts' = [artifacts EXCEPT ![req[r].key] =
              [row EXCEPT !.blob = req[r].bytes, !.status = "uploaded"]]
    /\ Finish(r)
    /\ UNCHANGED <<now, run, grants, findings, answers>>

-----------------------------------------------------------------------------
(* completeVerificationArtifact *)

BeginComplete(r, v, token, key) ==
    /\ req[r] = Idle
    /\ HoldsLease(v, token)
    /\ Goto(r, [pc |-> "complete", by |-> v, key |-> key])
    /\ UNCHANGED <<now, run, grants, artifacts, findings, answers>>

LoadForComplete(r) ==
    /\ req[r].pc = "complete"
    /\ artifacts[req[r].key] # Nothing
    /\ LET row == artifacts[req[r].key] IN
        /\ row.by = req[r].by
        /\ \/ row.status = "completed" /\ Finish(r)
           \/ /\ row.status = "uploaded" /\ row.blob = row.meta
              /\ Goto(r, [pc |-> "setCompleted", key |-> req[r].key])
    /\ UNCHANGED <<now, run, grants, artifacts, findings, answers>>

\* The compare-and-set; a request that lost it finds the artifact completed.
SetCompleted(r) ==
    /\ req[r].pc = "setCompleted"
    /\ artifacts' = [artifacts EXCEPT ![req[r].key].status = "completed"]
    /\ Finish(r)
    /\ UNCHANGED <<now, run, grants, findings, answers>>

-----------------------------------------------------------------------------
(* submitVerificationFinding *)

BeginSubmit(r, v, token, key, body) ==
    /\ req[r] = Idle
    /\ HoldsLease(v, token)
    /\ Goto(r, [pc |-> "submit", by |-> v, key |-> key, body |-> body])
    /\ UNCHANGED <<now, run, grants, artifacts, findings, answers>>

BrokenReplayFinding(r) ==    \* any finding under the key counts as a replay
    /\ findings[req[r].key] # Nothing
    /\ Answer(r, req[r].key, req[r].body)

\* What a finding may cite, by the handler and by the guard on the link table.
Citable(key) == artifacts[key] # Nothing /\ artifacts[key].status = "completed"

ReplayFinding(r) ==
    /\ findings[req[r].key] # Nothing
    /\ findings[req[r].key].body = req[r].body
    /\ Answer(r, req[r].key, req[r].body)

ValidateFinding(r) ==
    /\ req[r].pc = "submit"
    /\ \A key \in req[r].body.refs : Citable(key)
    /\ req[r].body.supersedes # Nothing => findings[req[r].body.supersedes] # Nothing
    /\ \/ ReplayFinding(r)
       \/ /\ findings[req[r].key] = Nothing
          /\ Goto(r, [req[r] EXCEPT !.pc = "insertFinding"])
          /\ UNCHANGED <<now, run, grants, artifacts, findings, answers>>

BrokenCollides(body, key, other) == key = other.key

\* Two rows the unique indexes on the key and on the superseded finding refuse.
Collides(body, key, other) ==
    \/ key = other.key
    \/ body.supersedes # Nothing /\ body.supersedes = other.body.supersedes

Committed == {[key |-> k, body |-> findings[k].body] :
                k \in {f \in FindingKeys : findings[f] # Nothing}}

\* An INSERT that collides with one not yet committed waits for it.
Pending == {[key |-> req[q].key, body |-> req[q].body] :
              q \in {p \in Requests : req[p].pc = "commitFinding"}}

InsertFinding(r) ==
    /\ req[r].pc = "insertFinding"
    /\ ActiveClaimant(req[r].by)
    /\ \A other \in Pending : ~Collides(req[r].body, req[r].key, other)
    /\ \/ ReplayFinding(r)
       \/ /\ \A other \in Committed : ~Collides(req[r].body, req[r].key, other)
          /\ Goto(r, [req[r] EXCEPT !.pc = "commitFinding"])
          /\ UNCHANGED <<now, run, grants, artifacts, findings, answers>>

CommitFinding(r) ==
    /\ req[r].pc = "commitFinding"
    /\ \A key \in req[r].body.refs : Citable(key)
    /\ findings' = [findings EXCEPT ![req[r].key] = [body |-> req[r].body, by |-> req[r].by]]
    /\ answers' = answers \union {<<req[r].key, req[r].body>>}
    /\ Finish(r)
    /\ UNCHANGED <<now, run, grants, artifacts>>

-----------------------------------------------------------------------------
Artifacts(r) ==
    \/ \E v \in Verifiers, token \in 1 .. run.generation, key \in ArtifactKeys :
          \/ \E meta \in Metas : BeginPrepare(r, v, token, key, meta)
          \/ \E bytes \in Metas : BeginUpload(r, v, token, key, bytes)
          \/ BeginComplete(r, v, token, key)
    \/ FindPrepared(r)
    \/ InsertArtifact(r)
    \/ CheckUpload(r)
    \/ StoreBlob(r)
    \/ LoadForComplete(r)
    \/ SetCompleted(r)

Submissions(r) ==
    \/ \E v \in Verifiers, token \in 1 .. run.generation, f \in Findings :
          BeginSubmit(r, v, token, f[1], f[2])
    \/ ValidateFinding(r)
    \/ InsertFinding(r)
    \/ CommitFinding(r)

Next ==
    \/ Environment
    \/ \E r \in Requests : Artifacts(r) \/ Submissions(r) \/ Abandon(r)

Spec == Init /\ [][Next]_vars

-----------------------------------------------------------------------------
(* Properties *)

\* The local variables of a handler, by the statement it runs next.
Locals ==
    [pc : {"prepare"}, by : Verifiers, key : ArtifactKeys, meta : Metas,
     generation : 1 .. MaxGeneration, leaseUntil : Nat]
    \union [pc : {"insertArtifact"}, by : Verifiers, key : ArtifactKeys, meta : Metas,
            generation : 1 .. MaxGeneration, preparedAt : 0 .. MaxTime, until : Nat]
    \union [pc : {"upload"}, by : Verifiers, token : 1 .. MaxGeneration, key : ArtifactKeys,
            bytes : Metas, row : ArtifactRows]
    \union [pc : {"storeBlob"}, key : ArtifactKeys, bytes : Metas]
    \union [pc : {"complete"}, by : Verifiers, key : ArtifactKeys]
    \union [pc : {"setCompleted"}, key : ArtifactKeys]
    \union [pc : {"submit", "insertFinding", "commitFinding"}, by : Verifiers,
            key : FindingKeys, body : Bodies]

TypeOK ==
    /\ now \in 0 .. MaxTime
    /\ run \in [status     : Status,
                claimant   : Verifiers \union {NoVerifier},
                generation : 0 .. MaxGeneration,
                expiresAt  : Nat]
    /\ artifacts \in [ArtifactKeys -> ArtifactRows \union {Nothing}]
    /\ findings \in [FindingKeys -> FindingRows \union {Nothing}]
    /\ req \in [Requests -> Locals \union {Idle}]
    /\ grants \in Seq(Verifiers)
    /\ answers \subseteq (ArtifactKeys \X Metas) \union (FindingKeys \X Bodies)

\* docs/scientific-verification.md:69: "Exact canonical replay returns the
\* existing record", reuse with another payload conflicts, "Concurrent identical
\* submissions converge".  Every success a client was ever told, for an artifact
\* or a finding, still is what is stored under that key, in rows of their types.
AnswersNameTheRow ==
    /\ TypeOK
    /\ \A a \in answers :
          \/ a[1] \in ArtifactKeys /\ artifacts[a[1]] # Nothing /\ artifacts[a[1]].meta = a[2]
          \/ a[1] \in FindingKeys /\ findings[a[1]] # Nothing /\ findings[a[1]].body = a[2]

\* The provenance of an artifact names a lease generation, and that generation
\* was granted to the very verifier the artifact is attributed to; a finding is
\* attributed to a verifier that held the run at some time.  Leases may be lost
\* and regained by either party while the requests are in flight.
AttributedToGrant ==
    /\ \A k \in ArtifactKeys : artifacts[k] # Nothing =>
          /\ artifacts[k].generation \in DOMAIN grants
          /\ grants[artifacts[k].generation] = artifacts[k].by
    /\ \A k \in FindingKeys : findings[k] # Nothing =>
          \E g \in DOMAIN grants : grants[g] = findings[k].by

\* docs/scientific-verification.md:43-52: a completed artifact is served for
\* download, so its stored bytes are those its metadata announced, and only
\* completed artifacts are cited.
CitedBytesAreChecked ==
    /\ \A k \in ArtifactKeys :
          artifacts[k] # Nothing => artifacts[k].blob \in {Nothing, artifacts[k].meta}
    /\ \A f \in FindingKeys : findings[f] # Nothing =>
          \A k \in findings[f].body.refs :
             artifacts[k].status = "completed" /\ artifacts[k].blob = artifacts[k].meta

\* "corrections are new findings with explicit same-run supersession": a finding
\* is corrected at most once and never, through others, by itself, so that the
\* corrections of a finding form one line with a latest member.
SupersessionIsLinear ==
    LET Replaced == {f \in FindingKeys : findings[f] # Nothing /\ findings[f].body.supersedes # Nothing}
    IN  /\ \A f, g \in Replaced :
              findings[f].body.supersedes = findings[g].body.supersedes => f = g
        /\ \A chain \in SUBSET Replaced : chain # {} =>
              \E f \in chain : findings[f].body.supersedes \notin chain
===============================================================================
