# ORAtlas: a formal model of the archive's evidence and editorial core

ORAtlas is a web application (Next.js, Prisma, PostgreSQL; SQLite in tests) that publishes
reviews and knowledge nodes from repositories, and records what others find out about
them: editorial decisions, relations between nodes, certifications by outside bodies,
scientific verifications by machine workers, TRUST assessments, replications, challenges,
and syntheses an agent drafts from them.  Every operation is an HTTP request that runs a handful of database
queries.  The hard part is not any one handler but what happens between its queries: other
requests, the clock, a crash, a client that repeats a request because the answer was lost.
These modules model that.

How to run it: `tlc -workers 2 -config X.cfg M` for a configuration X and the module
PROJECT.json names for it; `tlapm M_proofs.tla` for the proofs, M being one of
`VerificationRun`, `JobQueue`, `SynthesisGeneration`, `Records`, `Appraisals`, `EditorialReview`,
`VerificationEvidence` and `Publication`.

## Inventory

All code paths are below `src/apps/web/src/lib/` unless another path is given.

### How the system runs

* A request handler is an async TypeScript function.  Between two awaited queries any
  other handler, in this process or in another one, may run.  There is no in-process
  shared state that matters; PostgreSQL is the only meeting place.
* Two styles of handler exist, and the models follow the code in which style is used where.
  * *Check, then write*: plain reads, decisions on what was read, then one statement or one
    transaction at the default isolation level (read committed).  What protects such a
    handler is its `where` clause (evaluated on the row as it is at the update), the
    `BEFORE INSERT/UPDATE` row guards and CHECKs of
    `src/packages/db/prisma/migrations/`, and unique keys.  Scientific verification and,
    with a Serializable write that does not repeat the reads, certification work this way.
  * *One Serializable transaction with retries*: everything is read and written in one
    transaction that PostgreSQL either runs as if alone or refuses; the handler repeats a
    refused one.  Editorial review, publication and lifecycle, synthesis decisions and graph
    proposals work this way, so an operation there is one action; what such a handler reads
    before its transaction (a capture, a role, a corpus, a lease clock) is a step of its own.
* Clients retry.  An answer may be lost after the commit, so every creation has an
  idempotency key or a natural key and answers a repetition from the stored row.
* Nothing of the application runs in the background.  No scheduler, worker or timer moves a
  row: an expired lease stays `claimed` until somebody claims it again.  The exception is
  the in-process ingestion queue of `packages/github`, which no route of the application
  enqueues to (they inspect a repository within the request).

### Components

| component | state it keeps | operations | what is hard | what makes it correct |
|---|---|---|---|---|
| Scientific verification: leases (`scientific-verification.ts`) | the `VerificationRun` row: status, claimant, lease token, generation, expiry; its lifecycle events | claim, start, complete, fail, cancel | the lease is checked in one query and used in another; leases expire in between | one live lease at a time; legal histories; the log explains the row |
| Scientific verification: evidence | artifacts with blobs, findings, citations | prepare, upload, complete, submit, supersede | retries under one key; evidence arriving after the lease was lost; corrections racing | answers name the stored row; provenance is true; corrections form a line |
| Scientific verification: registry | verifiers, credentials, protocols, run rows by idempotency key | suspend/retire, issue, revoke, retire protocol, create run | read committed transactions that read then update; audits written afterwards | retirement is final; a revocation stays with its first author; audits are true |
| Editorial review (`editorial-lifecycle.ts`, `submission-editorial.ts`) | submissions, assignments, rounds, reports, letters, decision provenance, idempotency keys | assign, recuse, open round, report, decide by letter, decide directly | two endpoints decide the same submission; conflicts of interest arise over a sequence of calls; retries | one decision; override exactly for the involved; acknowledged decisions stand |
| Submission intake (`inspection-captures.ts`, `submission-creation.ts`) | submissions, single-use inspection captures | inspect, submit, resubmit | a capture is read, then consumed in another transaction; revisions race with decisions | a capture makes one submission; every superseded submission has one successor |
| Publication (`submission-publication.ts`, called by acceptance) | reviews, current snapshots, versions | publish | versions pile up under one review | the current snapshot is the newest version's; each version has its own accepted submission |
| Review lifecycle (`review-lifecycle.ts`) | lifecycle events by revision, public state of versions | correct, withdraw, tombstone | retries after a lost answer; corrections race with publication | state follows the ledger; acknowledged events stand |
| Replication marketplace (`replication-marketplace.ts`) | briefs and their triage snapshots | draft, publish, claim, complete, withdraw | the triage is computed before the transaction that stores it | a brief opens on the evidence as it is then, and keeps that snapshot |
| Synthesis generation (`synthesis-generation.ts`, `synthesis-writer.ts`) | request claims with a lease, writer runs, drafts | claim, reclaim, start a run, record its end, store, release | a provider call outlives its lease; a crash between run and draft | no orphaned or doubled run; the draft is the claim's; a retried key is drafted |
| Synthesis decisions and staleness (`synthesis-editorial-decisions.ts`, `synthesis-staleness-*.ts`) | drafts, heads, observations, regeneration proposals | accept, decline, evaluate, decide a proposal | evaluations of an older graph or head are stored late | accepted versions form a line; the open proposal is about the head as observed |
| Node, edge and identity proposals (`node-edge-lifecycle.ts`, `node-identity-lifecycle.ts`) | proposals, edges they share | propose, confirm, reject, supersede | several origins own one edge; roles change | an edge stands while a confirmed proposal backs it; signatures stand |
| Certification (`certification.ts`) | runs, results, lifecycle events, certifiers, credentials, protocols | create, cancel, fail, submit result, supersede, withdraw, revoke | reads outside the Serializable write; losing requests answered from the winner's row | a run ends once; supersession is one-to-one and acyclic; answers are true |
| Challenges (`challenge-commands.ts`, `challenge-ledger.ts`) | challenges, transitions, responses, the active-subject key | file, respond, transition, remove content | lazy adoption of pre-existing rows; cap; moderation at another isolation level | cap and one active challenge per person and subject; the key follows the oldest; ledger explains row; outcomes are disinterested |
| Ingestion job queue (`src/packages/github/src/job-queue.ts`, `ingestion.ts`) | backlog, slot counter, job statuses, waiters, handles | enqueue, start, settle, wait for idle | a worker fails; a wakeup is lost; order across the microtask queue | no slot leaks; FIFO; every job settles; idle answers a drained queue |
| Trust (`trust-provenance.ts`, `trust-adjudication.ts`, `packages/trust`) | verification markers of assessments, designations, adjudications by disagreement hash | verify, designate, adjudicate | what was assessed is decided again between a look, a load and an insert | a badge means an editor of today saw this very decision and edge; an adjudication stands, without conflict of interest |
| Comments (`comments.ts`) | comments on versions | post, reply, remove | the version, its state and the parent are read query by query before the insert | a comment is on a version that was readable and newest; threads are one level deep |
| Claim monitoring (`claim-monitoring.ts`) | citation signals and a proposal per affected version | register, resolve | affected claims are found before the transaction | a resolution stands |
| Execution passports (`execution-passports.ts`) | signed attestations with their verdicts | register, verify again | verdicts are reached outside the transaction that writes them | the verdict shown is the last one, and none was reached on an older one than its predecessor left |
| Federation (`federation.ts`), protocol drift (`protocol-drift.ts`) | notifications, announcements; protocol captures and their proposals | receive, resolve, announce; capture, resolve | delivery any number of times, with equal or other content | one content per identity, for whoever was told; announcements answer accepted requests |
| External publications, exports, extraction, contracts, UI, scripts | little or none | pure functions, inserts under a unique key, I/O | parsing and formatting | outside a state machine |

PROJECT.json lists every component with its status, and under "hazards" what in this code is
hard to test, at its line, with the properties that would catch it going wrong.

How they interact: an accepted submission is published as a review; reviews, nodes and
edges are the subjects of challenges, certifications, verifications and assessments, all of
which refer to a published version that is never updated.  Verification and certification
therefore do not interact with the editorial state machine after publication, which is
why they are separate modules.  Inside scientific verification the evidence handlers read
the row the lease handlers write; `RunLease` is the interface between the two.  Captures,
submissions, versions, lifecycle events and briefs meet in the versions of a review, hence
one module, `Archive`; `Annotations` extends it with what is attached to those versions.
A decision on a graph proposal, or the loss of the role of the editor
who signed an edge, changes what the TRUST assessments of that relation were verified about:
`RelationTrust` extends `GraphProposals` with them.  A stored synthesis draft is the
beginning of its editorial life; the two modules about it meet in that one transaction.

## Modules

### RunLease: what the row promises

The abstract specification: the clock, one row with status, claimant, generation and
expiry, and the ways it may move.  It knows no handlers.  `Grant` replaces a lease only if
none is live; `Start`, `Complete`, `Fail`, `Cancel` move the status and leave the grant alone.

### VerificationRun: claimVerificationRun and transitionVerificationRun, query by query

| code (`scientific-verification.ts`) | model |
|---|---|
| first `findUnique` and its refusals in `claimVerificationRun` | `LoadForClaim`: the time, the lifetime and "was it requested" are kept in `req` |
| `updateMany` with its `where`, row guard, event, one transaction | `CommitClaim` through `Write` and `RowGuard` |
| first read of `transitionVerificationRun` | `LoadForMove` |
| `requireVerificationLease` | `CheckLease` (`HoldsLease`) |
| `verificationFinding.count` | `CountFindings` |
| the conditional update and the event | `CommitMove` |
| a thrown error, a dead process | `Abandon` |
| `submitVerificationFinding`, the row it leaves | `RecordFinding` |

The lease token is a random secret, compared by hash.  Each claim installs a new one and
raises the generation, so a token is identified with the generation it belongs to; a
request may present any token issued so far, or none.  The application's clock and the
database's are one clock, as in the deployment the repository describes.

### VerificationEvidence: artifacts and findings

Uses `RunLease` as its environment, which `VerificationRun` is shown to implement; so the
lease may expire, change hands or end between any two queries of an evidence handler.
Metadata stands for everything immutable of an artifact, including the digest of its
bytes; uploading bytes is presenting some metadata's bytes.  A finding is inserted
(`InsertFinding`, which waits for a colliding uncommitted row as PostgreSQL does) and
becomes visible at its commit (`CommitFinding`).
The guard of the insert compares claimant and status but not the expiry, in the code as in
the model: evidence may be written, or become visible, after the lease it was checked under
has run out.

### VerificationRegistry: the editor's side

`setVerifierStatus` is a read and an unconditional update (`ReadVerifier`, `SetStatus`);
revocation is a read, a guarded update and an audit in a transaction of its own
(`BeginRevoke`, `Revoke`, `AuditRevocation`); `createVerificationRun` is a lookup, a
protocol check and an insert under a unique key (`FindRun`, `CheckProtocol`, `InsertRun`).

### EditorialReview: two ways to decide

One action per operation, because each is one Serializable transaction.  A decision
request is its actor, its outcome, whether it exercises the administrator's override, and
a note, which stands for everything else its operation hash binds.  `DecideDirectly` is
`acceptSubmission` and `decideSubmission`; `IssueDecision` is the letter of a round.  Both
go through `CanDecide` and `Move`, as both call the same code.

### CertificationRun: runs, results, lifecycle events

Reads (`FindRun`, `BeginEnd`, `BeginResult`, `CheckPrior`, `BeginLifecycle`) and writes
(`InsertRun`, `End`, `InsertResult`, `InsertEvent`) are separate steps.  The writes carry
the unique keys and the row guards, and answer a lost race from the row that won.  A run is
created with a subject (publication version and protocol) and a mode (assessment mode and
external reference).  A replay of the creation compares both (`assertRunReplay`); a result may
replace another of the same subject whatever the modes (`MayReplace`), which the binding
trigger of the database requires again (`BindingGuard`).

### Challenges: filing, answering, closing, and removing texts

One subject; the cap and the active key are per subject.  `File`, `Respond`, `Close` and
`List` are Serializable transactions, hence one action each, and all but `File` contain the
repair of the active key (`Reconcile`); `File` finds no active row to repair, or is refused
and rolled back.  Init has challenges from before the key existed, which may be duplicates.
Removing the text of a challenge or response runs at the default isolation level and
repairs the keys on its way, so it is four steps: `Load`, `PickWinner` (the read), `Update`
(the updates, uncommitted: the rows are `Locked`) and `Remove` (the guarded update of the
content and the commit).  A transaction that would change a locked row is not possible
before the commit; in the code it waits and is then refused.  That the subject still hashes
to what was filed is taken as given: versions, claims and relations are not updated after
publication.

### Archive: from an inspection capture to the evidence of a brief

| code | model |
|---|---|
| `createInspectionCapture`, its expiry, `assertCaptureUsable` | `CreateInspectionCapture`, `ExpireCapture`, `Usable` |
| `createSubmission`: the capture's lookup, then the transaction that consumes it | `BeginSubmission`, `PersistSubmission` |
| acceptance with `materializeReviewPublication` | `MaterializeReviewPublication` |
| `recordReviewLifecycleEvent`: replay of a stored revision, or a new event | `Replay`, `Record` |
| `createReplicationBriefDraft`, `transitionReplicationBrief` and the corpus they read before | `BeginDraft`, `RegisterDraft`, `BeginPublish`, `PublishBrief`, `ClaimBrief`, `CompleteBrief`, `WithdrawBrief` |

When a submission is accepted is `EditorialReview`'s business; here it is at any time.  A
version's claims never change, so one claim stands for those of a version and the newest
readable version of each review for the corpus; the triage snapshot of a brief is the corpus
it was computed from, in place of its hash.

### Annotations: what is attached to the versions of Archive

| code | model |
|---|---|
| `createReviewComment`: the review, its newest version, the parent, then lock, compare and insert | `LoadReview`, `LoadVersion`, `LoadParent`, `Post` (`SameEpoch`) |
| `removeReviewComment` | `RemoveComment` |
| `registerCitationStatus`: the affected claims, then the transaction | `FindAffected`, `RegisterCitationStatus` |
| `registerExecutionPassport`; `reverifyExecutionPassport`: the row, the checks, the conditional update | `BeginPassport`, `RegisterExecutionPassport`; `LoadPassport`, `CheckPassport`, `WriteVerdict` |
| `receiveFederationNotification`, `prepareVersionReviewAnnouncement` | `LookUpActivity`, `ReceiveFederationNotification`; `BeginAnnouncement`, `PrepareAnnouncement` |
| `registerProtocolSnapshot` | `LookUpSnapshot`, `RegisterProtocolSnapshot` |
| `resolveProposal`, `resolveFederationNotification`, `resolveProtocolProposal` | one action each, by `Open`, the status the update repeats |

A version stands for its claims, a payload for its hash; two publications may show one commit
under two selections (`Unpublished`), as `docs/data-model.md` describes.  From the lock of a comment's
review to the end of its transaction nothing can move what it compares, so lock, comparison
and insert are one action.  A verification of a passport has any outcome, since the trust
policy may be rotated.  `receipts` and `resolutions` are history variables: what was told.

### MCArchive: sides

The five kinds of annotations share nothing but the versions.  In `MCArchive` a variable
`side`, chosen in the initial state, says whether the archive moves alone or one kind of
annotation moves beside publications and the lifecycle; then submissions wait for their
publication from the start: two commits of one repository, one commit under two selections, or
one commit and selection twice, of which only the first can be published.  On one more side
the challenges move alone; of publications they see only that theirs becomes unreadable
(`Tombstone`), which may be at any time.

### SynthesisGeneration: generateSynthesisDraft, query by query

`FindDraft` is the lookup before everything else; `CreateClaim`, `MeetClaim` and `Reclaim` are
the outcomes of the claim transaction; `Start` creates and binds the writer run; `Succeed` and
`ProviderFails` are the recorder's updates after the provider call, `CheckBinding` the read
after it; `Persist`, `PersistFails` and `Reread` store the draft; `Cleanup` and `Release` are the
catch block.  A run is named by its key and the attempt that started it.  A lease is live or
not; a handler judges it by the clock it read first, so one that saw an attempt expired still
takes that attempt for expired, and one that read the clock before the expiry may judge either
way (`Lease`).  `Crash`, `LoadFails`, `ProviderFails`, `PersistFails` and the expiry of a lease
whose owner is still calling the provider are faults, bounded by `MaxFaults`.

### SynthesisSeries: what becomes of a draft

`StoreDraft`, `Accept`, `Decline` and `Decide` are Serializable transactions.  An evaluation
reads the head and loads the packet (`BeginEvaluation`), loads it a second time and compares
(`Repeat`, or `LoadFails`), and stores what it found if the head is still the one it evaluated
(`StoreEvaluation`).  A packet is what a selector shows of the graph, so `GraphChanges` stands
for everything the rest of the system does to it, in both directions: a state may come back.

### GraphProposals: decisions on edges and same-claim proposals

`decideNodeEdgeProposal` and `decideNodeIdentityProposal` read the role of the editor
(`RequireCurrentEditor`), then run one Serializable transaction (`Decide`, with `Repeat` for the
same decision sent again and `Apply` for a new one).  Several origins may propose one edge:
it is created by the first confirmation (`ConfirmEdge`, `Reusable`), signed again only where
nobody of authority had signed it, and superseded with the last confirmation that stood behind
it (`SupersedeEdge`).  Init has edges from before editorial confirmation existed.  `ChangeRole`
is done elsewhere and is limited to `Movers`.

### RelationTrust: what an assessment of such a relation is worth

Extends `GraphProposals` with the assessments of one proposed relation.  `Subject` is what
`packages/trust` hashes of it, a hash standing for what it is computed from; `Verified` is the
state a reader is shown.  A request sends the hash and revision it was shown (`Look`).  Verifying
is a read with its checks and a conditional update (`LoadAssessment`, `Mark`);
adjudicating is a load with the rules of authority, recusal and override, and an insert under
the unique disagreement hash or the comparison with the row that is there
(`LoadDisagreement`, `Adjudicate`).  `Designate` grants or revokes the role of adjudicator.

### MCRecords: one run for what editors record

`VerificationRegistry`, `GraphProposals` and `RelationTrust` on one instance.  A variable `side`,
chosen in the initial state, says which of them moves.  This loses no behaviour a property could
see: the registry shares no row with the graph, verifying an assessment and adjudicating a
disagreement change nothing of each other, and both see graph decisions move (of the
origins that concern them, at one desk) as the side `graph` does with all of them.

### JobQueue: the in-process queue

| code (`packages/github/src`) | model |
|---|---|
| `enqueue` with its `pump`, and the handle `ingestion.ts` makes | `Enqueue` |
| `runJob` after its first await | `CallWorker`; `deferred` is the part of the microtask queue that matters |
| the rest of `runJob`: outcome, slot, `pump`, `notifyIfIdle` | `Settle` |
| `idle` | `Idle` |
| the reaction that updates the handle | `Report` |

Between two steps anything else may run, as between two turns of the event loop.

### Conventions

`req[r]` holds what the handler in slot r has in its local variables.  `answers` is a
history variable: what successful responses told clients; no action reads it.  Operators
named `Broken...` are deliberate bugs that no specification uses: each stands in for
the definition after it in a mutation run, which must then violate a property.  The
MC modules only add symmetry sets and values a cfg cannot write.

## What the runs check

Each property is stated in words above its definition, with the sentence of the
documentation it comes from where there is one.

| run | bounds | shows |
|---|---|---|
| verification_run | 2 verifiers, 2 handlers in flight, leases of 1 or 2, clock to 3, 2 grants, 1 finding counted | `EventsExplainRow`, `LegalHistory`, `CompletedHasFinding`, `ClaimsComeFirst`, and that the handlers implement `RunLease` (`ImplementsLease`) |
| verification_run_fencing | the same | *violation*: a worker that lost its lease still moves the run |
| verification_evidence | 1 artifact key, 3 finding keys, 2 metadata, 2 verifiers, 2 requests, 2 grants, clock to 2 | `AnswersNameTheRow`, `AttributedToGrant`, `CitedBytesAreChecked`, `SupersessionIsLinear` while the lease changes hands |
| editors_records | registry: 3 requests of 2 editors, 1 verifier, credential, protocol and key; graph: 3 proposals of one edge (two for one target version, one for another) and a same-claim one, 2 deciders, one of whom loses and regains the role, 2 desks; trust: 1 assessment, 2 requests in flight, 2 outcomes | `RecordsAreAccounted`, `FirstRevocationStands` (registry); `EdgesAreBacked`, `DecisionsAreOwned`, `SignaturesStand` (graph); `BadgesAreEarned`, `AdjudicationsStand` (trust) |
| verification_registry_retired | the registry of the above | *violation*: a retired verifier becomes active again |
| editorial_review | 2 submissions, a user, an editor, an administrator, 2 notes, 1 round each | `RoundsAreSound`, `DecisionsAreFinal`, `InvolvementIsOverridden`, `RevisionsAreLinear` |
| archive | 2 reviews, 3 captures (two of one repository; in discussions also two of one commit), 1 actor, 1 brief, 2 handlers, 2 lifecycle events; with annotations: 2 submissions to publish, 1 lifecycle event, 3 comments, 2 signals, 3 verdicts of 1 passport, 2 contents of 1 notification and 1 protocol version, 2 editors; challenges: 2 old and 1 new, 4 people (a contributor, an editor who filed, one who assessed, an administrator), cap of 2, 1 removal in flight | `VersionsAreAccounted`, `LedgerExplainsState`, `BriefsOpenOnCurrentEvidence`; `AnnotationsStand`, `CommentsWereOpen`; `FilingsAreSound` (cap, no duplicate filing, keys with the oldest), `LedgerExplainsRow`, `OutcomeIsDisinterested` |
| comments_newest | the same | *violation*: a comment lands on a version that is no longer the newest |
| certification | 3 runs, 2 requests, 2 subjects, 2 modes, at most 2 different inputs at once, 2 reasons, 2 withdrawals or revocations | `EndsAreSound` (a run ends once and every answer is stored), `SupersessionIsSound` (a result is replaced once, by one of its subject, in the same mode or another; chains of replacements end) |
| synthesis_generation | 1 key, 2 selectors, 2 handlers, 4 faults | `RunsAndDraftsAgree`, `AnswersMatchSelector`, and that a key that is asked for is drafted (`RetriesAreDrafted`) |
| synthesis_series | 1 series, 2 drafts, 2 packets, 2 evaluations, 2 changes | `LineIsSound`, `ProposalsFollowTheHead`, and that the observation of the head catches up (`ObservationCatchesUp`) |
| job_queue | 4 jobs, 2 slots, 2 callers of idle | `SlotsAreUsed`, `StartsInOrder`, `IdleMeansDrained`, and that every job settles, every waiter resumes and every handle catches up (`QueueDrains`) |

Several properties are conjunctions, and the names of the parts are used below: the type
invariant is part of one property of each module, `RecordsAreAccounted` contains
`AuditedMeansRevoked` and `RunAnswersNameTheRow`; `DecisionsAreFinal` contains `OneDecision` and
`AcknowledgedDecisionStands`; `RoundsAreSound` contains `OpenRoundIsPending` and
`ChairWasAssigned`; `FilingsAreSound` contains `CapHolds`, `NoDuplicateFiling` and
`KeyOwnerIsOldest`; `LedgerExplainsState` contains `AcknowledgedEventsStand`;
`VersionsAreAccounted` contains `CurrentIsNewest` and `CapturesAreSpentOnce`; `QueueDrains`
contains `EveryJobSettles` and `EveryWaiterResolved`; `AnnotationsStand` contains
`ResolutionsStand`, `ReceiptsAgree`, `VerdictsAreConsecutive` and `AnnouncementsAnswer`.

Why these bounds are enough to meet the cases: two handlers are what a race needs, three
where a third party has to slip between two others (a revoker between a reader and a
writer).  Two grants let a lease be lost and regained, and with a clock to 3 a grant can be
written after it has expired.  Three findings or results make a chain and could make a
cycle.  Two submissions make a revision and its predecessor.  Two captures of one repository
make a version that replaces another, which a correction needs, and the capture of the other
repository a corpus of two reviews; two lifecycle events let the second
meet what the first left.  Three comments make a reply to a reply.  Three verdicts let one
that was reached on the first revision meet two later ones; two contents of one notification
tell a redelivery from another message.  Three proposals of one edge, two of which agree
on its target, give confirmations that share the edge and one that must not.  Two old
challenges of one person are the duplicates that key ownership moves between, the cap of two
is reached, and a third is filed once one closes.  A contributor, an assessor and a filer
each are involved in a way of their own.  Who responds is a contributor, and the contributors
are a constant, so the responder adds nobody to the involved, here and in the theorem; in the
code, which finds contributors by login, somebody who responded and then took another login
would be involved as responder only, a case left out.  Two inputs that differ in the subject, the
mode or both show what a third could.  Four faults are a crash, an expired lease
and a failed call of one handler with one more for the other, and leave an attempt for the
retry that must succeed.  Two packets let the graph change and change back while two
evaluations are under way.  Four jobs on two slots leave a backlog of two and let a
freed slot be taken twice.  Two notes, or two reasons, tell a repeated request from
another one.  The bounds are the constants `MaxTime`, `MaxGeneration`, `MaxFindings`,
`UploadWindow`, `MaxRounds`, `MaxEvents`, `MaxComments`, `MaxSignals`, `MaxVerdicts`, `MaxChallenges`, `MaxFaults`, `MaxDrafts`,
`MaxChanges`, `MaxAnswers`, `MaxJobs` and the sizes of the sets; each is a guard of an
action or the range of a quantifier.  `MaxAnswers` bounds the requests
acknowledged or in flight in `RelationTrust`; `FewRetractions` and `FewInputs` are bounds of
`MCCertification`, `OutsidersFile` of the challenges in `MCArchive`.

CHECK_DEADLOCK is FALSE where a run of the system legitimately comes to rest: all rows
terminal, all bounds reached, nothing in flight.

PROJECT.json pairs every property of every passing run with a mutant, some conjunctions with
several: a bug like one the code could have (a dropped guard, a comparison with the wrong field, an audit written first) under
which the property fails.

### Fairness

`JobQueue` assumes weak fairness of `CallWorker`, of each `Report` and of each job's `Settle`.
The event loop runs every ready microtask, which is the first two.  Workers settle because
`inspectRepository` bounds each request by a timeout (`transport.ts`); with which outcome is
left open.  Nobody is obliged to enqueue or to wait.  `EveryWaiterResolved` is true in the
model because jobs are finitely many: a caller that keeps the queue busy for ever keeps those
who wait for `idle()` waiting.

`SynthesisGeneration` assumes weak fairness of each handler's next query, which includes a
successful end of its provider call, and of the expiry of a lease whose owner is gone.  A
process that has not died goes on, and a lease is a deadline in time.  Crashes, failing calls and
failing transactions are not excluded by this, only finite in number, by `MaxFaults`.
Nobody is obliged to ask: `RetriesAreDrafted` says what happens to a key that is asked for again
and again, as the document promises an exact retry.

`SynthesisSeries` assumes that an evaluation which has begun ends.  The graph changes finitely
often (`MaxChanges`), scans are obliged to nothing, and `ObservationCatchesUp` is again
conditional on a scan of the head that is begun again and again.

No other specification assumes fairness, and no liveness is stated for the others.  The
code justifies none: requests come from clients that may never return, a handler may die,
no background job expires leases, closes rounds or retries deliveries.  What the documents
promise is what must not happen, and that is safety.  In two places something can become stuck
for good, by design as far as the code shows, and no property excludes it: an artifact key
whose verifier lost the run, or whose upload window closed, can be used by nobody
(`scientific-verification.ts:1023`); and an open challenge can only be answered, and only by a
contributor of record (`challenge-commands.ts:582-583`): before that it can be neither withdrawn,
resolved nor dismissed (`src/packages/contracts/src/challenges.ts:204`).

### Findings

Three runs show the code doing what a document, or a comment of the code itself, excludes.
Each is quoted in PROJECT.json "findings".

1. `scientific-verification.ts:854`: the conditional update of a transition repeats only the
   status.  A worker whose lease was checked before it expired and was reclaimed moves the
   run afterwards, and the event is attributed to it.  The row guard does not compare
   claimants.  `VerificationRun!ClaimsComeFirst` bounds the damage: it was a former
   claimant.
2. `scientific-verification.ts:120`: `setVerifierStatus` can lose an update and reactivate a
   retired verifier.
3. `comments.ts:332`: a comment locks and compares the revision of the review's lifecycle and its
   current snapshot.  A publication advances neither, if it shows the same commit under another
   selection, so the comment may land on a version that is no longer the newest, although its
   comment says such a publication is noticed.  `CommentsWereOpen` shows that this is the only case.

Seen while modelling, and not pursued with a run of their own:

* `editorial-lifecycle.ts:157`: a user who filed a formal report can be assigned as editor
  afterwards; the rule is enforced in one direction only.  The model contains this history;
  the decision itself is still protected (`InvolvementIsOverridden`).
* `challenge-ledger.ts:247`: a removal at read committed repairs the active keys from the
  winner it has read.  If that challenge is closed and another filed before the update, the
  new one loses its key while it is open.  The model contains this history; duplicates are
  still refused, by the lookup of the Serializable filing (`NoDuplicateFiling`), and
  the next list or transition restores the key.
* `certification.ts:338`: the revocation of a certifier's credential is a read and an
  unguarded update, so of two concurrent revocations the later names itself as revoker.
  `revokeVerifierCredential` is written alike, but its table has a row guard that freezes the
  first revocation (`CredentialGuard`, `FirstRevocationStands`).  The certifier's side is not modelled.
* `certification.ts:662`: a result may supersede one of another assessment mode, a human
  assessment an automated one for instance, as long as publication version, certifier and
  protocol agree; the error message, "same subject, certifier, and protocol", asks for no more.
  The model contains it (`MayReplace`).
* `trust-adjudication.ts`: who counts as involved in a claim-citation disagreement includes
  those who challenged the claim, a set that may grow between the load and the insert.  Not
  modelled: the relation modelled here has a fixed set.

## What is proved

`VerificationRun_proofs` proves, for any verifiers, request slots, lifetimes and bounds,
from the named assumption `RunConstants` only:

* `Typing`: Spec => []TypeOK, the typing half of `EventsExplainRow`; the other half is
  `LogMatchesRow`, which is what the induction needs.
* `LogExplainsRow`, `HistoryIsLegal`, `CompletionRests`, `WorkWasClaimed`: the safety
  invariants `EventsExplainRow`, `LegalHistory`, `CompletedHasFinding` and
  `ClaimsComeFirst`.
* `LeaseRefinement`: Spec => `Lease!LeaseSpec`; the handlers implement the abstract lease.

None of the four invariants is inductive by itself, because what a handler will write is
decided by what it read earlier.  The inductive invariant is

    IInv == TypeOK /\ Len(events) > 0 /\ Safety /\ LeasedHasClaimant /\ HandlerInv

`HandlerInv` says what a handler in flight may rely on although it is looking at an old
row: a worker past its lease check is among the verifiers that claimed the run (claims are
only ever added to the log), and a completion past its count has a finding (findings are
only ever added).  `LeasedHasClaimant` rules out a leased row nobody claimed, which
the lease check needs.  Every write of a handler goes through `Write`, so one lemma
(`WriteStep`) shows that a write which the row guard admits and whose event fits the new
row preserves the invariant, and each action discharges that lemma's hypotheses;
`OtherSteps` covers the steps that leave row and log alone.  The refinement uses the
invariant for one thing: a claim's expiry is counted from a time in the past, between 0
and now, so it is one of the `Expiries` of `RunLease!Grant`.

`JobQueue_proofs` proves, for any number of jobs, waiters and slots, from the assumption
`QueueConstants` only: `QueueTyped` (`TypeOK`), `SlotsNeverLeak` (`SlotsAreUsed`),
`StartsStayInOrder` (`StartsInOrder`) and `IdleIsDrained` (`IdleMeansDrained`).  The inductive
invariant is

    QueueInv == TypeOK /\ Positions /\ Stages /\ SlotsMatchJobs

Jobs are numbered in the order of enqueue, so the three queues partition the numbers:
`Positions` says that `called`, `deferred` and `pending` hold consecutive ones, element by
element, and `Stages` that a job's status is the one of the queue it is in.  That turns the
statement about a concatenation of sequences into one about indices, which the SMT solver
handles; the concatenation is put together once, in `StartsStayInOrder`.  The slot counter
needs cardinalities of the set of running jobs before and after a step: the lemmas about
`RunningJobs` count what `Pump` adds and what `Settle` removes.  `IdleIsDrained` follows
because a drained backlog with no running job leaves no stage for a queued or running one.

`SlotsMatchJobs` is `SlotsAreUsed` without the types, which `QueueInv` has already.

The other six modules follow one scheme.  A handler decides on what it read some steps ago,
so no property of theirs is inductive before it is said what each handler, by its program
counter and locals, may still rely on.  These facts are *stable*: they are about rows that only
grow, or about values nobody else can obtain, so that any step of anybody keeps them.  Each
module therefore proves once that rows grow and that a local fact stays under growth, then follows a
step only where it acts, and frames the rest.  The assumptions are the named ones of the
models' constants.  They say that bounds are naturals, that there is a first packet for
`SynthesisSeries` to start from, that sets are included where the code
takes one from the other, and that the value for "no row" or "no value" is none of the rows
or values it stands beside, as the null of the database is not.  TLC evaluates them in every run.

| module | theorems (of the property) | inductive invariant |
|---|---|---|
| `SynthesisGeneration_proofs` | `RunsAndDrafts` (`RunsAndDraftsAgree`), `Answers` (`AnswersMatchSelector`) | `IInv` |
| `Records_proofs`, registry | `RegistryIsAccounted` (`RecordsAreAccounted`), `FirstRevocation` (`FirstRevocationStands`) | `RegistryInv` |
| `Records_proofs`, graph | `EdgesBacked` (`EdgesAreBacked`), `DecisionsOwned` (`DecisionsAreOwned`), `Signatures` (`SignaturesStand`) | `GraphInv` |
| `Records_proofs`, trust | `Badges` (`BadgesAreEarned`), `Adjudications` (`AdjudicationsStand`) | `TrustInv` |
| `Appraisals_proofs`, certification | `RunEnds` (`EndsAreSound`), `Supersession` (`SupersessionIsSound`) | `CertificationInv` |
| `Appraisals_proofs`, challenges | `Filings` (`FilingsAreSound`), `Ledgers` (`LedgerExplainsRow`), `Outcome` (`OutcomeIsDisinterested`) | `ChallengeInv` |
| `EditorialReview_proofs` | `Rounds` (`RoundsAreSound`), `Finality` (`DecisionsAreFinal`), `Involvement` (`InvolvementIsOverridden`), `Revisions` (`RevisionsAreLinear`) | `ReviewInv` |
| `VerificationEvidence_proofs` | `Replies` (`AnswersNameTheRow`), `Attribution` (`AttributedToGrant`), `CitedBytes` (`CitedBytesAreChecked`), `Corrected` (`SupersessionIsLinear`) | `EvidenceInv` |
| `Publication_proofs`, series | `SeriesLine` (`LineIsSound`), `Proposals` (`ProposalsFollowTheHead`) | `SeriesInv` |
| `Publication_proofs`, archive and annotations | `Versions` (`VersionsAreAccounted`), `Ledger` (`LedgerExplainsState`), `BriefsOpen` (`BriefsOpenOnCurrentEvidence`), `Attached` (`AnnotationsStand`), `Comments` (`CommentsWereOpen`) | `AnnotationsInv` |

What each invariant adds, and why:

* **Synthesis generation.**  A claim may be taken over while its handler waits for the provider.
  What the handler still has is its token: no two handlers were granted the same one
  (`HoldersDiffer`), and while the row's attempt is the handler's own, the row is as the
  handler left it (`HoldersAreCurrent`).  That a draft belongs to a succeeded run also needs that
  attempts stay within the bound of the model, whose array of runs they index: an attempt
  that can be taken over has cost a fault (`AttemptsCostFaults`).
* **Registry.**  A revoker past its read knows that the credential exists, one past its
  update that it is revoked (`RevokersAreCurrent`).
* **Graph.**  That an edge lives as long as some confirmed proposal stands behind it rests on the
  column the code counts by: every confirmed proposal of an edge is marked as confirming
  (`OriginsAreMarked`), and a signed edge names its target (`SignedHaveTargets`).
* **Trust.**  The marker of an assessment is the review of its present revision
  (`MarkersAreReviews`), so the compared revision protects what was seen; a request's hash stands for
  what was seen (`Hashed`), and a disagreement has one record (`RecordsAreUnique`).
* **Certification.**  What a handler checked in its first transaction holds in its
  second because a run keeps its subject, an ended run its end, and results are never changed
  (`Grows`).  A new result is not the prior of any other, so chains of replacements stay
  finite (`ChainsEnd`); this is proved without induction, from the last member of the old chain.
* **Challenges.**  The repair of the active key uses a winner that was read earlier: it is still
  the oldest active row of its challenger unless it was closed (`RemovalsAreCurrent`), because rows
  are only appended and a closed one never becomes active again.  The count of active
  rows under the cap is a lemma about cardinalities (`AgingStep`).
* **Editorial review.**  The four properties need each other.  `SubmissionInv` says all of one
  submission: decided at most once, its letter's round closed, its parties unchanged since the
  decision because reports are only written in open rounds.  It also shows that a
  submission never has more than one round, so `MaxRounds` = 1 in the run loses nothing.
* **Evidence.**  Grants are a history (`GrantsAreKept`), so attribution survives the loss of a lease;
  findings, committed or about to be, correct different findings (`FindingsApart`), which is what the unique key and
  the wait for an uncommitted row provide; a new finding corrects an existing one and is corrected
  by none, so corrections have no cycle (`Acyclic`).
* **Synthesis series.**  Whoever holds a version holds an accepted one (`VersionsHeld`), and the
  drafts of a series are numbered up to their count, so that the latest exists
  (`DraftsAreNumbered`).
* **Archive and annotations.**  `ArchiveInv` joins the two archive properties, event by event
  (`ClosedOnce`, `CorrectedInTime`), with what a handler of a brief holds (`HandlerHolds`: claims that
  exist, a triage that covers them).  Each kind of annotation has an invariant of its own: a comment's
  writer holds a commit the review published, at or before the version it loaded (`WriterHolds`), which is the
  reason for the second case of `CommentsWereOpen`; a verifier of a passport holds a revision not above the
  row's, so the compared one was current when it checked (`CheckerHolds`); an announcement in
  flight answers a resolved request (`Answers`).  `HistoryInv` says that what was
  acknowledged stands in a row that is no longer open, and `RowsKept` that no step changes such a row.
  The archive moves as `ArchiveGrows` says, which is all the annotations need of it.  The theorems are about
  `AnnotationsSpec`, in which the archive and all kinds of annotations interleave and share the
  handlers; the run separates them by `side`.

So every safety property a passing run checks, invariants and action properties, is proved
for all values of the constants.

Model-checked only:

* the liveness properties `QueueDrains`, `RetriesAreDrafted` and `ObservationCatchesUp`: liveness under
  fairness is out of the prover's reach, as are ENABLED and induction over data;
* the runs that find a violation: a counterexample is its own proof.

The proofs are about the models: that an action is what the code does rests on reading both.
What was changed in
the models for their sake changes no behaviour: rows and locals are named as sets of records, the
type invariants use them, records are written out in place of function merges (`@@`), and
`SynthesisSeries` calls its definitions `SeriesInit`, `SeriesNext`, `SeriesSpec` and its null `None`, so
that one proof module can extend it together with `Annotations`.

## What is not modelled, and why

* Pure functions of their input: contracts, parsing, extraction, exports, digests, UI.
  Digests appear as equality of what they digest.
* Reads: listings, downloads and projections change no state.
* Authentication: an action's actor is who the route authenticated.  Role changes are
  modelled where decisions depend on them.
* Validation of request shapes: enters as the sets requests are drawn from.
* Storage failure: a transaction commits or does not; the models have `Abandon`.
* What is inserted with a review version (nodes, contributors, assessments, reproduction
  records): written once in the transaction `MaterializeReviewPublication` stands for, and
  updated by nothing that is modelled.
* Licences, checklists and DOIs of a synthesis acceptance, any of which only refuses it.
* Claim-citation assessments and adjudications: verified and adjudicated like those of a
  relation, without an edge, and with another set of involved users.
* Author responses and notifications of the editorial workflow, which no decision reads.
* The planning of identity links (`identity-link-foundations.ts`), which writes nothing.
* Passage anchors of comments, notifications to users, `discuss.ts` (which logs each answer of a
  language model), the adapters and the comparison of protocols, and the contents of signed
  attestations: data the models' properties do not tell apart, or rows nothing reads.
* In PROJECT.json every other component is listed with its reason or its place in the plan.

The repository has many more lines than these components: pages, schemas, parsers, seeds and
tests without state of their own make up most of it.  The map therefore covers a small part of
its lines, the part where handlers race.

## Plan

Done: the lease and its refinement, evidence, registry, editorial review, certification runs,
challenges, job queue; intake, publication, lifecycle and marketplace in one module; synthesis
generation and series; graph proposals and the trust in them; comments, signals, passports,
notifications and protocol captures on the versions.  Proofs of all their safety properties and of
the refinement of the lease.

Left, in order of what matters most:

1. The certifier registry, shared in shape with VerificationRegistry, with its proofs.
2. Claim-citation adjudications; author responses; external publications.
3. A theorem that joins the modules: the acceptance `EditorialReview` decides is the one `Archive`
   publishes.
