-------------------------------- MODULE Archive --------------------------------
(***************************************************************************)
(* From an inspection capture to the evidence a replication brief rests on *)
(* (apps/web/src/lib): inspection-captures.ts, submission-creation.ts,     *)
(* submission-publication.ts, review-lifecycle.ts and                      *)
(* replication-marketplace.ts, which share the versions of a review.       *)
(*                                                                         *)
(* All transactions here are Serializable and are retried or refused when  *)
(* they conflict, so each is one action.  Three handlers read before their *)
(* transaction (createSubmission its capture, the two brief handlers the   *)
(* readable claims) and everything may change in between.  A client may    *)
(* lose an answer and send the same lifecycle event again.                 *)
(*                                                                         *)
(* The editorial decision is EditorialReview's; here a submission is       *)
(* accepted at any time.  A version's claims never change, so one claim    *)
(* stands for a version's, and the newest readable version of every review *)
(* stands for the corpus.  Operators named Broken... are deliberate bugs   *)
(* for the mutation runs.                                                  *)
(***************************************************************************)
EXTENDS Naturals, Sequences, FiniteSets, Functions

CONSTANTS
    Reviews,      \* repositories, each with at most one review
    Captures,     \* inspection captures
    SourceOf,     \* repository, commit and selection (branch, tag, release) of each capture
    Actors,       \* editors and researchers
    Briefs,       \* replication briefs, by request key
    Handlers,     \* requests in flight between their read and their transaction
    MaxEvents,    \* bound on the lifecycle events
    Nothing       \* no row

Commits == {SourceOf[c].commit : c \in Captures}

SubmissionRows == [capture : Captures, status : {"pending", "accepted"}]

VersionRows == [commit : Commits, submission : Nat,
                state : {"published", "withdrawn", "tombstoned"}]

EventRows == [by : Actors, kind : {"withdrawal", "tombstone", "correction"}, version : Nat,
              supersedes : Nat \union {Nothing}]

BriefRows == [status : {"draft", "open", "claimed", "completed", "withdrawn"},
              claims : SUBSET (Reviews \X Nat), claimant : Actors \union {Nothing},
              triage : (SUBSET (Reviews \X Nat)) \union {Nothing}]

\* Nothing is the null of the database: no commit, no row and no version.
ASSUME ArchiveConstants ==
    /\ MaxEvents \in Nat
    /\ DOMAIN SourceOf = Captures
    /\ \A c \in Captures : SourceOf[c].repository \in Reviews
    /\ Nothing \notin BriefRows

VARIABLES
    captures,     \* absent, live or expired
    submissions,  \* Submission rows, in order of creation
    versions,     \* the ReviewVersion rows of each review, oldest first
    current,      \* Review.currentSnapshotId, a commit
    events,       \* the ReviewLifecycleEvent rows of each review, by revision
    briefs,       \* ReplicationBrief rows
    req,          \* local variables of the handlers
    told          \* history: the lifecycle answers, <<review, revision, event>>

intake == <<captures, submissions>>
reviews == <<versions, current, events, told>>
vars == <<intake, reviews, briefs, req>>

Idle == [pc |-> "idle"]

Init ==
    /\ captures = [c \in Captures |-> "absent"]
    /\ submissions = <<>>
    /\ versions = [r \in Reviews |-> <<>>]
    /\ current = [r \in Reviews |-> Nothing]
    /\ events = [r \in Reviews |-> <<>>]
    /\ briefs = [b \in Briefs |-> Nothing]
    /\ req = [h \in Handlers |-> Idle]
    /\ told = {}

Finish(h) == req' = [req EXCEPT ![h] = Idle]

\* The request is refused or its process dies.
Abandon(h) ==
    /\ req[h] # Idle
    /\ Finish(h)
    /\ UNCHANGED <<intake, reviews, briefs>>

-----------------------------------------------------------------------------
(* Captures and submissions *)

CreateInspectionCapture(c) ==
    /\ captures[c] = "absent"
    /\ captures' = [captures EXCEPT ![c] = "live"]
    /\ UNCHANGED <<submissions, reviews, briefs, req>>

\* consumedAt is set in the transaction that creates the submission.
Consumed(c) == \E i \in DOMAIN submissions : submissions[i].capture = c

\* Thirty minutes pass; the expiry of a consumed capture no longer matters.
ExpireCapture(c) ==
    /\ captures[c] = "live" /\ ~Consumed(c)
    /\ captures' = [captures EXCEPT ![c] = "expired"]
    /\ UNCHANGED <<submissions, reviews, briefs, req>>

\* assertCaptureUsable, for the user that inspected the repository.
Usable(c) == captures[c] = "live" /\ ~Consumed(c)

BeginSubmission(h, c) ==
    /\ req[h] = Idle
    /\ Usable(c)
    /\ req' = [req EXCEPT ![h] = [pc |-> "submission", capture |-> c]]
    /\ UNCHANGED <<intake, reviews, briefs>>

BrokenPersistSubmission(h) ==    \* trusts the capture read before the transaction
    /\ req[h].pc = "submission"
    /\ submissions' = Append(submissions, [capture |-> req[h].capture, status |-> "pending"])
    /\ Finish(h)
    /\ UNCHANGED <<captures, reviews, briefs>>

PersistSubmission(h) ==
    /\ req[h].pc = "submission"
    /\ Usable(req[h].capture)
    /\ submissions' = Append(submissions, [capture |-> req[h].capture, status |-> "pending"])
    /\ Finish(h)
    /\ UNCHANGED <<captures, reviews, briefs>>

\* A version is unique by its review, snapshot and selection; one commit may be
\* published under several selections.
Unpublished(source) ==
    \A n \in DOMAIN versions[source.repository] :
        SourceOf[submissions[versions[source.repository][n].submission].capture] # source

BrokenPublish(i) ==    \* an existing review keeps its current snapshot
    LET source == SourceOf[submissions[i].capture]
        r == source.repository IN
    /\ submissions[i].status = "pending"
    /\ submissions' = [submissions EXCEPT ![i].status = "accepted"]
    /\ versions' = [versions EXCEPT ![r] =
          Append(@, [commit |-> source.commit, submission |-> i, state |-> "published"])]
    /\ current' = [current EXCEPT ![r] = IF @ = Nothing THEN source.commit ELSE @]
    /\ UNCHANGED <<captures, events, told, briefs, req>>

\* Acceptance and materializeReviewPublication: a new version of the
\* repository's review, which becomes the current one.
MaterializeReviewPublication(i) ==
    LET source == SourceOf[submissions[i].capture]
        r == source.repository IN
    /\ submissions[i].status = "pending"
    /\ Unpublished(source)
    /\ submissions' = [submissions EXCEPT ![i].status = "accepted"]
    /\ versions' = [versions EXCEPT ![r] =
          Append(@, [commit |-> source.commit, submission |-> i, state |-> "published"])]
    /\ current' = [current EXCEPT ![r] = source.commit]
    /\ UNCHANGED <<captures, events, told, briefs, req>>

-----------------------------------------------------------------------------
(* recordReviewLifecycleEvent *)

Readable == {"published", "withdrawn"}

\* The public state of a version after an event on it.
StateAfter(kind) ==
    CASE kind = "correction" -> "published"
      [] kind = "withdrawal" -> "withdrawn"
      [] kind = "tombstone"  -> "tombstoned"

\* A correction names the current version and a readable one before it.
Corrects(r, e) ==
    /\ e.version = Len(versions[r])
    /\ versions[r][e.version].commit = current[r]
    /\ e.supersedes \in 1 .. e.version - 1
    /\ versions[r][e.supersedes].state \in Readable

BrokenReplay(r, revision, e) ==    \* the payload hash is not compared
    /\ revision \in DOMAIN events[r]
    /\ told' = told \union {<<r, revision, e>>}
    /\ UNCHANGED <<versions, events>>

\* The revision's idempotency key exists: the same payload gets the same answer.
Replay(r, revision, e) ==
    /\ revision \in DOMAIN events[r]
    /\ events[r][revision] = e
    /\ told' = told \union {<<r, revision, e>>}
    /\ UNCHANGED <<versions, events>>

Recorded == FoldFunction(LAMBDA log, n : Len(log) + n, 0, events)

BrokenRecord(r, revision, e) ==    \* the target need only be readable
    /\ revision = Len(events[r]) + 1
    /\ Recorded < MaxEvents
    /\ versions[r][e.version].state \in Readable
    /\ e.kind = "correction" => Corrects(r, e)
    /\ versions' = [versions EXCEPT ![r][e.version].state = StateAfter(e.kind)]
    /\ events' = [events EXCEPT ![r] = Append(@, e)]
    /\ told' = told \union {<<r, revision, e>>}

Record(r, revision, e) ==
    /\ revision = Len(events[r]) + 1
    /\ Recorded < MaxEvents
    /\ versions[r][e.version].state = "published"
    /\ e.kind = "correction" => Corrects(r, e)
    /\ versions' = [versions EXCEPT ![r][e.version].state = StateAfter(e.kind)]
    /\ events' = [events EXCEPT ![r] = Append(@, e)]
    /\ told' = told \union {<<r, revision, e>>}

\* The mutations a client may send to a review.
Mutations(r) ==
    [by : Actors, kind : {"withdrawal", "tombstone"}, version : DOMAIN versions[r],
     supersedes : {Nothing}]
    \union
    [by : Actors, kind : {"correction"}, version : DOMAIN versions[r],
     supersedes : DOMAIN versions[r]]

RecordReviewLifecycleEvent(r) ==
    /\ \E expectedRevision \in 0 .. Len(events[r]), e \in Mutations(r) :
          Replay(r, expectedRevision + 1, e) \/ Record(r, expectedRevision + 1, e)
    /\ UNCHANGED <<intake, current, briefs, req>>

-----------------------------------------------------------------------------
(* Replication briefs *)

AllVersions == UNION {{r} \X DOMAIN versions[r] : r \in Reviews}

IsReadable(v) == versions[v[1]][v[2]].state \in Readable

\* readableCurrentVersions: the newest readable version of every review.
Corpus ==
    {v \in AllVersions : IsReadable(v) /\ \A w \in AllVersions :
        IsReadable(w) /\ w[1] = v[1] => w[2] <= v[2]}

Status(b) == IF briefs[b] = Nothing THEN "none" ELSE briefs[b].status

\* createReplicationBriefDraft: the claims are looked up first.  Under a key
\* that has a row a request only learns of it, so it is left out.
BeginDraft(h, b, claims) ==
    /\ req[h] = Idle
    /\ Status(b) = "none"
    /\ \A v \in claims : IsReadable(v)
    /\ req' = [req EXCEPT ![h] = [pc |-> "draft", brief |-> b, claims |-> claims]]
    /\ UNCHANGED <<intake, reviews, briefs>>

\* The unique request key admits one; the other is told of the row or of a
\* conflict (Abandon).
RegisterDraft(h) ==
    /\ req[h].pc = "draft"
    /\ Status(req[h].brief) = "none"
    /\ briefs' = [briefs EXCEPT ![req[h].brief] =
          [status |-> "draft", claims |-> req[h].claims, claimant |-> Nothing, triage |-> Nothing]]
    /\ Finish(h)
    /\ UNCHANGED <<intake, reviews>>

\* transitionReplicationBrief, action publish: the triage snapshot is computed
\* from the corpus before the transaction; a linked claim must have a row in it.
BeginPublish(h, b) ==
    /\ req[h] = Idle
    /\ Status(b) = "draft"
    /\ briefs[b].claims \subseteq Corpus
    /\ req' = [req EXCEPT ![h] = [pc |-> "publish", brief |-> b, triage |-> Corpus]]
    /\ UNCHANGED <<intake, reviews, briefs>>

BrokenPublishBrief(h) ==    \* the corpus hash is not recomputed
    /\ req[h].pc = "publish"
    /\ LET b == req[h].brief IN
        /\ Status(b) = "draft"
        /\ \A v \in briefs[b].claims : IsReadable(v)
        /\ briefs' = [briefs EXCEPT ![b].status = "open", ![b].triage = req[h].triage]
    /\ Finish(h)
    /\ UNCHANGED <<intake, reviews>>

\* A status is entered at most once, so the compared revision, which counts the
\* transitions, adds nothing to the compared status.
PublishBrief(h) ==
    /\ req[h].pc = "publish"
    /\ LET b == req[h].brief IN
        /\ Status(b) = "draft"
        /\ \A v \in briefs[b].claims : IsReadable(v)
        /\ Corpus = req[h].triage
        /\ briefs' = [briefs EXCEPT ![b].status = "open", ![b].triage = req[h].triage]
    /\ Finish(h)
    /\ UNCHANGED <<intake, reviews>>

ClaimBrief(a, b) ==
    /\ Status(b) = "open"
    /\ \A v \in briefs[b].claims : IsReadable(v)
    /\ briefs' = [briefs EXCEPT ![b].status = "claimed", ![b].claimant = a]
    /\ UNCHANGED <<intake, reviews, req>>

CompleteBrief(a, b) ==
    /\ Status(b) = "claimed"
    /\ briefs[b].claimant = a
    /\ \A v \in briefs[b].claims : IsReadable(v)
    /\ briefs' = [briefs EXCEPT ![b].status = "completed"]
    /\ UNCHANGED <<intake, reviews, req>>

WithdrawBrief(b) ==
    /\ Status(b) \in {"draft", "open", "claimed"}
    /\ briefs' = [briefs EXCEPT ![b].status = "withdrawn"]
    /\ UNCHANGED <<intake, reviews, req>>

-----------------------------------------------------------------------------
Next ==
    \/ \E c \in Captures : CreateInspectionCapture(c) \/ ExpireCapture(c)
    \/ \E h \in Handlers :
          \/ \E c \in Captures : BeginSubmission(h, c)
          \/ PersistSubmission(h)
          \/ \E b \in Briefs, claims \in (SUBSET AllVersions) \ {{}} : BeginDraft(h, b, claims)
          \/ RegisterDraft(h)
          \/ \E b \in Briefs : BeginPublish(h, b)
          \/ PublishBrief(h)
          \/ Abandon(h)
    \/ \E i \in DOMAIN submissions : MaterializeReviewPublication(i)
    \/ \E r \in Reviews : RecordReviewLifecycleEvent(r)
    \/ \E a \in Actors, b \in Briefs : ClaimBrief(a, b) \/ CompleteBrief(a, b)
    \/ \E b \in Briefs : WithdrawBrief(b)

Spec == Init /\ [][Next]_vars

-----------------------------------------------------------------------------
(* Properties *)

TypeOK ==
    /\ captures \in [Captures -> {"absent", "live", "expired"}]
    /\ submissions \in Seq(SubmissionRows)
    /\ versions \in [Reviews -> Seq(VersionRows)]
    /\ \A r \in Reviews : \A n \in DOMAIN versions[r] :
          versions[r][n].submission \in DOMAIN submissions
    /\ current \in [Reviews -> Commits \union {Nothing}]
    /\ events \in [Reviews -> Seq(EventRows)]
    /\ \A r \in Reviews : \A n \in DOMAIN events[r] : events[r][n] \in Mutations(r)
    /\ briefs \in [Briefs -> BriefRows \union {Nothing}]
    /\ \A b \in Briefs : briefs[b] # Nothing =>
          /\ briefs[b].claims \subseteq AllVersions
          /\ briefs[b].triage \in (SUBSET AllVersions) \union {Nothing}
    /\ DOMAIN req = Handlers

\* The page, the lifecycle and the version list of a review speak of the same
\* version (corrections depend on it, review-lifecycle.ts:157-168): the snapshot
\* the review calls current is the one of its newest version, and every version
\* was published by an accepted submission of its own.  Types included.
CurrentIsNewest ==
    /\ TypeOK
    /\ \A r \in Reviews : current[r] =
          IF versions[r] = <<>> THEN Nothing ELSE versions[r][Len(versions[r])].commit
    /\ \A r, s \in Reviews : \A m \in DOMAIN versions[r], n \in DOMAIN versions[s] :
          /\ submissions[versions[r][m].submission].status = "accepted"
          /\ versions[r][m].submission = versions[s][n].submission => <<r, m>> = <<s, n>>

\* schema.prisma:325-326, "consumption and submission creation occur in one
\* transaction", inspection-captures.ts: a capture is single-use.  Two requests
\* that both found it usable, or a retry, make one submission.
CapturesAreSpentOnce ==
    \A i, j \in DOMAIN submissions : submissions[i].capture = submissions[j].capture => i = j

\* From its single-use capture to the newest version of its review, every
\* submission is accounted for once (persistInspectedSubmission,
\* materializeReviewPublication).
VersionsAreAccounted == CurrentIsNewest /\ CapturesAreSpentOnce

\* docs/article-lifecycle.md:38-50: what a version shows is what the ledger says
\* of it, and the ledger is a legal history.  Nothing happens to a version after
\* its withdrawal or tombstone; a correction replaces an older version, which was
\* not yet withheld, and events of both versions may come in between.
StateFollowsLedger ==
    \A r \in Reviews :
        LET Closing(n) == {m \in DOMAIN events[r] :
                              events[r][m].version = n /\ events[r][m].kind # "correction"}
        IN  /\ \A n \in DOMAIN versions[r] :
                  /\ versions[r][n].state = "published" <=> Closing(n) = {}
                  /\ \A m \in Closing(n) :
                        /\ versions[r][n].state = StateAfter(events[r][m].kind)
                        /\ \A k \in DOMAIN events[r] : events[r][k].version = n => k <= m
            /\ \A k \in DOMAIN events[r] : events[r][k].kind = "correction" =>
                  /\ events[r][k].supersedes < events[r][k].version
                  /\ \A m \in Closing(events[r][k].supersedes) :
                        events[r][m].kind = "tombstone" => k < m

\* A lifecycle mutation is bound to a revision and to its payload
\* (review-lifecycle.ts:113-134): every success anyone was ever told, first or
\* replayed, still is the event recorded under that revision.
AcknowledgedEventsStand ==
    \A t \in told : t[2] \in DOMAIN events[t[1]] /\ events[t[1]][t[2]] = t[3]

\* The lifecycle ledger of a review accounts for what its versions show and for
\* what its editors were told (recordReviewLifecycleEvent).
LedgerExplainsState == StateFollowsLedger /\ AcknowledgedEventsStand

\* docs/replication-marketplace.md:33-35: publication fails if the corpus
\* changed.  A brief opens with the triage of the corpus at that moment, and its
\* claims are then in the newest readable version of their review, though the
\* transaction itself only asks that they be readable; later the snapshot is
\* frozen whatever happens to the versions.
BriefsOpenOnCurrentEvidence ==
    [][\A b \in Briefs :
          /\ Status(b) = "draft" /\ Status(b)' = "open" =>
                /\ briefs'[b].triage = Corpus'
                /\ briefs'[b].claims \subseteq Corpus'
          /\ Status(b) \notin {"none", "draft"} => briefs'[b].triage = briefs[b].triage]_vars
===============================================================================
