-------------------------------- MODULE Annotations --------------------------------
(***************************************************************************)
(* What editors, readers and other services attach to the published        *)
(* versions of Archive (apps/web/src/lib): comments.ts, claim-monitoring.ts, *)
(* execution-passports.ts, federation.ts and protocol-drift.ts.            *)
(*                                                                         *)
(* Each handler reads a version, or a row that may exist already, and      *)
(* writes later: publications, withdrawals, tombstones and the other       *)
(* handlers come in between.  What it writes is guarded by compare-and-set *)
(* or by a unique key.  Other services deliver a notification any number   *)
(* of times, and any client may repeat a request whose answer it lost.     *)
(*                                                                         *)
(* A version's claims never change, so the version stands for its claims,  *)
(* as in Archive.  The content of a payload or of a registry record is a   *)
(* value, compared by its hash in the code; signatures, anchors of         *)
(* passages, notifications to users and audit rows are left out.           *)
(***************************************************************************)
EXTENDS Archive

CONSTANTS
    Staff,            \* editors
    MaxComments,      \* bound on the comments
    Citing,           \* captures whose claims cite the work that signals are about
    MaxSignals,       \* bound on the signals about that work
    Passports,        \* signed execution attestations, by payload hash
    Binds,            \* the version each attestation is about
    MaxVerdicts,      \* bound on the re-verifications of a passport
    Activities,       \* ids other services give their notifications
    Payloads,         \* contents of notifications
    ReviewRequests,   \* those that request a review
    SourceVersions,   \* versions of the protocol a registry holds
    Contents,         \* contents of protocols
    Differing         \* those that differ from what the versions declare

NoteRows == [content : Payloads, status : {"pending", "accepted", "rejected"},
             by : Staff \union {Nothing}]

PassportRows == [status : {"verified", "failed"}, revision : Nat]

ASSUME AnnotationConstants ==
    /\ MaxComments \in Nat /\ MaxSignals \in Nat /\ MaxVerdicts \in Nat
    /\ Citing \subseteq Captures
    /\ DOMAIN Binds = Passports
    /\ ReviewRequests \subseteq Payloads /\ Differing \subseteq Contents
    /\ Nothing \notin NoteRows \union PassportRows

VARIABLES
    comments,         \* ReviewComment rows, in order of creation
    signals,          \* the number of CitationStatusRecord rows
    alerts,           \* ClaimUpdateProposal rows by signal and version
    passports,        \* ExecutionPassport rows
    verdicts,         \* the audit rows of a passport's re-verifications, oldest first
    notes,            \* inbound FederationNotification rows
    announcements,    \* outbound ones: the request answered, its content, the version
    snapshots,        \* ProtocolSnapshot rows, each with its proposal, by version and
                      \* source version
    receipts,         \* history: what was acknowledged as received or captured
    resolutions       \* history: what editors were told they had resolved

discussion == <<comments>>
monitoring == <<signals, alerts>>
execution == <<passports, verdicts>>
exchange == <<notes, announcements>>
protocols == <<snapshots>>
history == <<receipts, resolutions>>
annotations == <<discussion, monitoring, execution, exchange, protocols, history>>
annotatedVars == <<vars, annotations>>

AnnotationsInit ==
    /\ comments = <<>>
    /\ signals = 0
    /\ alerts = [a \in {} |-> Nothing]
    /\ passports = [p \in Passports |-> Nothing]
    /\ verdicts = [p \in Passports |-> <<>>]
    /\ notes = [a \in Activities |-> Nothing]
    /\ announcements = {}
    /\ snapshots = [k \in {} |-> Nothing]
    /\ receipts = {}
    /\ resolutions = {}

Hold(h, local) == req' = [req EXCEPT ![h] = local]

\* The newest version of a review, whatever its state.
Newest(r) == Len(versions[r])

\* A table with new rows under the keys that have none.
Extended(table, keys, row) ==
    [k \in DOMAIN table \union keys |-> IF k \in DOMAIN table THEN table[k] ELSE row]

CapturedAs(v) == submissions[versions[v[1]][v[2]].submission].capture

-----------------------------------------------------------------------------
(* createReviewComment, query by query at the default isolation level *)

LoadReview(h, r, parent) ==
    /\ req[h] = Idle
    /\ Len(comments) < MaxComments
    /\ current[r] # Nothing
    /\ parent \in 0 .. Len(comments)
    /\ Hold(h, [pc |-> "review", review |-> r, parent |-> parent,
                revision |-> Len(events[r]), snapshot |-> current[r]])
    /\ UNCHANGED <<intake, reviews, briefs, annotations>>

LoadVersion(h) ==
    /\ req[h].pc = "review"
    /\ LET r == req[h].review IN
        /\ versions[r][Newest(r)].state \in Readable
        /\ Hold(h, [pc |-> IF req[h].parent = 0 THEN "post" ELSE "reply",
                    review |-> r, parent |-> req[h].parent,
                    revision |-> req[h].revision, snapshot |-> req[h].snapshot,
                    version |-> Newest(r), state |-> versions[r][Newest(r)].state])
    /\ UNCHANGED <<intake, reviews, briefs, annotations>>

BrokenThread(parent) == parent    \* a reply to a reply starts a third level

\* Threads are one level deep: a reply to a reply joins its thread.
Thread(parent) == IF comments[parent].parent = 0 THEN parent ELSE comments[parent].parent

LoadParent(h) ==
    /\ req[h].pc = "reply"
    /\ LET parent == comments[req[h].parent] IN
        /\ parent.status = "visible"
        /\ parent.on = <<req[h].review, req[h].version>>
    /\ Hold(h, [req[h] EXCEPT !.pc = "post", !.parent = Thread(req[h].parent)])
    /\ UNCHANGED <<intake, reviews, briefs, annotations>>

BrokenSameEpoch(h) ==    \* the revision alone, which a publication leaves alone
    /\ Len(events[req[h].review]) = req[h].revision
    /\ versions[req[h].review][req[h].version].state = req[h].state

\* The two updates that lock and compare the review and the version.
SameEpoch(h) ==
    /\ Len(events[req[h].review]) = req[h].revision
    /\ current[req[h].review] = req[h].snapshot
    /\ versions[req[h].review][req[h].version].state = req[h].state

\* From the lock on nothing can move until the transaction ends.
Post(h) ==
    /\ req[h].pc = "post"
    /\ Len(comments) < MaxComments
    /\ SameEpoch(h)
    /\ comments' = Append(comments, [on |-> <<req[h].review, req[h].version>>,
                                     parent |-> req[h].parent, status |-> "visible"])
    /\ Finish(h)
    /\ UNCHANGED <<intake, reviews, briefs, monitoring, execution, exchange, protocols, history>>

RemoveComment(i) ==
    /\ comments[i].status = "visible"
    /\ comments' = [comments EXCEPT ![i].status = "removed"]
    /\ UNCHANGED <<vars, monitoring, execution, exchange, protocols, history>>

DiscussionNext ==
    \/ \E h \in Handlers :
          \/ \E r \in Reviews, parent \in 0 .. MaxComments : LoadReview(h, r, parent)
          \/ LoadVersion(h)
          \/ LoadParent(h)
          \/ Post(h)
    \/ \E i \in DOMAIN comments : RemoveComment(i)

-----------------------------------------------------------------------------
(* Proposals an editor resolves once: an update of the row that is still open *)

BrokenOpen(status) == status # "none"    \* a second resolution is accepted

Open(status) == status \in {"open", "pending"}

Told(what, as, e) == resolutions' = resolutions \union {[what |-> what, as |-> as, by |-> e]}

-----------------------------------------------------------------------------
(* Claim monitoring *)

\* Versions whose claims rely on the work, tombstoned ones included.
Affected == {v \in AllVersions : CapturedAs(v) \in Citing}

\* The affected claims are found before the transaction.
FindAffected(h) ==
    /\ req[h] = Idle
    /\ signals < MaxSignals
    /\ Hold(h, [pc |-> "signal", affected |-> Affected])
    /\ UNCHANGED <<intake, reviews, briefs, annotations>>

RegisterCitationStatus(h) ==
    /\ req[h].pc = "signal"
    /\ signals < MaxSignals
    /\ signals' = signals + 1
    /\ alerts' = Extended(alerts, {signals + 1} \X req[h].affected,
                          [status |-> "open", by |-> Nothing])
    /\ Finish(h)
    /\ UNCHANGED <<intake, reviews, briefs, discussion, execution, exchange, protocols, history>>

ResolveProposal(k, as, e) ==
    /\ Open(alerts[k].status)
    /\ alerts' = [alerts EXCEPT ![k] = [status |-> as, by |-> e]]
    /\ Told([alert |-> k], as, e)
    /\ UNCHANGED <<vars, signals, discussion, execution, exchange, protocols, receipts>>

MonitoringNext ==
    \/ \E h \in Handlers : FindAffected(h) \/ RegisterCitationStatus(h)
    \/ \E k \in DOMAIN alerts, e \in Staff, as \in {"updated", "dismissed"} :
          ResolveProposal(k, as, e)

-----------------------------------------------------------------------------
(* Execution passports *)

\* The signature is verified, the claims are resolved and the payload hash is
\* looked up.
BeginPassport(h, p) ==
    /\ req[h] = Idle
    /\ passports[p] = Nothing
    /\ Binds[p] \in AllVersions /\ IsReadable(Binds[p])
    /\ Hold(h, [pc |-> "register", passport |-> p])
    /\ UNCHANGED <<intake, reviews, briefs, annotations>>

\* The payload hash is unique.
RegisterExecutionPassport(h) ==
    /\ req[h].pc = "register"
    /\ passports[req[h].passport] = Nothing
    /\ passports' = [passports EXCEPT ![req[h].passport] =
                        [status |-> "verified", revision |-> 0]]
    /\ Finish(h)
    /\ UNCHANGED <<intake, reviews, briefs, verdicts, discussion, monitoring, exchange, protocols,
                   history>>

\* reverifyExecutionPassport: the revision the editor expects is the row's.
LoadPassport(h, p, e) ==
    /\ req[h] = Idle
    /\ passports[p] # Nothing
    /\ Len(verdicts[p]) < MaxVerdicts
    /\ Hold(h, [pc |-> "load", passport |-> p, by |-> e, revision |-> passports[p].revision])
    /\ UNCHANGED <<intake, reviews, briefs, annotations>>

\* The trust policy of the process may have been rotated; any failure, one of
\* the database included, is a verdict too.
CheckPassport(h, trusted) ==
    /\ req[h].pc = "load"
    /\ LET p == req[h].passport IN
        Hold(h, [pc |-> "verdict", passport |-> p, by |-> req[h].by, revision |-> req[h].revision,
                 ok |-> trusted /\ IsReadable(Binds[p]), checkedAt |-> passports[p].revision])
    /\ UNCHANGED <<intake, reviews, briefs, annotations>>

BrokenSameRevision(h) == TRUE    \* the verdict is written whatever happened since

SameRevision(h) == passports[req[h].passport].revision = req[h].revision

\* Either verdict is written if the revision still is the one that was read;
\* only a success that was written is told.
WriteVerdict(h) ==
    /\ req[h].pc = "verdict"
    /\ SameRevision(h)
    /\ LET p == req[h].passport
           verdict == [ok |-> req[h].ok, by |-> req[h].by, checkedAt |-> req[h].checkedAt] IN
        /\ passports' = [passports EXCEPT ![p] =
              [status |-> IF verdict.ok THEN "verified" ELSE "failed", revision |-> @.revision + 1]]
        /\ verdicts' = [verdicts EXCEPT ![p] = Append(@, verdict)]
        /\ \/ ~verdict.ok /\ UNCHANGED resolutions
           \/ /\ verdict.ok
              /\ Told([passport |-> p, revision |-> req[h].revision + 1], "verified", verdict.by)
    /\ Finish(h)
    /\ UNCHANGED <<intake, reviews, briefs, discussion, monitoring, exchange, protocols, receipts>>

ExecutionNext ==
    \E h \in Handlers :
       \/ \E p \in Passports : BeginPassport(h, p)
       \/ RegisterExecutionPassport(h)
       \/ \E p \in Passports, e \in Staff : LoadPassport(h, p, e)
       \/ \E trusted \in BOOLEAN : CheckPassport(h, trusted)
       \/ WriteVerdict(h)

-----------------------------------------------------------------------------
(* Rows that are received once: the notification under an activity id, and    *)
(* the protocol under a target and a source version                           *)

BrokenSame(row, content) == TRUE    \* the content is not compared

\* An existing row answers only a request with the very same content.
Same(row, content) == row.content = content

Receipt(key, content) == receipts' = receipts \union {[key |-> key, content |-> content]}

\* receiveFederationNotification: the activity id is looked up.
LookUpActivity(h, a, payload) ==
    /\ req[h] = Idle
    /\ \/ /\ notes[a] = Nothing
          /\ Hold(h, [pc |-> "receive", activity |-> a, payload |-> payload])
          /\ UNCHANGED receipts
       \/ /\ notes[a] # Nothing
          /\ Same(notes[a], payload)
          /\ Receipt([activity |-> a], payload)
          /\ UNCHANGED req
    /\ UNCHANGED <<intake, reviews, briefs, discussion, monitoring, execution, exchange, protocols,
                   resolutions>>

\* The activity id is unique; who loses the race reads the winner.
ReceiveFederationNotification(h) ==
    /\ req[h].pc = "receive"
    /\ LET a == req[h].activity
           payload == req[h].payload IN
        /\ \/ /\ notes[a] = Nothing
              /\ notes' = [notes EXCEPT ![a] =
                    [content |-> payload, status |-> "pending", by |-> Nothing]]
           \/ /\ notes[a] # Nothing
              /\ Same(notes[a], payload)
              /\ UNCHANGED notes
        /\ Receipt([activity |-> a], payload)
    /\ Finish(h)
    /\ UNCHANGED <<intake, reviews, briefs, announcements, discussion, monitoring, execution,
                   protocols, resolutions>>

ResolveFederationNotification(a, as, e) ==
    /\ notes[a] # Nothing /\ Open(notes[a].status)
    /\ notes' = [notes EXCEPT ![a].status = as, ![a].by = e]
    /\ Told([activity |-> a], as, e)
    /\ UNCHANGED <<vars, announcements, discussion, monitoring, execution, protocols, receipts>>

\* prepareVersionReviewAnnouncement: an accepted request and a readable version.
BeginAnnouncement(h, a, v) ==
    /\ req[h] = Idle
    /\ notes[a] # Nothing /\ notes[a].status = "accepted"
    /\ notes[a].content \in ReviewRequests
    /\ IsReadable(v)
    /\ Hold(h, [pc |-> "announce",
                answer |-> [to |-> a, about |-> notes[a].content, version |-> v]])
    /\ UNCHANGED <<intake, reviews, briefs, annotations>>

\* The activity id is a hash of the version and the request it answers.  One that
\* exists stays as it is; if its content is another, the request fails (Abandon).
PrepareAnnouncement(h) ==
    /\ req[h].pc = "announce"
    /\ announcements' = announcements \union {req[h].answer}
    /\ Finish(h)
    /\ UNCHANGED <<intake, reviews, briefs, notes, discussion, monitoring, execution, protocols,
                   history>>

ExchangeNext ==
    \/ \E h \in Handlers, a \in Activities :
          \/ \E payload \in Payloads : LookUpActivity(h, a, payload)
          \/ \E v \in AllVersions : BeginAnnouncement(h, a, v)
    \/ \E h \in Handlers : ReceiveFederationNotification(h) \/ PrepareAnnouncement(h)
    \/ \E a \in Activities, e \in Staff, as \in {"accepted", "rejected"} :
          ResolveFederationNotification(a, as, e)

-----------------------------------------------------------------------------
(* Protocol drift *)

\* registerProtocolSnapshot: the target is loaded, in whatever state, and the
\* source version is looked up.
LookUpSnapshot(h, v, source, content) ==
    /\ req[h] = Idle
    /\ LET k == <<v, source>> IN
        \/ /\ k \notin DOMAIN snapshots
           /\ Hold(h, [pc |-> "capture", key |-> k, content |-> content])
           /\ UNCHANGED receipts
        \/ /\ k \in DOMAIN snapshots
           /\ Same(snapshots[k], content)
           /\ Receipt([snapshot |-> k], content)
           /\ UNCHANGED req
    /\ UNCHANGED <<intake, reviews, briefs, discussion, monitoring, execution, exchange, protocols,
                   resolutions>>

\* The target and the source version are unique.  A difference opens a proposal.
RegisterProtocolSnapshot(h) ==
    /\ req[h].pc = "capture"
    /\ LET k == req[h].key
           content == req[h].content IN
        /\ \/ /\ k \notin DOMAIN snapshots
              /\ snapshots' = Extended(snapshots, {k},
                    [content |-> content, by |-> Nothing,
                     status |-> IF content \in Differing THEN "open" ELSE "none"])
           \/ /\ k \in DOMAIN snapshots
              /\ Same(snapshots[k], content)
              /\ UNCHANGED snapshots
        /\ Receipt([snapshot |-> k], content)
    /\ Finish(h)
    /\ UNCHANGED <<intake, reviews, briefs, discussion, monitoring, execution, exchange,
                   resolutions>>

ResolveProtocolProposal(k, as, e) ==
    /\ Open(snapshots[k].status)
    /\ snapshots' = [snapshots EXCEPT ![k].status = as, ![k].by = e]
    /\ Told([snapshot |-> k], as, e)
    /\ UNCHANGED <<vars, discussion, monitoring, execution, exchange, receipts>>

ProtocolsNext ==
    \/ \E h \in Handlers :
          \/ \E v \in AllVersions, source \in SourceVersions, content \in Contents :
                LookUpSnapshot(h, v, source, content)
          \/ RegisterProtocolSnapshot(h)
    \/ \E k \in DOMAIN snapshots, e \in Staff, as \in {"explained", "dismissed"} :
          ResolveProtocolProposal(k, as, e)

-----------------------------------------------------------------------------
AnnotationsNext ==
    \/ Next /\ UNCHANGED annotations
    \/ DiscussionNext
    \/ MonitoringNext
    \/ ExecutionNext
    \/ ExchangeNext
    \/ ProtocolsNext

AnnotationsSpec == AnnotationsInit /\ Init /\ [][AnnotationsNext]_annotatedVars

-----------------------------------------------------------------------------
(* Properties *)

AnnotationsTypeOK ==
    /\ \A i \in DOMAIN comments :
          /\ comments[i].on \in AllVersions
          /\ comments[i].parent \in 0 .. i - 1
          /\ comments[i].status \in {"visible", "removed"}
    /\ signals \in 0 .. MaxSignals
    /\ \A k \in DOMAIN alerts : k[1] \in 1 .. signals /\ k[2] \in Affected
    /\ notes \in [Activities -> {Nothing} \union NoteRows]
    /\ passports \in [Passports -> {Nothing} \union PassportRows]
    /\ \A k \in DOMAIN snapshots : k \in AllVersions \X SourceVersions

\* comments.ts:324-326: a tombstone or publication "either commits first" or waits.
\* A comment is posted on a version that is then readable and the newest of its
\* review, unless the review shows a commit it published twice, under two
\* selections: the lock compares the snapshot, which then is the same.  A reply
\* joins a top-level comment on that same version.
CommentsWereOpen ==
    [][Len(comments') > Len(comments) =>
          LET c == comments'[Len(comments')]
              r == c.on[1] IN
          /\ IsReadable(c.on)
          /\ \/ c.on[2] = Newest(r)
             \/ \E n \in 1 .. Newest(r) - 1 : versions[r][n].commit = current[r]
          /\ c.parent # 0 =>
                comments[c.parent].parent = 0 /\ comments[c.parent].on = c.on]_annotatedVars

\* What an editor was told it resolved is what the row says, and names that editor.
ResolutionsStand ==
    \A t \in resolutions :
        LET Says(row) == row.status = t.as /\ row.by = t.by IN
        CASE "alert" \in DOMAIN t.what -> Says(alerts[t.what.alert])
          [] "activity" \in DOMAIN t.what -> Says(notes[t.what.activity])
          [] "snapshot" \in DOMAIN t.what -> Says(snapshots[t.what.snapshot])
          [] "passport" \in DOMAIN t.what ->
                LET verdict == verdicts[t.what.passport][t.what.revision] IN
                verdict.ok /\ verdict.by = t.by

\* docs/federation.md:29-30 and docs/protocol-drift-radar.md:20-22: different content
\* under the same identity fails closed.  All who were told of one identity, at first
\* or when delivering it again, had sent what is stored.
ReceiptsAgree ==
    \A t \in receipts :
        t.content = IF "activity" \in DOMAIN t.key THEN notes[t.key.activity].content
                    ELSE snapshots[t.key.snapshot].content

\* docs/execution-passports.md:55-58: a passport shows its last verdict, its revisions
\* count the verdicts, and each was reached on what the one before had left.
VerdictsAreConsecutive ==
    \A p \in Passports : passports[p] # Nothing =>
        /\ passports[p].revision = Len(verdicts[p])
        /\ passports[p].status = "failed" <=>
              verdicts[p] # <<>> /\ ~verdicts[p][Len(verdicts[p])].ok
        /\ \A n \in DOMAIN verdicts[p] : verdicts[p][n].checkedAt = n - 1

\* docs/federation.md:38-41: an announcement answers a review request that an editor
\* accepted and nobody rejected since.
AnnouncementsAnswer ==
    \A x \in announcements :
        /\ notes[x.to].status = "accepted"
        /\ notes[x.to].content = x.about /\ x.about \in ReviewRequests

\* Whatever is attached to a version is what those who attached, resolved or
\* verified it were told, however often and in whatever order they asked.
AnnotationsStand ==
    /\ AnnotationsTypeOK
    /\ ResolutionsStand
    /\ ReceiptsAgree
    /\ VerdictsAreConsecutive
    /\ AnnouncementsAnswer

\* comments.ts:324-326: a "new accepted version either commits first (count 0) or waits
\* until this earlier comment transaction ends", so that comments reach the newest
\* version of a review.  The code does not keep this.
NewVersionsComeFirst ==
    [][Len(comments') > Len(comments) =>
          LET on == comments'[Len(comments')].on IN on[2] = Newest(on[1])]_annotatedVars
=============================================================================
