---------------------------- MODULE VerificationRun ----------------------------
(***************************************************************************)
(* The lease protocol of apps/web/src/lib/scientific-verification.ts: the  *)
(* handlers that claim a verification run, move it and read it, for one    *)
(* row of VerificationRun with its lifecycle events.                       *)
(*                                                                         *)
(* Every HTTP request is a process.  A handler reads the row with one      *)
(* query, checks the caller's lease with another, and writes with a third; *)
(* other requests and the clock run in between.  The write is a database   *)
(* transaction: a conditional updateMany (the where clause is evaluated on *)
(* the row as it then is), the BEFORE UPDATE row guard of the migration,   *)
(* and the lifecycle event, all or nothing.                                *)
(*                                                                         *)
(* Operators named Broken... are deliberate bugs.  No specification uses   *)
(* them: each takes the place of the definition that follows it in a       *)
(* mutation run, which must then violate a property of this module.        *)
(***************************************************************************)
EXTENDS Integers, Sequences

CONSTANTS
    Verifiers, NoVerifier, MaxTime, Durations, MaxGeneration,
    Requests,       \* request handlers that may be in flight at once
    Editor,         \* the editor's user id
    MaxFindings     \* findings recorded before the model stops (bound)

ASSUME RunConstants ==
    /\ NoVerifier \notin Verifiers
    /\ Editor \notin Verifiers \union {NoVerifier}
    /\ MaxTime \in Nat
    /\ Durations \subseteq Nat \ {0}
    /\ MaxGeneration \in Nat
    /\ MaxFindings \in Nat

VARIABLES
    now,        \* the clock
    run,        \* the VerificationRun row
    events,     \* its VerificationRunLifecycleEvent rows, in commit order
    findings,   \* how many VerificationFinding rows it has
    req         \* what each request handler holds in its local variables

vars == <<now, run, events, findings, req>>

Lease == INSTANCE RunLease WITH
    run <- [status     |-> run.status,
            claimant   |-> run.claimedVerifierId,
            generation |-> run.leaseGeneration,
            expiresAt  |-> run.leaseExpiresAt]

Leased   == {"claimed", "running"}
Open     == {"requested"} \union Leased
Terminal == {"completed", "failed", "cancelled"}
Status   == Open \union Terminal
Moves    == {"running"} \union Terminal      \* verificationRunTransitionSchema
Actors   == Verifiers \union {Editor}
EventKinds == {"requested", "claimed", "reclaimed"} \union Moves

\* startedAt is abstracted to whether it is set.  The secret lease token of a
\* claim is identified with the generation that claim installed.
Runs == [status            : Status,
         claimedVerifierId : Verifiers \union {NoVerifier},
         leaseGeneration   : 0 .. MaxGeneration,
         leaseExpiresAt    : Nat,
         started           : BOOLEAN]

Idle == [pc |-> "idle"]

Handlers ==
    {Idle}
    \union [pc : {"claiming"}, by : Verifiers, at : 0 .. MaxTime,
            lifetime : Durations, wasRequested : BOOLEAN]
    \union [pc : {"loaded", "leased", "checked"}, by : Actors, to : Moves,
            token : 0 .. MaxGeneration, started : BOOLEAN]

Event(kind, actor) == [kind |-> kind, actor |-> actor]

Init ==
    /\ now = 0
    /\ run = [status            |-> "requested",
              claimedVerifierId |-> NoVerifier,
              leaseGeneration   |-> 0,
              leaseExpiresAt    |-> 0,
              started           |-> FALSE]
    /\ events = <<Event("requested", Editor)>>
    /\ findings = 0
    /\ req = [r \in Requests |-> Idle]

Tick == now < MaxTime /\ now' = now + 1 /\ UNCHANGED <<run, events, findings, req>>

Goto(r, local) == req' = [req EXCEPT ![r] = local]

\* The handler throws, or its process dies: nothing was written, and whatever
\* it had read is forgotten.
Abandon(r) ==
    /\ req[r] # Idle
    /\ Goto(r, Idle)
    /\ UNCHANGED <<now, run, events, findings>>

BrokenLegalEdges ==    \* a run may complete without ever having been started
    ({"requested"} \X {"claimed", "cancelled"})
    \union (Leased \X {"claimed", "running", "completed", "failed", "cancelled"})

(***************************************************************************)
(* The BEFORE UPDATE guard of the table.  A write it refuses aborts the    *)
(* transaction, so the handler ends and nothing changes.                   *)
(***************************************************************************)
LegalEdges ==
    ({"requested"} \X {"claimed", "cancelled"})
    \union ({"claimed"} \X {"claimed", "running", "failed", "cancelled"})
    \union ({"running"} \X {"claimed", "completed", "failed", "cancelled"})

RowGuard(new) ==
    /\ <<run.status, new.status>> \in LegalEdges
    /\ (run.status \in Leased /\ new.status = "claimed") =>
          /\ run.leaseExpiresAt <= now
          /\ new.leaseGeneration = run.leaseGeneration + 1

BrokenWriteWithoutGuard(r, new, event) ==    \* the row guard is not installed
    /\ run' = new
    /\ events' = Append(events, event)
    /\ Goto(r, Idle)
    /\ UNCHANGED <<now, findings>>

BrokenWriteLosesEvent(r, new, event) ==      \* the event is written after the commit
    /\ RowGuard(new)
    /\ run' = new
    /\ events' \in {events, Append(events, event)}
    /\ Goto(r, Idle)
    /\ UNCHANGED <<now, findings>>

\* One transaction: update the row, append the event, finish the handler.
Write(r, new, event) ==
    /\ RowGuard(new)
    /\ run' = new
    /\ events' = Append(events, event)
    /\ Goto(r, Idle)
    /\ UNCHANGED <<now, findings>>

-----------------------------------------------------------------------------
(* claimVerificationRun *)

\* The clock is read before the row, and both are used after the await.
LoadForClaim(r, v, d) ==
    /\ req[r] = Idle
    /\ run.status \notin Terminal
    /\ run.leaseExpiresAt <= now
    /\ Goto(r, [pc |-> "claiming", by |-> v, at |-> now, lifetime |-> d,
                wasRequested |-> run.status = "requested"])
    /\ UNCHANGED <<now, run, events, findings>>

\* The where clause compares the row's expiry with the time read at the start.
LeaseFree(at) == run.leaseExpiresAt <= at

BrokenCommitClaim(r) ==    \* an event kind the table's CHECK does not list
    /\ req[r].pc = "claiming"
    /\ run.status \in Open
    /\ LeaseFree(req[r].at)
    /\ run.leaseGeneration < MaxGeneration
    /\ Write(r,
             [status            |-> "claimed",
              claimedVerifierId |-> req[r].by,
              leaseGeneration   |-> run.leaseGeneration + 1,
              leaseExpiresAt    |-> req[r].at + req[r].lifetime,
              started           |-> FALSE],
             Event("renewed", req[r].by))

CommitClaim(r) ==
    /\ req[r].pc = "claiming"
    /\ run.status \in Open
    /\ LeaseFree(req[r].at)
    /\ run.leaseGeneration < MaxGeneration
    /\ Write(r,
             [status            |-> "claimed",
              claimedVerifierId |-> req[r].by,
              leaseGeneration   |-> run.leaseGeneration + 1,
              leaseExpiresAt    |-> req[r].at + req[r].lifetime,
              started           |-> FALSE],
             Event(IF req[r].wasRequested THEN "claimed" ELSE "reclaimed", req[r].by))

-----------------------------------------------------------------------------
(* transitionVerificationRun *)

\* The first read; an answer that replays or conflicts ends here.  The route
\* authenticates an editor for cancelled and a verifier for the other moves;
\* the verifier presents some lease token issued so far (0: none of them).
LoadForMove(r, v, to, token) ==
    /\ req[r] = Idle
    /\ run.status \notin Terminal \union {to}
    /\ token <= run.leaseGeneration
    /\ (to = "cancelled") <=> (v = Editor)
    /\ Goto(r, [pc |-> "loaded", by |-> v, to |-> to, token |-> token,
                started |-> run.started])
    /\ UNCHANGED <<now, run, events, findings>>

BrokenHoldsLease(v, token) ==    \* the token alone is enough
    /\ token = run.leaseGeneration
    /\ run.leaseExpiresAt > now
    /\ run.status \in Leased

\* requireVerificationLease: the second read.
HoldsLease(v, token) ==
    /\ token = run.leaseGeneration
    /\ run.claimedVerifierId = v
    /\ run.leaseExpiresAt > now
    /\ run.status \in Leased

CheckLease(r) ==
    /\ req[r].pc = "loaded"
    /\ req[r].to # "cancelled"
    /\ HoldsLease(req[r].by, req[r].token)
    /\ Goto(r, [req[r] EXCEPT !.pc = "leased"])
    /\ UNCHANGED <<now, run, events, findings>>

BrokenCountFindings(r) ==    \* the count is not made
    /\ req[r].pc = "leased"
    /\ req[r].to = "completed"
    /\ Goto(r, [req[r] EXCEPT !.pc = "checked"])
    /\ UNCHANGED <<now, run, events, findings>>

\* The third read, made for completed only.
CountFindings(r) ==
    /\ req[r].pc = "leased"
    /\ req[r].to = "completed"
    /\ findings > 0
    /\ Goto(r, [req[r] EXCEPT !.pc = "checked"])
    /\ UNCHANGED <<now, run, events, findings>>

ReadyToMove(r) ==
    CASE req[r].pc = "loaded"  -> req[r].to = "cancelled"
      [] req[r].pc = "leased"  -> req[r].to # "completed"
      [] req[r].pc = "checked" -> TRUE
      [] OTHER                 -> FALSE

From(to) == CASE to = "running"   -> {"claimed"}
              [] to = "cancelled" -> Open
              [] OTHER            -> Leased

\* The where clause repeats the status only: neither the token nor the expiry
\* is tested again, and startedAt is the one read at the start.
CommitMove(r) ==
    /\ ReadyToMove(r)
    /\ run.status \in From(req[r].to)
    /\ Write(r,
             [run EXCEPT !.status  = req[r].to,
                         !.started = (req[r].to = "running") \/ req[r].started],
             Event(req[r].to, req[r].by))

-----------------------------------------------------------------------------
\* submitVerificationFinding, of which this module needs the row it inserts:
\* the insert guard asks for the active claimant (see VerificationEvidence).
RecordFinding(v) ==
    /\ findings < MaxFindings
    /\ run.claimedVerifierId = v
    /\ run.status \in Leased
    /\ findings' = findings + 1
    /\ UNCHANGED <<now, run, events, req>>

Next ==
    \/ Tick
    \/ \E r \in Requests :
          \/ \E v \in Verifiers, d \in Durations : LoadForClaim(r, v, d)
          \/ \E v \in Actors, to \in Moves, token \in 0 .. MaxGeneration :
                LoadForMove(r, v, to, token)
          \/ CommitClaim(r)
          \/ CheckLease(r)
          \/ CountFindings(r)
          \/ CommitMove(r)
          \/ Abandon(r)
    \/ \E v \in Verifiers : RecordFinding(v)

Spec == Init /\ [][Next]_vars
-----------------------------------------------------------------------------
(* Properties *)

TypeOK ==
    /\ now \in 0 .. MaxTime
    /\ run \in Runs
    /\ events \in Seq([kind : EventKinds, actor : Actors])
    /\ findings \in 0 .. MaxFindings
    /\ req \in [Requests -> Handlers]

ClaimKinds  == {"claimed", "reclaimed"}
WorkerKinds == {"running", "completed", "failed"}
StatusAfter(kind) == IF kind = "reclaimed" THEN "claimed" ELSE kind

\* Some claim by v is among the first n events of a lifecycle log.
ClaimedBy(log, v, n) == \E i \in 1 .. n : log[i].kind \in ClaimKinds /\ log[i].actor = v

\* The row and its append-only event log never disagree: the last event names
\* the row's status, and the last claim in the log names its claimant, in
\* whatever order the handlers' transactions commit.
LogMatchesRow ==
    /\ run.status = StatusAfter(events[Len(events)].kind)
    /\ run.leaseGeneration = 0 <=> run.claimedVerifierId = NoVerifier
    /\ run.leaseGeneration > 0 =>
          \E i \in 1 .. Len(events) :
             /\ events[i].kind \in ClaimKinds
             /\ events[i].actor = run.claimedVerifierId
             /\ \A j \in (i + 1) .. Len(events) : events[j].kind \notin ClaimKinds

\* In a run and a log of their types.
EventsExplainRow == TypeOK /\ LogMatchesRow

\* docs/scientific-verification.md:41: "Legal states are requested -> claimed ->
\* running -> completed; explicit failure/cancellation branches are supported",
\* and an expired claimed or running run can be reclaimed.  No interleaving of
\* handlers leaves a log with any other step, so at most one terminal event is
\* ever written and it is the last.
Documented(from, to) ==
    \/ from = "requested" /\ to \in {"claimed", "cancelled"}
    \/ from = "claimed" /\ to \in {"claimed", "running", "failed", "cancelled"}
    \/ from = "running" /\ to \in {"claimed", "completed", "failed", "cancelled"}

LegalHistory ==
    \A i \in 1 .. Len(events) - 1 :
        Documented(StatusAfter(events[i].kind), StatusAfter(events[i + 1].kind))

\* docs/scientific-verification.md:41: "Completion requires at least one
\* finding", although the count is read in a query of its own before the write.
CompletedHasFinding == run.status = "completed" => findings > 0

\* Whatever an unfenced handler writes late, it writes for a verifier that did
\* claim this run earlier: a worker move is never attributed to a verifier
\* that never held the lease, even when it presents another's token.
WorkersClaimedFirst ==
    \A i \in 1 .. Len(events) :
        events[i].kind \in WorkerKinds => ClaimedBy(events, events[i].actor, i - 1)

\* "reclaimed" is decided from the first, stale read; still no run is reported
\* reclaimed that was never claimed.
ReclaimedAfterClaim ==
    \A i \in 1 .. Len(events) :
        events[i].kind = "reclaimed" => \E v \in Verifiers : ClaimedBy(events, v, i - 1)

\* The log reports no work and no reclaim without the claim that goes before it
\* (claimVerificationRun, transitionVerificationRun).
ClaimsComeFirst == WorkersClaimedFirst /\ ReclaimedAfterClaim

\* The handlers implement the lease they promise: no live lease is replaced,
\* every replacement raises the generation, and no other write touches a grant.
ImplementsLease == Lease!LeaseSpec

\* docs/scientific-verification.md:41: "A live lease, wrong verifier, expired
\* lease, concurrent state change, or terminal run fails closed": only the
\* verifier that holds the run moves it along.
WrongVerifierFailsClosed ==
    [][\A v \in Verifiers :
          (run' # run /\ events' = Append(events, Event(run'.status, v))
             /\ run'.status \in WorkerKinds)
          => run.claimedVerifierId = v]_vars
===============================================================================
