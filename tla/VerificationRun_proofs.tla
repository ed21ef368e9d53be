------------------------- MODULE VerificationRun_proofs -------------------------
(***************************************************************************)
(* Proofs about VerificationRun, for every set of verifiers and handlers   *)
(* and every value of the bounds.                                          *)
(***************************************************************************)
EXTENDS VerificationRun, TLAPS

-----------------------------------------------------------------------------
(* Type correctness *)

\* What a handler holds has one of the shapes its operation gives it.
LEMMA HandlerShapes ==
    ASSUME NEW h \in Handlers
    PROVE  /\ h.pc = "claiming" =>
                 h \in [pc : {"claiming"}, by : Verifiers, at : 0 .. MaxTime,
                        lifetime : Durations, wasRequested : BOOLEAN]
           /\ h.pc \in {"loaded", "leased", "checked"} =>
                 h \in [pc : {"loaded", "leased", "checked"}, by : Actors, to : Moves,
                        token : 0 .. MaxGeneration, started : BOOLEAN]
           /\ h.pc \notin {"claiming", "loaded", "leased", "checked"} => h = Idle
  BY DEF Handlers, Idle

\* A transaction keeps the types when the row and the event it writes are typed.
LEMMA WriteTyped ==
    ASSUME TypeOK, NEW r \in Requests, NEW new \in Runs,
           NEW event \in [kind : EventKinds, actor : Actors], Write(r, new, event)
    PROVE  TypeOK'
  <1>1. req' \in [Requests -> Handlers]
    BY DEF TypeOK, Write, Goto, Handlers
  <1>2. events' \in Seq([kind : EventKinds, actor : Actors])
    BY DEF TypeOK, Write
  <1>. QED BY <1>1, <1>2 DEF TypeOK, Write

\* Every step of the handlers, of the clock and of the finding writer keeps the
\* types.
LEMMA TypeStep == TypeOK /\ [Next]_vars => TypeOK'
  <1>. SUFFICES ASSUME TypeOK, [Next]_vars PROVE TypeOK'
    OBVIOUS
  <1>. USE RunConstants
  <1>1. CASE Tick
    BY <1>1 DEF TypeOK, Tick
  <1>2. ASSUME NEW r \in Requests, NEW v \in Verifiers, NEW d \in Durations,
               LoadForClaim(r, v, d)
        PROVE  TypeOK'
    <2>1. [pc |-> "claiming", by |-> v, at |-> now, lifetime |-> d,
           wasRequested |-> run.status = "requested"] \in Handlers
      BY DEF TypeOK, Handlers
    <2>. QED BY <1>2, <2>1 DEF TypeOK, LoadForClaim, Goto
  <1>3. ASSUME NEW r \in Requests, NEW v \in Actors, NEW to \in Moves,
               NEW token \in 0 .. MaxGeneration, LoadForMove(r, v, to, token)
        PROVE  TypeOK'
    <2>1. [pc |-> "loaded", by |-> v, to |-> to, token |-> token,
           started |-> run.started] \in Handlers
      BY DEF TypeOK, Handlers, Runs
    <2>. QED BY <1>3, <2>1 DEF TypeOK, LoadForMove, Goto
  <1>4. ASSUME NEW r \in Requests, CommitClaim(r)
        PROVE  TypeOK'
    <2>. DEFINE h == req[r]
    <2>. DEFINE new == [status            |-> "claimed",
                        claimedVerifierId |-> h.by,
                        leaseGeneration   |-> run.leaseGeneration + 1,
                        leaseExpiresAt    |-> h.at + h.lifetime,
                        started           |-> FALSE]
    <2>. DEFINE event == Event(IF h.wasRequested THEN "claimed" ELSE "reclaimed", h.by)
    <2>1. h \in [pc : {"claiming"}, by : Verifiers, at : 0 .. MaxTime,
                 lifetime : Durations, wasRequested : BOOLEAN]
      BY <1>4, HandlerShapes DEF TypeOK, CommitClaim
    <2>2. new \in Runs
      <3>1. h.at + h.lifetime \in Nat
        <4>. PICK at \in 0 .. MaxTime, d \in Durations : h.at = at /\ h.lifetime = d
          BY <2>1
        <4>. QED BY DEF RunConstants
      <3>2. run.leaseGeneration + 1 \in 0 .. MaxGeneration
        BY <1>4 DEF TypeOK, CommitClaim, Runs, RunConstants
      <3>3. h.by \in Verifiers
        BY <2>1
      <3>. QED BY <3>1, <3>2, <3>3 DEF Runs, Status, Open, Leased
    <2>3. event \in [kind : EventKinds, actor : Actors]
      BY <2>1 DEF Event, EventKinds, Actors
    <2>4. Write(r, new, event)
      BY <1>4 DEF CommitClaim
    <2>. HIDE DEF new, event
    <2>. QED BY <2>2, <2>3, <2>4, WriteTyped
  <1>5. ASSUME NEW r \in Requests, CheckLease(r) \/ CountFindings(r)
        PROVE  TypeOK'
    <2>1. req[r] \in [pc : {"loaded", "leased", "checked"}, by : Actors, to : Moves,
                      token : 0 .. MaxGeneration, started : BOOLEAN]
      BY <1>5, HandlerShapes DEF TypeOK, CheckLease, CountFindings
    <2>2. \A p \in {"leased", "checked"} : [req[r] EXCEPT !.pc = p] \in Handlers
      BY <2>1 DEF Handlers
    <2>. QED BY <1>5, <2>2 DEF TypeOK, CheckLease, CountFindings, Goto
  <1>6. ASSUME NEW r \in Requests, CommitMove(r)
        PROVE  TypeOK'
    <2>. DEFINE h == req[r]
    <2>. DEFINE new == [run EXCEPT !.status  = h.to,
                                   !.started = (h.to = "running") \/ h.started]
    <2>. DEFINE event == Event(h.to, h.by)
    <2>1. h \in [pc : {"loaded", "leased", "checked"}, by : Actors, to : Moves,
                 token : 0 .. MaxGeneration, started : BOOLEAN]
      BY <1>6, HandlerShapes DEF TypeOK, CommitMove, ReadyToMove
    <2>2. new \in Runs
      BY <2>1 DEF TypeOK, Runs, Moves, Status, Open, Leased
    <2>3. event \in [kind : EventKinds, actor : Actors]
      BY <2>1 DEF Event, EventKinds
    <2>4. Write(r, new, event)
      BY <1>6 DEF CommitMove
    <2>. HIDE DEF new, event
    <2>. QED BY <2>2, <2>3, <2>4, WriteTyped
  <1>7. ASSUME NEW r \in Requests, Abandon(r)
        PROVE  TypeOK'
    BY <1>7 DEF TypeOK, Abandon, Goto, Handlers
  <1>8. ASSUME NEW v \in Verifiers, RecordFinding(v)
        PROVE  TypeOK'
    BY <1>8 DEF TypeOK, RecordFinding
  <1>9. CASE UNCHANGED vars
    BY <1>9 DEF TypeOK, vars
  <1>. QED BY <1>1, <1>2, <1>3, <1>4, <1>5, <1>6, <1>7, <1>8, <1>9 DEF Next

LEMMA TypeInit == Init => TypeOK
  BY RunConstants DEF Init, TypeOK, Runs, Status, Open, Leased, Event, EventKinds,
                      Actors, Handlers

\* The row, its event log and every handler's local state are well typed in
\* every reachable state, whatever the number of verifiers and requests.
THEOREM Typing == Spec => []TypeOK
  <1>. QED BY TypeInit, TypeStep, PTL DEF Spec

-----------------------------------------------------------------------------
(***************************************************************************)
(* The safety invariants.  They are not inductive as they stand: what a    *)
(* handler will write depends on what it has read, so the strengthening    *)
(* says what remains true, after any number of other commits, of a handler *)
(* that has passed its checks.  None of it mentions the current claimant,  *)
(* which is exactly what a handler cannot rely on.                         *)
(***************************************************************************)
LeasedHasClaimant == run.status \in Leased => run.claimedVerifierId # NoVerifier

HandlerInv ==
    \A r \in Requests :
        /\ req[r].pc \in {"loaded", "leased", "checked"} =>
              (req[r].to = "cancelled" <=> req[r].by = Editor)
        /\ req[r].pc \in {"leased", "checked"} =>
              req[r].to # "cancelled" /\ ClaimedBy(events, req[r].by, Len(events))
        /\ req[r].pc = "checked" => findings > 0
        /\ req[r].pc = "claiming" /\ ~req[r].wasRequested =>
              \E v \in Verifiers : ClaimedBy(events, v, Len(events))

Safety ==
    /\ LogMatchesRow
    /\ LegalHistory
    /\ CompletedHasFinding
    /\ WorkersClaimedFirst
    /\ ReclaimedAfterClaim

IInv ==
    /\ TypeOK
    /\ Len(events) > 0
    /\ Safety
    /\ LeasedHasClaimant
    /\ HandlerInv

\* The log only grows: what was true of a prefix stays true of it.
LEMMA LogGrows ==
    ASSUME events \in Seq([kind : EventKinds, actor : Actors]),
           NEW event \in [kind : EventKinds, actor : Actors],
           events' = Append(events, event)
    PROVE  /\ Len(events') = Len(events) + 1
           /\ \A i \in 1 .. Len(events) : events'[i] = events[i]
           /\ events'[Len(events) + 1] = event
           /\ \A v, n : n \in 0 .. Len(events) =>
                 (ClaimedBy(events', v, n) <=> ClaimedBy(events, v, n))
           /\ \A v : ClaimedBy(events, v, Len(events)) => ClaimedBy(events', v, Len(events'))
  <1>1. /\ Len(events') = Len(events) + 1
        /\ \A i \in 1 .. Len(events) : events'[i] = events[i]
        /\ events'[Len(events) + 1] = event
    OBVIOUS
  <1>2. ASSUME NEW v, NEW n \in 0 .. Len(events)
        PROVE  ClaimedBy(events', v, n) <=> ClaimedBy(events, v, n)
    BY <1>1 DEF ClaimedBy
  <1>3. ASSUME NEW v, ClaimedBy(events, v, Len(events))
        PROVE  ClaimedBy(events', v, Len(events'))
    BY <1>1, <1>3 DEF ClaimedBy
  <1>. QED BY <1>1, <1>2, <1>3

\* The log part of the invariant depends on the row, the log and the findings
\* only, and no step but a transaction changes the first two.
LEMMA OtherSteps ==
    ASSUME IInv, TypeOK', HandlerInv', UNCHANGED <<run, events>>,
           findings' \in Nat, findings' >= findings
    PROVE  IInv'
  <1>. USE DEF IInv, Safety
  <1>1. LogMatchesRow'
    BY DEF LogMatchesRow
  <1>2. LegalHistory'
    BY DEF LegalHistory
  <1>3. CompletedHasFinding'
    BY RunConstants DEF CompletedHasFinding, TypeOK
  <1>4. WorkersClaimedFirst' /\ ReclaimedAfterClaim'
    BY DEF WorkersClaimedFirst, ReclaimedAfterClaim, ClaimedBy
  <1>5. LeasedHasClaimant'
    BY DEF LeasedHasClaimant
  <1>. QED BY <1>1, <1>2, <1>3, <1>4, <1>5

\* A transaction keeps the invariant when its event tells what it did to the
\* row and its writer passed the checks its kind asks for.
LEMMA WriteStep ==
    ASSUME IInv, TypeOK', NEW r \in Requests, NEW new \in Runs,
           NEW event \in [kind : EventKinds, actor : Actors],
           Write(r, new, event),
           StatusAfter(event.kind) = new.status,
           \/ /\ event.kind \in ClaimKinds
              /\ event.actor \in Verifiers
              /\ event.actor = new.claimedVerifierId
              /\ new.leaseGeneration = run.leaseGeneration + 1
           \/ /\ event.kind \notin ClaimKinds
              /\ new.claimedVerifierId = run.claimedVerifierId
              /\ new.leaseGeneration = run.leaseGeneration,
           event.kind \in WorkerKinds => ClaimedBy(events, event.actor, Len(events)),
           event.kind = "reclaimed" => \E v \in Verifiers : ClaimedBy(events, v, Len(events)),
           new.status = "completed" => findings > 0
    PROVE  IInv'
  <1>. USE DEF IInv
  <1>. DEFINE n == Len(events)
  <1>1. n \in Nat /\ n > 0 /\ events \in Seq([kind : EventKinds, actor : Actors])
    BY DEF TypeOK
  <1>2. /\ run' = new
        /\ events' = Append(events, event)
        /\ findings' = findings
        /\ req' = [req EXCEPT ![r] = Idle]
        /\ RowGuard(new)
    BY DEF Write, Goto
  <1>3. /\ Len(events') = n + 1
        /\ \A i \in 1 .. n : events'[i] = events[i]
        /\ events'[n + 1] = event
        /\ \A v, k : k \in 0 .. n => (ClaimedBy(events', v, k) <=> ClaimedBy(events, v, k))
        /\ \A v : ClaimedBy(events, v, n) => ClaimedBy(events', v, Len(events'))
    BY <1>1, <1>2, LogGrows
  <1>4. LogMatchesRow'
    <2>1. run'.status = StatusAfter(events'[Len(events')].kind)
      BY <1>1, <1>2, <1>3
    <2>2. (run.leaseGeneration = 0 <=> run.claimedVerifierId = NoVerifier)
          /\ run.leaseGeneration \in Nat
      BY RunConstants DEF Safety, LogMatchesRow, TypeOK, Runs
    <2>3. run'.leaseGeneration = 0 <=> run'.claimedVerifierId = NoVerifier
      BY <1>2, <2>2, RunConstants
    <2>4. CASE event.kind \in ClaimKinds
      <3>1. /\ n + 1 \in 1 .. Len(events')
            /\ events'[n + 1].kind \in ClaimKinds
            /\ events'[n + 1].actor = run'.claimedVerifierId
            /\ \A j \in (n + 1 + 1) .. Len(events') : events'[j].kind \notin ClaimKinds
        BY <2>4, <1>1, <1>2, <1>3 DEF ClaimKinds
      <3>. QED BY <2>1, <2>3, <3>1 DEF LogMatchesRow
    <2>5. CASE event.kind \notin ClaimKinds
      <3>. SUFFICES ASSUME run'.leaseGeneration > 0
                    PROVE  \E i \in 1 .. Len(events') :
                              /\ events'[i].kind \in ClaimKinds
                              /\ events'[i].actor = run'.claimedVerifierId
                              /\ \A j \in (i + 1) .. Len(events') :
                                    events'[j].kind \notin ClaimKinds
        BY <2>1, <2>3 DEF LogMatchesRow
      <3>1. run.leaseGeneration > 0 /\ run'.claimedVerifierId = run.claimedVerifierId
        BY <1>2, <2>5
      <3>2. PICK i \in 1 .. n :
               /\ events[i].kind \in ClaimKinds
               /\ events[i].actor = run.claimedVerifierId
               /\ \A j \in (i + 1) .. n : events[j].kind \notin ClaimKinds
        BY <3>1 DEF Safety, LogMatchesRow
      <3>3. \A j \in (i + 1) .. Len(events') : events'[j].kind \notin ClaimKinds
        BY <3>2, <2>5, <1>1, <1>3
      <3>. QED BY <3>1, <3>2, <3>3, <1>1, <1>3
    <2>. QED BY <2>4, <2>5
  <1>5. LegalHistory'
    <2>1. Documented(StatusAfter(events[n].kind), StatusAfter(event.kind))
      <3>1. run.status = StatusAfter(events[n].kind)
        BY DEF Safety, LogMatchesRow
      <3>. QED BY <3>1, <1>2 DEF RowGuard, LegalEdges, Documented
    <2>2. \A i \in 1 .. n - 1 : Documented(StatusAfter(events[i].kind),
                                          StatusAfter(events[i + 1].kind))
      BY DEF Safety, LegalHistory
    <2>3. ASSUME NEW i \in 1 .. Len(events') - 1
          PROVE  Documented(StatusAfter(events'[i].kind), StatusAfter(events'[i + 1].kind))
      <3>1. CASE i = n
        BY <3>1, <2>1, <1>1, <1>3
      <3>2. CASE i \in 1 .. n - 1
        <4>1. events'[i] = events[i] /\ events'[i + 1] = events[i + 1]
          BY <3>2, <1>1, <1>3
        <4>. QED BY <3>2, <4>1, <2>2
      <3>. QED BY <3>1, <3>2, <1>1, <1>3
    <2>. QED BY <2>3 DEF LegalHistory
  <1>6. CompletedHasFinding'
    BY <1>2 DEF CompletedHasFinding
  <1>7. WorkersClaimedFirst'
    <2>1. \A i \in 1 .. n : events[i].kind \in WorkerKinds => ClaimedBy(events, events[i].actor, i - 1)
      BY DEF Safety, WorkersClaimedFirst
    <2>2. ASSUME NEW i \in 1 .. n + 1, events'[i].kind \in WorkerKinds
          PROVE  ClaimedBy(events', events'[i].actor, i - 1)
      <3>1. CASE i = n + 1
        BY <2>2, <3>1, <1>1, <1>3
      <3>2. CASE i \in 1 .. n
        <4>1. i - 1 \in 0 .. n /\ events'[i] = events[i]
          BY <3>2, <1>1, <1>3
        <4>. QED BY <2>1, <2>2, <3>2, <4>1, <1>3
      <3>. QED BY <3>1, <3>2, <1>1
    <2>. QED BY <2>2, <1>3 DEF WorkersClaimedFirst
  <1>8. ReclaimedAfterClaim'
    <2>1. \A i \in 1 .. n : events[i].kind = "reclaimed" =>
                              \E v \in Verifiers : ClaimedBy(events, v, i - 1)
      BY DEF Safety, ReclaimedAfterClaim
    <2>2. ASSUME NEW i \in 1 .. n + 1, events'[i].kind = "reclaimed"
          PROVE  \E v \in Verifiers : ClaimedBy(events', v, i - 1)
      <3>1. CASE i = n + 1
        BY <2>2, <3>1, <1>1, <1>3
      <3>2. CASE i \in 1 .. n
        <4>1. i - 1 \in 0 .. n /\ events'[i] = events[i]
          BY <3>2, <1>1, <1>3
        <4>. QED BY <2>1, <2>2, <3>2, <4>1, <1>3
      <3>. QED BY <3>1, <3>2, <1>1
    <2>. QED BY <2>2, <1>3 DEF ReclaimedAfterClaim
  <1>9. LeasedHasClaimant'
    BY <1>2, RunConstants DEF LeasedHasClaimant, RowGuard, LegalEdges, StatusAfter,
                              ClaimKinds, Leased
  <1>10. HandlerInv'
    <2>. SUFFICES ASSUME NEW q \in Requests, q # r
                  PROVE  /\ req'[q] = req[q]
                         /\ req[q].pc \in {"leased", "checked"} =>
                               ClaimedBy(events', req[q].by, Len(events'))
                         /\ req[q].pc = "claiming" /\ ~req[q].wasRequested =>
                               \E v \in Verifiers : ClaimedBy(events', v, Len(events'))
      BY <1>2 DEF HandlerInv, TypeOK, Idle
    <2>. QED BY <1>2, <1>3 DEF HandlerInv, TypeOK
  <1>. QED BY <1>3, <1>1, <1>4, <1>5, <1>6, <1>7, <1>8, <1>9, <1>10 DEF Safety

LEMMA IInvInit == Init => IInv
  <1>. SUFFICES ASSUME Init PROVE IInv
    OBVIOUS
  <1>1. Len(events) = 1 /\ events[1].kind = "requested"
    BY DEF Init, Event
  <1>2. LogMatchesRow /\ LegalHistory
    BY <1>1, RunConstants DEF Init, LogMatchesRow, LegalHistory, StatusAfter
  <1>3. WorkersClaimedFirst /\ ReclaimedAfterClaim
    BY <1>1 DEF WorkersClaimedFirst, ReclaimedAfterClaim, WorkerKinds
  <1>4. CompletedHasFinding /\ LeasedHasClaimant /\ HandlerInv
    BY DEF Init, CompletedHasFinding, LeasedHasClaimant, Leased, HandlerInv, Idle
  <1>. QED BY TypeInit, <1>1, <1>2, <1>3, <1>4 DEF IInv, Safety

LEMMA IInvStep == IInv /\ [Next]_vars => IInv'
  <1>. SUFFICES ASSUME IInv, [Next]_vars PROVE IInv'
    OBVIOUS
  <1>0. TypeOK /\ TypeOK'
    BY TypeStep DEF IInv
  <1>1. CASE Tick \/ UNCHANGED vars
    <2>1. UNCHANGED <<run, events, findings, req>>
      BY <1>1 DEF Tick, vars
    <2>2. HandlerInv'
      BY <2>1 DEF IInv, HandlerInv, ClaimedBy
    <2>. QED BY <1>0, <2>1, <2>2, OtherSteps, RunConstants DEF TypeOK
  <1>2. ASSUME NEW r \in Requests, NEW v \in Verifiers, NEW d \in Durations,
               LoadForClaim(r, v, d)
        PROVE  IInv'
    <2>1. UNCHANGED <<run, events, findings>>
      BY <1>2 DEF LoadForClaim
    <2>2. run.status # "requested" => \E w \in Verifiers : ClaimedBy(events, w, Len(events))
      <3>. SUFFICES ASSUME run.status # "requested"
                    PROVE  \E w \in Verifiers : ClaimedBy(events, w, Len(events))
        OBVIOUS
      <3>1. run.claimedVerifierId \in Verifiers /\ run.leaseGeneration > 0
        BY <1>0, <1>2, RunConstants DEF LoadForClaim, IInv, Safety, LogMatchesRow, TypeOK,
                                        LeasedHasClaimant, Runs, Status, Open
      <3>. QED BY <3>1 DEF IInv, Safety, LogMatchesRow, ClaimedBy
    <2>3. req' = [req EXCEPT ![r] = [pc |-> "claiming", by |-> v, at |-> now, lifetime |-> d,
                                     wasRequested |-> run.status = "requested"]]
      BY <1>2 DEF LoadForClaim, Goto
    <2>4. HandlerInv'
      BY <1>0, <2>1, <2>2, <2>3 DEF IInv, HandlerInv, TypeOK, ClaimedBy
    <2>. QED BY <1>0, <2>1, <2>4, OtherSteps, RunConstants DEF TypeOK
  <1>3. ASSUME NEW r \in Requests, NEW v \in Actors, NEW to \in Moves,
               NEW token \in 0 .. MaxGeneration, LoadForMove(r, v, to, token)
        PROVE  IInv'
    <2>1. UNCHANGED <<run, events, findings>>
      BY <1>3 DEF LoadForMove
    <2>2. HandlerInv'
      BY <1>0, <1>3 DEF LoadForMove, Goto, IInv, HandlerInv, TypeOK, ClaimedBy
    <2>. QED BY <1>0, <2>1, <2>2, OtherSteps, RunConstants DEF TypeOK
  <1>4. ASSUME NEW r \in Requests, CommitClaim(r)
        PROVE  IInv'
    <2>. DEFINE h == req[r]
    <2>. DEFINE new == [status            |-> "claimed",
                        claimedVerifierId |-> h.by,
                        leaseGeneration   |-> run.leaseGeneration + 1,
                        leaseExpiresAt    |-> h.at + h.lifetime,
                        started           |-> FALSE]
    <2>. DEFINE kind == IF h.wasRequested THEN "claimed" ELSE "reclaimed"
    <2>. DEFINE event == [kind |-> kind, actor |-> h.by]
    <2>1. h \in [pc : {"claiming"}, by : Verifiers, at : 0 .. MaxTime,
                 lifetime : Durations, wasRequested : BOOLEAN]
      BY <1>0, <1>4, HandlerShapes DEF TypeOK, CommitClaim
    <2>2. Write(r, new, event)
      BY <1>4 DEF CommitClaim, Event
    <2>3. new \in Runs
      BY <1>0, <2>2 DEF TypeOK, Write
    <2>4. event \in [kind : EventKinds, actor : Actors]
      BY <2>1 DEF EventKinds, Actors
    <2>5. event.kind \in ClaimKinds /\ StatusAfter(event.kind) = new.status
          /\ event.kind \notin WorkerKinds
      BY <2>1 DEF ClaimKinds, StatusAfter, WorkerKinds
    <2>6. /\ event.actor \in Verifiers
          /\ event.actor = new.claimedVerifierId
          /\ new.leaseGeneration = run.leaseGeneration + 1
          /\ new.status # "completed"
      BY <2>1
    <2>7. event.kind = "reclaimed" => \E v \in Verifiers : ClaimedBy(events, v, Len(events))
      BY <2>1, <1>4 DEF IInv, HandlerInv, CommitClaim
    <2>. HIDE DEF new, event
    <2>. QED BY <1>0, <2>2, <2>3, <2>4, <2>5, <2>6, <2>7, WriteStep
  <1>5. ASSUME NEW r \in Requests, CheckLease(r)
        PROVE  IInv'
    <2>1. UNCHANGED <<run, events, findings>>
      BY <1>5 DEF CheckLease
    <2>2. req[r] \in [pc : {"loaded", "leased", "checked"}, by : Actors, to : Moves,
                      token : 0 .. MaxGeneration, started : BOOLEAN]
      BY <1>0, <1>5, HandlerShapes DEF TypeOK, CheckLease
    <2>3. ClaimedBy(events, req[r].by, Len(events))
      <3>1. req[r].by \in Verifiers /\ run.claimedVerifierId = req[r].by
        BY <1>5, <2>2 DEF CheckLease, HoldsLease, IInv, HandlerInv, Actors
      <3>2. run.leaseGeneration > 0
        BY <1>0, <3>1, RunConstants DEF IInv, Safety, LogMatchesRow, TypeOK, Runs
      <3>. QED BY <3>1, <3>2 DEF IInv, Safety, LogMatchesRow, ClaimedBy
    <2>4. req' = [req EXCEPT ![r] = [req[r] EXCEPT !.pc = "leased"]]
      BY <1>5 DEF CheckLease, Goto
    <2>5. HandlerInv'
      BY <1>0, <1>5, <2>1, <2>2, <2>3, <2>4 DEF IInv, HandlerInv, TypeOK, CheckLease, ClaimedBy
    <2>. QED BY <1>0, <2>1, <2>5, OtherSteps, RunConstants DEF TypeOK
  <1>6. ASSUME NEW r \in Requests, CountFindings(r)
        PROVE  IInv'
    <2>1. UNCHANGED <<run, events, findings>>
      BY <1>6 DEF CountFindings
    <2>2. req[r] \in [pc : {"loaded", "leased", "checked"}, by : Actors, to : Moves,
                      token : 0 .. MaxGeneration, started : BOOLEAN]
      BY <1>0, <1>6, HandlerShapes DEF TypeOK, CountFindings
    <2>3. req' = [req EXCEPT ![r] = [req[r] EXCEPT !.pc = "checked"]]
      BY <1>6 DEF CountFindings, Goto
    <2>4. HandlerInv'
      BY <1>0, <1>6, <2>1, <2>2, <2>3 DEF IInv, HandlerInv, TypeOK, CountFindings, ClaimedBy
    <2>. QED BY <1>0, <2>1, <2>4, OtherSteps, RunConstants DEF TypeOK
  <1>7. ASSUME NEW r \in Requests, CommitMove(r)
        PROVE  IInv'
    <2>. DEFINE h == req[r]
    <2>. DEFINE new == [run EXCEPT !.status  = h.to,
                                   !.started = (h.to = "running") \/ h.started]
    <2>. DEFINE event == [kind |-> h.to, actor |-> h.by]
    <2>1. h \in [pc : {"loaded", "leased", "checked"}, by : Actors, to : Moves,
                 token : 0 .. MaxGeneration, started : BOOLEAN]
      BY <1>0, <1>7, HandlerShapes DEF TypeOK, CommitMove, ReadyToMove
    <2>2. Write(r, new, event)
      BY <1>7 DEF CommitMove, Event
    <2>3. new \in Runs
      BY <1>0, <2>2 DEF TypeOK, Write
    <2>4. event \in [kind : EventKinds, actor : Actors]
      BY <2>1 DEF EventKinds
    <2>5. /\ event.kind \notin ClaimKinds
          /\ event.kind # "reclaimed"
          /\ StatusAfter(event.kind) = new.status
          /\ new.claimedVerifierId = run.claimedVerifierId
          /\ new.leaseGeneration = run.leaseGeneration
      BY <1>0, <2>1 DEF ClaimKinds, StatusAfter, Moves, Terminal, TypeOK, Runs
    <2>6. event.kind \in WorkerKinds => ClaimedBy(events, event.actor, Len(events))
      BY <1>7 DEF CommitMove, ReadyToMove, WorkerKinds, IInv, HandlerInv
    <2>7. new.status = "completed" => findings > 0
      BY <1>0, <1>7 DEF CommitMove, ReadyToMove, IInv, HandlerInv, TypeOK, Runs
    <2>. HIDE DEF new, event
    <2>. QED BY <1>0, <2>2, <2>3, <2>4, <2>5, <2>6, <2>7, WriteStep
  <1>8. ASSUME NEW r \in Requests, Abandon(r)
        PROVE  IInv'
    <2>1. UNCHANGED <<run, events, findings>>
      BY <1>8 DEF Abandon
    <2>2. HandlerInv'
      BY <1>0, <1>8 DEF Abandon, Goto, Idle, IInv, HandlerInv, TypeOK, ClaimedBy
    <2>. QED BY <1>0, <2>1, <2>2, OtherSteps, RunConstants DEF TypeOK
  <1>9. ASSUME NEW v \in Verifiers, RecordFinding(v)
        PROVE  IInv'
    <2>1. UNCHANGED <<run, events, req>> /\ findings' = findings + 1
      BY <1>9 DEF RecordFinding
    <2>2. HandlerInv'
      BY <1>0, <2>1, RunConstants DEF IInv, HandlerInv, TypeOK, ClaimedBy
    <2>. QED BY <1>0, <2>1, <2>2, OtherSteps, RunConstants DEF TypeOK
  <1>. QED BY <1>1, <1>2, <1>3, <1>4, <1>5, <1>6, <1>7, <1>8, <1>9 DEF Next

\* The parts of Safety hold of every behaviour, however the handlers of any number
\* of verifiers interleave with the clock and with each other.
LEMMA SafetyHolds == Spec => []Safety
  <1>1. IInv => Safety
    BY DEF IInv
  <1>. QED BY IInvInit, IInvStep, <1>1, PTL DEF Spec

\* The row written by the last transaction and the append-only log never
\* disagree: its last event gives the row's status, and its last claim the
\* claimant.
THEOREM LogExplainsRow == Spec => []EventsExplainRow
  <1>1. TypeOK /\ Safety => EventsExplainRow
    BY DEF Safety, EventsExplainRow
  <1>. QED BY SafetyHolds, Typing, <1>1, PTL

\* Every history the log can show follows the documented edges, although the
\* handlers decide on a status they read earlier.
THEOREM HistoryIsLegal == Spec => []LegalHistory
  <1>1. Safety => LegalHistory
    BY DEF Safety
  <1>. QED BY SafetyHolds, <1>1, PTL

\* A completed run has a finding, although the count precedes the write.
THEOREM CompletionRests == Spec => []CompletedHasFinding
  <1>1. Safety => CompletedHasFinding
    BY DEF Safety
  <1>. QED BY SafetyHolds, <1>1, PTL

\* Whoever the log shows at work on the run had been granted it before, late
\* writes of handlers that have lost their lease included, and a run reported
\* reclaimed had been claimed.
THEOREM WorkWasClaimed == Spec => []ClaimsComeFirst
  <1>1. Safety => ClaimsComeFirst
    BY DEF Safety, ClaimsComeFirst
  <1>. QED BY SafetyHolds, <1>1, PTL

-----------------------------------------------------------------------------
(* VerificationRun implements RunLease *)

\* A claim in flight began no later than now, so the expiry it will write is
\* counted from a moment already past.
ClaimsBegan == \A r \in Requests : req[r].pc = "claiming" => req[r].at <= now

LEMMA ClaimsBeganStep == TypeOK /\ ClaimsBegan /\ [Next]_vars => ClaimsBegan'
  <1>. SUFFICES ASSUME TypeOK, ClaimsBegan, [Next]_vars, NEW q \in Requests,
                       req'[q].pc = "claiming"
                PROVE  req'[q].at <= now'
    BY DEF ClaimsBegan
  <1>1. now \in Int /\ now' \in Int /\ now <= now'
    <2>1. now \in Int
      BY DEF TypeOK
    <2>2. now' = now \/ now' = now + 1
      BY DEF Next, Tick, LoadForClaim, LoadForMove, CommitClaim, CommitMove, CheckLease,
             CountFindings, Abandon, RecordFinding, Write, vars
    <2>. QED BY <2>1, <2>2
  <1>2. CASE req'[q] = req[q]
    <2>1. req[q].at \in 0 .. MaxTime
      BY <1>2, HandlerShapes DEF TypeOK
    <2>2. req[q].at <= now
      BY <1>2 DEF ClaimsBegan
    <2>3. \A t \in 0 .. MaxTime : t <= now => t <= now'
      BY <1>1
    <2>. QED BY <1>2, <2>1, <2>2, <2>3
  <1>3. ASSUME NEW v \in Verifiers, NEW d \in Durations, LoadForClaim(q, v, d)
        PROVE  req'[q].at <= now'
    BY <1>1, <1>3 DEF TypeOK, LoadForClaim, Goto
  <1>4. ASSUME NEW v \in Actors, NEW to \in Moves, NEW token \in 0 .. MaxGeneration,
               LoadForMove(q, v, to, token)
        PROVE  FALSE
    BY <1>4 DEF TypeOK, LoadForMove, Goto
  <1>5. ASSUME CommitClaim(q) \/ CommitMove(q) \/ Abandon(q)
        PROVE  FALSE
    BY <1>5 DEF TypeOK, CommitClaim, CommitMove, Abandon, Write, Goto, Idle
  <1>6. ASSUME CheckLease(q) \/ CountFindings(q)
        PROVE  FALSE
    <2>1. req[q] \in [pc : {"loaded", "leased", "checked"}, by : Actors, to : Moves,
                      token : 0 .. MaxGeneration, started : BOOLEAN]
      BY <1>6, HandlerShapes DEF TypeOK, CheckLease, CountFindings
    <2>. QED BY <1>6, <2>1 DEF TypeOK, CheckLease, CountFindings, Goto
  <1>7. ASSUME NEW r \in Requests, r # q, NEW local, Goto(r, local)
        PROVE  req'[q] = req[q]
    BY <1>7 DEF TypeOK, Goto
  <1>8. ASSUME NEW r \in Requests, r # q,
               \/ \E v \in Verifiers, d \in Durations : LoadForClaim(r, v, d)
               \/ \E v \in Actors, to \in Moves, token \in 0 .. MaxGeneration :
                     LoadForMove(r, v, to, token)
               \/ CommitClaim(r) \/ CheckLease(r) \/ CountFindings(r)
               \/ CommitMove(r) \/ Abandon(r)
        PROVE  req'[q] = req[q]
    <2>1. \E local : Goto(r, local)
      BY <1>8 DEF LoadForClaim, LoadForMove, CommitClaim, CommitMove, CheckLease,
                  CountFindings, Abandon, Write
    <2>. QED BY <1>8, <1>7, <2>1
  <1>9. CASE Tick \/ (\E v \in Verifiers : RecordFinding(v)) \/ UNCHANGED vars
    BY <1>2, <1>9 DEF Tick, RecordFinding, vars
  <1>. QED BY <1>2, <1>3, <1>4, <1>5, <1>6, <1>8, <1>9 DEF Next

\* Every step of the handlers is a step of the lease, or leaves it unchanged:
\* a claim is a Grant, a move is one of Start, Complete, Fail and Cancel.
LEMMA LeaseStep ==
    TypeOK /\ ClaimsBegan /\ [Next]_vars => [Lease!LeaseNext]_(Lease!leaseVars)
  <1>. SUFFICES ASSUME TypeOK, ClaimsBegan, [Next]_vars
                PROVE  Lease!LeaseNext \/ UNCHANGED Lease!leaseVars
    OBVIOUS
  <1>1. CASE Tick
    BY <1>1 DEF Tick, Lease!Tick, Lease!LeaseNext
  <1>2. ASSUME NEW r \in Requests, CommitClaim(r)
        PROVE  Lease!LeaseNext
    <2>. DEFINE h == req[r]
    <2>1. h \in [pc : {"claiming"}, by : Verifiers, at : 0 .. MaxTime,
                 lifetime : Durations, wasRequested : BOOLEAN]
      BY <1>2, HandlerShapes DEF TypeOK, CommitClaim
    <2>2. h.by \in Verifiers /\ h.lifetime \in Durations /\ h.at \in 0 .. now
      <3>1. h.at <= now /\ h.at \in 0 .. MaxTime
        BY <1>2, <2>1 DEF ClaimsBegan, CommitClaim
      <3>. QED BY <2>1, <3>1, RunConstants DEF TypeOK
    <2>3. h.at + h.lifetime \in Lease!Expiries
      BY <2>2 DEF Lease!Expiries
    <2>4. ~Lease!Live
      <3>1. run.status \in Leased => run.leaseExpiresAt <= now
        BY <1>2 DEF CommitClaim, Write, RowGuard
      <3>2. run.leaseExpiresAt \in Int /\ now \in Int
        BY DEF TypeOK, Runs
      <3>. QED BY <3>1, <3>2 DEF Lease!Live, Lease!Leased, Leased
    <2>5. Lease!Grant(h.by, h.at + h.lifetime)
      BY <1>2, <2>4 DEF CommitClaim, Write, Lease!Grant, Lease!Open, Lease!Leased, Open, Leased
    <2>. QED BY <2>2, <2>3, <2>5 DEF Lease!LeaseNext
  <1>3. ASSUME NEW r \in Requests, CommitMove(r)
        PROVE  Lease!LeaseNext
    <2>1. req[r] \in [pc : {"loaded", "leased", "checked"}, by : Actors, to : Moves,
                      token : 0 .. MaxGeneration, started : BOOLEAN]
      BY <1>3, HandlerShapes DEF TypeOK, CommitMove, ReadyToMove
    <2>. DEFINE to == req[r].to
    <2>2. /\ to \in Moves
          /\ <<run.status, to>> \in LegalEdges
          /\ run'.status = to
          /\ run'.claimedVerifierId = run.claimedVerifierId
          /\ run'.leaseGeneration = run.leaseGeneration
          /\ run'.leaseExpiresAt = run.leaseExpiresAt
          /\ UNCHANGED now
      BY <1>3, <2>1 DEF CommitMove, Write, RowGuard, TypeOK, Runs
    <2>3. \A from : run.status \in from => Lease!Move(from, to)
      BY <2>2 DEF Lease!Move
    <2>4. \/ to = "running" /\ run.status \in {"claimed"}
          \/ to = "completed" /\ run.status \in {"running"}
          \/ to = "failed" /\ run.status \in Lease!Leased
          \/ to = "cancelled" /\ run.status \in Lease!Open
      BY <2>2 DEF LegalEdges, Moves, Terminal, Lease!Leased, Lease!Open
    <2>. HIDE DEF to
    <2>. QED BY <2>3, <2>4
             DEF Lease!LeaseNext, Lease!Start, Lease!Complete, Lease!Fail, Lease!Cancel
  <1>4. ASSUME UNCHANGED <<now, run>>
        PROVE  UNCHANGED Lease!leaseVars
    BY <1>4 DEF Lease!leaseVars
  <1>. QED BY <1>1, <1>2, <1>3, <1>4
           DEF Next, LoadForClaim, LoadForMove, CheckLease, CountFindings, Abandon,
               RecordFinding, vars

\* The handlers implement the lease: in every behaviour a live lease is never
\* replaced, each grant carries the next generation, and no other write touches
\* a grant.
THEOREM LeaseRefinement == Spec => ImplementsLease
  <1>1. Init => ClaimsBegan /\ Lease!LeaseInit
    BY DEF Init, ClaimsBegan, Idle, Lease!LeaseInit
  <1>. QED BY <1>1, TypeInit, TypeStep, ClaimsBeganStep, LeaseStep, PTL
           DEF Spec, ImplementsLease, Lease!LeaseSpec
===============================================================================
