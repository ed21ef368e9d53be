------------------------- MODULE SynthesisGeneration -------------------------
(***************************************************************************)
(* generateSynthesisDraft of apps/web/src/lib/synthesis-generation.ts with *)
(* the run recorder of synthesis-writer.ts: an editor's request key claims *)
(* a generation under a lease, one AgentRun is bound to the claim, the     *)
(* provider is called, the run succeeds or fails, and a draft is stored.   *)
(*                                                                         *)
(* Every handler takes one step per query or transaction and may die after *)
(* any of them.  The claim and the last transaction are Serializable, the  *)
(* recorder's updates repeat their conditions under the row lock; each is  *)
(* atomic.  A run is named by its key and the attempt that started it.     *)
(* What a draft says and where it goes in its series is in SynthesisSeries.*)
(***************************************************************************)
EXTENDS Naturals

CONSTANTS
    Keys,       \* request keys
    Selectors,  \* canonical selectors
    Handlers,   \* request handlers in flight at once
    MaxFaults,  \* crashes, failed calls, premature expiries (bound)
    Nothing

Attempts == 1 .. MaxFaults + 1

\* The rows of the two tables.
Claims == [sel: Selectors, status: {"running", "completed", "failed"}, attempt: Attempts,
           token: {0} \union Attempts, live: BOOLEAN, run: {0} \union Attempts]
Drafts == [sel: Selectors, run: Attempts]

ASSUME GenerationConstants == MaxFaults \in Nat /\ Nothing \notin Claims \union Drafts

VARIABLES
    claim,      \* SynthesisGenerationRequestClaim rows
    run,        \* status of the AgentRun each attempt of a key started
    draft,      \* SynthesisDraft rows, unique per request key and per run
    req,        \* local variables of the handlers
    answers,    \* history: what successful calls returned
    faults      \* what went wrong so far

vars == <<claim, run, draft, req, answers, faults>>

Idle == [pc |-> "idle"]

\* What a handler that is neither idle nor dead holds.
Locals ==
    [pc: {"claim", "start", "call", "check", "cleanup", "release", "persist", "reread"},
     key: Keys, sel: Selectors, seen: {0} \union Attempts, token: {0} \union Attempts]

Init ==
    /\ claim = [k \in Keys |-> Nothing]
    /\ run = [k \in Keys |-> [n \in Attempts |-> "none"]]
    /\ draft = [k \in Keys |-> Nothing]
    /\ req = [h \in Handlers |-> Idle]
    /\ answers = {}
    /\ faults = 0

-----------------------------------------------------------------------------
(* Steps of a handler that leave the rows alone *)

Goto(h, local) == req' = [req EXCEPT ![h] = local]

Proceed(h, pc) == Goto(h, [req[h] EXCEPT !.pc = pc])

Throw(h) == Goto(h, Idle) /\ UNCHANGED answers

Answer(h, k, s, n) ==
    /\ Goto(h, Idle)
    /\ answers' = answers \union {[key |-> k, sel |-> s, run |-> n]}

Fault == faults < MaxFaults /\ faults' = faults + 1

UnchangedRows == UNCHANGED <<claim, run, draft>>

\* The process dies, or a read fails, between two steps.
Crash(h) == Fault /\ req[h] # Idle /\ Throw(h) /\ UnchangedRows

-----------------------------------------------------------------------------
(* The claim *)

\* Leases are judged against the clock read first: a lease seen expired here is
\* expired for this handler; one that expires or is granted later may not be.
ExpiredAttempt(k) == IF claim[k] # Nothing /\ ~claim[k].live THEN claim[k].attempt ELSE 0

BrokenFindDraft(h, k, s) ==    \* the selector of the stored draft is not compared
    /\ req[h] = Idle
    /\ \/ draft[k] # Nothing /\ Answer(h, k, s, draft[k].run)
       \/ /\ draft[k] = Nothing
          /\ Goto(h, [pc |-> "claim", key |-> k, sel |-> s, seen |-> ExpiredAttempt(k), token |-> 0])
          /\ UNCHANGED answers
    /\ UnchangedRows /\ UNCHANGED faults

FindDraft(h, k, s) ==
    /\ req[h] = Idle
    /\ \/ draft[k] # Nothing /\ draft[k].sel = s /\ Answer(h, k, s, draft[k].run)
       \/ /\ draft[k] = Nothing
          /\ Goto(h, [pc |-> "claim", key |-> k, sel |-> s, seen |-> ExpiredAttempt(k), token |-> 0])
          /\ UNCHANGED answers
    /\ UnchangedRows /\ UNCHANGED faults

Grant(h, n) ==
    /\ Goto(h, [req[h] EXCEPT !.pc = "start", !.token = n])
    /\ UNCHANGED answers

\* The row of attempt n: the token is new, no run is bound yet.
Granted(s, n) ==
    [sel |-> s, status |-> "running", attempt |-> n, token |-> n, live |-> TRUE, run |-> 0]

CreateClaim(h) ==
    /\ req[h].pc = "claim"
    /\ LET k == req[h].key IN
          /\ claim[k] = Nothing
          /\ claim' = [claim EXCEPT ![k] = Granted(req[h].sel, 1)]
          /\ Grant(h, 1)
    /\ UNCHANGED <<run, draft, faults>>

RunStatus(k, n) == IF n = 0 THEN "none" ELSE run[k][n]

BrokenLease(h, c) ==    \* a running claim is never over
    IF c.status = "running" THEN {"current"} ELSE {"over"}

\* What the handler may take the lease for, by the clock it read.
Lease(h, c) ==
    IF c.status # "running" \/ (~c.live /\ req[h].seen = c.attempt) THEN {"over"}
    ELSE IF c.live THEN {"current"} ELSE {"current", "over"}

\* The claim exists: another selector or a current lease is a conflict, a draft
\* is answered, and a run that succeeded is resumed without a second call.
MeetClaim(h) ==
    /\ req[h].pc = "claim"
    /\ LET k == req[h].key
           c == claim[k]
       IN /\ c # Nothing
          /\ \/ c.sel # req[h].sel /\ Throw(h)
             \/ c.sel = req[h].sel /\ c.status = "completed" /\ Answer(h, k, c.sel, draft[k].run)
             \/ /\ c.sel = req[h].sel
                /\ c.status # "completed"
                /\ RunStatus(k, c.run) = "succeeded"
                /\ Goto(h, [req[h] EXCEPT !.pc = "persist", !.token = c.run])
                /\ UNCHANGED answers
             \/ /\ c.sel = req[h].sel
                /\ RunStatus(k, c.run) # "succeeded"
                /\ "current" \in Lease(h, c)
                /\ Throw(h)
    /\ UnchangedRows /\ UNCHANGED faults

BrokenReclaim(h) ==    \* the run of the expired lease is left running
    /\ req[h].pc = "claim"
    /\ LET k == req[h].key
           c == claim[k]
       IN /\ c # Nothing
          /\ c.sel = req[h].sel
          /\ RunStatus(k, c.run) # "succeeded"
          /\ "over" \in Lease(h, c)
          /\ run' = run
          /\ claim' = [claim EXCEPT ![k] = Granted(c.sel, c.attempt + 1)]
          /\ Grant(h, c.attempt + 1)
    /\ UNCHANGED <<draft, faults>>

\* A failed attempt, or one whose lease is over: its run ends as failed.
Reclaim(h) ==
    /\ req[h].pc = "claim"
    /\ LET k == req[h].key
           c == claim[k]
       IN /\ c # Nothing
          /\ c.sel = req[h].sel
          /\ RunStatus(k, c.run) # "succeeded"
          /\ "over" \in Lease(h, c)
          /\ run' = [run EXCEPT ![k] =
                [n \in Attempts |-> IF n = c.run /\ @[n] = "running" THEN "failed" ELSE @[n]]]
          /\ claim' = [claim EXCEPT ![k] = Granted(c.sel, c.attempt + 1)]
          /\ Grant(h, c.attempt + 1)
    /\ UNCHANGED <<draft, faults>>

\* Only the owner's death makes expiry free; before that it is a slow call.
Owned(k) == \E h \in Handlers : req[h].pc \in {"start", "call"} /\ req[h].key = k
                                 /\ req[h].token = claim[k].token

LeaseExpires(k) ==
    /\ claim[k] # Nothing
    /\ claim[k].live
    /\ claim' = [claim EXCEPT ![k].live = FALSE]
    /\ IF Owned(k) THEN Fault ELSE UNCHANGED faults
    /\ UNCHANGED <<run, draft, req, answers>>

-----------------------------------------------------------------------------
(* The run *)

Bindable(h) ==
    LET c == claim[req[h].key]
    IN c.status = "running" /\ c.token = req[h].token /\ c.run = 0

\* The packet is loaded and the run is created and bound in one transaction;
\* if the claim is not this handler's any more, neither is stored.
Start(h) ==
    /\ req[h].pc = "start"
    /\ LET k == req[h].key
           n == req[h].token
       IN IF Bindable(h)
          THEN /\ run' = [run EXCEPT ![k][n] = "running"]
               /\ claim' = [claim EXCEPT ![k].run = n]
               /\ Proceed(h, "call")
          ELSE Proceed(h, "cleanup") /\ UNCHANGED <<claim, run>>
    /\ UNCHANGED <<draft, answers, faults>>

LoadFails(h) ==
    /\ req[h].pc = "start"
    /\ Fault
    /\ Proceed(h, "cleanup")
    /\ UnchangedRows /\ UNCHANGED answers

\* recorder.succeed and recorder.fail: a run that is not running stays as it is.
Record(h, outcome) ==
    /\ req[h].pc = "call"
    /\ LET k == req[h].key
           n == req[h].token
           writable == run[k][n] = "running"
       IN /\ run' = IF writable THEN [run EXCEPT ![k][n] = outcome] ELSE run
          /\ Proceed(h, IF writable /\ outcome = "succeeded" THEN "check" ELSE "cleanup")
    /\ UNCHANGED <<claim, draft, answers>>

Succeed(h)       == Record(h, "succeeded") /\ UNCHANGED faults
ProviderFails(h) == Record(h, "failed") /\ Fault

CheckBinding(h) ==
    /\ req[h].pc = "check"
    /\ LET c == claim[req[h].key] IN
       Proceed(h, IF c.status = "running" /\ c.run = req[h].token THEN "persist" ELSE "cleanup")
    /\ UnchangedRows /\ UNCHANGED <<answers, faults>>

\* The catch block: a claim without a run, or whose run failed, is released in a
\* second query, if it is still the one this handler holds.
Cleanup(h) ==
    /\ req[h].pc = "cleanup"
    /\ LET k == req[h].key
           n == claim[k].run
       IN IF RunStatus(k, n) \in {"none", "failed"}
          THEN Goto(h, [req[h] EXCEPT !.pc = "release", !.seen = n]) /\ UNCHANGED answers
          ELSE Throw(h)
    /\ UnchangedRows /\ UNCHANGED faults

Release(h) ==
    /\ req[h].pc = "release"
    /\ LET k == req[h].key
           c == claim[k]
       IN claim' = IF c.status = "running" /\ c.token = req[h].token /\ c.run = req[h].seen
                   THEN [claim EXCEPT ![k] = [c EXCEPT !.status = "failed", !.token = 0, !.live = FALSE]]
                   ELSE claim
    /\ Throw(h)
    /\ UNCHANGED <<run, draft, faults>>

-----------------------------------------------------------------------------
(* The draft *)

BrokenStore(k, s, n) ==    \* the claim is left for a later call to complete
    /\ draft' = [draft EXCEPT ![k] = [sel |-> s, run |-> n]]
    /\ UNCHANGED claim

\* The draft and the completion of its claim, in one transaction.
Store(k, s, n) ==
    /\ draft' = [draft EXCEPT ![k] = [sel |-> s, run |-> n]]
    /\ claim' = [claim EXCEPT ![k].status = "completed", ![k].token = 0, ![k].live = FALSE]

Completable(h) ==
    LET c == claim[req[h].key]
    IN c.status = "running" /\ c.sel = req[h].sel /\ c.run = req[h].token

Persist(h) ==
    /\ req[h].pc = "persist"
    /\ LET k == req[h].key IN
       \/ /\ draft[k] # Nothing
          /\ Answer(h, k, req[h].sel, draft[k].run)
          /\ UNCHANGED <<claim, draft>>
       \/ /\ draft[k] = Nothing
          /\ Completable(h)
          /\ Store(k, req[h].sel, req[h].token)
          /\ Answer(h, k, req[h].sel, req[h].token)
    /\ UNCHANGED <<run, faults>>

\* A transaction that fails, by a conflict with another draft of the series or
\* otherwise, looks once more for the draft before it reports the error.
PersistFails(h) ==
    /\ req[h].pc = "persist"
    /\ Fault
    /\ Proceed(h, "reread")
    /\ UnchangedRows /\ UNCHANGED answers

Reread(h) ==
    /\ req[h].pc = "reread"
    /\ LET k == req[h].key IN
       IF draft[k] # Nothing THEN Answer(h, k, req[h].sel, draft[k].run) ELSE Throw(h)
    /\ UnchangedRows /\ UNCHANGED faults

Step(h) ==
    \/ CreateClaim(h) \/ MeetClaim(h) \/ Reclaim(h)
    \/ Start(h) \/ Succeed(h) \/ CheckBinding(h)
    \/ Cleanup(h) \/ Release(h) \/ Persist(h) \/ Reread(h)

Next ==
    \/ \E h \in Handlers :
          \/ \E k \in Keys, s \in Selectors : FindDraft(h, k, s)
          \/ Step(h)
          \/ Crash(h) \/ LoadFails(h) \/ ProviderFails(h) \/ PersistFails(h)
    \/ \E k \in Keys : LeaseExpires(k)

\* A handler that has not died goes on, and time passes.  Nobody has to ask.
Fairness ==
    /\ \A h \in Handlers : WF_vars(Step(h))
    /\ \A k \in Keys : WF_vars(LeaseExpires(k) /\ ~Owned(k))

Spec == Init /\ [][Next]_vars /\ Fairness

-----------------------------------------------------------------------------
(* Properties *)

TypeOK ==
    /\ claim \in [Keys -> Claims \union {Nothing}]
    /\ run \in [Keys -> [Attempts -> {"none", "running", "succeeded", "failed"}]]
    /\ draft \in [Keys -> Drafts \union {Nothing}]
    /\ req \in [Handlers -> Locals \union {Idle}]
    /\ answers \subseteq [key: Keys, sel: Selectors, run: Attempts]
    /\ faults \in 0 .. MaxFaults

\* schema.prisma:1443-1444: "retries cannot create orphan or duplicate runs".  Of
\* all attempts at a key, the only one that is running or has succeeded is the
\* run its claim names, however late an expired handler's update arrives.
NoOrphanRuns ==
    \A k \in Keys : \A n \in Attempts :
        run[k][n] \in {"running", "succeeded"} => claim[k] # Nothing /\ claim[k].run = n

\* A key has a draft exactly when its claim is completed, and the draft is what
\* the claim's own succeeded run wrote for the claim's selector: a crash between
\* the run and the draft, or two handlers resuming it, never part the three.
DraftIsTheClaims ==
    \A k \in Keys :
        /\ (draft[k] # Nothing) <=> (claim[k] # Nothing /\ claim[k].status = "completed")
        /\ draft[k] # Nothing =>
              /\ draft[k].sel = claim[k].sel
              /\ draft[k].run = claim[k].run
              /\ run[k][draft[k].run] = "succeeded"

\* Claims, writer runs and drafts agree across crashes, expiries and retries, in
\* rows of their types.
RunsAndDraftsAgree == TypeOK /\ NoOrphanRuns /\ DraftIsTheClaims

\* "A request key is permanently bound to one canonical selector": whoever is
\* answered gets the one draft of the key, generated for the selector it sent.
AnswersMatchSelector ==
    \A a \in answers : draft[a.key] = [sel |-> a.sel, run |-> a.run]

\* Somebody asks with the key and selector of a claim, or of no claim yet.
Asked(k) == \E h \in Handlers : req[h].pc = "claim" /\ req[h].key = k
                                 /\ (claim[k] = Nothing \/ claim[k].sel = req[h].sel)

\* docs/synthesis-editorial.md "an exact retry reclaims a stale pre-run or
\* running lease, while provider failures remain retryable": a key that is asked
\* for again and again gets its draft, wherever earlier attempts stopped.
RetriesAreDrafted == \A k \in Keys : []<>Asked(k) => <>(draft[k] # Nothing)
===============================================================================
