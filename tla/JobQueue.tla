-------------------------------- MODULE JobQueue --------------------------------
(***************************************************************************)
(* InMemoryJobQueue of packages/github/src/job-queue.ts, and the handles   *)
(* SynchronousIngestionRunner (ingestion.ts) gives out for its jobs.       *)
(*                                                                         *)
(* JavaScript runs one step at a time to its next await.  A step is the    *)
(* body of enqueue or idle, the start of a worker (deferred by one turn of *)
(* the microtask queue, which is first in, first out), the settling of a   *)
(* worker's promise with everything runJob does after it, or the reaction  *)
(* that copies a settled job into its handle.  What a worker does is its   *)
(* own affair; inspectRepository bounds every request by a timeout, so it  *)
(* settles.  Operators named Broken... are deliberate bugs for the         *)
(* mutation runs.                                                          *)
(***************************************************************************)
EXTENDS Integers, Sequences, FiniteSets

CONSTANTS
    MaxJobs,        \* jobs enqueued before the model stops (bound)
    Waiters,        \* calls of idle()
    Concurrency     \* workers in flight at once

ASSUME QueueConstants == MaxJobs \in Nat /\ Concurrency \in Nat \ {0}

\* A job is its number in the monotonic counter of the default id factory.
Jobs == 1 .. MaxJobs

VARIABLES
    status,     \* Job.status; "new" before the job exists
    pending,    \* the backlog
    running,    \* the counter of occupied slots
    deferred,   \* started jobs whose worker has not been called yet
    working,    \* jobs whose worker has been called and has not settled
    idlers,     \* idleWaiters
    notified,   \* calls of idle() that were resolved
    handle,     \* IngestionJob.status
    issued,     \* the counter: jobs enqueued so far
    called      \* history: jobs in the order their workers were called

vars == <<status, pending, running, deferred, working, idlers, notified,
          handle, issued, called>>

Settled == {"succeeded", "failed"}
JobStatus == {"queued", "running"} \union Settled

Init ==
    /\ status = [j \in Jobs |-> "new"]
    /\ pending = <<>>
    /\ running = 0
    /\ deferred = <<>>
    /\ working = {}
    /\ idlers = {}
    /\ notified = {}
    /\ handle = [j \in Jobs |-> "new"]
    /\ issued = 0
    /\ called = <<>>

Lesser(a, b) == IF a < b THEN a ELSE b

BrokenStartable(backlog, busy) ==    \* <= for <
    IF busy <= Concurrency THEN Lesser(Len(backlog), Concurrency + 1 - busy) ELSE 0

\* How many jobs the loop of pump starts.
Startable(backlog, busy) ==
    IF busy < Concurrency THEN Lesser(Len(backlog), Concurrency - busy) ELSE 0

BrokenPump(backlog, busy, before) ==    \* a stack: the youngest job starts
    LET n == Startable(backlog, busy)
        left == Len(backlog) - n
    IN  /\ pending' = SubSeq(backlog, 1, left)
        /\ running' = busy + n
        /\ deferred' = deferred \o SubSeq(backlog, left + 1, Len(backlog))
        /\ status' = [j \in Jobs |->
              IF \E i \in left + 1 .. Len(backlog) : backlog[i] = j THEN "running" ELSE before[j]]

Pump(backlog, busy, before) ==
    LET n == Startable(backlog, busy)
    IN  /\ pending' = SubSeq(backlog, n + 1, Len(backlog))
        /\ running' = busy + n
        /\ deferred' = deferred \o SubSeq(backlog, 1, n)
        /\ status' = [j \in Jobs |->
              IF \E i \in 1 .. n : backlog[i] = j THEN "running" ELSE before[j]]

\* The handle is built from the job's status after pump.
Enqueue(j) ==
    /\ j = issued + 1
    /\ Pump(Append(pending, j), running, [status EXCEPT ![j] = "queued"])
    /\ handle' = [handle EXCEPT ![j] = status'[j]]
    /\ issued' = j
    /\ UNCHANGED <<working, idlers, notified, called>>

\* runJob resumes after its first await and calls the worker.
CallWorker ==
    /\ deferred # <<>>
    /\ deferred' = Tail(deferred)
    /\ working' = working \union {Head(deferred)}
    /\ called' = Append(called, Head(deferred))
    /\ UNCHANGED <<status, pending, running, idlers, notified, handle, issued>>

BrokenNotifyEarly ==    \* the backlog alone is looked at
    IF pending' = <<>>
    THEN notified' = notified \union idlers /\ idlers' = {}
    ELSE UNCHANGED <<idlers, notified>>

BrokenNotifyNever ==    \* asked before the slot is given back
    IF pending = <<>> /\ running = 0
    THEN notified' = notified \union idlers /\ idlers' = {}
    ELSE UNCHANGED <<idlers, notified>>

NotifyIfIdle ==
    IF pending' = <<>> /\ running' = 0
    THEN notified' = notified \union idlers /\ idlers' = {}
    ELSE UNCHANGED <<idlers, notified>>

BrokenSettleLeak(j, outcome) ==    \* the slot is given back on success only
    /\ j \in working
    /\ working' = working \ {j}
    /\ Pump(pending, IF outcome = "failed" THEN running ELSE running - 1,
            [status EXCEPT ![j] = outcome])
    /\ NotifyIfIdle
    /\ UNCHANGED <<handle, issued, called>>

BrokenSettleTwice(j, outcome) ==    \* given back in the catch and in the finally
    /\ j \in working
    /\ working' = working \ {j}
    /\ Pump(pending, IF outcome = "failed" THEN running - 2 ELSE running - 1,
            [status EXCEPT ![j] = outcome])
    /\ NotifyIfIdle
    /\ UNCHANGED <<handle, issued, called>>

\* The worker's promise settles: record the outcome, give the slot back, start
\* what fits, tell those who wait.
Settle(j, outcome) ==
    /\ j \in working
    /\ working' = working \ {j}
    /\ Pump(pending, running - 1, [status EXCEPT ![j] = outcome])
    /\ NotifyIfIdle
    /\ UNCHANGED <<handle, issued, called>>

Idle(w) ==
    /\ w \notin idlers \union notified
    /\ IF pending = <<>> /\ running = 0
       THEN notified' = notified \union {w} /\ UNCHANGED idlers
       ELSE idlers' = idlers \union {w} /\ UNCHANGED notified
    /\ UNCHANGED <<status, pending, running, deferred, working, handle, issued, called>>

\* The reaction of ingestion.ts to the job's promise.
Report(j) ==
    /\ status[j] \in Settled
    /\ handle[j] \notin Settled
    /\ handle' = [handle EXCEPT ![j] = status[j]]
    /\ UNCHANGED <<status, pending, running, deferred, working, idlers, notified,
                   issued, called>>

Next ==
    \/ CallWorker
    \/ \E j \in Jobs :
          \/ Enqueue(j)
          \/ \E outcome \in Settled : Settle(j, outcome)
          \/ Report(j)
    \/ \E w \in Waiters : Idle(w)

\* The event loop runs what is ready, and workers settle, well or badly.  Nobody
\* is obliged to enqueue or to wait.
Fairness ==
    /\ WF_vars(CallWorker)
    /\ \A j \in Jobs : WF_vars(Report(j)) /\ WF_vars(\E o \in Settled : Settle(j, o))

Spec == Init /\ [][Next]_vars /\ Fairness

-----------------------------------------------------------------------------
(* Properties *)

TypeOK ==
    /\ status \in [Jobs -> JobStatus \union {"new"}]
    /\ pending \in Seq(Jobs)
    /\ running \in Nat
    /\ deferred \in Seq(Jobs)
    /\ working \subseteq Jobs
    /\ idlers \subseteq Waiters
    /\ notified \subseteq Waiters
    /\ handle \in [Jobs -> JobStatus \union {"new"}]
    /\ issued \in 0 .. MaxJobs
    /\ called \in Seq(Jobs)

\* "respecting a concurrency cap", job-queue.ts:11: the counter is the number of
\* jobs marked running, is never above the cap, and is below it only while
\* nothing waits: no slot leaks and no wakeup is lost, failures included.
SlotsMatchJobs ==
    /\ running = Cardinality({j \in Jobs : status[j] = "running"})
    /\ running <= Concurrency
    /\ pending # <<>> => running = Concurrency

\* In a queue of its types.
SlotsAreUsed == TypeOK /\ SlotsMatchJobs

\* job-queue.ts:80-82: a worker is invoked after all workers of earlier jobs,
\* across the backlog and the microtask queue.
StartsInOrder == called \o deferred \o pending = [i \in 1 .. issued |-> i]

\* job-queue.ts:115: idle() "Resolves once no jobs are queued or running": never
\* while one is.
IdleMeansDrained ==
    [][notified' # notified => \A j \in Jobs : status'[j] \notin {"queued", "running"}]_vars

\* "one job failing never stalls or rejects sibling jobs": every job that is
\* enqueued settles, whatever happens to the others, and its handle, which is a copy
\* ("a live view", ingestion.ts:52), follows.
EveryJobSettles ==
    \A j \in Jobs : status[j] # "new" ~> status[j] \in Settled /\ handle[j] = status[j]

\* Once the enqueuing stops, whoever waits for idle() goes on.
EveryWaiterResolved == \A w \in Waiters : w \in idlers ~> w \in notified

\* job-queue.ts:108-115: the queue works off whatever it was given, and says so.
QueueDrains == EveryJobSettles /\ EveryWaiterResolved
===============================================================================
