----------------------------- MODULE JobQueue_proofs -----------------------------
(***************************************************************************)
(* Proofs about JobQueue, for every number of jobs and every concurrency.  *)
(*                                                                         *)
(* Every job's number tells where it is: the called ones come first, then  *)
(* the deferred, then the pending, each part in order (Positions), and     *)
(* where a job is determines its status (Stages).  With the counter, that  *)
(* is inductive.                                                           *)
(***************************************************************************)
EXTENDS JobQueue, FiniteSetTheorems, SequenceTheorems, TLAPS

Begun   == Len(called)
Started == Begun + Len(deferred)

Positions ==
    /\ Started + Len(pending) = issued
    /\ \A i \in 1 .. Begun : called[i] = i
    /\ \A i \in 1 .. Len(deferred) : deferred[i] = Begun + i
    /\ \A i \in 1 .. Len(pending) : pending[i] = Started + i

Stages ==
    /\ \A j \in working : j <= Begun /\ status[j] = "running"
    /\ \A j \in 1 .. Begun : j \in working \/ status[j] \in Settled
    /\ \A j \in Begun + 1 .. Started : status[j] = "running"
    /\ \A j \in Started + 1 .. issued : status[j] = "queued"
    /\ \A j \in issued + 1 .. MaxJobs : status[j] = "new"

RunningJobs(st) == {j \in Jobs : st[j] = "running"}

QueueInv == TypeOK /\ Positions /\ Stages /\ SlotsMatchJobs

-----------------------------------------------------------------------------
(* What pump does when it can start at most one job *)

\* A pump that finds no free slot, or no backlog, starts nothing.
LEMMA PumpNone ==
    ASSUME NEW backlog \in Seq(Jobs), NEW busy \in Int, NEW before \in [Jobs -> JobStatus \union {"new"}],
           deferred \in Seq(Jobs), Pump(backlog, busy, before),
           backlog = <<>> \/ busy >= Concurrency
    PROVE  /\ pending' = backlog
           /\ running' = busy
           /\ deferred' = deferred
           /\ status' = before
  <1>1. Startable(backlog, busy) = 0
    BY QueueConstants DEF QueueConstants, Startable, Lesser
  <1>2. /\ pending' = SubSeq(backlog, 1, Len(backlog))
        /\ running' = busy
        /\ deferred' = deferred \o SubSeq(backlog, 1, 0)
        /\ status' = [j \in Jobs |-> before[j]]
    BY <1>1 DEF Pump
  <1>. QED BY <1>2

\* A pump that finds one free slot and a backlog starts the oldest job.
LEMMA PumpOne ==
    ASSUME NEW backlog \in Seq(Jobs), NEW busy \in Int, NEW before \in [Jobs -> JobStatus \union {"new"}],
           deferred \in Seq(Jobs), Pump(backlog, busy, before),
           backlog # <<>>, busy < Concurrency, Len(backlog) = 1 \/ busy + 1 = Concurrency
    PROVE  /\ pending' = Tail(backlog)
           /\ running' = busy + 1
           /\ deferred' = Append(deferred, backlog[1])
           /\ status' = [before EXCEPT ![backlog[1]] = "running"]
  <1>0. Len(backlog) \in Nat \ {0}
    OBVIOUS
  <1>1. Startable(backlog, busy) = 1
    <2>1. Concurrency \in Nat
      BY QueueConstants DEF QueueConstants
    <2>. DEFINE room == Concurrency - busy
                waiting == Len(backlog)
    <2>3. room \in Nat \ {0} /\ waiting \in Nat \ {0} /\ (waiting = 1 \/ room = 1)
      BY <1>0, <2>1
    <2>. HIDE DEF room, waiting
    <2>4. Lesser(waiting, room) = 1
      BY <2>3 DEF Lesser
    <2>2. Lesser(Len(backlog), Concurrency - busy) = 1
      BY <2>4 DEF room, waiting
    <2>. QED BY <2>2 DEF Startable
  <1>2. /\ pending' = SubSeq(backlog, 2, Len(backlog))
        /\ running' = busy + 1
        /\ deferred' = deferred \o SubSeq(backlog, 1, 1)
        /\ status' = [j \in Jobs |->
              IF \E i \in 1 .. 1 : backlog[i] = j THEN "running" ELSE before[j]]
    BY <1>1 DEF Pump
  <1>3. backlog[1] \in Jobs
    BY <1>0, ElementOfSeq
  <1>7. SubSeq(backlog, 1, 1) = <<backlog[1]>>
    <2>1. /\ SubSeq(backlog, 1, 1) \in Seq(Jobs)
          /\ Len(SubSeq(backlog, 1, 1)) = 1
          /\ SubSeq(backlog, 1, 1)[1] = backlog[1]
      BY <1>3, SubSeqProperties
    <2>2. /\ <<backlog[1]>> \in Seq(Jobs)
          /\ Len(<<backlog[1]>>) = 1
          /\ <<backlog[1]>>[1] = backlog[1]
      BY <1>3
    <2>. DEFINE first == SubSeq(backlog, 1, 1)
                single == <<backlog[1]>>
    <2>3. /\ first \in Seq(Jobs) /\ single \in Seq(Jobs) /\ Len(first) = Len(single)
          /\ \A i \in 1 .. Len(first) : first[i] = single[i]
      BY <2>1, <2>2
    <2>. HIDE DEF first, single
    <2>4. first = single
      BY <2>3, SeqEqual
    <2>. QED BY <2>4 DEF first, single
  <1>4. status' = [before EXCEPT ![backlog[1]] = "running"]
    <2>1. \A j \in Jobs : (\E i \in 1 .. 1 : backlog[i] = j) <=> j = backlog[1]
      OBVIOUS
    <2>. QED BY <1>2, <1>3, <2>1
  <1>5. SubSeq(backlog, 2, Len(backlog)) = Tail(backlog)
    BY <1>0
  <1>6. deferred \o <<backlog[1]>> = Append(deferred, backlog[1])
    BY <1>3
  <1>. QED BY <1>2, <1>4, <1>5, <1>6, <1>7
-----------------------------------------------------------------------------
(* The counter *)

LEMMA RunningFinite ==
    ASSUME NEW st PROVE IsFiniteSet(RunningJobs(st)) /\ Cardinality(RunningJobs(st)) \in Nat
  <1>1. IsFiniteSet(Jobs)
    BY QueueConstants, FS_Interval DEF QueueConstants, Jobs
  <1>. QED BY <1>1, FS_Subset, FS_CardinalityType DEF RunningJobs

\* One more job marked running is one more in the count.
LEMMA OneMoreRunning ==
    ASSUME NEW st \in [Jobs -> JobStatus \union {"new"}], NEW j \in Jobs, st[j] # "running"
    PROVE  Cardinality(RunningJobs([st EXCEPT ![j] = "running"])) = Cardinality(RunningJobs(st)) + 1
  <1>1. RunningJobs([st EXCEPT ![j] = "running"]) = RunningJobs(st) \union {j}
    BY DEF RunningJobs
  <1>2. j \notin RunningJobs(st)
    BY DEF RunningJobs
  <1>. QED BY <1>1, <1>2, RunningFinite, FS_AddElement

\* And one that is settled is one less.
LEMMA OneLessRunning ==
    ASSUME NEW st \in [Jobs -> JobStatus \union {"new"}], NEW j \in Jobs, st[j] = "running",
           NEW outcome \in Settled
    PROVE  Cardinality(RunningJobs([st EXCEPT ![j] = outcome])) = Cardinality(RunningJobs(st)) - 1
  <1>1. RunningJobs([st EXCEPT ![j] = outcome]) = RunningJobs(st) \ {j}
    BY DEF RunningJobs, Settled
  <1>2. j \in RunningJobs(st)
    BY DEF RunningJobs
  <1>. QED BY <1>1, <1>2, RunningFinite, FS_RemoveElement

-----------------------------------------------------------------------------
(* Every step keeps the invariant *)

LEMMA EnqueueStep ==
    ASSUME QueueInv, NEW j \in Jobs, Enqueue(j)
    PROVE  QueueInv'
  <1>. USE DEF QueueInv
  <1>. DEFINE backlog == Append(pending, j)
              before == [status EXCEPT ![j] = "queued"]
  <1>1. /\ backlog \in Seq(Jobs) /\ running \in Int
        /\ before \in [Jobs -> JobStatus \union {"new"}]
        /\ deferred \in Seq(Jobs)
        /\ Pump(backlog, running, before)
    BY DEF TypeOK, Enqueue, JobStatus
  <1>2. j = issued + 1 /\ issued' = j /\ status[j] = "new"
    BY DEF Enqueue, TypeOK, Stages, Jobs
  <1>3. /\ Len(called) \in Nat /\ Len(deferred) \in Nat /\ Len(pending) \in Nat
        /\ issued \in Nat /\ UNCHANGED <<working, idlers, notified, called>>
    BY DEF Enqueue, TypeOK
  <1>4. Cardinality(RunningJobs(before)) = running
    <2>1. RunningJobs(before) = RunningJobs(status)
      BY <1>2 DEF RunningJobs, TypeOK
    <2>. QED BY <2>1 DEF SlotsMatchJobs, RunningJobs
  <1>5. CASE pending = <<>> /\ running < Concurrency
    <2>1. Len(backlog) = 1 /\ backlog[1] = j /\ backlog # <<>> /\ Tail(backlog) = <<>>
      BY <1>5
    <2>2. /\ pending' = <<>>
          /\ running' = running + 1
          /\ deferred' = Append(deferred, j)
          /\ status' = [before EXCEPT ![j] = "running"]
      <3>. HIDE DEF backlog, before
      <3>. QED BY <1>1, <1>5, <2>1, PumpOne
    <2>3. TypeOK'
      BY <1>2, <1>3, <2>2 DEF TypeOK, Enqueue, JobStatus, Jobs
    <2>4. Positions'
      BY <1>2, <1>3, <1>5, <2>2 DEF Positions, Begun, Started, TypeOK
    <2>5. Stages'
      BY <1>2, <1>3, <1>5, <2>2 DEF Stages, Positions, Begun, Started, TypeOK, Jobs
    <2>6. SlotsMatchJobs'
      <3>1. before[j] # "running" /\ before \in [Jobs -> JobStatus \union {"new"}]
        BY <1>1 DEF TypeOK
      <3>2. Cardinality(RunningJobs(status')) = running + 1
        <4>. HIDE DEF before
        <4>. QED BY <1>4, <2>2, <3>1, OneMoreRunning
      <3>. QED BY <1>5, <2>2, <3>2, QueueConstants
           DEF QueueConstants, SlotsMatchJobs, RunningJobs, TypeOK
    <2>. QED BY <2>3, <2>4, <2>5, <2>6
  <1>6. CASE ~(pending = <<>> /\ running < Concurrency)
    <2>1. running >= Concurrency /\ running = Concurrency
      BY <1>6, QueueConstants DEF QueueConstants, SlotsMatchJobs, TypeOK
    <2>2. /\ pending' = backlog
          /\ running' = running
          /\ deferred' = deferred
          /\ status' = before
      <3>. HIDE DEF backlog, before
      <3>. QED BY <1>1, <2>1, PumpNone
    <2>3. TypeOK'
      BY <1>1, <1>2, <1>3, <2>2 DEF TypeOK, Enqueue, JobStatus, Jobs
    <2>4. Positions'
      BY <1>2, <1>3, <2>2 DEF Positions, Begun, Started, TypeOK
    <2>5. Stages'
      BY <1>2, <1>3, <2>2 DEF Stages, Positions, Begun, Started, TypeOK, Jobs
    <2>6. SlotsMatchJobs'
      <3>1. Cardinality(RunningJobs(status')) = running
        BY <1>4, <2>2
      <3>. QED BY <2>1, <2>2, <3>1 DEF SlotsMatchJobs, RunningJobs
    <2>. QED BY <2>3, <2>4, <2>5, <2>6
  <1>. QED BY <1>5, <1>6

LEMMA CallWorkerStep ==
    ASSUME QueueInv, CallWorker
    PROVE  QueueInv'
  <1>. USE DEF QueueInv
  <1>1. /\ deferred \in Seq(Jobs) /\ deferred # <<>>
        /\ deferred' = Tail(deferred) /\ called' = Append(called, deferred[1])
        /\ working' = working \union {deferred[1]}
        /\ UNCHANGED <<status, pending, running, idlers, notified, handle, issued>>
    BY DEF CallWorker, TypeOK
  <1>2. /\ Len(called) \in Nat /\ Len(deferred) \in Nat \ {0} /\ Len(pending) \in Nat
        /\ issued \in Nat
    BY <1>1 DEF TypeOK
  <1>3. deferred[1] \in Jobs /\ deferred[1] = Len(called) + 1
    BY <1>2 DEF Positions, Begun, TypeOK
  <1>4. Begun' = Begun + 1 /\ Started' = Started
    BY <1>1, <1>2 DEF Begun, Started, TypeOK
  <1>5. TypeOK'
    BY <1>1, <1>3 DEF TypeOK
  <1>6. Positions'
    <2>1. \A i \in 1 .. Begun' : called'[i] = i
      BY <1>1, <1>2, <1>3, <1>4 DEF Positions, Begun, TypeOK
    <2>2. \A i \in 1 .. Len(deferred') : deferred'[i] = Begun' + i
      BY <1>1, <1>2, <1>4 DEF Positions, Begun
    <2>. QED BY <1>1, <1>4, <2>1, <2>2 DEF Positions
  <1>7. Stages'
    <2>1. Begun + 1 <= Started /\ Begun \in Nat /\ Started \in Nat
      BY <1>2 DEF Begun, Started
    <2>2. deferred[1] = Begun + 1 /\ status[deferred[1]] = "running"
      BY <1>3, <2>1 DEF Stages, Begun
    <2>3. \A j \in working' : j <= Begun' /\ status[j] = "running"
      BY <1>1, <1>4, <2>1, <2>2 DEF Stages, TypeOK, Jobs
    <2>4. \A j \in 1 .. Begun' : j \in working' \/ status[j] \in Settled
      BY <1>1, <1>4, <2>1, <2>2 DEF Stages
    <2>5. \A j \in Begun' + 1 .. Started' : status[j] = "running"
      BY <1>4, <2>1 DEF Stages
    <2>. QED BY <1>1, <1>4, <2>3, <2>4, <2>5 DEF Stages
  <1>8. SlotsMatchJobs'
    BY <1>1 DEF SlotsMatchJobs
  <1>. QED BY <1>5, <1>6, <1>7, <1>8

LEMMA SettleStep ==
    ASSUME QueueInv, NEW j \in Jobs, NEW outcome \in Settled, Settle(j, outcome)
    PROVE  QueueInv'
  <1>. USE DEF QueueInv
  <1>. DEFINE before == [status EXCEPT ![j] = outcome]
  <1>1. /\ pending \in Seq(Jobs) /\ running - 1 \in Int
        /\ before \in [Jobs -> JobStatus \union {"new"}]
        /\ deferred \in Seq(Jobs)
        /\ Pump(pending, running - 1, before)
    BY DEF TypeOK, Settle, JobStatus
  <1>2. j \in working /\ j <= Begun /\ status[j] = "running" /\ working' = working \ {j}
    BY DEF Settle, Stages
  <1>3. /\ Len(called) \in Nat /\ Len(deferred) \in Nat /\ Len(pending) \in Nat
        /\ issued \in Nat /\ UNCHANGED <<handle, issued, called>>
    BY DEF Settle, TypeOK
  <1>4. Cardinality(RunningJobs(before)) = running - 1
    <2>1. Cardinality(RunningJobs(status)) = running
      BY DEF SlotsMatchJobs, RunningJobs
    <2>. QED BY <1>2, <2>1, OneLessRunning DEF TypeOK
  <1>5. running - 1 \in Nat
    BY <1>4, RunningFinite
  <1>6. idlers' \subseteq Waiters /\ notified' \subseteq Waiters
    BY DEF Settle, NotifyIfIdle, TypeOK
  <1>7. CASE pending = <<>>
    <2>2. /\ pending' = pending
          /\ running' = running - 1
          /\ deferred' = deferred
          /\ status' = before
      <3>. HIDE DEF before
      <3>. QED BY <1>1, <1>7, PumpNone
    <2>3. TypeOK'
      BY <1>1, <1>2, <1>3, <1>5, <1>6, <2>2 DEF TypeOK
    <2>4. Positions'
      BY <1>3, <2>2 DEF Positions, Begun, Started
    <2>5. Stages'
      BY <1>2, <1>3, <2>2 DEF Stages, Positions, Begun, Started, TypeOK, Jobs
    <2>6. SlotsMatchJobs'
      <3>1. Cardinality(RunningJobs(status')) = running - 1
        BY <1>4, <2>2
      <3>. QED BY <1>5, <1>7, <2>2, <3>1, QueueConstants
           DEF QueueConstants, SlotsMatchJobs, RunningJobs, TypeOK
    <2>. QED BY <2>3, <2>4, <2>5, <2>6
  <1>8. CASE pending # <<>>
    <2>1. running = Concurrency /\ running - 1 < Concurrency /\ (running - 1) + 1 = Concurrency
      BY <1>5, <1>8, QueueConstants DEF QueueConstants, SlotsMatchJobs
    <2>2. /\ pending' = Tail(pending)
          /\ running' = (running - 1) + 1
          /\ deferred' = Append(deferred, pending[1])
          /\ status' = [before EXCEPT ![pending[1]] = "running"]
      <3>. HIDE DEF before
      <3>. QED BY <1>1, <1>8, <2>1, PumpOne
    <2>3. pending[1] \in Jobs /\ pending[1] = Started + 1 /\ status[pending[1]] = "queued"
      <3>1. Len(pending) \in Nat \ {0}
        BY <1>1, <1>8
      <3>2. pending[1] \in Jobs
        BY <1>1, <3>1, ElementOfSeq
      <3>3. pending[1] = Started + 1 /\ Started \in Nat /\ Started + Len(pending) = issued
        BY <1>3, <3>1 DEF Positions, Begun, Started
      <3>4. pending[1] \in Started + 1 .. issued
        BY <1>3, <3>1, <3>3
      <3>. QED BY <3>2, <3>3, <3>4 DEF Stages
    <2>4. pending[1] # j
      BY <1>2, <2>3 DEF TypeOK
    <2>5. Begun' = Begun /\ Started' = Started + 1
      BY <1>1, <1>3, <2>2, <2>3 DEF Begun, Started
    <2>6. TypeOK'
      <3>1. running' \in Nat
        BY <1>5, <2>2
      <3>2. status' \in [Jobs -> JobStatus \union {"new"}]
        BY <1>1, <2>2, <2>3 DEF JobStatus
      <3>3. pending' \in Seq(Jobs) /\ deferred' \in Seq(Jobs)
        BY <1>1, <1>8, <2>2, <2>3
      <3>. QED BY <1>2, <1>3, <1>6, <3>1, <3>2, <3>3 DEF TypeOK
    <2>7. Positions'
      <3>1. \A i \in 1 .. Len(deferred') : deferred'[i] = Begun' + i
        <4>1. Started + 1 = Begun + (Len(deferred) + 1)
          BY <1>3 DEF Begun, Started
        <4>2. /\ Len(deferred') = Len(deferred) + 1
              /\ \A i \in 1 .. Len(deferred) : deferred'[i] = deferred[i]
              /\ deferred'[Len(deferred) + 1] = pending[1]
          BY <1>1, <2>2, <2>3
        <4>. QED BY <1>3, <2>3, <2>5, <4>1, <4>2 DEF Positions
      <3>2. /\ \A i \in 1 .. Len(pending') : pending'[i] = Started' + i
            /\ Started' + Len(pending') = issued'
        <4>1. /\ Len(pending') = Len(pending) - 1
              /\ \A i \in 1 .. Len(pending') : pending'[i] = pending[i + 1]
          BY <1>1, <1>8, <2>2, HeadTailProperties
        <4>2. \A i \in 1 .. Len(pending') : pending[i + 1] = Started + (i + 1)
          BY <1>3, <4>1 DEF Positions
        <4>3. Started \in Nat
          BY <1>3 DEF Begun, Started
        <4>. QED BY <1>3, <2>5, <4>1, <4>2, <4>3 DEF Positions
      <3>3. \A i \in 1 .. Begun' : called'[i] = i
        BY <1>3, <2>5 DEF Positions
      <3>. QED BY <3>1, <3>2, <3>3 DEF Positions
    <2>8. Stages'
      <3>1. /\ Begun \in Nat /\ Started \in Nat /\ Begun <= Started /\ Started + 1 <= issued
        <4>1. Len(pending) \in Nat \ {0}
          BY <1>1, <1>8
        <4>. QED BY <1>3, <4>1 DEF Begun, Started, Positions
      <3>2. /\ status'[j] = outcome
            /\ status'[Started + 1] = "running"
            /\ \A k \in Jobs : k # j /\ k # Started + 1 => status'[k] = status[k]
        BY <2>2, <2>3, <2>4 DEF TypeOK
      <3>3. \A k \in working' : k <= Begun' /\ status'[k] = "running"
        BY <1>2, <2>3, <2>5, <3>1, <3>2 DEF Stages, TypeOK, Jobs
      <3>4. \A k \in 1 .. Begun' : k \in working' \/ status'[k] \in Settled
        <4>1. \A k \in 1 .. Begun : k \in Jobs /\ k # Started + 1
          BY <3>1, QueueConstants DEF QueueConstants, Jobs, TypeOK
        <4>. QED BY <1>2, <2>5, <3>2, <4>1 DEF Stages
      <3>5. \A k \in Begun' + 1 .. Started' : status'[k] = "running"
        <4>1. \A k \in Begun + 1 .. Started + 1 :
                 k \in Jobs /\ k # j /\ (k = Started + 1 \/ k \in Begun + 1 .. Started)
          BY <1>2, <3>1, QueueConstants DEF QueueConstants, Jobs, TypeOK
        <4>. QED BY <2>5, <3>2, <4>1 DEF Stages
      <3>6. \A k \in Started' + 1 .. issued' : status'[k] = "queued"
        <4>1. \A k \in Started + 2 .. issued :
                 k \in Jobs /\ k # j /\ k # Started + 1 /\ k \in Started + 1 .. issued
          BY <1>2, <3>1, QueueConstants DEF QueueConstants, Jobs, TypeOK
        <4>2. Started' + 1 = Started + 2
          BY <2>5, <3>1
        <4>. QED BY <1>3, <3>2, <4>1, <4>2 DEF Stages
      <3>7. \A k \in issued' + 1 .. MaxJobs : status'[k] = "new"
        <4>1. \A k \in issued + 1 .. MaxJobs : k \in Jobs /\ k # j /\ k # Started + 1
          BY <1>2, <1>3, <3>1, QueueConstants DEF QueueConstants, Jobs, TypeOK
        <4>. QED BY <1>3, <3>2, <4>1 DEF Stages
      <3>. QED BY <3>3, <3>4, <3>5, <3>6, <3>7 DEF Stages
    <2>9. SlotsMatchJobs'
      <3>1. before[pending[1]] # "running"
        BY <2>3, <2>4 DEF TypeOK
      <3>2. Cardinality(RunningJobs(status')) = (running - 1) + 1
        <4>. HIDE DEF before
        <4>. QED BY <1>1, <1>4, <2>2, <2>3, <3>1, OneMoreRunning
      <3>. QED BY <1>5, <2>1, <2>2, <3>2 DEF SlotsMatchJobs, RunningJobs
    <2>. QED BY <2>6, <2>7, <2>8, <2>9
  <1>. QED BY <1>7, <1>8

LEMMA QueueInvStep == QueueInv /\ [Next]_vars => QueueInv'
  <1>. SUFFICES ASSUME QueueInv, [Next]_vars PROVE QueueInv'
    OBVIOUS
  <1>1. CASE CallWorker
    BY <1>1, CallWorkerStep
  <1>2. ASSUME NEW j \in Jobs, Enqueue(j)
        PROVE  QueueInv'
    BY <1>2, EnqueueStep
  <1>3. ASSUME NEW j \in Jobs, NEW outcome \in Settled, Settle(j, outcome)
        PROVE  QueueInv'
    BY <1>3, SettleStep
  <1>4. ASSUME NEW j \in Jobs, Report(j)
        PROVE  QueueInv'
    BY <1>4 DEF Report, QueueInv, TypeOK, Positions, Stages, SlotsMatchJobs, Begun, Started
  <1>5. ASSUME NEW w \in Waiters, Idle(w)
        PROVE  QueueInv'
    BY <1>5 DEF Idle, QueueInv, TypeOK, Positions, Stages, SlotsMatchJobs, Begun, Started
  <1>6. CASE UNCHANGED vars
    BY <1>6 DEF vars, QueueInv, TypeOK, Positions, Stages, SlotsMatchJobs, Begun, Started
  <1>. QED BY <1>1, <1>2, <1>3, <1>4, <1>5, <1>6 DEF Next

LEMMA QueueInvInit == Init => QueueInv
  <1>. SUFFICES ASSUME Init PROVE QueueInv
    OBVIOUS
  <1>1. TypeOK
    BY QueueConstants DEF QueueConstants, Init, TypeOK
  <1>2. Positions /\ Stages
    BY QueueConstants DEF QueueConstants, Init, Positions, Stages, Begun, Started, Jobs
  <1>3. SlotsMatchJobs
    <2>1. {j \in Jobs : status[j] = "running"} = {}
      BY DEF Init
    <2>2. Cardinality({j \in Jobs : status[j] = "running"}) = 0
      BY <2>1, FS_EmptySet
    <2>. QED BY <2>2, QueueConstants DEF QueueConstants, Init, SlotsMatchJobs
  <1>. QED BY <1>1, <1>2, <1>3 DEF QueueInv

LEMMA QueueInvAlways == Spec => []QueueInv
  BY QueueInvInit, QueueInvStep, PTL DEF Spec
-----------------------------------------------------------------------------
(* The results *)

\* Every reachable state of the queue is well typed, for any number of jobs and
\* any concurrency (class InMemoryJobQueue).
THEOREM QueueTyped == Spec => []TypeOK
  <1>1. QueueInv => TypeOK
    BY DEF QueueInv
  <1>. QED BY <1>1, QueueInvAlways, PTL

\* The slots of InMemoryJobQueue are neither overdrawn nor leaked: the counter is
\* the number of running jobs, and while a job waits all slots are taken.
THEOREM SlotsNeverLeak == Spec => []SlotsAreUsed
  <1>1. QueueInv => SlotsAreUsed
    BY DEF QueueInv, SlotsAreUsed
  <1>. QED BY <1>1, QueueInvAlways, PTL

\* Workers are called in the order of enqueue, none skipped (pump, runJob).
THEOREM StartsStayInOrder == Spec => []StartsInOrder
  <1>1. ASSUME QueueInv PROVE StartsInOrder
    <2>. DEFINE line == (called \o deferred) \o pending
                order == [i \in 1 .. issued |-> i]
    <2>1. /\ called \in Seq(Jobs) /\ deferred \in Seq(Jobs) /\ pending \in Seq(Jobs)
          /\ issued \in Nat
      BY <1>1 DEF QueueInv, TypeOK
    <2>2. /\ called \o deferred \in Seq(Jobs)
          /\ Len(called \o deferred) = Started
          /\ \A i \in 1 .. Started : (called \o deferred)[i] = i
      BY <1>1, <2>1 DEF QueueInv, Positions, Begun, Started
    <2>3. /\ line \in Seq(Jobs)
          /\ Len(line) = issued
          /\ \A i \in 1 .. issued : line[i] = i
      <3>1. Started \in Nat /\ Len(pending) \in Nat /\ Started + Len(pending) = issued
            /\ \A i \in 1 .. Len(pending) : pending[i] = Started + i
        BY <1>1, <2>1 DEF QueueInv, Positions, Begun, Started
      <3>2. /\ line \in Seq(Jobs)
            /\ Len(line) = issued
            /\ \A i \in 1 .. issued :
                  line[i] = IF i <= Started THEN (called \o deferred)[i] ELSE pending[i - Started]
        BY <2>1, <2>2, <3>1, ConcatProperties
      <3>3. \A i \in 1 .. issued : i <= Started \/ i - Started \in 1 .. Len(pending)
        BY <3>1
      <3>4. ASSUME NEW i \in 1 .. issued PROVE line[i] = i
        <4>. HIDE DEF line
        <4>1. CASE i <= Started
          <5>1. i \in 1 .. Started
            BY <4>1, <3>1
          <5>. QED BY <4>1, <5>1, <2>2, <3>2
        <4>2. CASE ~(i <= Started)
          <5>1. i - Started \in 1 .. Len(pending)
            BY <4>2, <3>3
          <5>2. line[i] = pending[i - Started]
            BY <4>2, <3>2
          <5>3. Started + (i - Started) = i
            BY <3>1
          <5>. QED BY <5>1, <5>2, <5>3, <3>1
        <4>. QED BY <4>1, <4>2
      <3>. QED
        <4>. HIDE DEF line
        <4>. QED BY <3>2, <3>4
    <2>4. order \in Seq(Nat) /\ Len(order) = issued /\ \A i \in 1 .. issued : order[i] = i
      BY <2>1
    <2>5. line \in Seq(Nat)
      <3>. HIDE DEF line
      <3>1. Jobs \subseteq Nat
        BY QueueConstants DEF QueueConstants, Jobs
      <3>2. Len(line) \in Nat /\ line \in [1 .. Len(line) -> Nat]
        BY <2>3, <3>1, LenProperties
      <3>. QED BY <3>2, SeqDef
    <2>6. line = order
      <3>. HIDE DEF line, order
      <3>. QED BY <2>3, <2>4, <2>5, SeqEqual
    <2>. QED BY <2>6 DEF StartsInOrder
  <1>. QED BY <1>1, QueueInvAlways, PTL

\* idle() wakes its callers only when no job is queued or running.
THEOREM IdleIsDrained == Spec => IdleMeansDrained
  <1>1. ASSUME QueueInv, [Next]_vars, QueueInv', notified' # notified
        PROVE  \A j \in Jobs : status'[j] \notin {"queued", "running"}
    <2>1. pending' = <<>> /\ running' = 0
      BY <1>1 DEF Next, vars, CallWorker, Enqueue, Settle, NotifyIfIdle, Report, Idle
    <2>2. RunningJobs(status') = {}
      <3>1. Cardinality(RunningJobs(status')) = 0
        BY <1>1, <2>1 DEF QueueInv, SlotsMatchJobs, RunningJobs
      <3>. QED BY <3>1, RunningFinite, FS_EmptySet
    <2>3. \A j \in Jobs : status'[j] # "running"
      BY <2>2 DEF RunningJobs
    <2>4. \A j \in Jobs : status'[j] # "queued"
      <3>. SUFFICES ASSUME NEW j \in Jobs, status'[j] = "queued" PROVE FALSE
        OBVIOUS
      <3>1. /\ Len(called)' \in Nat /\ Len(deferred)' \in Nat /\ issued' \in Nat
            /\ Started' = issued' /\ Begun' = Len(called)' /\ Started' = Begun' + Len(deferred)'
        BY <1>1, <2>1 DEF QueueInv, Positions, TypeOK, Begun, Started
      <3>2. j \in 1 .. Begun' \/ j \in Begun' + 1 .. Started' \/ j \in issued' + 1 .. MaxJobs
        BY <3>1, QueueConstants DEF QueueConstants, Jobs
      <3>. QED BY <1>1, <3>2 DEF QueueInv, Stages, Settled
    <2>. QED BY <2>3, <2>4
  <1>2. QueueInv /\ [Next]_vars /\ QueueInv' =>
          [notified' # notified => \A j \in Jobs : status'[j] \notin {"queued", "running"}]_vars
    BY <1>1
  <1>. QED BY <1>2, QueueInvAlways, PTL DEF IdleMeansDrained, Spec
===============================================================================
