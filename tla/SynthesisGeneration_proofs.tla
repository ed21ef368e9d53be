----------------------- MODULE SynthesisGeneration_proofs -----------------------
(***************************************************************************)
(* Proofs about SynthesisGeneration, for every set of request keys,        *)
(* selectors and handlers and every number of faults.                      *)
(*                                                                         *)
(* A handler acts on what it read some steps ago, and the row may have     *)
(* been reclaimed since.  What it can still rely on is its token: nobody   *)
(* else was granted it (HoldersDiffer), so while the row's attempt is the  *)
(* handler's own, the row is as the handler left it (HoldersAreCurrent).   *)
(* That a reclaim never runs out of attempts needs a count: an attempt     *)
(* that can be reclaimed has cost a fault (AttemptsCostFaults).            *)
(***************************************************************************)
EXTENDS SynthesisGeneration, TLAPS

\* A handler with one of these program counters was granted its token.
Holding == {"start", "call", "check", "cleanup", "release"}

\* The columns of a claim agree with each other and with the run it names.
ClaimsAreShaped ==
    \A k \in Keys : claim[k] # Nothing =>
        /\ claim[k].run \in {0, claim[k].attempt}
        /\ claim[k].status = "running" => claim[k].token = claim[k].attempt
        /\ claim[k].status # "running" => claim[k].token = 0 /\ ~claim[k].live
        /\ claim[k].run # 0 => run[k][claim[k].run] # "none"

\* A run is started by the claim's present attempt or was by an earlier one.
RunsFollowAttempts ==
    \A k \in Keys : \A m \in Attempts : run[k][m] # "none" =>
        claim[k] # Nothing /\ (m < claim[k].attempt \/ m = claim[k].run)

\* No two handlers were granted the same attempt at a key.
HoldersDiffer ==
    \A g, h \in Handlers :
        /\ req[g].pc \in Holding
        /\ req[h].pc \in Holding
        /\ req[g].key = req[h].key
        /\ req[g].token = req[h].token
        => g = h

\* What remains true of a handler's reads, whatever others have done since.
HolderIsCurrent(r) ==
    LET c == claim[r.key]
    IN  /\ r.pc \in Holding \union {"persist", "reread"} =>
              c # Nothing /\ c.sel = r.sel /\ r.token \in 1 .. c.attempt
        /\ r.pc = "start" /\ r.token = c.attempt => c.status = "running" /\ c.run = 0
        /\ r.pc = "call" /\ r.token = c.attempt =>
              c.status = "running" /\ c.run = r.token /\ run[r.key][r.token] = "running"
        /\ r.pc \in {"check", "persist", "reread"} => run[r.key][r.token] = "succeeded"
        /\ r.pc = "release" => r.seen = 0 \/ run[r.key][r.seen] = "failed"

HoldersAreCurrent == \A h \in Handlers : HolderIsCurrent(req[h])

\* The attempt's owner is gone or its lease is over, and no run can be resumed.
Lost(k) ==
    /\ RunStatus(k, claim[k].run) # "succeeded"
    /\ claim[k].status = "failed" \/ ~claim[k].live \/ ~Owned(k)

AttemptsCostFaults ==
    \A k \in Keys : claim[k] # Nothing =>
        /\ claim[k].attempt <= faults + 1
        /\ Lost(k) => claim[k].attempt <= faults

IInv ==
    /\ TypeOK
    /\ ClaimsAreShaped
    /\ RunsFollowAttempts
    /\ HoldersDiffer
    /\ HoldersAreCurrent
    /\ AttemptsCostFaults
    /\ NoOrphanRuns
    /\ DraftIsTheClaims
    /\ AnswersMatchSelector
-----------------------------------------------------------------------------
(* Steps of one handler that leave the rows alone *)

LEMMA HandlerIsTyped ==
    ASSUME TypeOK, NEW h \in Handlers, req[h].pc # "idle"
    PROVE  req[h] \in Locals /\ req[h] # Idle
  BY DEF TypeOK, Idle

\* The rows do not change; the handler keeps the token it was granted or drops
\* it, knows what its next step relies on, and giving up an attempt that could
\* still have succeeded is a fault.
LEMMA LocalStep ==
    ASSUME IInv, NEW h \in Handlers, NEW local \in Locals \union {Idle},
           Goto(h, local), UnchangedRows,
           faults' \in 0 .. MaxFaults, faults' >= faults,
           answers' \subseteq [key: Keys, sel: Selectors, run: Attempts],
           \A a \in answers' \ answers : draft[a.key] = [sel |-> a.sel, run |-> a.run],
           local.pc \in Holding =>
              /\ req[h].pc \in Holding
              /\ local.key = req[h].key
              /\ local.token = req[h].token,
           HolderIsCurrent(local),
           \/ faults' > faults
           \/ req[h].pc \in {"start", "call"} =>
                 \/ local.pc \in {"start", "call"}
                 \/ req[h].token # claim[req[h].key].token
    PROVE  IInv'
  <1>. USE DEF IInv, UnchangedRows
  <1>1. /\ req'[h] = local
        /\ \A g \in Handlers : g # h => req'[g] = req[g]
        /\ req' \in [Handlers -> Locals \union {Idle}]
    BY DEF Goto, TypeOK
  <1>2. TypeOK'
    BY <1>1 DEF TypeOK
  <1>3. ClaimsAreShaped' /\ RunsFollowAttempts' /\ NoOrphanRuns' /\ DraftIsTheClaims'
    BY DEF ClaimsAreShaped, RunsFollowAttempts, NoOrphanRuns, DraftIsTheClaims
  <1>4. HoldersDiffer'
    BY <1>1 DEF HoldersDiffer
  <1>5. \A r : HolderIsCurrent(r) => HolderIsCurrent(r)'
    BY DEF HolderIsCurrent, RunStatus
  <1>6. HoldersAreCurrent'
    BY <1>1, <1>5 DEF HoldersAreCurrent
  <1>7. AnswersMatchSelector'
    BY DEF AnswersMatchSelector
  <1>8. AttemptsCostFaults'
    <2>. SUFFICES ASSUME NEW k \in Keys, claim[k] # Nothing
                  PROVE  /\ claim[k].attempt <= faults' + 1
                         /\ Lost(k)' => claim[k].attempt <= faults'
      BY DEF AttemptsCostFaults
    <2>1. /\ claim[k].attempt \in Nat /\ faults \in Nat /\ faults' \in Nat
          /\ claim[k].attempt <= faults + 1
          /\ Lost(k) => claim[k].attempt <= faults
      BY GenerationConstants DEF AttemptsCostFaults, TypeOK, Claims, Attempts
    <2>2. ASSUME ~(faults' > faults), Lost(k)'
          PROVE  Lost(k)
      <3>1. Owned(k) => Owned(k)'
        <4>. SUFFICES ASSUME NEW g \in Handlers, req[g].pc \in {"start", "call"},
                             req[g].key = k, req[g].token = claim[k].token
                      PROVE  \E i \in Handlers : req'[i].pc \in {"start", "call"} /\ req'[i].key = k
                                                   /\ req'[i].token = claim[k].token
          BY DEF Owned
        <4>. QED BY <1>1, <2>2 DEF Holding
      <3>. QED BY <2>2, <3>1 DEF Lost, RunStatus
    <2>. QED BY <2>1, <2>2
  <1>. QED BY <1>2, <1>3, <1>4, <1>6, <1>7, <1>8

-----------------------------------------------------------------------------
(* The steps of a handler, one lemma each *)

LEMMA CrashStep ==
    ASSUME IInv, NEW h \in Handlers, Crash(h)
    PROVE  IInv'
  <1>1. HolderIsCurrent(Idle)
    BY DEF HolderIsCurrent, Idle, Holding
  <1>2. faults' \in 0 .. MaxFaults /\ faults' > faults
    BY GenerationConstants DEF IInv, TypeOK, Crash, Fault
  <1>3. Idle.pc \notin Holding
    BY DEF Idle, Holding
  <1>4. answers' \subseteq [key: Keys, sel: Selectors, run: Attempts] /\ answers' = answers
    BY DEF IInv, TypeOK, Crash, Throw
  <1>. QED BY <1>1, <1>2, <1>3, <1>4, LocalStep DEF Crash, Throw, IInv, TypeOK

\* An answer ends the handler; it must name the draft of the key.
LEMMA AnswerStep ==
    ASSUME IInv, NEW h \in Handlers, NEW k \in Keys, NEW s \in Selectors, NEW n \in Attempts,
           Answer(h, k, s, n), UnchangedRows, UNCHANGED faults,
           draft[k] = [sel |-> s, run |-> n],
           req[h].pc \notin {"start", "call"}
    PROVE  IInv'
  <1>. DEFINE a == [key |-> k, sel |-> s, run |-> n]
  <1>1. HolderIsCurrent(Idle) /\ Idle.pc \notin Holding
    BY DEF HolderIsCurrent, Idle, Holding
  <1>2. faults' \in 0 .. MaxFaults /\ faults' >= faults
    BY GenerationConstants DEF IInv, TypeOK
  <1>3. /\ answers' \subseteq [key: Keys, sel: Selectors, run: Attempts]
        /\ \A b \in answers' \ answers : b = a
    BY DEF IInv, TypeOK, Answer
  <1>4. \A b \in answers' \ answers : draft[b.key] = [sel |-> b.sel, run |-> b.run]
    BY <1>3
  <1>. QED BY <1>1, <1>2, <1>3, <1>4, LocalStep DEF Answer

\* An exception ends the handler.
LEMMA ThrowStep ==
    ASSUME IInv, NEW h \in Handlers, Throw(h), UnchangedRows, UNCHANGED faults,
           req[h].pc \notin {"start", "call"}
    PROVE  IInv'
  <1>1. HolderIsCurrent(Idle) /\ Idle.pc \notin Holding
    BY DEF HolderIsCurrent, Idle, Holding
  <1>2. faults' \in 0 .. MaxFaults /\ faults' >= faults
    BY GenerationConstants DEF IInv, TypeOK
  <1>3. answers' \subseteq [key: Keys, sel: Selectors, run: Attempts] /\ answers' = answers
    BY DEF IInv, TypeOK, Throw
  <1>. QED BY <1>1, <1>2, <1>3, LocalStep DEF Throw

\* A step to another program counter that changes no row.
LEMMA ProceedStep ==
    ASSUME IInv, NEW h \in Handlers, NEW local \in Locals,
           Goto(h, local), UnchangedRows, UNCHANGED answers,
           faults' \in 0 .. MaxFaults, faults' >= faults,
           local.pc \in Holding =>
              /\ req[h].pc \in Holding
              /\ local.key = req[h].key
              /\ local.token = req[h].token,
           HolderIsCurrent(local),
           \/ faults' > faults
           \/ req[h].pc \in {"start", "call"} => req[h].token # claim[req[h].key].token
    PROVE  IInv'
  <1>1. answers' \subseteq [key: Keys, sel: Selectors, run: Attempts] /\ answers' = answers
    BY DEF IInv, TypeOK
  <1>. QED BY <1>1, LocalStep

\* A row of the draft table says what its claim says.
LEMMA DraftRow ==
    ASSUME IInv, NEW k \in Keys, draft[k] # Nothing
    PROVE  /\ draft[k] \in Drafts
           /\ claim[k] # Nothing /\ claim[k].sel \in Selectors
           /\ draft[k] = [sel |-> claim[k].sel, run |-> draft[k].run]
  <1>1. draft[k] \in Drafts /\ claim[k] \in Claims
    BY DEF IInv, TypeOK, DraftIsTheClaims
  <1>2. draft[k].sel = claim[k].sel /\ claim[k] # Nothing
    BY DEF IInv, DraftIsTheClaims
  <1>. QED BY <1>1, <1>2 DEF Drafts, Claims

LEMMA FindDraftStep ==
    ASSUME IInv, NEW h \in Handlers, NEW k \in Keys, NEW s \in Selectors, FindDraft(h, k, s)
    PROVE  IInv'
  <1>0. req[h].pc = "idle"
    BY DEF FindDraft, Idle
  <1>1. CASE draft[k] # Nothing /\ draft[k].sel = s /\ Answer(h, k, s, draft[k].run)
    <2>1. draft[k] \in Drafts /\ draft[k] = [sel |-> s, run |-> draft[k].run]
      BY <1>1, DraftRow DEF Drafts
    <2>2. draft[k].run \in Attempts
      BY <2>1 DEF Drafts
    <2>. QED BY <1>0, <1>1, <2>1, <2>2, AnswerStep DEF FindDraft
  <1>2. CASE draft[k] = Nothing
    <2>. DEFINE local == [pc |-> "claim", key |-> k, sel |-> s, seen |-> ExpiredAttempt(k), token |-> 0]
    <2>1. ExpiredAttempt(k) \in {0} \union Attempts
      BY DEF ExpiredAttempt, IInv, TypeOK, Claims
    <2>2. local \in Locals
      BY <2>1 DEF Locals
    <2>3. local.pc \notin Holding /\ HolderIsCurrent(local)
      BY DEF Holding, HolderIsCurrent
    <2>4. Goto(h, local) /\ UNCHANGED answers /\ UnchangedRows /\ UNCHANGED faults
      BY <1>2 DEF FindDraft
    <2>5. faults' \in 0 .. MaxFaults /\ faults' >= faults
      BY <2>4, GenerationConstants DEF IInv, TypeOK
    <2>. HIDE DEF local
    <2>. QED BY <1>0, <2>2, <2>3, <2>4, <2>5, ProceedStep
  <1>. QED BY <1>1, <1>2 DEF FindDraft

LEMMA MeetClaimStep ==
    ASSUME IInv, NEW h \in Handlers, MeetClaim(h)
    PROVE  IInv'
  <1>. DEFINE k == req[h].key
              c == claim[k]
  <1>1. req[h] \in Locals /\ req[h].pc = "claim" /\ k \in Keys
    BY HandlerIsTyped DEF IInv, MeetClaim, Locals
  <1>2. c \in Claims
    BY <1>1 DEF IInv, TypeOK, MeetClaim
  <1>3. CASE Throw(h)
    BY <1>1, <1>3, ThrowStep DEF MeetClaim
  <1>4. CASE c.status = "completed" /\ Answer(h, k, c.sel, draft[k].run)
    <2>1. draft[k] # Nothing
      BY <1>1, <1>4 DEF MeetClaim, IInv, DraftIsTheClaims
    <2>2. draft[k] \in Drafts /\ draft[k] = [sel |-> c.sel, run |-> draft[k].run]
      BY <1>1, <2>1, DraftRow
    <2>3. draft[k].run \in Attempts /\ c.sel \in Selectors
      BY <1>2, <2>2 DEF Drafts, Claims
    <2>. QED BY <1>1, <1>4, <2>2, <2>3, AnswerStep DEF MeetClaim
  <1>5. CASE /\ c.sel = req[h].sel
             /\ RunStatus(k, c.run) = "succeeded"
             /\ Goto(h, [req[h] EXCEPT !.pc = "persist", !.token = c.run])
             /\ UNCHANGED answers
    <2>. DEFINE local == [req[h] EXCEPT !.pc = "persist", !.token = c.run]
    <2>1. c.run \in Attempts /\ run[k][c.run] = "succeeded"
      BY <1>2, <1>5 DEF RunStatus, Claims
    <2>2. local \in Locals
      BY <1>1, <2>1 DEF Locals
    <2>3. local.pc \notin Holding
      BY <1>1 DEF Holding, Locals
    <2>4. HolderIsCurrent(local)
      <3>1. local.pc = "persist" /\ local.key = k /\ local.sel = c.sel /\ local.token = c.run
        BY <1>1, <1>5 DEF Locals
      <3>2. c # Nothing /\ c.run \in 1 .. c.attempt
        BY <1>1, <1>2, <2>1 DEF MeetClaim, IInv, ClaimsAreShaped, Claims, Attempts
      <3>. QED BY <2>1, <3>1, <3>2 DEF HolderIsCurrent
    <2>5. faults' \in 0 .. MaxFaults /\ faults' >= faults
      BY GenerationConstants DEF IInv, TypeOK, MeetClaim
    <2>6. Goto(h, local) /\ UNCHANGED answers /\ UnchangedRows
      BY <1>5 DEF MeetClaim
    <2>. HIDE DEF local
    <2>. QED BY <1>1, <2>2, <2>3, <2>4, <2>5, <2>6, ProceedStep
  <1>. QED BY <1>3, <1>4, <1>5 DEF MeetClaim

\* Giving up on a start or a call: only the cleanup is left.
LEMMA ToCleanup ==
    ASSUME IInv, NEW h \in Handlers, req[h].pc \in Holding, Proceed(h, "cleanup"),
           UnchangedRows, UNCHANGED answers, faults' \in 0 .. MaxFaults, faults' >= faults,
           \/ faults' > faults
           \/ req[h].pc \in {"start", "call"} => req[h].token # claim[req[h].key].token
    PROVE  IInv'
  <1>. DEFINE local == [req[h] EXCEPT !.pc = "cleanup"]
  <1>1. req[h] \in Locals
    BY HandlerIsTyped DEF IInv, Holding
  <1>2. local \in Locals /\ local.pc = "cleanup" /\ local.key = req[h].key
        /\ local.token = req[h].token /\ local.sel = req[h].sel
    BY <1>1 DEF Locals
  <1>3. HolderIsCurrent(local)
    BY <1>2 DEF HolderIsCurrent, IInv, HoldersAreCurrent
  <1>4. Goto(h, local)
    BY DEF Proceed
  <1>. HIDE DEF local
  <1>. QED BY <1>2, <1>3, <1>4, ProceedStep

LEMMA LoadFailsStep ==
    ASSUME IInv, NEW h \in Handlers, LoadFails(h)
    PROVE  IInv'
  <1>1. faults' \in 0 .. MaxFaults /\ faults' > faults /\ faults' >= faults
    BY GenerationConstants DEF IInv, TypeOK, LoadFails, Fault
  <1>. QED BY <1>1, ToCleanup DEF LoadFails, Holding

LEMMA CheckBindingStep ==
    ASSUME IInv, NEW h \in Handlers, CheckBinding(h)
    PROVE  IInv'
  <1>1. faults' \in 0 .. MaxFaults /\ faults' >= faults
    BY GenerationConstants DEF IInv, TypeOK, CheckBinding
  <1>2. CASE Proceed(h, "cleanup")
    BY <1>1, <1>2, ToCleanup DEF CheckBinding, Holding
  <1>3. CASE Proceed(h, "persist")
    <2>. DEFINE local == [req[h] EXCEPT !.pc = "persist"]
    <2>1. req[h] \in Locals /\ req[h].pc = "check"
      BY HandlerIsTyped DEF IInv, CheckBinding
    <2>2. local \in Locals /\ local.pc = "persist" /\ local.key = req[h].key
          /\ local.token = req[h].token /\ local.sel = req[h].sel
      BY <2>1 DEF Locals
    <2>3. HolderIsCurrent(local) /\ local.pc \notin Holding
      BY <2>1, <2>2 DEF HolderIsCurrent, IInv, HoldersAreCurrent, Holding
    <2>4. Goto(h, local) /\ UnchangedRows /\ UNCHANGED answers
      BY <1>3 DEF Proceed, CheckBinding
    <2>. HIDE DEF local
    <2>. QED BY <1>1, <2>1, <2>2, <2>3, <2>4, ProceedStep
  <1>. QED BY <1>2, <1>3 DEF CheckBinding

LEMMA CleanupStep ==
    ASSUME IInv, NEW h \in Handlers, Cleanup(h)
    PROVE  IInv'
  <1>. DEFINE k == req[h].key
              n == claim[k].run
  <1>1. req[h] \in Locals /\ req[h].pc = "cleanup" /\ k \in Keys
    BY HandlerIsTyped DEF IInv, Cleanup, Locals
  <1>2. CASE Throw(h)
    BY <1>1, <1>2, ThrowStep DEF Cleanup
  <1>3. CASE RunStatus(k, n) \in {"none", "failed"}
             /\ Goto(h, [req[h] EXCEPT !.pc = "release", !.seen = n]) /\ UNCHANGED answers
    <2>. DEFINE local == [req[h] EXCEPT !.pc = "release", !.seen = n]
    <2>1. n \in {0} \union Attempts
      BY <1>1 DEF IInv, HoldersAreCurrent, HolderIsCurrent, Holding, TypeOK, Claims
    <2>2. local \in Locals /\ local.pc = "release" /\ local.key = k /\ local.seen = n
          /\ local.token = req[h].token /\ local.sel = req[h].sel
      BY <1>1, <2>1 DEF Locals
    <2>3. n = 0 \/ run[k][n] = "failed"
      BY <1>1, <1>3 DEF IInv, HoldersAreCurrent, HolderIsCurrent, Holding, ClaimsAreShaped, RunStatus
    <2>6. HolderIsCurrent(local) /\ req[h].pc \in Holding
      BY <1>1, <2>2, <2>3 DEF HolderIsCurrent, IInv, HoldersAreCurrent, Holding
    <2>4. Goto(h, local) /\ UnchangedRows /\ UNCHANGED answers
      BY <1>3 DEF Cleanup
    <2>5. faults' \in 0 .. MaxFaults /\ faults' >= faults
      BY GenerationConstants DEF IInv, TypeOK, Cleanup
    <2>. HIDE DEF local
    <2>. QED BY <1>1, <2>2, <2>4, <2>5, <2>6, ProceedStep
  <1>. QED BY <1>2, <1>3 DEF Cleanup

LEMMA PersistFailsStep ==
    ASSUME IInv, NEW h \in Handlers, PersistFails(h)
    PROVE  IInv'
  <1>. DEFINE local == [req[h] EXCEPT !.pc = "reread"]
  <1>1. req[h] \in Locals /\ req[h].pc = "persist"
    BY HandlerIsTyped DEF IInv, PersistFails
  <1>2. local \in Locals /\ local.pc = "reread" /\ local.key = req[h].key
        /\ local.token = req[h].token /\ local.sel = req[h].sel
    BY <1>1 DEF Locals
  <1>3. HolderIsCurrent(local) /\ local.pc \notin Holding
    BY <1>1, <1>2 DEF HolderIsCurrent, IInv, HoldersAreCurrent, Holding
  <1>4. Goto(h, local) /\ UnchangedRows /\ UNCHANGED answers
    BY DEF Proceed, PersistFails
  <1>5. faults' \in 0 .. MaxFaults /\ faults' >= faults
    BY GenerationConstants DEF IInv, TypeOK, PersistFails, Fault
  <1>. HIDE DEF local
  <1>. QED BY <1>1, <1>2, <1>3, <1>4, <1>5, ProceedStep

\* A handler at the end of the function answers with the draft that is there.
LEMMA AnswerWithDraft ==
    ASSUME IInv, NEW h \in Handlers, req[h].pc \in {"persist", "reread"},
           draft[req[h].key] # Nothing,
           Answer(h, req[h].key, req[h].sel, draft[req[h].key].run),
           UnchangedRows, UNCHANGED faults
    PROVE  IInv'
  <1>. DEFINE k == req[h].key
  <1>1. req[h] \in Locals /\ k \in Keys /\ req[h].sel \in Selectors
    BY HandlerIsTyped DEF IInv, Locals
  <1>2. claim[k].sel = req[h].sel
    BY DEF IInv, HoldersAreCurrent, HolderIsCurrent
  <1>3. draft[k] \in Drafts /\ draft[k] = [sel |-> req[h].sel, run |-> draft[k].run]
    BY <1>1, <1>2, DraftRow
  <1>4. draft[k].run \in Attempts
    BY <1>3 DEF Drafts
  <1>. QED BY <1>1, <1>3, <1>4, AnswerStep

LEMMA RereadStep ==
    ASSUME IInv, NEW h \in Handlers, Reread(h)
    PROVE  IInv'
  <1>1. CASE Throw(h)
    BY <1>1, ThrowStep DEF Reread
  <1>2. CASE draft[req[h].key] # Nothing
    BY <1>2, AnswerWithDraft DEF Reread
  <1>. QED BY <1>1, <1>2 DEF Reread

-----------------------------------------------------------------------------
(* The steps that change a row *)

\* Granting attempt n of a key to a handler: n is above every attempt granted
\* before, no run of the key is running or has succeeded, and a fault was paid
\* for every earlier attempt.
LEMMA GrantStep ==
    ASSUME IInv, NEW h \in Handlers, NEW n \in Attempts, NEW k \in Keys,
           req[h].pc = "claim",
           req[h].key = k,
           claim' = [claim EXCEPT ![k] = Granted(req[h].sel, n)],
           Grant(h, n),
           UNCHANGED <<draft, faults>>,
           n <= faults + 1,
           run' \in [Keys -> [Attempts -> {"none", "running", "succeeded", "failed"}]],
           \A j \in Keys : j # k => run'[j] = run[j],
           \A m \in Attempts : run'[k][m] \in {"none", "failed"},
           \A m \in Attempts : run[k][m] # "running" => run'[k][m] = run[k][m],
           draft[k] = Nothing,
           \/ claim[k] = Nothing
           \/ claim[k].sel = req[h].sel /\ claim[k].attempt < n
    PROVE  IInv'
  <1>. USE DEF IInv
  <1>. DEFINE new == Granted(req[h].sel, n)
              local == [req[h] EXCEPT !.pc = "start", !.token = n]
  <1>1. req[h] \in Locals /\ req[h].sel \in Selectors
    BY HandlerIsTyped DEF Locals
  <1>2. /\ claim'[k] = new
        /\ \A j \in Keys : j # k => claim'[j] = claim[j]
    BY <1>1 DEF TypeOK
  <1>3. /\ req'[h] = local
        /\ \A g \in Handlers : g # h => req'[g] = req[g]
        /\ answers' = answers
    BY DEF TypeOK, Grant, Goto
  <1>4. new \in Claims /\ new # Nothing /\ new.sel = req[h].sel /\ new.status = "running"
        /\ new.attempt = n /\ new.token = n /\ new.run = 0 /\ new.live = TRUE
    <2>1. new \in Claims
      BY <1>1 DEF Granted, Claims
    <2>. QED BY <2>1, GenerationConstants DEF Granted
  <1>5. local \in Locals /\ local.pc = "start" /\ local.key = k /\ local.sel = req[h].sel
        /\ local.token = n
    BY <1>1 DEF Locals
  <1>. HIDE DEF new, local
  <1>6. TypeOK'
    BY <1>1, <1>2, <1>3, <1>4, <1>5 DEF TypeOK, Grant, Goto
  <1>7. ClaimsAreShaped'
    BY <1>1, <1>2, <1>4 DEF ClaimsAreShaped
  <1>15. RunsFollowAttempts'
    <2>. SUFFICES ASSUME NEW j \in Keys, NEW m \in Attempts, run'[j][m] # "none"
                  PROVE  claim'[j] # Nothing /\ (m < claim'[j].attempt \/ m = claim'[j].run)
      BY DEF RunsFollowAttempts
    <2>1. CASE j = k
      <3>1. claim[k] # Nothing /\ (m < claim[k].attempt \/ m = claim[k].run)
        BY <2>1 DEF RunsFollowAttempts
      <3>2. claim[k] \in Claims /\ claim[k].run \in {0, claim[k].attempt} /\ claim[k].attempt < n
        BY <3>1 DEF TypeOK, ClaimsAreShaped
      <3>3. m \in Nat \ {0} /\ claim[k].attempt \in Nat /\ n \in Nat
        BY <3>2, GenerationConstants DEF Claims, Attempts
      <3>. QED BY <1>2, <1>4, <2>1, <3>1, <3>2, <3>3
    <2>2. CASE j # k
      BY <1>2, <2>2 DEF RunsFollowAttempts
    <2>. QED BY <2>1, <2>2
  <1>8. \A g \in Handlers : req[g].pc \in Holding /\ req[g].key = k => req[g].token < n
    <2>. SUFFICES ASSUME NEW g \in Handlers, req[g].pc \in Holding, req[g].key = k
                  PROVE  req[g].token < n
      OBVIOUS
    <2>1. claim[k] # Nothing /\ req[g].token \in 1 .. claim[k].attempt
      BY DEF HoldersAreCurrent, HolderIsCurrent
    <2>2. claim[k].attempt \in Attempts
      BY <1>1, <2>1 DEF TypeOK, Claims
    <2>. QED BY <2>1, <2>2, GenerationConstants DEF Attempts
  <1>9. HoldersDiffer'
    <2>. SUFFICES ASSUME NEW f \in Handlers, NEW g \in Handlers,
                         req'[f].pc \in Holding, req'[g].pc \in Holding,
                         req'[f].key = req'[g].key, req'[f].token = req'[g].token
                  PROVE  f = g
      BY DEF HoldersDiffer
    <2>1. n \in Nat
      BY GenerationConstants DEF Attempts
    <2>. QED BY <1>3, <1>5, <1>8, <2>1 DEF HoldersDiffer
  <1>10. HoldersAreCurrent'
    <2>1. HolderIsCurrent(req[h])'
      <3>1. n \in 1 .. n
        BY GenerationConstants DEF Attempts
      <3>. QED BY <1>2, <1>3, <1>4, <1>5, <3>1 DEF HolderIsCurrent
    <2>2. ASSUME NEW g \in Handlers, g # h
          PROVE  HolderIsCurrent(req[g])'
      <3>. SUFFICES ASSUME NEW r, r = req[g] PROVE HolderIsCurrent(r)'
        BY <1>3, <2>2
      <3>1. HolderIsCurrent(r)
        BY DEF HoldersAreCurrent
      <3>2. CASE r.pc \notin Holding \union {"persist", "reread"}
        BY <3>1, <3>2 DEF HolderIsCurrent, Holding
      <3>3. CASE r.pc \in Holding \union {"persist", "reread"} /\ r.key # k
        <4>1. r \in Locals /\ r.key \in Keys
          BY <3>3, HandlerIsTyped DEF Holding, Locals
        <4>. QED BY <1>2, <3>1, <3>3, <4>1 DEF HolderIsCurrent, RunStatus
      <3>4. CASE r.pc \in Holding \union {"persist", "reread"} /\ r.key = k
        <4>1. r \in Locals
          BY <3>4, HandlerIsTyped DEF Holding
        <4>2. claim[k] # Nothing /\ claim[k] \in Claims /\ claim[k].sel = r.sel
              /\ r.token \in 1 .. claim[k].attempt
          BY <1>1, <3>1, <3>4 DEF HolderIsCurrent, TypeOK
        <4>3. claim[k].attempt \in Nat /\ n \in Nat /\ r.token \in 1 .. n /\ r.token < n
              /\ claim[k].sel = req[h].sel /\ r.token \in Attempts
          BY <4>2, GenerationConstants DEF Claims, Attempts
        <4>4. r.pc = "release" => r.seen = 0 \/ run'[k][r.seen] = "failed"
          BY <3>1, <3>4, <4>1 DEF HolderIsCurrent, Locals
        <4>5. r.pc \notin {"check", "persist", "reread"}
          BY <3>1, <3>4, <4>3 DEF HolderIsCurrent
        <4>. QED BY <1>2, <1>4, <3>1, <3>4, <4>2, <4>3, <4>4, <4>5 DEF HolderIsCurrent
      <3>. QED BY <3>2, <3>3, <3>4
    <2>. QED BY <1>3, <2>1, <2>2 DEF HoldersAreCurrent
  <1>11. AttemptsCostFaults'
    <2>. SUFFICES ASSUME NEW j \in Keys, claim'[j] # Nothing
                  PROVE  /\ claim'[j].attempt <= faults + 1
                         /\ Lost(j)' => claim'[j].attempt <= faults
      BY DEF AttemptsCostFaults
    <2>1. CASE j = k
      <3>1. Owned(k)'
        BY <1>2, <1>3, <1>4, <1>5 DEF Owned
      <3>2. RunStatus(k, 0)' = "none"
        BY DEF RunStatus
      <3>. QED BY <1>2, <1>4, <2>1, <3>1 DEF Lost
    <2>2. CASE j # k
      <3>1. claim'[j] = claim[j] /\ run'[j] = run[j]
        BY <1>2, <2>2
      <3>2. Owned(j) => Owned(j)'
        BY <1>3, <3>1 DEF Owned
      <3>. QED BY <3>1, <3>2 DEF AttemptsCostFaults, Lost, RunStatus
    <2>. QED BY <2>1, <2>2
  <1>12. NoOrphanRuns'
    <2>. SUFFICES ASSUME NEW j \in Keys, NEW m \in Attempts, run'[j][m] \in {"running", "succeeded"}
                  PROVE  claim'[j] # Nothing /\ claim'[j].run = m
      BY DEF NoOrphanRuns
    <2>. QED BY <1>2 DEF NoOrphanRuns
  <1>13. DraftIsTheClaims'
    BY <1>1, <1>2, <1>4 DEF DraftIsTheClaims
  <1>14. AnswersMatchSelector'
    BY <1>3 DEF AnswersMatchSelector
  <1>. QED BY <1>6, <1>7, <1>9, <1>10, <1>11, <1>12, <1>13, <1>14, <1>15

LEMMA CreateClaimStep ==
    ASSUME IInv, NEW h \in Handlers, CreateClaim(h)
    PROVE  IInv'
  <1>. DEFINE k == req[h].key
  <1>1. k \in Keys
    BY HandlerIsTyped DEF IInv, CreateClaim, Locals
  <1>2. 1 \in Attempts /\ 1 <= faults + 1
    BY GenerationConstants DEF Attempts, IInv, TypeOK
  <1>3. /\ \A m \in Attempts : run[k][m] \in {"none", "failed"}
        /\ draft[k] = Nothing
        /\ run \in [Keys -> [Attempts -> {"none", "running", "succeeded", "failed"}]]
    BY <1>1 DEF CreateClaim, IInv, TypeOK, NoOrphanRuns, DraftIsTheClaims
  <1>. QED BY <1>1, <1>2, <1>3, GrantStep DEF CreateClaim

LEMMA ReclaimStep ==
    ASSUME IInv, NEW h \in Handlers, Reclaim(h)
    PROVE  IInv'
  <1>. DEFINE k == req[h].key
              c == claim[k]
  <1>1. k \in Keys /\ c # Nothing /\ c \in Claims
    BY HandlerIsTyped DEF IInv, Reclaim, Locals, TypeOK
  <1>2. draft[k] = Nothing /\ c.status # "completed"
    BY <1>1 DEF Reclaim, IInv, DraftIsTheClaims, RunStatus, TypeOK, Drafts, Attempts
  <1>3. Lost(k)
    BY <1>1, <1>2 DEF Reclaim, Lost, Lease, Claims
  <1>4. c.attempt + 1 \in Attempts /\ c.attempt + 1 <= faults + 1 /\ c.attempt < c.attempt + 1
    <2>1. c.attempt <= faults /\ faults \in 0 .. MaxFaults /\ c.attempt \in Nat /\ c.attempt >= 1
      BY <1>1, <1>3, GenerationConstants DEF IInv, AttemptsCostFaults, TypeOK, Claims, Attempts
    <2>. QED BY <2>1, GenerationConstants DEF Attempts
  <1>5. /\ run' \in [Keys -> [Attempts -> {"none", "running", "succeeded", "failed"}]]
        /\ \A j \in Keys : j # k => run'[j] = run[j]
        /\ \A m \in Attempts : run'[k][m] =
              IF m = c.run /\ run[k][m] = "running" THEN "failed" ELSE run[k][m]
    BY <1>1 DEF Reclaim, IInv, TypeOK
  <1>6. ASSUME NEW m \in Attempts
        PROVE  run'[k][m] \in {"none", "failed"}
    <2>1. run[k][m] \in {"running", "succeeded"} => c.run = m
      BY <1>1 DEF IInv, NoOrphanRuns
    <2>2. m # 0
      BY GenerationConstants DEF Attempts
    <2>3. run[k][m] # "succeeded"
      BY <2>1, <2>2 DEF Reclaim, RunStatus
    <2>4. run[k][m] \in {"none", "running", "succeeded", "failed"}
      BY <1>1 DEF IInv, TypeOK
    <2>. QED BY <1>5, <2>1, <2>3, <2>4
  <1>7. /\ claim' = [claim EXCEPT ![k] = Granted(req[h].sel, c.attempt + 1)]
        /\ Grant(h, c.attempt + 1)
        /\ UNCHANGED <<draft, faults>>
        /\ c.sel = req[h].sel
        /\ req[h].pc = "claim"
    BY DEF Reclaim
  <1>8. \A m \in Attempts : run[k][m] # "running" => run'[k][m] = run[k][m]
    BY <1>5
  <1>. QED BY <1>1, <1>2, <1>4, <1>5, <1>6, <1>7, <1>8, GrantStep

LEMMA LeaseExpiresStep ==
    ASSUME IInv, NEW k \in Keys, LeaseExpires(k)
    PROVE  IInv'
  <1>. USE DEF IInv
  <1>. DEFINE c == claim[k]
  <1>1. c \in Claims /\ c # Nothing /\ c.live = TRUE /\ c.status = "running"
    BY DEF TypeOK, LeaseExpires, ClaimsAreShaped, Claims
  <1>2. /\ claim'[k] = [c EXCEPT !.live = FALSE]
        /\ \A j \in Keys : j # k => claim'[j] = claim[j]
    BY DEF TypeOK, LeaseExpires
  <1>3. /\ claim'[k] \in Claims /\ claim'[k] # Nothing
        /\ claim'[k].sel = c.sel /\ claim'[k].status = c.status
        /\ claim'[k].attempt = c.attempt /\ claim'[k].token = c.token /\ claim'[k].run = c.run
        /\ claim'[k].live = FALSE
    <2>1. claim'[k] \in Claims
      BY <1>1, <1>2 DEF Claims
    <2>. QED BY <1>1, <1>2, <2>1, GenerationConstants DEF Claims
  <1>4. faults \in Nat /\ faults' \in 0 .. MaxFaults /\ faults' >= faults
        /\ (Owned(k) => faults' = faults + 1)
    BY GenerationConstants DEF LeaseExpires, Fault, TypeOK
  <1>5. TypeOK'
    BY <1>2, <1>3, <1>4 DEF TypeOK, LeaseExpires
  <1>6. ClaimsAreShaped'
    BY <1>1, <1>2, <1>3 DEF ClaimsAreShaped, LeaseExpires
  <1>7. HoldersDiffer' /\ AnswersMatchSelector'
    BY DEF HoldersDiffer, AnswersMatchSelector, LeaseExpires
  <1>8. HoldersAreCurrent'
    <2>. SUFFICES ASSUME NEW g \in Handlers, NEW r, r = req[g] PROVE HolderIsCurrent(r)'
      BY DEF HoldersAreCurrent, LeaseExpires
    <2>1. run' = run /\ HolderIsCurrent(r)
      BY DEF LeaseExpires, HoldersAreCurrent
    <2>2. CASE r = Idle
      BY <2>1, <2>2 DEF HolderIsCurrent, Idle, Holding
    <2>3. CASE r # Idle
      <3>1. r.key \in Keys
        BY <2>3 DEF TypeOK, Locals
      <3>2. /\ claim'[r.key] # Nothing <=> claim[r.key] # Nothing
            /\ claim'[r.key].sel = claim[r.key].sel
            /\ claim'[r.key].status = claim[r.key].status
            /\ claim'[r.key].attempt = claim[r.key].attempt
            /\ claim'[r.key].run = claim[r.key].run
        BY <1>1, <1>2, <1>3, <3>1
      <3>. QED BY <2>1, <3>2 DEF HolderIsCurrent, RunStatus
    <2>. QED BY <2>2, <2>3
  <1>9. AttemptsCostFaults'
    <2>. SUFFICES ASSUME NEW j \in Keys, claim'[j] # Nothing
                  PROVE  /\ claim'[j].attempt <= faults' + 1
                         /\ Lost(j)' => claim'[j].attempt <= faults'
      BY DEF AttemptsCostFaults
    <2>1. claim[j] # Nothing /\ claim'[j].attempt = claim[j].attempt
          /\ claim'[j].token = claim[j].token /\ claim'[j].run = claim[j].run
          /\ claim'[j].status = claim[j].status
      BY <1>1, <1>2, <1>3
    <2>2. claim[j].attempt \in Nat /\ claim[j].attempt <= faults + 1
          /\ (Lost(j) => claim[j].attempt <= faults)
      BY <2>1, GenerationConstants DEF TypeOK, Claims, Attempts, AttemptsCostFaults
    <2>3. Owned(j)' <=> Owned(j)
      BY <2>1 DEF Owned, LeaseExpires
    <2>4. RunStatus(j, claim[j].run)' = RunStatus(j, claim[j].run)
      BY <2>1 DEF RunStatus, LeaseExpires
    <2>5. CASE j # k
      BY <1>2, <1>4, <2>1, <2>2, <2>3, <2>4, <2>5 DEF Lost
    <2>6. CASE j = k
      <3>1. CASE Owned(k)
        BY <1>4, <2>1, <2>2, <2>6, <3>1
      <3>2. CASE ~Owned(k)
        BY <1>4, <2>1, <2>2, <2>4, <2>6, <3>2 DEF Lost
      <3>. QED BY <3>1, <3>2
    <2>. QED BY <2>5, <2>6
  <1>10. NoOrphanRuns' /\ DraftIsTheClaims' /\ RunsFollowAttempts'
    BY <1>1, <1>2, <1>3 DEF NoOrphanRuns, DraftIsTheClaims, RunsFollowAttempts, LeaseExpires
  <1>. QED BY <1>5, <1>6, <1>7, <1>8, <1>9, <1>10

\* run' differs from run in one place.
RunIs(k, n, status) ==
    /\ run' \in [Keys -> [Attempts -> {"none", "running", "succeeded", "failed"}]]
    /\ run'[k][n] = status
    /\ \A m \in Attempts : m # n => run'[k][m] = run[k][m]
    /\ \A j \in Keys : j # k => run'[j] = run[j]

LEMMA RunWritten ==
    ASSUME TypeOK, NEW k \in Keys, NEW n \in Attempts,
           NEW status \in {"running", "succeeded", "failed"},
           run' = [run EXCEPT ![k][n] = status]
    PROVE  RunIs(k, n, status)
  <1>1. run' = [run EXCEPT ![k] = [run[k] EXCEPT ![n] = status]]
    OBVIOUS
  <1>2. run[k] \in [Attempts -> {"none", "running", "succeeded", "failed"}]
    BY DEF TypeOK
  <1>3. [run[k] EXCEPT ![n] = status] \in [Attempts -> {"none", "running", "succeeded", "failed"}]
    BY <1>2
  <1>4. run'[k] = [run[k] EXCEPT ![n] = status]
    BY <1>1 DEF TypeOK
  <1>. QED BY <1>1, <1>2, <1>3, <1>4 DEF TypeOK, RunIs

\* What the invariant says of one key.
KeyInv(k) ==
    /\ claim[k] # Nothing =>
          /\ claim[k].run \in {0, claim[k].attempt}
          /\ claim[k].status = "running" => claim[k].token = claim[k].attempt
          /\ claim[k].status # "running" => claim[k].token = 0 /\ ~claim[k].live
          /\ claim[k].run # 0 => run[k][claim[k].run] # "none"
          /\ claim[k].attempt <= faults + 1
          /\ Lost(k) => claim[k].attempt <= faults
    /\ \A m \in Attempts :
          /\ run[k][m] # "none" => claim[k] # Nothing /\ (m < claim[k].attempt \/ m = claim[k].run)
          /\ run[k][m] \in {"running", "succeeded"} => claim[k] # Nothing /\ claim[k].run = m
    /\ (draft[k] # Nothing) <=> (claim[k] # Nothing /\ claim[k].status = "completed")
    /\ draft[k] # Nothing =>
          /\ draft[k].sel = claim[k].sel
          /\ draft[k].run = claim[k].run
          /\ run[k][draft[k].run] = "succeeded"

LEMMA KeyByKey ==
    (\A k \in Keys : KeyInv(k)) <=>
        /\ ClaimsAreShaped
        /\ RunsFollowAttempts
        /\ AttemptsCostFaults
        /\ NoOrphanRuns
        /\ DraftIsTheClaims
  BY DEF KeyInv, ClaimsAreShaped, RunsFollowAttempts, AttemptsCostFaults, NoOrphanRuns,
         DraftIsTheClaims

\* A handler that changes the rows of its key, and goes on with the token it has
\* or ends, need only keep the invariant for that key.
LEMMA KeyStep ==
    ASSUME IInv, NEW h \in Handlers, NEW k \in Keys, req[h].pc # "idle", req[h].key = k,
           TypeOK', AnswersMatchSelector', faults' >= faults,
           \A j \in Keys : j # k => /\ claim'[j] = claim[j]
                                    /\ run'[j] = run[j]
                                    /\ draft'[j] = draft[j],
           \A g \in Handlers : g # h => req'[g] = req[g],
           req'[h].pc \in Holding => /\ req[h].pc \in Holding
                                     /\ req'[h].key = k
                                     /\ req'[h].token = req[h].token,
           KeyInv(k)',
           HolderIsCurrent(req[h])',
           \A r \in Locals : /\ HolderIsCurrent(r)
                             /\ r.key = k
                             /\ (\E g \in Handlers : g # h /\ r = req[g])
                             => HolderIsCurrent(r)'
    PROVE  IInv'
  <1>. USE DEF IInv
  <1>1. ASSUME NEW j \in Keys, j # k PROVE KeyInv(j)'
    <2>1. KeyInv(j)
      BY KeyByKey
    <2>2. claim'[j] = claim[j] /\ run'[j] = run[j] /\ draft'[j] = draft[j]
      BY <1>1
    <2>3. Owned(j) => Owned(j)'
      BY <1>1, <2>2 DEF Owned
    <2>4. Lost(j)' => Lost(j)
      BY <2>2, <2>3 DEF Lost, RunStatus
    <2>5. claim[j] # Nothing => claim[j].attempt \in Nat /\ faults \in Nat /\ faults' \in Nat
      BY GenerationConstants DEF TypeOK, Claims, Attempts
    <2>. QED BY <2>1, <2>2, <2>4, <2>5 DEF KeyInv
  <1>2. /\ ClaimsAreShaped'
        /\ RunsFollowAttempts'
        /\ AttemptsCostFaults'
        /\ NoOrphanRuns'
        /\ DraftIsTheClaims'
    <2>1. (\A j \in Keys : KeyInv(j))'
      BY <1>1
    <2>. QED BY <2>1 DEF KeyInv, ClaimsAreShaped, RunsFollowAttempts, AttemptsCostFaults,
                         NoOrphanRuns, DraftIsTheClaims
  <1>3. HoldersDiffer'
    BY DEF HoldersDiffer
  <1>4. HoldersAreCurrent'
    <2>. SUFFICES ASSUME NEW g \in Handlers, g # h, NEW r, r = req[g] PROVE HolderIsCurrent(r)'
      BY DEF HoldersAreCurrent
    <2>1. HolderIsCurrent(r) /\ (r.pc = "idle" \/ (r \in Locals /\ r.key \in Keys))
      BY DEF HoldersAreCurrent, TypeOK, Locals, Idle
    <2>2. CASE r.pc = "idle"
      BY <2>2 DEF HolderIsCurrent, Holding
    <2>3. CASE r \in Locals /\ r.key \in Keys /\ r.key # k
      BY <2>1, <2>3 DEF HolderIsCurrent
    <2>4. CASE r \in Locals /\ r.key = k
      BY <2>1, <2>4
    <2>. QED BY <2>1, <2>2, <2>3, <2>4
  <1>. QED BY <1>2, <1>3, <1>4

LEMMA StartStep ==
    ASSUME IInv, NEW h \in Handlers, Start(h)
    PROVE  IInv'
  <1>. USE DEF IInv
  <1>. SUFFICES ASSUME NEW k, k = req[h].key, NEW n, n = req[h].token PROVE IInv'
    OBVIOUS
  <1>1. req[h] \in Locals /\ req[h].pc = "start" /\ k \in Keys
    BY HandlerIsTyped DEF Start, Locals
  <1>. DEFINE c == claim[k]
  <1>2. c # Nothing /\ c \in Claims /\ c.sel = req[h].sel /\ n \in 1 .. c.attempt
    BY <1>1 DEF HoldersAreCurrent, HolderIsCurrent, Holding, TypeOK
  <1>3. CASE ~Bindable(h)
    <2>1. c.token # n
      BY <1>1, <1>2, <1>3 DEF Bindable, HoldersAreCurrent, HolderIsCurrent, ClaimsAreShaped,
                              Claims
    <2>2. faults' \in 0 .. MaxFaults /\ faults' >= faults
      BY GenerationConstants DEF TypeOK, Start
    <2>. QED BY <1>1, <1>3, <2>1, <2>2, ToCleanup DEF Start, Holding, UnchangedRows
  <1>4. CASE Bindable(h)
    <2>1. c.status = "running" /\ c.token = n /\ c.run = 0 /\ n = c.attempt /\ n \in Attempts
      BY <1>1, <1>2, <1>4 DEF Bindable, ClaimsAreShaped, Claims
    <2>2. /\ claim'[k] = [c EXCEPT !.run = n]
          /\ claim' \in [Keys -> Claims \union {Nothing}]
          /\ \A j \in Keys : j # k => claim'[j] = claim[j]
      <3>1. claim' = [claim EXCEPT ![k] = [c EXCEPT !.run = n]]
        BY <1>1, <1>4 DEF Start
      <3>2. [c EXCEPT !.run = n] \in Claims
        BY <1>2, <2>1 DEF Claims
      <3>. QED BY <1>1, <3>1, <3>2 DEF TypeOK
    <2>3. /\ claim'[k] # Nothing /\ claim'[k].sel = c.sel /\ claim'[k].status = "running"
          /\ claim'[k].attempt = n /\ claim'[k].token = n /\ claim'[k].run = n
          /\ claim'[k].live = c.live
      BY <1>1, <1>2, <2>1, <2>2, GenerationConstants DEF Claims
    <2>4. run' = [run EXCEPT ![k][n] = "running"]
      BY <1>1, <1>4 DEF Start
    <2>5. RunIs(k, n, "running")
      BY <1>1, <2>1, <2>4, RunWritten
    <2>6. /\ req' \in [Handlers -> Locals \union {Idle}]
          /\ req'[h].pc = "call" /\ req'[h].key = k /\ req'[h].token = n /\ req'[h].sel = req[h].sel
          /\ \A g \in Handlers : g # h => req'[g] = req[g]
      BY <1>1, <1>4 DEF Start, TypeOK, Proceed, Goto, Locals
    <2>7. TypeOK' /\ AnswersMatchSelector' /\ faults' >= faults
      BY <2>2, <2>5, <2>6, GenerationConstants DEF Start, TypeOK, RunIs, AnswersMatchSelector
    <2>8. KeyInv(k)'
      <3>1. Owned(k) /\ Owned(k)'
        BY <1>1, <2>1, <2>3, <2>6 DEF Owned
      <3>2. Lost(k)' => Lost(k)
        BY <2>1, <2>3, <3>1 DEF Lost, RunStatus
      <3>3. \A m \in Attempts : m # 0
        BY GenerationConstants DEF Attempts
      <3>4. KeyInv(k)
        BY <1>1, KeyByKey
      <3>5. \A m \in Attempts :
               /\ run'[k][m] # "none" => m < claim'[k].attempt \/ m = claim'[k].run
               /\ run'[k][m] \in {"running", "succeeded"} => claim'[k].run = m
        BY <2>1, <2>3, <2>5, <3>3, <3>4 DEF KeyInv, RunIs
      <3>6. draft'[k] = Nothing /\ faults' = faults
        BY <2>1, <3>4 DEF KeyInv, Start
      <3>7. claim'[k].attempt <= faults + 1 /\ (Lost(k)' => claim'[k].attempt <= faults)
        BY <1>2, <2>1, <2>3, <3>2, <3>4 DEF KeyInv
      <3>. QED BY <2>1, <2>3, <2>5, <3>5, <3>6, <3>7 DEF KeyInv, RunIs
    <2>9. HolderIsCurrent(req[h])'
      BY <1>2, <2>1, <2>3, <2>5, <2>6 DEF HolderIsCurrent, Holding, RunIs
    <2>10. ASSUME NEW r \in Locals, HolderIsCurrent(r), r.key = k,
                  NEW g \in Handlers, g # h, r = req[g]
           PROVE  HolderIsCurrent(r)'
      <3>1. r.pc \in Holding => r.token # n
        BY <1>1, <2>10 DEF HoldersDiffer, Holding
      <3>2. r.pc \notin {"check", "persist", "reread"}
        <4>. SUFFICES ASSUME r.pc \in {"check", "persist", "reread"} PROVE FALSE
          OBVIOUS
        <4>1. run[k][r.token] = "succeeded" /\ r.token \in 1 .. c.attempt
          BY <2>10 DEF HolderIsCurrent, Holding
        <4>2. r.token \in Attempts /\ r.token # 0
          BY <4>1, GenerationConstants DEF Locals, Attempts
        <4>. QED BY <1>1, <2>1, <4>1, <4>2 DEF NoOrphanRuns
      <3>3. r.pc = "release" => r.seen # n
        BY <1>1, <2>1, <2>10, GenerationConstants DEF HolderIsCurrent, RunsFollowAttempts, Attempts
      <3>4. r.pc = "release" => r.seen = 0 \/ run'[k][r.seen] = "failed"
        BY <2>5, <2>10, <3>3 DEF HolderIsCurrent, Locals, RunIs
      <3>. QED BY <2>1, <2>3, <2>10, <3>1, <3>2, <3>4 DEF HolderIsCurrent, Holding
    <2>11. \A j \in Keys : j # k => claim'[j] = claim[j] /\ run'[j] = run[j] /\ draft'[j] = draft[j]
      BY <2>2, <2>5 DEF Start, RunIs
    <2>. QED BY <1>1, <2>6, <2>7, <2>8, <2>9, <2>10, <2>11, KeyStep DEF Holding
  <1>. QED BY <1>3, <1>4

\* The provider's result, or its failure, which is a fault.
LEMMA RecordStep ==
    ASSUME IInv, NEW h \in Handlers, NEW outcome \in {"succeeded", "failed"}, Record(h, outcome),
           faults' \in 0 .. MaxFaults, faults' >= faults,
           outcome = "failed" => faults' > faults
    PROVE  IInv'
  <1>. USE DEF IInv
  <1>. SUFFICES ASSUME NEW k, k = req[h].key, NEW n, n = req[h].token PROVE IInv'
    OBVIOUS
  <1>1. req[h] \in Locals /\ req[h].pc = "call" /\ k \in Keys
    BY HandlerIsTyped DEF Record, Locals
  <1>. DEFINE c == claim[k]
  <1>2. c # Nothing /\ c \in Claims /\ c.sel = req[h].sel /\ n \in 1 .. c.attempt /\ n \in Attempts
    <2>1. c # Nothing /\ c \in Claims /\ c.sel = req[h].sel /\ n \in 1 .. c.attempt
      BY <1>1 DEF HoldersAreCurrent, HolderIsCurrent, Holding, TypeOK
    <2>. QED BY <1>1, <2>1, GenerationConstants DEF Locals, Attempts
  <1>3. CASE run[k][n] # "running"
    <2>1. n # c.attempt
      BY <1>1, <1>2, <1>3 DEF HoldersAreCurrent, HolderIsCurrent
    <2>2. c.token # n
      BY <1>1, <1>2, <2>1, GenerationConstants DEF ClaimsAreShaped, Attempts
    <2>. QED BY <1>1, <1>3, <2>2, ToCleanup DEF Record, Holding, UnchangedRows
  <1>4. CASE run[k][n] = "running"
    <2>. DEFINE next == IF outcome = "succeeded" THEN "check" ELSE "cleanup"
    <2>1. c.run = n /\ c.attempt = n /\ c.status = "running" /\ c.token = n
      <3>1. c.run = n
        BY <1>1, <1>2, <1>4 DEF NoOrphanRuns
      <3>2. n # 0 /\ c.attempt = n
        BY <1>1, <1>2, <3>1, GenerationConstants DEF ClaimsAreShaped, Attempts
      <3>. QED BY <1>1, <1>2, <3>1, <3>2 DEF HoldersAreCurrent, HolderIsCurrent, ClaimsAreShaped
    <2>2. claim' = claim /\ draft' = draft /\ answers' = answers
      BY DEF Record
    <2>3. run' = [run EXCEPT ![k][n] = outcome]
      BY <1>1, <1>4 DEF Record
    <2>4. RunIs(k, n, outcome)
      BY <1>1, <1>2, <2>3, RunWritten
    <2>5. Goto(h, [req[h] EXCEPT !.pc = next])
      BY <1>1, <1>4 DEF Record, Proceed
    <2>6. /\ req' \in [Handlers -> Locals \union {Idle}]
          /\ req'[h].pc = next /\ req'[h].key = k /\ req'[h].token = n /\ req'[h].sel = req[h].sel
          /\ \A g \in Handlers : g # h => req'[g] = req[g]
      BY <1>1, <2>5 DEF TypeOK, Goto, Locals
    <2>7. TypeOK' /\ AnswersMatchSelector'
      BY <2>2, <2>4, <2>6 DEF TypeOK, RunIs, AnswersMatchSelector
    <2>8. KeyInv(k)'
      <3>1. KeyInv(k)
        BY <1>1, KeyByKey
      <3>2. Lost(k)' => outcome = "failed"
        BY <2>1, <2>2, <2>4, <1>2, GenerationConstants DEF Lost, RunStatus, RunIs, Attempts
      <3>3. c.attempt <= faults + 1 /\ c.attempt \in Nat /\ faults \in Nat /\ faults' \in Nat
        BY <1>2, <3>1, GenerationConstants DEF KeyInv, TypeOK, Claims, Attempts
      <3>4. claim'[k].attempt <= faults' + 1 /\ (Lost(k)' => claim'[k].attempt <= faults')
        BY <2>2, <3>2, <3>3
      <3>5. draft'[k] = Nothing
        BY <1>2, <2>1, <2>2, <3>1 DEF KeyInv
      <3>6. \A m \in Attempts :
               /\ run'[k][m] # "none" => m < c.attempt \/ m = c.run
               /\ run'[k][m] \in {"running", "succeeded"} => c.run = m
        BY <2>1, <2>4, <3>1 DEF KeyInv, RunIs
      <3>. QED BY <1>2, <2>1, <2>2, <2>4, <3>4, <3>5, <3>6 DEF KeyInv, RunIs
    <2>9. HolderIsCurrent(req[h])'
      BY <1>2, <2>2, <2>4, <2>6 DEF HolderIsCurrent, Holding, RunIs
    <2>10. ASSUME NEW r \in Locals, HolderIsCurrent(r), r.key = k,
                  NEW g \in Handlers, g # h, r = req[g]
           PROVE  HolderIsCurrent(r)'
      <3>1. r.pc \in {"start", "call"} => r.token # n
        BY <1>1, <2>10 DEF HoldersDiffer, Holding
      <3>2. ASSUME r.pc \in {"check", "persist", "reread"}
            PROVE  run'[k][r.token] = "succeeded"
        <4>1. run[k][r.token] = "succeeded" /\ r.token \in 1 .. c.attempt
          BY <2>10, <3>2 DEF HolderIsCurrent, Holding
        <4>2. r.token \in Attempts
          BY <4>1, GenerationConstants DEF Locals, Attempts
        <4>. QED BY <1>4, <2>4, <4>1, <4>2 DEF RunIs
      <3>3. r.pc = "release" => r.seen = 0 \/ run'[k][r.seen] = "failed"
        BY <1>4, <2>4, <2>10 DEF HolderIsCurrent, Locals, RunIs
      <3>. QED BY <2>1, <2>2, <2>10, <3>1, <3>2, <3>3 DEF HolderIsCurrent
    <2>11. \A j \in Keys : j # k => claim'[j] = claim[j] /\ run'[j] = run[j] /\ draft'[j] = draft[j]
      BY <2>2, <2>4 DEF RunIs
    <2>. QED BY <1>1, <2>6, <2>7, <2>8, <2>9, <2>10, <2>11, KeyStep DEF Holding
  <1>. QED BY <1>3, <1>4

\* Giving the claim back: its owner is the handler itself, which is done with
\* the attempt, so a fault was paid for it already.
LEMMA ReleaseStep ==
    ASSUME IInv, NEW h \in Handlers, Release(h)
    PROVE  IInv'
  <1>. USE DEF IInv
  <1>. SUFFICES ASSUME NEW k, k = req[h].key, NEW n, n = req[h].token PROVE IInv'
    OBVIOUS
  <1>1. req[h] \in Locals /\ req[h].pc = "release" /\ k \in Keys
    BY HandlerIsTyped DEF Release, Locals
  <1>. DEFINE c == claim[k]
  <1>2. c # Nothing /\ c \in Claims /\ c.sel = req[h].sel /\ n \in 1 .. c.attempt
    BY <1>1 DEF HoldersAreCurrent, HolderIsCurrent, Holding, TypeOK
  <1>3. CASE ~(c.status = "running" /\ c.token = n /\ c.run = req[h].seen)
    <2>1. claim' = claim
      BY <1>1, <1>3 DEF Release
    <2>. QED BY <1>1, <2>1, ThrowStep DEF Release, UnchangedRows
  <1>4. CASE c.status = "running" /\ c.token = n /\ c.run = req[h].seen
    <2>1. /\ run' = run /\ draft' = draft /\ faults' = faults /\ answers' = answers
          /\ claim' = [claim EXCEPT ![k] = [c EXCEPT !.status = "failed", !.token = 0, !.live = FALSE]]
          /\ Goto(h, Idle)
      BY <1>1, <1>4 DEF Release, Throw
    <2>2. [c EXCEPT !.status = "failed", !.token = 0, !.live = FALSE] \in Claims
      BY <1>2 DEF Claims
    <2>3. /\ claim' \in [Keys -> Claims \union {Nothing}]
          /\ claim'[k] # Nothing /\ claim'[k].sel = c.sel /\ claim'[k].status = "failed"
          /\ claim'[k].attempt = c.attempt /\ claim'[k].token = 0 /\ claim'[k].run = c.run
          /\ claim'[k].live = FALSE
          /\ \A j \in Keys : j # k => claim'[j] = claim[j]
      <3>1. claim'[k] = [c EXCEPT !.status = "failed", !.token = 0, !.live = FALSE]
        BY <1>1, <2>1 DEF TypeOK
      <3>2. [c EXCEPT !.status = "failed", !.token = 0, !.live = FALSE] # Nothing
        BY <2>2, GenerationConstants
      <3>. QED BY <1>1, <1>2, <2>1, <2>2, <3>1, <3>2 DEF TypeOK, Claims
    <2>4. /\ req' \in [Handlers -> Locals \union {Idle}]
          /\ req'[h] = Idle
          /\ \A g \in Handlers : g # h => req'[g] = req[g]
      BY <2>1 DEF TypeOK, Goto
    <2>5. TypeOK' /\ AnswersMatchSelector' /\ faults' >= faults
      BY <2>1, <2>3, <2>4, GenerationConstants DEF TypeOK, AnswersMatchSelector
    <2>6. c.attempt = n
      BY <1>1, <1>2, <1>4 DEF ClaimsAreShaped
    <2>7. \A g \in Handlers : req[g].pc \in {"start", "call"} /\ req[g].key = k => req[g].token # n
      BY <1>1 DEF HoldersDiffer, Holding
    <2>8. KeyInv(k)'
      <3>1. KeyInv(k)
        BY <1>1, KeyByKey
      <3>2. RunStatus(k, c.run) # "succeeded"
        BY <1>1, <1>4 DEF HoldersAreCurrent, HolderIsCurrent, RunStatus
      <3>3. c.attempt <= faults
        BY <1>2, <1>4, <2>7, <3>1, <3>2 DEF KeyInv, Lost, Owned
      <3>4. claim'[k].attempt <= faults' + 1 /\ claim'[k].attempt <= faults'
        BY <1>2, <2>1, <2>3, <3>1, <3>3 DEF KeyInv
      <3>5. draft'[k] = Nothing
        BY <1>2, <1>4, <2>1, <3>1 DEF KeyInv
      <3>. QED BY <1>2, <2>1, <2>3, <3>1, <3>4, <3>5 DEF KeyInv
    <2>9. HolderIsCurrent(req[h])'
      BY <2>4 DEF HolderIsCurrent, Holding, Idle
    <2>10. ASSUME NEW r \in Locals, HolderIsCurrent(r), r.key = k,
                  NEW g \in Handlers, g # h, r = req[g]
           PROVE  HolderIsCurrent(r)'
      BY <2>1, <2>3, <2>6, <2>7, <2>10, <1>2 DEF HolderIsCurrent
    <2>11. \A j \in Keys : j # k => claim'[j] = claim[j] /\ run'[j] = run[j] /\ draft'[j] = draft[j]
      BY <2>1, <2>3
    <2>. QED BY <1>1, <2>4, <2>5, <2>8, <2>9, <2>10, <2>11, KeyStep DEF Holding, Idle
  <1>. QED BY <1>3, <1>4

\* Storing the draft.  No handler is at work on the attempt whose run succeeded.
LEMMA PersistStep ==
    ASSUME IInv, NEW h \in Handlers, Persist(h)
    PROVE  IInv'
  <1>. USE DEF IInv
  <1>. SUFFICES ASSUME NEW k, k = req[h].key, NEW n, n = req[h].token, NEW s, s = req[h].sel
                PROVE  IInv'
    OBVIOUS
  <1>1. req[h] \in Locals /\ req[h].pc = "persist" /\ k \in Keys /\ s \in Selectors
    BY HandlerIsTyped DEF Persist, Locals
  <1>. DEFINE c == claim[k]
              new == [c EXCEPT !.status = "completed", !.token = 0, !.live = FALSE]
              row == [sel |-> s, run |-> n]
  <1>2. /\ c # Nothing /\ c \in Claims /\ c.sel = s /\ n \in 1 .. c.attempt
        /\ n \in Attempts /\ n # 0 /\ run[k][n] = "succeeded"
    <2>1. c # Nothing /\ c \in Claims /\ c.sel = s /\ n \in 1 .. c.attempt /\ run[k][n] = "succeeded"
      BY <1>1 DEF HoldersAreCurrent, HolderIsCurrent, TypeOK
    <2>. QED BY <1>1, <2>1, GenerationConstants DEF Locals, Attempts
  <1>3. CASE draft[k] # Nothing
    BY <1>1, <1>3, AnswerWithDraft DEF Persist, UnchangedRows
  <1>4. CASE draft[k] = Nothing
    <2>1. /\ run' = run /\ faults' = faults
          /\ draft' = [draft EXCEPT ![k] = row]
          /\ claim' = [claim EXCEPT ![k] = new]
          /\ Goto(h, Idle)
          /\ answers' = answers \union {[key |-> k, sel |-> s, run |-> n]}
          /\ c.status = "running" /\ c.run = n
      BY <1>1, <1>4 DEF Persist, Store, Answer, Completable
    <2>2. new \in Claims /\ new # Nothing /\ new.sel = s /\ new.status = "completed"
          /\ new.attempt = c.attempt /\ new.token = 0 /\ new.run = n /\ new.live = FALSE
      <3>1. new \in Claims
        BY <1>2 DEF Claims
      <3>. QED BY <1>2, <2>1, <3>1, GenerationConstants DEF Claims
    <2>3. row \in Drafts /\ row # Nothing
      BY <1>1, <1>2, GenerationConstants DEF Drafts
    <2>. HIDE DEF new, row
    <2>4. /\ claim' \in [Keys -> Claims \union {Nothing}] /\ claim'[k] = new
          /\ draft' \in [Keys -> Drafts \union {Nothing}] /\ draft'[k] = row
          /\ \A j \in Keys : j # k => claim'[j] = claim[j] /\ draft'[j] = draft[j] /\ run'[j] = run[j]
      BY <1>1, <2>1, <2>2, <2>3 DEF TypeOK
    <2>5. /\ req' \in [Handlers -> Locals \union {Idle}]
          /\ req'[h] = Idle
          /\ \A g \in Handlers : g # h => req'[g] = req[g]
      BY <2>1 DEF TypeOK, Goto
    <2>6. TypeOK' /\ faults' >= faults
      BY <1>1, <1>2, <2>1, <2>4, <2>5, GenerationConstants DEF TypeOK
    <2>7. AnswersMatchSelector'
      <3>. SUFFICES ASSUME NEW a \in answers' PROVE draft'[a.key] = [sel |-> a.sel, run |-> a.run]
        BY DEF AnswersMatchSelector
      <3>1. CASE a \in answers
        <4>1. a.key \in Keys /\ a.sel \in Selectors /\ a.run \in Attempts
          BY <3>1 DEF TypeOK
        <4>2. draft[a.key] # Nothing
          <5>1. draft[a.key] = [sel |-> a.sel, run |-> a.run]
            BY <3>1 DEF AnswersMatchSelector
          <5>2. draft[a.key] \in Drafts
            BY <4>1, <5>1 DEF Drafts
          <5>. QED BY <5>2, GenerationConstants
        <4>. QED BY <1>4, <2>4, <3>1, <4>1, <4>2 DEF AnswersMatchSelector
      <3>2. CASE a = [key |-> k, sel |-> s, run |-> n]
        BY <2>4, <3>2 DEF row
      <3>. QED BY <2>1, <3>1, <3>2
    <2>8. KeyInv(k)'
      <3>1. KeyInv(k)
        BY <1>1, KeyByKey
      <3>2. ~Lost(k)'
        BY <1>2, <2>1, <2>2, <2>4 DEF Lost, RunStatus
      <3>3. c.run \in {0, c.attempt} /\ c.attempt <= faults + 1
        BY <1>2, <3>1 DEF KeyInv
      <3>4. row.sel = s /\ row.run = n
        BY DEF row
      <3>. QED BY <1>2, <2>1, <2>2, <2>3, <2>4, <3>1, <3>2, <3>3, <3>4 DEF KeyInv
    <2>9. HolderIsCurrent(req[h])'
      BY <2>5 DEF HolderIsCurrent, Holding, Idle
    <2>10. ASSUME NEW r \in Locals, HolderIsCurrent(r), r.key = k,
                  NEW g \in Handlers, g # h, r = req[g]
           PROVE  HolderIsCurrent(r)'
      <3>1. r.pc \in {"start", "call"} => r.token # c.attempt
        BY <1>2, <2>1, <2>10 DEF HolderIsCurrent
      <3>. QED BY <1>2, <2>1, <2>2, <2>4, <2>10, <3>1 DEF HolderIsCurrent
    <2>. QED BY <1>1, <2>4, <2>5, <2>6, <2>7, <2>8, <2>9, <2>10, KeyStep DEF Holding, Idle
  <1>. QED BY <1>3, <1>4

-----------------------------------------------------------------------------
(* The theorems *)

LEMMA InitInv == Init => IInv
  <1>. SUFFICES ASSUME Init PROVE IInv
    OBVIOUS
  <1>. USE DEF Init
  <1>1. TypeOK
    BY GenerationConstants DEF TypeOK
  <1>2. Idle.pc = "idle"
    BY DEF Idle
  <1>3. ClaimsAreShaped /\ AttemptsCostFaults
    BY DEF ClaimsAreShaped, AttemptsCostFaults
  <1>4. RunsFollowAttempts /\ NoOrphanRuns
    BY DEF RunsFollowAttempts, NoOrphanRuns
  <1>5. HoldersDiffer /\ HoldersAreCurrent
    BY <1>2 DEF HoldersDiffer, HoldersAreCurrent, HolderIsCurrent, Holding
  <1>6. DraftIsTheClaims /\ AnswersMatchSelector
    BY DEF DraftIsTheClaims, AnswersMatchSelector
  <1>. QED BY <1>1, <1>3, <1>4, <1>5, <1>6 DEF IInv

LEMMA InvStep == IInv /\ [Next]_vars => IInv'
  <1>. SUFFICES ASSUME IInv, [Next]_vars PROVE IInv'
    OBVIOUS
  <1>1. ASSUME NEW h \in Handlers, Step(h)
        PROVE  IInv'
    <2>1. CASE Succeed(h)
      <3>1. faults' \in 0 .. MaxFaults /\ faults' >= faults
        BY <2>1, GenerationConstants DEF Succeed, IInv, TypeOK
      <3>. QED BY <2>1, <3>1, RecordStep DEF Succeed
    <2>. QED BY <1>1, <2>1, CreateClaimStep, MeetClaimStep, ReclaimStep, StartStep,
                CheckBindingStep, CleanupStep, ReleaseStep, PersistStep, RereadStep DEF Step
  <1>2. ASSUME NEW h \in Handlers, ProviderFails(h)
        PROVE  IInv'
    <2>1. faults' \in 0 .. MaxFaults /\ faults' >= faults /\ faults' > faults
      BY <1>2, GenerationConstants DEF ProviderFails, Fault, IInv, TypeOK
    <2>. QED BY <1>2, <2>1, RecordStep DEF ProviderFails
  <1>3. CASE UNCHANGED vars
    <2>1. \A r : HolderIsCurrent(r) => HolderIsCurrent(r)'
      BY <1>3 DEF vars, HolderIsCurrent
    <2>2. HoldersAreCurrent' /\ HoldersDiffer'
      BY <1>3, <2>1 DEF vars, IInv, HoldersAreCurrent, HoldersDiffer
    <2>3. AttemptsCostFaults'
      BY <1>3 DEF vars, IInv, AttemptsCostFaults, Lost, Owned, RunStatus
    <2>. QED BY <1>3, <2>2, <2>3 DEF vars, IInv, TypeOK, ClaimsAreShaped, RunsFollowAttempts,
                                    NoOrphanRuns, DraftIsTheClaims, AnswersMatchSelector
  <1>. QED BY <1>1, <1>2, <1>3, FindDraftStep, CrashStep, LoadFailsStep, PersistFailsStep,
              LeaseExpiresStep DEF Next

LEMMA Invariance == Spec => []IInv
  <1>. QED BY InitInv, InvStep, PTL DEF Spec

\* Of all attempts at a key the claim names the only one whose run is running or
\* has succeeded, and the key has a draft exactly when its claim is completed, by
\* that run and for the claim's selector: whatever handlers of synthesis-
\* generation.ts crash, expire, retry or race.
THEOREM RunsAndDrafts == Spec => []RunsAndDraftsAgree
  <1>1. IInv => RunsAndDraftsAgree
    BY DEF IInv, RunsAndDraftsAgree
  <1>. QED BY <1>1, Invariance, PTL

\* Whoever generateSynthesisDraft answers gets the one draft of its key, written
\* for the selector it sent.
THEOREM Answers == Spec => []AnswersMatchSelector
  <1>1. IInv => AnswersMatchSelector
    BY DEF IInv
  <1>. QED BY <1>1, Invariance, PTL
===============================================================================
