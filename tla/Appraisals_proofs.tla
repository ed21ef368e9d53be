---------------------------- MODULE Appraisals_proofs ----------------------------
(***************************************************************************)
(* Proofs about CertificationRun and Challenges, for every set of runs,    *)
(* requests and users and every cap.                                       *)
(***************************************************************************)
EXTENDS CertificationRun, Challenges, FiniteSetTheorems, SequenceTheorems, TLAPS

-----------------------------------------------------------------------------
(***************************************************************************)
(* CertificationRun.  A handler checks in one transaction and writes in    *)
(* another.  What it checked still holds when it writes because the rows   *)
(* only grow (Grows): a run keeps its input and, once ended, its end; a    *)
(* result and an event are never changed.                                  *)
(***************************************************************************)

\* What steps may do to the rows.
Grows ==
    /\ \A k \in Runs : run[k] # Nothing =>
          /\ run'[k] # Nothing
          /\ run'[k].input = run[k].input
          /\ run[k].status # "running" => run'[k] = run[k]
    /\ \A k \in Runs : result[k] # Nothing => result'[k] = result[k]
    /\ events \subseteq events'

\* What a handler found when it began, and still finds.
LocalIsCurrent(local) ==
    /\ local.pc \in {"end", "checkPrior", "insertResult"} => run[local.run] # Nothing
    /\ local.pc = "insertEvent" => result[local.run] # Nothing
    /\ local.pc = "insertResult" /\ local.body.supersedes # Nothing =>
          /\ result[local.body.supersedes] # Nothing
          /\ run[local.body.supersedes] # Nothing
          /\ run[local.body.supersedes].input.subject = run[local.run].input.subject

LocalsAreCurrent == \A r \in Requests : LocalIsCurrent(req[r])

\* An answer names rows that exist and is in them.
IsStored(a) ==
    /\ a.run \in Runs
    /\ \/ a.about = "run" /\ run[a.run] # Nothing /\ run[a.run].input = a.said
       \/ a.about = "result" /\ result[a.run] # Nothing /\ result[a.run] = a.said
       \/ /\ a.about \in {"failed", "cancelled"}
          /\ run[a.run] # Nothing
          /\ EndedAs(a.run, a.about, a.said)
       \/ a.about \in {"withdrawn", "revoked"} /\ Event(a.run, a.about, a.said) \in events

AnswersAreStored == \A a \in answers : IsStored(a)

\* RunsEndOnce, read from the audit rows.
AuditsAreEnds ==
    /\ \A k \in Runs : result[k] # Nothing <=> (run[k] # Nothing /\ run[k].status = "completed")
    /\ \A a \in audits : run[a[1]] # Nothing /\ run[a[1]].status = a[2]
    /\ \A k \in Runs : run[k] # Nothing /\ run[k].status \in {"failed", "cancelled"} =>
          <<k, run[k].status>> \in audits

\* Results, what they replace and the events that record both.
Replaces(s, p) == result[s] # Nothing /\ result[s].supersedes = p

EventsExplainResults ==
    /\ \A e \in events : result[e.run] # Nothing
    /\ \A e \in events : e.kind = "superseded" => e.reason \in Runs /\ Replaces(e.reason, e.run)
    /\ \A k \in Runs : result[k] # Nothing => Event(k, "issued", Nothing) \in events
    /\ \A s, p \in Runs : Replaces(s, p) =>
          /\ result[p] # Nothing
          /\ run[p].input.subject = run[s].input.subject
          /\ Event(p, "superseded", s) \in events
    /\ \A s, t, p \in Runs : Replaces(s, p) /\ Replaces(t, p) => s = t

CertificationInv ==
    /\ TypeOK
    /\ AuditsAreEnds
    /\ LocalsAreCurrent
    /\ AnswersAreStored
    /\ EventsExplainResults
    /\ SupersessionEnds

LEMMA CertificationInvSuffices == CertificationInv => EndsAreSound /\ SupersessionIsSound
  <1>. SUFFICES ASSUME CertificationInv PROVE EndsAreSound /\ SupersessionIsSound
    OBVIOUS
  <1>. USE DEF CertificationInv
  <1>1. RunsEndOnce
    <2>. SUFFICES ASSUME NEW k \in Runs
                  PROVE  {a[2] : a \in {b \in audits : b[1] = k}} =
                            IF run[k] # Nothing /\ run[k].status \in {"failed", "cancelled"}
                            THEN {run[k].status} ELSE {}
      BY DEF RunsEndOnce, AuditsAreEnds
    <2>1. \A a \in audits : /\ a = <<a[1], a[2]>> /\ a[1] \in Runs
                            /\ a[2] \in {"failed", "cancelled"}
                            /\ run[a[1]] # Nothing /\ run[a[1]].status = a[2]
      BY DEF TypeOK, AuditsAreEnds
    <2>2. CASE run[k] # Nothing /\ run[k].status \in {"failed", "cancelled"}
      <3>1. <<k, run[k].status>> \in audits
        BY <2>2 DEF AuditsAreEnds
      <3>. QED BY <2>1, <2>2, <3>1
    <2>3. CASE ~(run[k] # Nothing /\ run[k].status \in {"failed", "cancelled"})
      BY <2>1, <2>3
    <2>. QED BY <2>2, <2>3
  <1>2. ToldIsStored
    <2>. SUFFICES ASSUME NEW a \in answers
                  PROVE  CASE a.about = "run"    -> run[a.run].input = a.said
                           [] a.about = "result" -> result[a.run] = a.said
                           [] a.about \in {"failed", "cancelled"} -> EndedAs(a.run, a.about, a.said)
                           [] OTHER -> Event(a.run, a.about, a.said) \in events
      BY DEF ToldIsStored
    <2>1. IsStored(a)
      BY DEF AnswersAreStored
    <2>2. CASE a.about = "run"
      BY <2>1, <2>2 DEF IsStored
    <2>3. CASE a.about = "result"
      BY <2>1, <2>3 DEF IsStored
    <2>4. CASE a.about \in {"failed", "cancelled"}
      BY <2>1, <2>4 DEF IsStored
    <2>5. CASE a.about \in {"withdrawn", "revoked"}
      BY <2>1, <2>5 DEF IsStored
    <2>. QED BY <2>1, <2>2, <2>3, <2>4, <2>5 DEF IsStored
  <1>3. SupersededMeansReplaced
    <2>. SUFFICES ASSUME NEW k \in Runs, result[k] # Nothing
                  PROVE  /\ Event(k, "issued", Nothing) \in events
                         /\ EventsOf(k, "superseded") =
                               {Event(k, "superseded", s) : s \in SupersededBy(k)}
                         /\ \A s, t \in SupersededBy(k) : s = t
                         /\ \A s \in SupersededBy(k) : run[s].input.subject = run[k].input.subject
      BY DEF SupersededMeansReplaced
    <2>1. \A s \in SupersededBy(k) : s \in Runs /\ Replaces(s, k)
      BY DEF SupersededBy, Replaces
    <2>2. \A s \in SupersededBy(k) : Event(k, "superseded", s) \in EventsOf(k, "superseded")
      BY <2>1 DEF EventsOf, Event, EventsExplainResults
    <2>3. ASSUME NEW e \in EventsOf(k, "superseded")
          PROVE  e.reason \in SupersededBy(k) /\ e = Event(k, "superseded", e.reason)
      <3>1. e \in events /\ e \in EventRows /\ e.run = k /\ e.kind = "superseded"
        BY DEF EventsOf, TypeOK
      <3>2. e.reason \in Runs /\ Replaces(e.reason, k)
        BY <3>1 DEF EventsExplainResults
      <3>3. e = [run |-> e.run, kind |-> e.kind, reason |-> e.reason]
        BY <3>1 DEF EventRows
      <3>. QED BY <3>1, <3>2, <3>3 DEF SupersededBy, Replaces, Event
    <2>4. EventsOf(k, "superseded") = {Event(k, "superseded", s) : s \in SupersededBy(k)}
      BY <2>2, <2>3
    <2>. QED BY <2>1, <2>4 DEF EventsExplainResults
  <1>. QED BY <1>1, <1>2, <1>3 DEF EndsAreSound, SupersessionIsSound

\* The fields of a handler's locals, by its program counter.
LEMMA CertificationShapes ==
    ASSUME NEW local \in Locals \union {Idle}
    PROVE  /\ local.pc \in {"idle", "insertRun", "end", "checkPrior", "insertResult", "insertEvent"}
           /\ local.pc = "insertRun" => local.run \in Runs /\ local.input \in Inputs
           /\ local.pc = "end" => /\ local.run \in Runs /\ local.reason \in Reasons
                                  /\ local.status \in {"failed", "cancelled"}
           /\ local.pc \in {"checkPrior", "insertResult"} =>
                 /\ local \in [pc : {"checkPrior", "insertResult"}, run : Runs, body : Bodies]
                 /\ local.run \in Runs /\ local.body \in Bodies
                 /\ local.body.supersedes \in Runs \union {Nothing}
           /\ local.pc = "insertEvent" => /\ local.run \in Runs /\ local.reason \in Reasons
                                          /\ local.kind \in {"withdrawn", "revoked"}
  BY DEF Locals, Idle, Bodies

\* What a handler found and what an answer said outlast every growth of the rows.
LEMMA FoundStays ==
    ASSUME TypeOK, Grows, NEW local \in Locals \union {Idle}, LocalIsCurrent(local)
    PROVE  LocalIsCurrent(local)'
  BY CertificationShapes DEF LocalIsCurrent, Grows

LEMMA StoredStays ==
    ASSUME TypeOK, Grows, NEW a, IsStored(a)
    PROVE  IsStored(a)'
  BY DEF IsStored, Grows, EndedAs

\* One handler moves, and perhaps answers, in a step in which the rows grow.
LEMMA CertificationMove ==
    ASSUME CertificationInv, Grows, NEW r \in Requests, NEW local \in Locals \union {Idle},
           req' = [req EXCEPT ![r] = local], LocalIsCurrent(local)',
           \/ answers' = answers
           \/ \E a : IsStored(a)' /\ answers' = answers \union {a}
    PROVE  /\ req' \in [Requests -> Locals \union {Idle}]
           /\ LocalsAreCurrent'
           /\ AnswersAreStored'
  <1>. USE DEF CertificationInv
  <1>0. req \in [Requests -> Locals \union {Idle}]
    BY DEF TypeOK
  <1>1. req' \in [Requests -> Locals \union {Idle}]
    BY <1>0
  <1>2. ASSUME NEW q \in Requests, NEW l, l = req'[q]
        PROVE  LocalIsCurrent(l)'
    <2>1. CASE q = r
      BY <1>0, <1>2, <2>1
    <2>2. CASE q # r
      <3>1. l = req[q] /\ l \in Locals \union {Idle}
        BY <1>0, <1>2, <2>2
      <3>2. LocalIsCurrent(l)
        BY <3>1 DEF LocalsAreCurrent
      <3>. QED BY <3>1, <3>2, FoundStays
    <2>. QED BY <2>1, <2>2
  <1>3. LocalsAreCurrent'
    BY <1>2 DEF LocalsAreCurrent, LocalIsCurrent
  <1>4. AnswersAreStored'
    <2>1. ASSUME NEW a \in answers PROVE IsStored(a)'
      BY StoredStays DEF AnswersAreStored
    <2>. QED BY <2>1 DEF AnswersAreStored
  <1>. QED BY <1>1, <1>3, <1>4

\* One handler moves, and perhaps answers, and no row changes.
LEMMA CertificationLocalStep ==
    ASSUME CertificationInv, UNCHANGED <<run, result, events, audits>>,
           NEW r \in Requests, NEW local \in Locals \union {Idle},
           req' = [req EXCEPT ![r] = local], LocalIsCurrent(local),
           answers' = answers \/ \E a : IsStored(a) /\ answers' = answers \union {a}
    PROVE  CertificationInv'
  <1>. USE DEF CertificationInv
  <1>1. Grows
    BY DEF Grows
  <1>2. LocalIsCurrent(local)' /\ \A a : IsStored(a) => IsStored(a)'
    BY DEF LocalIsCurrent, IsStored, EndedAs
  <1>3. /\ req' \in [Requests -> Locals \union {Idle}]
        /\ LocalsAreCurrent'
        /\ AnswersAreStored'
    BY <1>1, <1>2, CertificationMove
  <1>4. TypeOK'
    BY <1>3 DEF TypeOK
  <1>5. AuditsAreEnds' /\ EventsExplainResults' /\ SupersessionEnds'
    BY DEF AuditsAreEnds, EventsExplainResults, Replaces, SupersessionEnds, SupersededBy
  <1>. QED BY <1>3, <1>4, <1>5

\* A handler is answered from the rows as they are.
LEMMA CertificationReplay ==
    ASSUME CertificationInv, NEW r \in Requests, NEW a, IsStored(a), Replay(r, a)
    PROVE  CertificationInv'
  <1>1. LocalIsCurrent(Idle)
    BY DEF LocalIsCurrent, Idle
  <1>. QED BY <1>1, CertificationLocalStep DEF Replay, Finish

\* Where only runs change, results and their events stay explained.
LEMMA ResultsStayExplained ==
    ASSUME CertificationInv, Grows, UNCHANGED <<result, events>>
    PROVE  EventsExplainResults' /\ SupersessionEnds'
  <1>. USE DEF CertificationInv
  <1>1. \A k \in Runs : result[k] # Nothing => run'[k].input = run[k].input
    BY DEF AuditsAreEnds, Grows
  <1>2. \A s, p : Replaces(s, p)' <=> Replaces(s, p)
    BY DEF Replaces
  <1>3. EventsExplainResults'
    BY <1>1, <1>2 DEF EventsExplainResults, Replaces
  <1>4. SupersessionEnds'
    BY DEF SupersessionEnds, SupersededBy
  <1>. QED BY <1>3, <1>4

\* A run is created, or ends without a result.
LEMMA RunWritten ==
    ASSUME CertificationInv, NEW r \in Requests, NEW k \in Runs, NEW row \in RunRows, NEW a,
           run' = [run EXCEPT ![k] = row],
           \/ run[k] = Nothing /\ row.status = "running" /\ audits' = audits
           \/ /\ run[k] # Nothing /\ run[k].status = "running"
              /\ row.input = run[k].input
              /\ row.status \in {"failed", "cancelled"}
              /\ audits' = audits \union {<<k, row.status>>},
           IsStored(a)', Finish(r, a), UNCHANGED <<result, events>>
    PROVE  CertificationInv'
  <1>. USE DEF CertificationInv
  <1>0. row # Nothing
    BY CertificationConstants
  <1>1. /\ run \in [Runs -> RunRows \union {Nothing}]
        /\ run' \in [Runs -> RunRows \union {Nothing}]
        /\ run'[k] = row
        /\ \A j \in Runs : j # k => run'[j] = run[j]
    BY DEF TypeOK
  <1>2. Grows
    BY <1>0, <1>1 DEF Grows
  <1>3. LocalIsCurrent(Idle)'
    BY DEF LocalIsCurrent, Idle
  <1>4. /\ req' \in [Requests -> Locals \union {Idle}]
        /\ LocalsAreCurrent'
        /\ AnswersAreStored'
    BY <1>2, <1>3, CertificationMove DEF Finish
  <1>5. TypeOK'
    BY <1>1, <1>4 DEF TypeOK
  <1>6. AuditsAreEnds'
    <2>1. result[k] = Nothing /\ row.status # "completed"
      BY DEF AuditsAreEnds
    <2>2. ASSUME NEW j \in Runs
          PROVE  /\ result'[j] # Nothing <=> (run'[j] # Nothing /\ run'[j].status = "completed")
                 /\ run'[j] # Nothing /\ run'[j].status \in {"failed", "cancelled"} =>
                       <<j, run'[j].status>> \in audits'
      <3>1. CASE j = k
        BY <1>0, <1>1, <2>1, <3>1
      <3>2. CASE j # k
        BY <1>1, <3>2 DEF AuditsAreEnds
      <3>. QED BY <3>1, <3>2
    <2>3. ASSUME NEW b \in audits
          PROVE  run'[b[1]] # Nothing /\ run'[b[1]].status = b[2]
      <3>1. b[1] \in Runs /\ b[2] \in {"failed", "cancelled"}
            /\ run[b[1]] # Nothing /\ run[b[1]].status = b[2]
        BY DEF TypeOK, AuditsAreEnds
      <3>2. b[1] # k
        BY <3>1
      <3>. QED BY <1>1, <3>1, <3>2
    <2>. QED BY <1>0, <1>1, <2>2, <2>3 DEF AuditsAreEnds
  <1>7. EventsExplainResults' /\ SupersessionEnds'
    BY <1>2, ResultsStayExplained
  <1>. QED BY <1>4, <1>5, <1>6, <1>7

LEMMA FindRunStep ==
    ASSUME CertificationInv, NEW r \in Requests, NEW k \in Runs, NEW input \in Inputs,
           FindRun(r, k, input)
    PROVE  CertificationInv'
  <1>1. CASE run[k] # Nothing /\ run[k].input = input /\ Replay(r, RunAnswer(k, input))
    <2>. DEFINE a == RunAnswer(k, input)
    <2>1. IsStored(a)
      BY <1>1 DEF IsStored, RunAnswer
    <2>. QED BY <1>1, <2>1, CertificationReplay
  <1>2. CASE run[k] = Nothing /\ Goto(r, [pc |-> "insertRun", run |-> k, input |-> input])
    <2>. DEFINE local == [pc |-> "insertRun", run |-> k, input |-> input]
    <2>1. local \in Locals /\ LocalIsCurrent(local)
      BY DEF Locals, LocalIsCurrent
    <2>. HIDE DEF local
    <2>2. Goto(r, local)
      BY <1>2 DEF local
    <2>. QED BY <2>1, <2>2, CertificationLocalStep DEF Goto
  <1>. QED BY <1>1, <1>2 DEF FindRun

LEMMA InsertRunStep ==
    ASSUME CertificationInv, NEW r \in Requests, InsertRun(r)
    PROVE  CertificationInv'
  <1>. SUFFICES ASSUME NEW k, k = req[r].run, NEW input, input = req[r].input
                PROVE  CertificationInv'
    OBVIOUS
  <1>0. k \in Runs /\ input \in Inputs
    BY CertificationShapes DEF CertificationInv, TypeOK, InsertRun
  <1>. DEFINE a == RunAnswer(k, input)
              row == [input |-> input, status |-> "running", reason |-> Nothing]
  <1>1. CASE run[k] # Nothing /\ run[k].input = input /\ Replay(r, a)
    <2>1. IsStored(a)
      BY <1>0, <1>1 DEF IsStored, RunAnswer
    <2>. QED BY <1>1, <2>1, CertificationReplay
  <1>2. CASE /\ run[k] = Nothing
             /\ run' = [run EXCEPT ![k] = row]
             /\ Finish(r, a)
             /\ UNCHANGED <<result, events, audits>>
    <2>0. row \in RunRows
      BY <1>0 DEF RunRows
    <2>1. row # Nothing
      BY <2>0, CertificationConstants
    <2>2. row.status = "running" /\ row.input = input
      OBVIOUS
    <2>. HIDE DEF row
    <2>3. run'[k] = row
      BY <1>0, <1>2 DEF CertificationInv, TypeOK
    <2>4. IsStored(a)'
      BY <1>0, <2>1, <2>2, <2>3 DEF IsStored, RunAnswer
    <2>. HIDE DEF a
    <2>. QED BY <1>0, <1>2, <2>0, <2>2, <2>4, RunWritten
  <1>. QED BY <1>1, <1>2 DEF InsertRun

LEMMA BeginEndStep ==
    ASSUME CertificationInv, NEW r \in Requests, NEW k \in Runs, NEW reason \in Reasons,
           NEW status \in {"failed", "cancelled"}, BeginEnd(r, k, status, reason)
    PROVE  CertificationInv'
  <1>1. CASE EndedAs(k, status, reason) /\ Replay(r, EndAnswer(k, status, reason))
    <2>. DEFINE a == EndAnswer(k, status, reason)
    <2>1. IsStored(a)
      BY <1>1 DEF IsStored, EndAnswer, BeginEnd
    <2>. QED BY <1>1, <2>1, CertificationReplay
  <1>2. CASE Goto(r, [pc |-> "end", run |-> k, status |-> status, reason |-> reason])
    <2>. DEFINE local == [pc |-> "end", run |-> k, status |-> status, reason |-> reason]
    <2>1. local \in Locals /\ LocalIsCurrent(local)
      BY DEF Locals, LocalIsCurrent, BeginEnd
    <2>. HIDE DEF local
    <2>2. Goto(r, local)
      BY <1>2 DEF local
    <2>. QED BY <2>1, <2>2, CertificationLocalStep DEF Goto
  <1>. QED BY <1>1, <1>2 DEF BeginEnd

LEMMA EndStep ==
    ASSUME CertificationInv, NEW r \in Requests, End(r)
    PROVE  CertificationInv'
  <1>. SUFFICES ASSUME NEW k, k = req[r].run, NEW status, status = req[r].status,
                       NEW reason, reason = req[r].reason
                PROVE  CertificationInv'
    OBVIOUS
  <1>0. /\ k \in Runs /\ status \in {"failed", "cancelled"} /\ reason \in Reasons
        /\ run[k] # Nothing
    BY CertificationShapes DEF CertificationInv, TypeOK, End, LocalsAreCurrent, LocalIsCurrent
  <1>. DEFINE a == EndAnswer(k, status, reason)
  <1>1. CASE EndedAs(k, status, reason) /\ Replay(r, a)
    <2>1. IsStored(a)
      BY <1>0, <1>1 DEF IsStored, EndAnswer
    <2>. QED BY <1>1, <2>1, CertificationReplay
  <1>2. CASE /\ run[k].status = "running"
             /\ run' = [run EXCEPT ![k].status = status, ![k].reason = reason]
             /\ audits' = audits \union {<<k, status>>}
             /\ Finish(r, a)
             /\ UNCHANGED <<result, events>>
    <2>. DEFINE row == [run[k] EXCEPT !.status = status, !.reason = reason]
    <2>1. run[k] \in RunRows
      BY <1>0 DEF CertificationInv, TypeOK
    <2>2. /\ row \in RunRows /\ row.input = run[k].input
          /\ row.status = status /\ row.reason = reason
      BY <1>0, <2>1 DEF RunRows, Ended
    <2>3. run' = [run EXCEPT ![k] = row]
      BY <1>0, <1>2 DEF CertificationInv, TypeOK
    <2>. HIDE DEF row
    <2>4. run'[k] = row /\ row # Nothing
      BY <1>0, <2>2, <2>3, CertificationConstants DEF CertificationInv, TypeOK
    <2>5. IsStored(a)'
      BY <1>0, <2>2, <2>4 DEF IsStored, EndAnswer, EndedAs
    <2>. HIDE DEF a
    <2>6. /\ run[k] # Nothing /\ run[k].status = "running"
          /\ row.status \in {"failed", "cancelled"}
          /\ audits' = audits \union {<<k, row.status>>}
          /\ Finish(r, a) /\ UNCHANGED <<result, events>>
      BY <1>0, <1>2, <2>2
    <2>. QED BY <1>0, <2>2, <2>3, <2>5, <2>6, RunWritten
  <1>. QED BY <1>1, <1>2 DEF End

\* Results and events are only added.
LEMMA ReplayResultStep ==
    ASSUME CertificationInv, NEW r \in Requests, NEW k \in Runs, NEW body,
           ReplayResult(r, k, body)
    PROVE  CertificationInv'
  <1>. DEFINE a == ResultAnswer(k, body)
  <1>1. IsStored(a) /\ Replay(r, a)
    BY DEF IsStored, ResultAnswer, ReplayResult
  <1>. QED BY <1>1, CertificationReplay

LEMMA BeginResultStep ==
    ASSUME CertificationInv, NEW r \in Requests, NEW k \in Runs, NEW body \in Bodies,
           BeginResult(r, k, body)
    PROVE  CertificationInv'
  <1>1. CASE ReplayResult(r, k, body)
    BY <1>1, ReplayResultStep
  <1>2. CASE Goto(r, [pc |-> IF body.supersedes = Nothing THEN "insertResult" ELSE "checkPrior",
                      run |-> k, body |-> body])
    <2>. DEFINE local == [pc |-> IF body.supersedes = Nothing THEN "insertResult"
                                 ELSE "checkPrior",
                          run |-> k, body |-> body]
    <2>1. local \in Locals /\ LocalIsCurrent(local)
      BY DEF Locals, LocalIsCurrent, BeginResult
    <2>. HIDE DEF local
    <2>2. Goto(r, local)
      BY <1>2 DEF local
    <2>. QED BY <2>1, <2>2, CertificationLocalStep DEF Goto
  <1>. QED BY <1>1, <1>2 DEF BeginResult

LEMMA CheckPriorStep ==
    ASSUME CertificationInv, NEW r \in Requests, CheckPrior(r)
    PROVE  CertificationInv'
  <1>. SUFFICES ASSUME NEW k, k = req[r].run, NEW prior, prior = req[r].body.supersedes
                PROVE  CertificationInv'
    OBVIOUS
  <1>. DEFINE local == [req[r] EXCEPT !.pc = "insertResult"]
  <1>1. /\ req[r] \in [pc : {"checkPrior", "insertResult"}, run : Runs, body : Bodies]
        /\ prior \in Runs \union {Nothing}
        /\ run[k] # Nothing
    BY CertificationShapes DEF CertificationInv, TypeOK, CheckPrior, LocalsAreCurrent, LocalIsCurrent
  <1>2. /\ local \in Locals /\ local.pc = "insertResult"
        /\ local.run = k /\ local.body.supersedes = prior
    BY <1>1 DEF Locals
  <1>3. result[prior] # Nothing /\ run[prior].input.subject = run[k].input.subject /\ Goto(r, local)
    BY DEF CheckPrior, MayReplace
  <1>. HIDE DEF local
  <1>4. LocalIsCurrent(local)
    BY <1>1, <1>2, <1>3 DEF LocalIsCurrent, CertificationInv, AuditsAreEnds
  <1>. QED BY <1>2, <1>3, <1>4, CertificationLocalStep DEF Goto

\* A new result has no successor yet and ends a chain that its predecessor ended.
LEMMA ChainsEnd ==
    ASSUME CertificationInv, NEW k \in Runs, NEW body \in Bodies,
           result[k] = Nothing,
           result' = [result EXCEPT ![k] = body],
           body.supersedes # Nothing => /\ result[body.supersedes] # Nothing
                                        /\ SupersededBy(body.supersedes) = {}
    PROVE  SupersessionEnds'
  <1>. USE DEF CertificationInv
  <1>0. /\ body # Nothing
        /\ result' \in [Runs -> Bodies \union {Nothing}]
        /\ result'[k] = body
        /\ \A j \in Runs : j # k => result'[j] = result[j]
    BY CertificationConstants DEF TypeOK
  <1>1. \A p \in Runs : p # body.supersedes => SupersededBy(p)' = SupersededBy(p)
    BY <1>0 DEF SupersededBy
  <1>2. \A s \in Runs : result[s] # Nothing => result[s].supersedes # k
    BY DEF EventsExplainResults, Replaces
  <1>3. SupersededBy(k)' = {}
    BY <1>0, <1>2, CertificationConstants DEF SupersededBy
  <1>. SUFFICES ASSUME NEW chain \in SUBSET {j \in Runs : SupersededBy(j)' # {}}, chain # {}
                PROVE  \E j \in chain : SupersededBy(j)' \intersect chain = {}
    BY DEF SupersessionEnds, SupersededBy
  <1>4. k \notin chain
    BY <1>3
  <1>5. CASE body.supersedes \in chain
    <2>1. SupersededBy(body.supersedes) = {}
      BY <1>5, CertificationConstants
    <2>2. SupersededBy(body.supersedes)' = {k}
      BY <1>0, <1>5, <2>1 DEF SupersededBy
    <2>. QED BY <1>4, <1>5, <2>2
  <1>6. CASE body.supersedes \notin chain
    <2>1. chain \in SUBSET {j \in Runs : SupersededBy(j) # {}}
      BY <1>1, <1>6
    <2>2. PICK j \in chain : SupersededBy(j) \intersect chain = {}
      BY <2>1 DEF SupersessionEnds
    <2>. QED BY <1>1, <1>6, <2>2
  <1>. QED BY <1>5, <1>6

\* A result is written: its run completes, and it is issued and, where it replaces
\* another, that other superseded.
LEMMA InsertResultStep ==
    ASSUME CertificationInv, NEW r \in Requests, InsertResult(r)
    PROVE  CertificationInv'
  <1>. USE DEF CertificationInv
  <1>. SUFFICES ASSUME NEW k, k = req[r].run, NEW body, body = req[r].body,
                       NEW prior, prior = body.supersedes
                PROVE  CertificationInv'
    OBVIOUS
  <1>0. /\ k \in Runs /\ body \in Bodies /\ prior \in Runs \union {Nothing}
        /\ run[k] # Nothing
        /\ prior # Nothing => /\ result[prior] # Nothing
                              /\ run[prior] # Nothing
                              /\ run[prior].input.subject = run[k].input.subject
    BY CertificationShapes DEF TypeOK, InsertResult, LocalsAreCurrent, LocalIsCurrent
  <1>1. CASE ReplayResult(r, k, body)
    BY <1>0, <1>1, ReplayResultStep
  <1>2. CASE /\ result[k] = Nothing
             /\ PriorIsFree(prior)
             /\ RunGuard(k)
             /\ result' = [result EXCEPT ![k] = body]
             /\ events' = events \union ResultEvents(k, body)
             /\ run' = [run EXCEPT ![k].status = "completed"]
             /\ Finish(r, ResultAnswer(k, body))
             /\ UNCHANGED audits
    <2>. DEFINE row == [run[k] EXCEPT !.status = "completed"]
                a == ResultAnswer(k, body)
    <2>1. run[k] \in RunRows
      BY <1>0 DEF TypeOK
    <2>2. row \in RunRows /\ row.input = run[k].input /\ row.status = "completed"
      BY <2>1 DEF RunRows, Ended
    <2>3. run' = [run EXCEPT ![k] = row]
      BY <1>0, <1>2 DEF TypeOK
    <2>. HIDE DEF row
    <2>4. row # Nothing /\ body # Nothing
      BY <1>0, <2>2, CertificationConstants
    <2>5. /\ run' \in [Runs -> RunRows \union {Nothing}] /\ run'[k] = row
          /\ \A j \in Runs : j # k => run'[j] = run[j]
      BY <1>0, <2>2, <2>3 DEF TypeOK
    <2>6. /\ result' \in [Runs -> Bodies \union {Nothing}] /\ result'[k] = body
          /\ \A j \in Runs : j # k => result'[j] = result[j]
      BY <1>0, <1>2 DEF TypeOK
    <2>7. Grows
      BY <1>2, <2>2, <2>4, <2>5, <2>6 DEF Grows, RunGuard
    <2>8. IsStored(a)'
      BY <1>0, <2>4, <2>6 DEF IsStored, ResultAnswer
    <2>9. LocalIsCurrent(Idle)'
      BY DEF LocalIsCurrent, Idle
    <2>10. req' = [req EXCEPT ![r] = Idle] /\ answers' = answers \union {a}
      BY <1>2 DEF Finish
    <2>. HIDE DEF a
    <2>11. /\ req' \in [Requests -> Locals \union {Idle}]
           /\ LocalsAreCurrent'
           /\ AnswersAreStored'
      BY <2>7, <2>8, <2>9, <2>10, CertificationMove DEF Finish
    <2>. DEFINE issued == Event(k, "issued", Nothing)
                replaced == Event(prior, "superseded", k)
    <2>12. events' = IF prior = Nothing THEN events \union {issued}
                     ELSE events \union {issued, replaced}
      BY <1>2 DEF ResultEvents
    <2>13. /\ issued \in EventRows /\ issued.run = k
           /\ issued.kind = "issued" /\ issued.reason = Nothing
      BY <1>0 DEF Event, EventRows
    <2>14. prior # Nothing => /\ replaced \in EventRows /\ replaced.run = prior
                              /\ replaced.kind = "superseded" /\ replaced.reason = k
      BY <1>0 DEF Event, EventRows
    <2>. HIDE DEF issued, replaced
    <2>15. /\ \A e \in events : e.run # k
           /\ prior # Nothing => \A e \in events : ~(e.run = prior /\ e.kind = "superseded")
           /\ prior # k
      BY <1>0, <1>2, CertificationConstants DEF EventsExplainResults, PriorIsFree
    <2>16. events' \subseteq EventRows
           /\ \A e, f \in events' : (e.run = f.run /\ e.kind = f.kind) => e = f
      BY <2>12, <2>13, <2>14, <2>15 DEF TypeOK
    <2>17. TypeOK'
      BY <1>2, <2>5, <2>6, <2>11, <2>16 DEF TypeOK
    <2>18. AuditsAreEnds'
      <3>1. \A b \in audits : b[1] \in Runs /\ b[1] # k
        BY <1>2 DEF TypeOK, AuditsAreEnds, RunGuard
      <3>2. ASSUME NEW j \in Runs
            PROVE  /\ result'[j] # Nothing <=> (run'[j] # Nothing /\ run'[j].status = "completed")
                   /\ run'[j] # Nothing /\ run'[j].status \in {"failed", "cancelled"} =>
                         <<j, run'[j].status>> \in audits'
        <4>1. CASE j = k
          BY <2>2, <2>4, <2>5, <2>6, <4>1
        <4>2. CASE j # k
          BY <1>2, <2>5, <2>6, <4>2 DEF AuditsAreEnds
        <4>. QED BY <4>1, <4>2
      <3>. QED BY <1>2, <2>5, <3>1, <3>2 DEF AuditsAreEnds
    <2>19. \A s, p \in Runs : Replaces(s, p)' <=> Replaces(s, p) \/ (s = k /\ p = prior)
      BY <1>2, <2>4, <2>6 DEF Replaces
    <2>20. prior \in Runs => \A s \in Runs : ~Replaces(s, prior)
      BY <1>2, CertificationConstants DEF PriorIsFree, SupersededBy, Replaces
    <2>21. \A s, p \in Runs : Replaces(s, p) => /\ s # k /\ p # k /\ result[p] # Nothing
                                                 /\ run[p].input.subject = run[s].input.subject
                                                 /\ Event(p, "superseded", s) \in events
      BY <1>2 DEF EventsExplainResults, Replaces
    <2>22. /\ \A e \in events' : result'[e.run] # Nothing
           /\ \A e \in events' : e.kind = "superseded" =>
                 e.reason \in Runs /\ Replaces(e.reason, e.run)'
      <3>1. ASSUME NEW e \in events
            PROVE  /\ result'[e.run] # Nothing
                   /\ e.kind = "superseded" => e.reason \in Runs /\ Replaces(e.reason, e.run)'
        <4>1. e.run \in Runs /\ result[e.run] # Nothing
              /\ (e.kind = "superseded" => e.reason \in Runs /\ Replaces(e.reason, e.run))
          BY DEF TypeOK, EventRows, EventsExplainResults
        <4>. QED BY <2>6, <2>15, <2>19, <4>1
      <3>. SUFFICES ASSUME NEW e \in events'
                    PROVE  /\ result'[e.run] # Nothing
                           /\ e.kind = "superseded" =>
                                 e.reason \in Runs /\ Replaces(e.reason, e.run)'
        OBVIOUS
      <3>2. CASE e = issued
        BY <2>4, <2>6, <2>13, <3>2
      <3>3. CASE prior # Nothing /\ e = replaced
        <4>1. prior \in Runs /\ result'[prior] # Nothing
          BY <1>0, <2>6, <2>15, <3>3
        <4>. QED BY <1>0, <2>14, <2>19, <3>3, <4>1
      <3>. QED BY <2>12, <3>1, <3>2, <3>3
    <2>23. \A j \in Runs : result'[j] # Nothing => Event(j, "issued", Nothing) \in events'
      <3>. SUFFICES ASSUME NEW j \in Runs, result'[j] # Nothing
                    PROVE  Event(j, "issued", Nothing) \in events'
        OBVIOUS
      <3>1. CASE j = k
        BY <2>12, <3>1 DEF issued
      <3>2. CASE j # k
        BY <2>6, <2>12, <3>2 DEF EventsExplainResults
      <3>. QED BY <3>1, <3>2
    <2>24. ASSUME NEW s \in Runs, NEW p \in Runs, Replaces(s, p)'
           PROVE  /\ result'[p] # Nothing
                  /\ run'[p].input.subject = run'[s].input.subject
                  /\ Event(p, "superseded", s) \in events'
      <3>1. CASE Replaces(s, p)
        BY <2>5, <2>6, <2>12, <2>21, <3>1
      <3>2. CASE s = k /\ p = prior
        <4>1. prior # Nothing /\ replaced \in events'
          BY <2>12, <3>2, CertificationConstants
        <4>. QED BY <1>0, <2>2, <2>5, <2>6, <2>15, <3>2, <4>1 DEF replaced
      <3>. QED BY <2>19, <2>24, <3>1, <3>2
    <2>25. \A s, t, p \in Runs : Replaces(s, p)' /\ Replaces(t, p)' => s = t
      BY <2>19, <2>20 DEF EventsExplainResults
    <2>26. EventsExplainResults'
      BY <2>22, <2>23, <2>24, <2>25 DEF EventsExplainResults
    <2>27. SupersessionEnds'
      BY <1>0, <1>2, ChainsEnd DEF PriorIsFree
    <2>. QED BY <2>11, <2>17, <2>18, <2>26, <2>27
  <1>. QED BY <1>1, <1>2 DEF InsertResult

\* A lifecycle event is added to a result.
LEMMA BeginLifecycleStep ==
    ASSUME CertificationInv, NEW r \in Requests, NEW k \in Runs, NEW reason \in Reasons,
           NEW kind \in {"withdrawn", "revoked"}, BeginLifecycle(r, k, kind, reason)
    PROVE  CertificationInv'
  <1>1. CASE Event(k, kind, reason) \in events /\ Replay(r, EventAnswer(k, kind, reason))
    <2>. DEFINE a == EventAnswer(k, kind, reason)
    <2>1. IsStored(a)
      BY <1>1 DEF IsStored, EventAnswer
    <2>. QED BY <1>1, <2>1, CertificationReplay
  <1>2. CASE Goto(r, [pc |-> "insertEvent", run |-> k, kind |-> kind, reason |-> reason])
    <2>. DEFINE local == [pc |-> "insertEvent", run |-> k, kind |-> kind, reason |-> reason]
    <2>1. local \in Locals /\ LocalIsCurrent(local)
      BY DEF Locals, LocalIsCurrent, BeginLifecycle
    <2>. HIDE DEF local
    <2>2. Goto(r, local)
      BY <1>2 DEF local
    <2>. QED BY <2>1, <2>2, CertificationLocalStep DEF Goto
  <1>. QED BY <1>1, <1>2 DEF BeginLifecycle

LEMMA InsertEventStep ==
    ASSUME CertificationInv, NEW r \in Requests, InsertEvent(r)
    PROVE  CertificationInv'
  <1>. USE DEF CertificationInv
  <1>. SUFFICES ASSUME NEW k, k = req[r].run, NEW kind, kind = req[r].kind,
                       NEW reason, reason = req[r].reason
                PROVE  CertificationInv'
    OBVIOUS
  <1>. DEFINE a == EventAnswer(k, kind, reason)
              event == Event(k, kind, reason)
  <1>0. k \in Runs /\ kind \in {"withdrawn", "revoked"} /\ reason \in Reasons /\ result[k] # Nothing
    BY CertificationShapes DEF TypeOK, InsertEvent, LocalsAreCurrent, LocalIsCurrent
  <1>1. CASE event \in events /\ Replay(r, a)
    <2>1. IsStored(a)
      BY <1>0, <1>1 DEF IsStored, EventAnswer
    <2>. QED BY <1>1, <2>1, CertificationReplay
  <1>2. CASE /\ EventsOf(event.run, event.kind) = {}
             /\ events' = events \union {event}
             /\ Finish(r, a)
             /\ UNCHANGED <<run, result, audits>>
    <2>1. event \in EventRows /\ event.run = k /\ event.kind = kind
      BY <1>0 DEF Event, EventRows
    <2>2. \A e \in events : ~(e.run = k /\ e.kind = kind)
      BY <1>2, <2>1 DEF EventsOf
    <2>3. Grows
      BY <1>2 DEF Grows
    <2>4. IsStored(a)'
      BY <1>0, <1>2 DEF IsStored, EventAnswer, Event
    <2>5. LocalIsCurrent(Idle)'
      BY DEF LocalIsCurrent, Idle
    <2>. HIDE DEF event, a
    <2>6. /\ req' \in [Requests -> Locals \union {Idle}]
          /\ LocalsAreCurrent'
          /\ AnswersAreStored'
      BY <1>2, <2>3, <2>4, <2>5, CertificationMove DEF Finish
    <2>7. TypeOK'
      BY <1>2, <2>1, <2>2, <2>6 DEF TypeOK
    <2>8. AuditsAreEnds' /\ SupersessionEnds'
      BY <1>2 DEF AuditsAreEnds, SupersessionEnds, SupersededBy
    <2>9. \A s, p : Replaces(s, p)' <=> Replaces(s, p)
      BY <1>2 DEF Replaces
    <2>10. EventsExplainResults'
      BY <1>0, <1>2, <2>1, <2>9 DEF EventsExplainResults
    <2>. QED BY <2>6, <2>7, <2>8, <2>10
  <1>. QED BY <1>1, <1>2 DEF InsertEvent, EventAnswer

LEMMA CertificationStep == CertificationInv /\ [Next]_vars => CertificationInv'
  <1>. SUFFICES ASSUME CertificationInv, [Next]_vars PROVE CertificationInv'
    OBVIOUS
  <1>1. ASSUME NEW r \in Requests, NEW k \in Runs, Begin(r, k)
        PROVE  CertificationInv'
    BY <1>1, FindRunStep, BeginEndStep, BeginLifecycleStep, BeginResultStep DEF Begin
  <1>2. ASSUME NEW r \in Requests, InsertRun(r) PROVE CertificationInv'
    BY <1>2, InsertRunStep
  <1>3. ASSUME NEW r \in Requests, End(r) PROVE CertificationInv'
    BY <1>3, EndStep
  <1>4. ASSUME NEW r \in Requests, CheckPrior(r) PROVE CertificationInv'
    BY <1>4, CheckPriorStep
  <1>5. ASSUME NEW r \in Requests, InsertResult(r) PROVE CertificationInv'
    BY <1>5, InsertResultStep
  <1>6. ASSUME NEW r \in Requests, InsertEvent(r) PROVE CertificationInv'
    BY <1>6, InsertEventStep
  <1>7. ASSUME NEW r \in Requests, Abandon(r) PROVE CertificationInv'
    <2>1. LocalIsCurrent(Idle)
      BY DEF LocalIsCurrent, Idle
    <2>. QED BY <1>7, <2>1, CertificationLocalStep DEF Abandon, Goto
  <1>8. CASE UNCHANGED vars
    <2>. USE <1>8 DEF vars, CertificationInv
    <2>1. TypeOK' /\ AuditsAreEnds' /\ LocalsAreCurrent'
      BY DEF TypeOK, AuditsAreEnds, LocalsAreCurrent, LocalIsCurrent
    <2>2. AnswersAreStored'
      BY DEF AnswersAreStored, IsStored, EndedAs
    <2>3. EventsExplainResults' /\ SupersessionEnds'
      BY DEF EventsExplainResults, Replaces, SupersessionEnds, SupersededBy
    <2>. QED BY <2>1, <2>2, <2>3
  <1>. QED BY <1>1, <1>2, <1>3, <1>4, <1>5, <1>6, <1>7, <1>8 DEF Next

LEMMA CertificationInvariance == Spec => []CertificationInv
  <1>1. Init => CertificationInv
    <2>. SUFFICES ASSUME Init PROVE CertificationInv
      OBVIOUS
    <2>1. TypeOK
      BY DEF Init, TypeOK
    <2>2. AuditsAreEnds /\ LocalsAreCurrent /\ AnswersAreStored
      BY DEF Init, AuditsAreEnds, LocalsAreCurrent, LocalIsCurrent, Idle, AnswersAreStored
    <2>3. EventsExplainResults /\ SupersessionEnds
      BY DEF Init, EventsExplainResults, Replaces, SupersessionEnds, SupersededBy
    <2>. QED BY <2>1, <2>2, <2>3 DEF CertificationInv
  <1>. QED BY <1>1, CertificationStep, PTL DEF Spec

\* However creations, ends and results of one certifier race, a run ends once, the
\* audit trail names that end, and every answer is what the archive holds.
THEOREM RunEnds == Spec => []EndsAreSound
  BY CertificationInvSuffices, CertificationInvariance, PTL

\* A result is shown as superseded exactly if one other result of its version and
\* protocol replaced it, in whichever modes the two assess, and every chain of
\* replacements has a latest member, for requests that check each other's results
\* while both are in flight.
THEOREM Supersession == Spec => []SupersessionIsSound
  BY CertificationInvSuffices, CertificationInvariance, PTL

-----------------------------------------------------------------------------
(***************************************************************************)
(* Challenges.  A removal repairs the active keys from the winner it read  *)
(* some steps ago.  It is still the oldest active row of its challenger    *)
(* unless it was closed since (RemovalsAreCurrent): rows are only appended,*)
(* a closed one never becomes active again, and once the removal has       *)
(* written, the lock keeps the winner from being closed before the commit. *)
(***************************************************************************)
RemovalIsCurrent(local) ==
    /\ local.phase = "picked" /\ rows[local.winner].status \in Active =>
          IsOldest(local.winner, rows, rows[local.winner].challenger)
    /\ local.phase = "picked" => local.winner \in DOMAIN rows
    /\ local.phase = "loaded" => local.adopted = {}
    /\ local.phase = "reconciled" =>
          \A i \in local.adopted : IsOldest(i, rows, rows[i].challenger)

RemovalsAreCurrent == \A r \in Removals : RemovalIsCurrent(removal[r])

\* LedgerExplainsRow and OutcomeIsDisinterested, of one row and its ledger.
Explains(row, log) ==
    LET n == Len(log)
    IN  /\ row.revision = n - 1
        /\ row.status = log[n].to
        /\ log[1].to = "open" /\ log[1].actor = row.challenger
        /\ \A k \in 2 .. n : Legal(log[k - 1].to, log[k].to)
        /\ IF n >= 2 THEN log[2].actor = row.responder ELSE row.responder = None

Parties(row) == {row.challenger, row.responder} \union Contributors \union Assessors

Disinterested(row, log) ==
    \A k \in DOMAIN log : log[k].to \in Outcomes =>
        /\ log[k].override <=> log[k].actor \in Parties(row)
        /\ log[k].override => log[k].actor \in Admins

LedgersAgree == \A i \in DOMAIN rows : Explains(rows[i], ledger[i]) /\ Disinterested(rows[i], ledger[i])

ChallengeInv ==
    /\ FilingsAreSound
    /\ LedgersAgree
    /\ RemovalsAreCurrent

LEMMA ChallengeInvSuffices ==
    ChallengeInv => FilingsAreSound /\ LedgerExplainsRow /\ OutcomeIsDisinterested
  BY DEF ChallengeInv, LedgersAgree, Explains, Disinterested, Parties, LedgerExplainsRow,
         OutcomeIsDisinterested

\* Well-foundedness of the order of the rows: a set of naturals has a least element.
Below == {pair \in Nat \X Nat : pair[1] < pair[2]}

LEMMA BelowNat == OpToRel(<, Nat) = Below
  BY ZenonT(20) DEF OpToRel, Below

LEMMA Least ==
    ASSUME NEW S \in SUBSET Nat, S # {}
    PROVE  \E x \in S : \A y \in S : x <= y
  <1>1. IsWellFoundedOn(Below, Nat)
    BY NatLessThanWellFounded, BelowNat, ZenonT(20)
  <1>2. PICK x \in S : \A y \in S : ~(<<y, x>> \in Below)
    BY <1>1, WFMin
  <1>3. ASSUME NEW y \in S PROVE x <= y
    <2>1. ~(<<y, x>> \in Below)
      BY <1>2
    <2>. QED BY <2>1 DEF Below
  <1>. QED BY <1>3

\* Tables as functions, which the provers handle better than as sequences.
LEMMA SeqOf ==
    ASSUME NEW S, NEW n \in Nat, NEW f \in [1 .. n -> S]
    PROVE  f \in Seq(S) /\ Len(f) = n
  <1>1. f \in Seq(S)
    OBVIOUS
  <1>2. Len(f) = n
    BY <1>1
  <1>. QED BY <1>1, <1>2

LEMMA TableTypes ==
    ASSUME ChallengeTypeOK
    PROVE  /\ Len(rows) \in Nat /\ DOMAIN rows = 1 .. Len(rows)
           /\ Len(rows) <= MaxChallenges
           /\ rows \in [1 .. Len(rows) -> RowType]
           /\ ledger \in [1 .. Len(rows) -> Seq(EntryType)]
           /\ \A i \in DOMAIN rows : i \in Nat /\ i \in Indices
  BY LenProperties, ChallengeConstants DEF ChallengeTypeOK, Indices

LEMMA RemovalShapes ==
    ASSUME NEW local \in RemovalLocals
    PROVE  /\ local.phase \in {"idle", "loaded", "picked", "reconciled"}
           /\ local.phase = "idle" <=> local = Resting
           /\ local.phase # "idle" => local.row \in Indices /\ local.what \in {"text", "reply"}
           /\ local.phase \in {"loaded", "reconciled"} =>
                 /\ local \in [phase : {"loaded", "reconciled"}, row : Indices,
                               what : {"text", "reply"}, cleared : SUBSET Indices,
                               adopted : SUBSET Indices]
                 /\ local.cleared \subseteq Indices /\ local.adopted \subseteq Indices
           /\ local.phase = "picked" => local.winner \in Indices /\ local.unkeyed \in BOOLEAN
  BY DEF RemovalLocals, Resting

\* Rows keep their challenger, and closed ones stay closed.
Ages(table) ==
    /\ table \in [1 .. Len(rows) -> RowType]
    /\ \A i \in DOMAIN rows : /\ table[i].challenger = rows[i].challenger
                              /\ table[i].status \in Active => rows[i].status \in Active

LEMMA ActiveRowsAge ==
    ASSUME ChallengeTypeOK, NEW table, Ages(table)
    PROVE  /\ ActiveRows(table) \subseteq ActiveRows(rows)
           /\ \A i \in DOMAIN rows :
                 /\ IsOldest(i, rows, rows[i].challenger)
                 /\ table[i].status \in Active
                 => IsOldest(i, table, table[i].challenger)
  BY TableTypes DEF Ages, ActiveRows, ActiveOf, IsOldest

LEMMA ActiveRowsFinite ==
    ASSUME ChallengeTypeOK
    PROVE  IsFiniteSet(ActiveRows(rows))
  <1>1. ActiveRows(rows) \in SUBSET (1 .. Len(rows))
    BY TableTypes DEF ActiveRows
  <1>2. IsFiniteSet(1 .. Len(rows))
    BY TableTypes, FS_Interval
  <1>. QED BY <1>1, <1>2, FS_Subset

\* A step that ages the rows and leaves every key with the oldest row.
LEMMA AgingStep ==
    ASSUME ChallengeInv, Ages(rows'),
           \A i \in DOMAIN rows : rows'[i].key => IsOldest(i, rows', rows'[i].challenger),
           Len(ledger') = Len(ledger), ledger' \in Seq(Seq(EntryType)), readable' \in BOOLEAN,
           removal' \in [Removals -> RemovalLocals],
           \A r \in Removals : removal'[r] # Resting => removal'[r].row \in DOMAIN rows
    PROVE  FilingsAreSound'
  <1>. USE DEF ChallengeInv, FilingsAreSound
  <1>1. rows' \in Seq(RowType) /\ Len(rows') = Len(rows) /\ DOMAIN rows' = DOMAIN rows
    BY TableTypes, SeqOf DEF Ages
  <1>2. ChallengeTypeOK'
    BY <1>1 DEF ChallengeTypeOK
  <1>3. ActiveRows(rows') \subseteq ActiveRows(rows)
    BY ActiveRowsAge
  <1>4. CapHolds'
    <2>1. /\ Cardinality(ActiveRows(rows')) <= Cardinality(ActiveRows(rows))
          /\ Cardinality(ActiveRows(rows')) \in Nat
          /\ Cardinality(ActiveRows(rows)) \in Nat
      BY <1>3, ActiveRowsFinite, FS_Subset, FS_CardinalityType
    <2>. QED BY <2>1, ChallengeConstants DEF CapHolds
  <1>5. NoDuplicateFiling'
    <2>1. \A i \in ActiveRows(rows') : i \in DOMAIN rows /\ i \in ActiveRows(rows)
                                       /\ rows'[i].challenger = rows[i].challenger
      BY <1>3 DEF Ages, ActiveRows
    <2>. QED BY <2>1 DEF NoDuplicateFiling
  <1>6. KeyOwnerIsOldest'
    BY <1>1 DEF KeyOwnerIsOldest
  <1>. QED BY <1>2, <1>4, <1>5, <1>6

LEMMA OldestIsUnique ==
    ASSUME ChallengeTypeOK, NEW u, ActiveOf(rows, u) # {}
    PROVE  \E i \in ActiveOf(rows, u) : IsOldest(i, rows, u)
  <1>1. ActiveOf(rows, u) \in SUBSET Nat
    BY TableTypes DEF ActiveOf, ActiveRows
  <1>. QED BY <1>1, Least DEF IsOldest

\* What reconcileActiveChallengeGroup leaves: only keys differ, and none is with a
\* row that is not the oldest.
LEMMA ReconcileKeys ==
    ASSUME ChallengeTypeOK, KeyOwnerIsOldest, NEW u, NEW table, table = Reconcile(rows, u)
    PROVE  /\ table \in [1 .. Len(rows) -> RowType]
           /\ \A i \in DOMAIN rows :
                 /\ table[i].challenger = rows[i].challenger
                 /\ table[i].status = rows[i].status
                 /\ table[i].revision = rows[i].revision
                 /\ table[i].responder = rows[i].responder
                 /\ table[i].key => IsOldest(i, rows, rows[i].challenger)
  <1>1. CASE ActiveOf(rows, u) = {}
    BY <1>1, TableTypes DEF Reconcile, KeyOwnerIsOldest
  <1>2. CASE ActiveOf(rows, u) # {}
    <2>1. /\ DOMAIN rows = 1 .. Len(rows)
          /\ table = [i \in DOMAIN rows |->
                        IF rows[i].challenger = u
                        THEN [rows[i] EXCEPT !.key = IsOldest(i, rows, u)] ELSE rows[i]]
      BY <1>2, TableTypes DEF Reconcile
    <2>2. ASSUME NEW i \in DOMAIN rows
          PROVE  /\ table[i] \in RowType
                 /\ table[i].challenger = rows[i].challenger
                 /\ table[i].status = rows[i].status
                 /\ table[i].revision = rows[i].revision
                 /\ table[i].responder = rows[i].responder
                 /\ table[i].key => IsOldest(i, rows, rows[i].challenger)
      <3>0. rows[i] \in RowType
        BY TableTypes
      <3>1. CASE rows[i].challenger = u
        <4>1. PICK key \in BOOLEAN : key = IsOldest(i, rows, u)
          BY DEF IsOldest
        <4>2. table[i] = [rows[i] EXCEPT !.key = key]
          BY <2>1, <3>1, <4>1
        <4>3. /\ table[i] \in RowType /\ table[i].key = key
              /\ table[i].challenger = rows[i].challenger
              /\ table[i].status = rows[i].status
              /\ table[i].revision = rows[i].revision
              /\ table[i].responder = rows[i].responder
          BY <3>0, <4>2 DEF RowType
        <4>. QED BY <3>1, <4>1, <4>3
      <3>2. CASE rows[i].challenger # u
        BY <2>1, <3>0, <3>2 DEF KeyOwnerIsOldest
      <3>. QED BY <3>1, <3>2
    <2>. QED BY <2>1, <2>2
  <1>. QED BY <1>1, <1>2

\* Removals still find what they read when the rows age under them and the rows
\* they hold locked stay active.
LEMMA RemovalStays ==
    ASSUME ChallengeTypeOK, Ages(rows'), NEW local \in RemovalLocals, RemovalIsCurrent(local),
           local.phase = "reconciled" => \A i \in local.adopted : rows'[i].status \in Active
    PROVE  RemovalIsCurrent(local)'
  <1>0. DOMAIN rows' = DOMAIN rows
    BY TableTypes DEF Ages
  <1>1. ASSUME NEW i \in DOMAIN rows, IsOldest(i, rows, rows[i].challenger),
               rows'[i].status \in Active
        PROVE  IsOldest(i, rows', rows'[i].challenger)
    BY <1>1, ActiveRowsAge
  <1>2. \A i : IsOldest(i, rows, rows[i].challenger) => i \in DOMAIN rows
    BY DEF IsOldest, ActiveOf, ActiveRows
  <1>3. CASE local.phase = "picked"
    <2>1. local.winner \in DOMAIN rows
      BY <1>3 DEF RemovalIsCurrent
    <2>2. rows'[local.winner].status \in Active => rows[local.winner].status \in Active
      BY <2>1 DEF Ages
    <2>3. rows'[local.winner].status \in Active =>
             IsOldest(local.winner, rows', rows'[local.winner].challenger)
      BY <1>1, <1>3, <2>1, <2>2 DEF RemovalIsCurrent
    <2>. QED BY <1>0, <1>3, <2>1, <2>3 DEF RemovalIsCurrent
  <1>4. CASE local.phase = "reconciled"
    <2>1. ASSUME NEW i \in local.adopted
          PROVE  IsOldest(i, rows', rows'[i].challenger)
      BY <1>1, <1>2, <1>4, <2>1 DEF RemovalIsCurrent
    <2>. QED BY <1>4, <2>1 DEF RemovalIsCurrent
  <1>5. CASE local.phase \notin {"picked", "reconciled"}
    BY <1>5 DEF RemovalIsCurrent
  <1>. QED BY <1>3, <1>4, <1>5

\* A command that changes a locked row is refused, so what it stores keeps the
\* status of the rows a removal has written.
LEMMA StoreKeepsRemovals ==
    ASSUME ChallengeInv, NEW table, Ages(table), Store(table), UNCHANGED removal
    PROVE  RemovalsAreCurrent'
  <1>. USE DEF ChallengeInv, FilingsAreSound
  <1>0. rows' = table /\ Ages(rows')
    BY DEF Store
  <1>1. ASSUME NEW r \in Removals, NEW local, local = removal[r]
        PROVE  RemovalIsCurrent(local)'
    <2>1. local \in RemovalLocals /\ RemovalIsCurrent(local)
      BY <1>1 DEF ChallengeTypeOK, RemovalsAreCurrent
    <2>2. ASSUME local.phase = "reconciled", NEW i \in local.adopted
          PROVE  rows'[i].status \in Active
      <3>1. i \in LockedBy(r)
        BY <1>1, <2>2 DEF LockedBy
      <3>2. i \in Locked
        BY <3>1 DEF Locked
      <3>3. i \in DOMAIN rows /\ rows[i].status \in Active
        BY <2>1, <2>2 DEF RemovalIsCurrent, IsOldest, ActiveOf, ActiveRows
      <3>. QED BY <1>0, <3>2, <3>3 DEF Store, Untouched
    <2>. QED BY <1>0, <2>1, <2>2, RemovalStays
  <1>. QED BY <1>1 DEF RemovalsAreCurrent, RemovalIsCurrent

LEMMA FirstEntry ==
    ASSUME NEW row, NEW log, Len(log) = 1, log[1].to = "open", log[1].actor = row.challenger,
           row.revision = 0, row.status = "open", row.responder = None
    PROVE  Explains(row, log)
  <1>1. \A k \in 2 .. 1 : Legal(log[k - 1].to, log[k].to)
    OBVIOUS
  <1>2. ~(1 >= 2) /\ 0 = 1 - 1
    OBVIOUS
  <1>. QED BY <1>1, <1>2 DEF Explains

\* A challenge is filed.
LEMMA FileStep ==
    ASSUME ChallengeInv, NEW u \in Users, File(u)
    PROVE  ChallengeInv'
  <1>. USE DEF ChallengeInv, FilingsAreSound
  <1>. DEFINE n == Len(rows)
              row == Row(u, TRUE)
              log == <<Entry("open", u, FALSE)>>
  <1>1. /\ row \in RowType /\ row.challenger = u /\ row.status = "open" /\ row.key
        /\ Explains(row, log) /\ Disinterested(row, log)
        /\ log \in Seq(EntryType)
    <2>1. /\ row \in RowType /\ row.challenger = u /\ row.status = "open" /\ row.key
          /\ row.revision = 0 /\ row.responder = None
      BY DEF Row, RowType, ChallengeStatus, Active
    <2>2. log \in Seq(EntryType) /\ Len(log) = 1 /\ log[1] = Entry("open", u, FALSE)
      BY DEF Entry, EntryType, ChallengeStatus, Active
    <2>. HIDE DEF row, log
    <2>3. log[1].to = "open" /\ log[1].actor = u /\ DOMAIN log = {1}
      BY <2>2 DEF Entry
    <2>4. Explains(row, log)
      BY <2>1, <2>2, <2>3, FirstEntry
    <2>5. Disinterested(row, log)
      BY <2>2, <2>3 DEF Disinterested, Outcomes
    <2>. QED BY <2>1, <2>2, <2>4, <2>5
  <1>2. rows' = Append(rows, row) /\ ledger' = Append(ledger, log)
        /\ UNCHANGED <<readable, removal>> /\ n < MaxChallenges
    BY DEF File
  <1>3. rows \in Seq(RowType) /\ ledger \in Seq(Seq(EntryType)) /\ Len(ledger) = n /\ n \in Nat
    BY TableTypes DEF ChallengeTypeOK
  <1>. HIDE DEF row, log
  <1>4. /\ rows' \in Seq(RowType) /\ Len(rows') = n + 1
        /\ DOMAIN rows = 1 .. n /\ DOMAIN rows' = 1 .. (n + 1)
        /\ \A i \in 1 .. n : rows'[i] = rows[i]
        /\ rows'[n + 1] = row
    BY <1>1, <1>2, <1>3, AppendProperties, LenProperties
  <1>5. /\ ledger' \in Seq(Seq(EntryType)) /\ Len(ledger') = n + 1
        /\ \A i \in 1 .. n : ledger'[i] = ledger[i]
        /\ ledger'[n + 1] = log
    BY <1>1, <1>2, <1>3, AppendProperties, LenProperties
  <1>. HIDE DEF n
  <1>6. ActiveRows(rows') = ActiveRows(rows) \union {n + 1} /\ n + 1 \notin ActiveRows(rows)
    BY <1>1, <1>3, <1>4 DEF ActiveRows, Active
  <1>7. \A i \in ActiveRows(rows) : i \in 1 .. n /\ rows[i].challenger # u
    BY <1>4 DEF File, HasDuplicate, ActiveOf, ActiveRows
  <1>8. ASSUME NEW i \in DOMAIN rows, IsOldest(i, rows, rows[i].challenger)
        PROVE  IsOldest(i, rows', rows'[i].challenger)
    BY <1>1, <1>3, <1>4, <1>6, <1>7, <1>8 DEF IsOldest, ActiveOf
  <1>9. IsOldest(n + 1, rows', rows'[n + 1].challenger)
    BY <1>1, <1>3, <1>4, <1>6, <1>7 DEF IsOldest, ActiveOf
  <1>10. ChallengeTypeOK'
    <2>1. n + 1 <= MaxChallenges
      BY <1>2, <1>3, ChallengeConstants
    <2>2. \A r \in Removals : removal[r] # Resting => removal[r].row \in 1 .. (n + 1)
      BY <1>3, <1>4 DEF ChallengeTypeOK
    <2>. QED BY <1>2, <1>3, <1>4, <1>5, <2>1, <2>2 DEF ChallengeTypeOK
  <1>11. CapHolds'
    <2>1. /\ Cardinality(ActiveRows(rows)) \in Nat
          /\ Cardinality(ActiveRows(rows')) = Cardinality(ActiveRows(rows)) + 1
      BY <1>6, ActiveRowsFinite, FS_AddElement, FS_CardinalityType
    <2>2. Cardinality(ActiveRows(rows)) < Cap
      BY DEF File, ActiveCount
    <2>. QED BY <2>1, <2>2, ChallengeConstants DEF CapHolds
  <1>12. NoDuplicateFiling'
    <2>. SUFFICES ASSUME NEW i \in ActiveRows(rows'), NEW j \in ActiveRows(rows'),
                         i < j, rows'[i].challenger = rows'[j].challenger
                  PROVE  j <= LegacyRows
      BY DEF NoDuplicateFiling
    <2>1. CASE j = n + 1
      <3>1. rows'[j].challenger = u
        BY <1>1, <1>4, <2>1
      <3>2. i # n + 1
        BY <1>3, <2>1
      <3>3. i \in 1 .. n /\ rows[i].challenger # u
        BY <1>6, <1>7, <3>2
      <3>. QED BY <1>4, <3>1, <3>3
    <2>2. CASE i = n + 1
      BY <1>3, <1>4, <1>6, <1>7, <2>2
    <2>3. CASE i # n + 1 /\ j # n + 1
      BY <1>4, <1>6, <1>7, <2>3 DEF NoDuplicateFiling
    <2>. QED BY <2>1, <2>2, <2>3
  <1>13. KeyOwnerIsOldest'
    <2>. SUFFICES ASSUME NEW i \in DOMAIN rows', rows'[i].key
                  PROVE  IsOldest(i, rows', rows'[i].challenger)
      BY DEF KeyOwnerIsOldest
    <2>1. CASE i = n + 1
      BY <1>9, <2>1
    <2>2. CASE i # n + 1
      BY <1>3, <1>4, <1>8, <2>2 DEF KeyOwnerIsOldest
    <2>. QED BY <2>1, <2>2
  <1>14. LedgersAgree'
    <2>. SUFFICES ASSUME NEW i \in DOMAIN rows'
                  PROVE  Explains(rows'[i], ledger'[i]) /\ Disinterested(rows'[i], ledger'[i])
      BY DEF LedgersAgree
    <2>1. CASE i = n + 1
      BY <1>1, <1>4, <1>5, <2>1
    <2>2. CASE i # n + 1
      BY <1>3, <1>4, <1>5, <2>2 DEF LedgersAgree
    <2>. QED BY <2>1, <2>2
  <1>15. RemovalsAreCurrent'
    <2>. SUFFICES ASSUME NEW r \in Removals, NEW local, local = removal[r]
                  PROVE  RemovalIsCurrent(local)'
      BY <1>2 DEF RemovalsAreCurrent, RemovalIsCurrent
    <2>1. RemovalIsCurrent(local)
      BY DEF RemovalsAreCurrent
    <2>2. \A i : IsOldest(i, rows, rows[i].challenger) => i \in DOMAIN rows
      BY DEF IsOldest, ActiveOf, ActiveRows
    <2>. QED BY <1>3, <1>4, <1>8, <2>1, <2>2 DEF RemovalIsCurrent
  <1>. QED BY <1>10, <1>11, <1>12, <1>13, <1>14, <1>15

\* The length of a ledger is the age of the row's status.
LEMMA LedgerLength ==
    ASSUME NEW row \in RowType, NEW log \in Seq(EntryType), Explains(row, log)
    PROVE  /\ Len(log) \in 1 .. 3
           /\ row.status = "open" => Len(log) = 1 /\ row.revision = 0
           /\ row.status = "author-responded" => Len(log) = 2 /\ row.revision = 1
  <1>1. Len(log) \in Nat /\ row.revision \in 0 .. 2 /\ row.revision = Len(log) - 1
    BY LenProperties DEF Explains, RowType
  <1>2. Len(log) \in 1 .. 3
    BY <1>1
  <1>3. /\ row.status = log[Len(log)].to
        /\ log[1].to = "open"
        /\ Len(log) >= 2 => Legal(log[1].to, log[2].to)
        /\ Len(log) = 3 => Legal(log[2].to, log[3].to)
    BY <1>2 DEF Explains
  <1>4. /\ row.status = "open" => Len(log) = 1
        /\ row.status = "author-responded" => Len(log) = 2
    BY <1>2, <1>3 DEF Legal, Outcomes
  <1>. QED BY <1>1, <1>2, <1>4

\* A legal transition is added to the ledger of one row.
LEMMA Transition ==
    ASSUME NEW row \in RowType, NEW log \in Seq(EntryType), Explains(row, log),
           Disinterested(row, log), NEW e \in EntryType, NEW next,
           Legal(row.status, e.to),
           next \in RowType \/ next.responder \in Users \union {None},
           next.challenger = row.challenger, next.status = e.to,
           next.revision = row.revision + 1,
           \/ /\ e.to = "author-responded" /\ next.responder = e.actor
           \/ /\ e.to # "author-responded" /\ next.responder = row.responder
              /\ e.to \in Outcomes => /\ e.override <=> e.actor \in Parties(row)
                                      /\ e.override => e.actor \in Admins
    PROVE  /\ Explains(next, Append(log, e))
           /\ Disinterested(next, Append(log, e))
           /\ next.revision \in 0 .. 2
  <1>. DEFINE n == Len(log)
              longer == Append(log, e)
  <1>1. /\ n \in 1 .. 2
        /\ n = 1 <=> row.status = "open"
        /\ n = 1 <=> e.to = "author-responded"
    <2>1. /\ n \in 1 .. 3
          /\ row.status = "open" => n = 1
          /\ row.status = "author-responded" => n = 2
      BY LedgerLength
    <2>2. \/ row.status = "open" /\ e.to = "author-responded"
          \/ row.status = "author-responded" /\ e.to # "author-responded"
      BY DEF Legal, Outcomes
    <2>. HIDE DEF n
    <2>3. CASE row.status = "open" /\ e.to = "author-responded"
      BY <2>1, <2>3
    <2>4. CASE row.status = "author-responded" /\ e.to # "author-responded"
      BY <2>1, <2>4
    <2>. QED BY <2>2, <2>3, <2>4
  <1>2. /\ Len(longer) = n + 1 /\ longer[n + 1] = e
        /\ DOMAIN longer = 1 .. (n + 1) /\ DOMAIN log = 1 .. n
        /\ \A k \in 1 .. n : longer[k] = log[k]
    BY AppendProperties, LenProperties
  <1>. HIDE DEF longer
  <1>3. /\ row.revision = n - 1 /\ row.status = log[n].to
        /\ log[1].to = "open" /\ log[1].actor = row.challenger
        /\ \A k \in 2 .. n : Legal(log[k - 1].to, log[k].to)
        /\ n >= 2 => log[2].actor = row.responder
    BY DEF Explains
  <1>4. next.revision = n /\ next.revision \in 0 .. 2
    BY <1>1, <1>3
  <1>. HIDE DEF n
  <1>5. \A k \in 2 .. (n + 1) : Legal(longer[k - 1].to, longer[k].to)
    <2>1. CASE n = 1
      BY <1>2, <1>3, <2>1
    <2>2. CASE n = 2
      BY <1>2, <1>3, <2>2
    <2>. QED BY <1>1, <2>1, <2>2
  <1>6. longer[2].actor = next.responder
    BY <1>1, <1>2, <1>3
  <1>7. Explains(next, longer)
    BY <1>1, <1>2, <1>3, <1>4, <1>5, <1>6 DEF Explains
  <1>8. Disinterested(next, longer)
    <2>. SUFFICES ASSUME NEW k \in 1 .. (n + 1), longer[k].to \in Outcomes
                  PROVE  /\ longer[k].override <=> longer[k].actor \in Parties(next)
                         /\ longer[k].override => longer[k].actor \in Admins
      BY <1>2 DEF Disinterested
    <2>1. CASE k = n + 1
      BY <1>2, <2>1 DEF Parties, Outcomes
    <2>2. CASE k \in 1 .. n
      \* A concluded row makes no transition, so an earlier entry is no outcome.
      <3>1. log[1].to = "open" /\ (n = 2 => log[2].to = "author-responded")
        BY <1>1, <1>3 DEF Legal, Outcomes
      <3>. QED BY <1>1, <1>2, <2>2, <3>1 DEF Outcomes
    <2>. QED BY <1>1, <2>1, <2>2
  <1>. QED BY <1>4, <1>7, <1>8 DEF longer

LEMMA SameLedger ==
    ASSUME NEW row, NEW next, NEW log, Explains(row, log), Disinterested(row, log),
           next.challenger = row.challenger, next.status = row.status,
           next.revision = row.revision, next.responder = row.responder
    PROVE  Explains(next, log) /\ Disinterested(next, log)
  BY DEF Explains, Disinterested, Parties

\* Keys move, but only to the oldest, and texts change.
LEMMA KeysMove ==
    ASSUME ChallengeInv, NEW table \in [1 .. Len(rows) -> RowType],
           \A i \in DOMAIN rows :
              /\ table[i].challenger = rows[i].challenger
              /\ table[i].status = rows[i].status
              /\ table[i].revision = rows[i].revision
              /\ table[i].responder = rows[i].responder
              /\ table[i].key => IsOldest(i, rows, rows[i].challenger),
           rows' = table, UNCHANGED ledger, readable' \in BOOLEAN,
           removal' \in [Removals -> RemovalLocals],
           \A r \in Removals : removal'[r] # Resting => removal'[r].row \in DOMAIN rows
    PROVE  FilingsAreSound' /\ LedgersAgree' /\ Ages(rows')
  <1>. USE DEF ChallengeInv, FilingsAreSound
  <1>1. Ages(rows') /\ DOMAIN rows' = DOMAIN rows
    BY TableTypes DEF Ages
  <1>2. ASSUME NEW i \in DOMAIN rows, rows'[i].key
        PROVE  IsOldest(i, rows', rows'[i].challenger)
    <2>1. IsOldest(i, rows, rows[i].challenger)
      BY <1>2
    <2>2. rows'[i].status \in Active
      BY <2>1 DEF IsOldest, ActiveOf, ActiveRows
    <2>. QED BY <1>1, <2>1, <2>2, ActiveRowsAge
  <1>3. Len(ledger') = Len(ledger) /\ ledger' \in Seq(Seq(EntryType))
    BY DEF ChallengeTypeOK
  <1>4. FilingsAreSound'
    BY <1>1, <1>2, <1>3, AgingStep
  <1>5. LedgersAgree'
    <2>. SUFFICES ASSUME NEW i \in DOMAIN rows
                  PROVE  Explains(rows'[i], ledger[i]) /\ Disinterested(rows'[i], ledger[i])
      BY <1>1 DEF LedgersAgree
    <2>. QED BY SameLedger DEF LedgersAgree
  <1>. QED BY <1>1, <1>4, <1>5

\* A command moves one row to its next status and writes its ledger.
LEMMA CommandStep ==
    ASSUME ChallengeInv, NEW i \in DOMAIN rows, NEW table, table = Reconcile(rows, rows[i].challenger),
           NEW next \in RowType, NEW e \in EntryType, Legal(rows[i].status, e.to),
           next.challenger = rows[i].challenger, next.status = e.to,
           next.revision = rows[i].revision + 1,
           \/ /\ e.to = "author-responded" /\ next.responder = e.actor
              /\ next.key = table[i].key
           \/ /\ e.to # "author-responded" /\ next.responder = rows[i].responder
              /\ e.to \in Outcomes => /\ e.override <=> e.actor \in Parties(rows[i])
                                      /\ e.override => e.actor \in Admins
              /\ next.key = FALSE,
           Store([table EXCEPT ![i] = next]),
           ledger' = [ledger EXCEPT ![i] = Append(@, e)],
           UNCHANGED <<readable, removal>>
    PROVE  ChallengeInv'
  <1>. USE DEF ChallengeInv, FilingsAreSound
  <1>1. /\ table \in [1 .. Len(rows) -> RowType]
        /\ \A j \in DOMAIN rows :
                 /\ table[j].challenger = rows[j].challenger
                 /\ table[j].status = rows[j].status
                 /\ table[j].revision = rows[j].revision
                 /\ table[j].responder = rows[j].responder
                 /\ table[j].key => IsOldest(j, rows, rows[j].challenger)
    BY ReconcileKeys
  <1>2. DOMAIN rows = 1 .. Len(rows) /\ i \in 1 .. Len(rows) /\ rows[i] \in RowType
    BY TableTypes
  <1>. DEFINE stored == [table EXCEPT ![i] = next]
  <1>3. /\ stored \in [1 .. Len(rows) -> RowType]
        /\ stored[i] = next
        /\ \A j \in DOMAIN rows : j # i => stored[j] = table[j]
    BY <1>1, <1>2
  <1>4. Store(stored)
    OBVIOUS
  <1>. HIDE DEF stored
  <1>5. rows' = stored
    BY <1>4 DEF Store
  <1>6. next.status \in Active => rows[i].status \in Active /\ e.to = "author-responded"
    BY DEF Legal, Active, Outcomes
  <1>7. Ages(stored)
    BY <1>1, <1>2, <1>3, <1>6 DEF Ages
  <1>8. ASSUME NEW j \in DOMAIN rows, rows'[j].key
        PROVE  IsOldest(j, rows', rows'[j].challenger)
    <2>1. table[j].key
      BY <1>3, <1>5, <1>8
    <2>2. IsOldest(j, rows, rows[j].challenger)
      BY <1>1, <2>1
    <2>3. rows[j].status \in Active
      BY <2>2 DEF IsOldest, ActiveOf, ActiveRows
    <2>4. rows'[j].status \in Active
      <3>1. CASE j = i
        BY <1>3, <1>5, <1>8, <3>1 DEF Active
      <3>2. CASE j # i
        BY <1>1, <1>3, <1>5, <2>3, <3>2
      <3>. QED BY <3>1, <3>2
    <2>. QED BY <1>5, <1>7, <2>2, <2>4, ActiveRowsAge
  <1>9. /\ ledger[i] \in Seq(EntryType) /\ Explains(rows[i], ledger[i])
        /\ Disinterested(rows[i], ledger[i])
    BY TableTypes DEF LedgersAgree
  <1>10. /\ Explains(next, Append(ledger[i], e))
         /\ Disinterested(next, Append(ledger[i], e))
    BY <1>2, <1>9, Transition
  <1>11. /\ ledger \in [1 .. Len(rows) -> Seq(EntryType)]
         /\ Append(ledger[i], e) \in Seq(EntryType)
    BY <1>9, TableTypes, AppendProperties
  <1>12. /\ ledger' \in [1 .. Len(rows) -> Seq(EntryType)]
         /\ ledger'[i] = Append(ledger[i], e)
         /\ \A j \in DOMAIN rows : j # i => ledger'[j] = ledger[j]
    BY <1>2, <1>11
  <1>13. ledger' \in Seq(Seq(EntryType)) /\ Len(ledger') = Len(ledger)
    BY <1>12, TableTypes, SeqOf DEF ChallengeTypeOK
  <1>14. FilingsAreSound'
    BY <1>5, <1>7, <1>8, <1>13, AgingStep DEF ChallengeTypeOK
  <1>15. LedgersAgree'
    <2>1. DOMAIN rows' = DOMAIN rows
      BY <1>2, <1>3, <1>5
    <2>. SUFFICES ASSUME NEW j \in DOMAIN rows
                  PROVE  Explains(rows'[j], ledger'[j]) /\ Disinterested(rows'[j], ledger'[j])
      BY <2>1 DEF LedgersAgree
    <2>2. CASE j = i
      BY <1>3, <1>5, <1>10, <1>12, <2>2
    <2>3. CASE j # i
      <3>1. Explains(rows[j], ledger[j]) /\ Disinterested(rows[j], ledger[j])
        BY DEF LedgersAgree
      <3>2. rows'[j] = table[j] /\ ledger'[j] = ledger[j]
        BY <1>3, <1>5, <1>12, <2>3
      <3>. QED BY <1>1, <3>1, <3>2, SameLedger
    <2>. QED BY <2>2, <2>3
  <1>16. RemovalsAreCurrent'
    BY <1>4, <1>7, StoreKeepsRemovals
  <1>. QED BY <1>14, <1>15, <1>16

LEMMA Answered ==
    ASSUME NEW row \in RowType, row.revision = 0, NEW a \in Users
    PROVE  LET next == [row EXCEPT !.status = "author-responded", !.revision = @ + 1,
                                   !.responder = a]
           IN  /\ next \in RowType /\ next.revision = 1
               /\ next.challenger = row.challenger /\ next.status = "author-responded"
               /\ next.responder = a /\ next.key = row.key
  <1>1. "author-responded" \in ChallengeStatus /\ a \in Users \union {None} /\ 1 \in 0 .. 2
    BY DEF ChallengeStatus, Active
  <1>2. row.revision + 1 = 1
    OBVIOUS
  <1>. QED BY <1>1, <1>2 DEF RowType

LEMMA Closed ==
    ASSUME NEW row \in RowType, row.revision = 1, NEW to \in ChallengeStatus
    PROVE  LET next == [row EXCEPT !.status = to, !.revision = @ + 1, !.key = FALSE]
           IN  /\ next \in RowType /\ next.revision = 2
               /\ next.challenger = row.challenger /\ next.status = to
               /\ next.responder = row.responder /\ next.key = FALSE
  <1>1. 2 \in 0 .. 2 /\ row.revision + 1 = 2
    OBVIOUS
  <1>. QED BY <1>1 DEF RowType

LEMMA RespondStep ==
    ASSUME ChallengeInv, NEW i \in DOMAIN rows, NEW a \in Users, Respond(i, a)
    PROVE  ChallengeInv'
  <1>. USE DEF ChallengeInv, FilingsAreSound
  <1>. DEFINE table == Reconcile(rows, rows[i].challenger)
              next == [table[i] EXCEPT !.status = "author-responded", !.revision = @ + 1,
                                       !.responder = a]
              e == Entry("author-responded", a, FALSE)
  <1>1. /\ table \in [1 .. Len(rows) -> RowType]
        /\ table[i].challenger = rows[i].challenger
        /\ table[i].revision = rows[i].revision
    BY ReconcileKeys
  <1>2. DOMAIN rows = 1 .. Len(rows) /\ rows[i] \in RowType
    BY TableTypes
  <1>3. rows[i].status = "open"
    BY DEF Respond
  <1>4. /\ rows[i].revision = 0
    <2>1. ledger[i] \in Seq(EntryType) /\ Explains(rows[i], ledger[i])
      BY TableTypes DEF LedgersAgree
    <2>. QED BY <1>2, <1>3, <2>1, LedgerLength
  <1>5. Store([table EXCEPT ![i] = next])
    <2>1. [table EXCEPT ![i].status = "author-responded", ![i].revision = @ + 1,
                        ![i].responder = a] = [table EXCEPT ![i] = next]
      BY <1>1, <1>2
    <2>. QED BY <2>1 DEF Respond
  <1>6. ledger' = [ledger EXCEPT ![i] = Append(@, e)] /\ UNCHANGED <<readable, removal>>
    BY DEF Respond
  <1>. HIDE DEF table
  <1>7. /\ next \in RowType /\ next.challenger = rows[i].challenger
        /\ next.status = "author-responded" /\ next.revision = rows[i].revision + 1
        /\ next.responder = a /\ next.key = table[i].key
    <2>1. table[i] \in RowType /\ table[i].revision = 0
      BY <1>1, <1>2, <1>4
    <2>2. /\ next \in RowType /\ next.revision = 1 /\ next.challenger = table[i].challenger
          /\ next.status = "author-responded" /\ next.responder = a /\ next.key = table[i].key
      BY <2>1, Answered
    <2>. QED BY <1>1, <1>4, <2>2
  <1>8. e \in EntryType /\ e.to = "author-responded" /\ e.actor = a
    BY DEF Entry, EntryType, ChallengeStatus, Active
  <1>9. Legal(rows[i].status, e.to)
    BY <1>3, <1>8 DEF Legal
  <1>. HIDE DEF next, e
  <1>. QED BY <1>5, <1>6, <1>7, <1>8, <1>9, CommandStep DEF table

LEMMA CloseStep ==
    ASSUME ChallengeInv, NEW i \in DOMAIN rows, NEW a \in Users, NEW to \in ChallengeStatus,
           NEW override \in BOOLEAN, Close(i, a, to, override)
    PROVE  ChallengeInv'
  <1>. USE DEF ChallengeInv, FilingsAreSound
  <1>. DEFINE table == Reconcile(rows, rows[i].challenger)
              next == [table[i] EXCEPT !.status = to, !.revision = @ + 1, !.key = FALSE]
              e == Entry(to, a, override)
  <1>1. /\ table \in [1 .. Len(rows) -> RowType]
        /\ table[i].challenger = rows[i].challenger
        /\ table[i].revision = rows[i].revision
        /\ table[i].responder = rows[i].responder
    BY ReconcileKeys
  <1>2. DOMAIN rows = 1 .. Len(rows) /\ rows[i] \in RowType
    BY TableTypes
  <1>3. to # "author-responded" /\ Legal(rows[i].status, to)
        /\ (to \in Outcomes => MayConclude(i, a, override))
    BY DEF Close, Outcomes
  <1>4. rows[i].revision = 1
    <2>1. ledger[i] \in Seq(EntryType) /\ Explains(rows[i], ledger[i])
      BY TableTypes DEF LedgersAgree
    <2>2. rows[i].status = "author-responded"
      BY <1>3 DEF Legal
    <2>. QED BY <1>2, <2>1, <2>2, LedgerLength
  <1>5. Store([table EXCEPT ![i] = next])
    <2>1. [table EXCEPT ![i].status = to, ![i].revision = @ + 1, ![i].key = FALSE]
             = [table EXCEPT ![i] = next]
      BY <1>1, <1>2
    <2>. QED BY <2>1 DEF Close
  <1>6. ledger' = [ledger EXCEPT ![i] = Append(@, e)] /\ UNCHANGED <<readable, removal>>
    BY DEF Close
  <1>. HIDE DEF table
  <1>7. /\ next \in RowType /\ next.challenger = rows[i].challenger
        /\ next.status = to /\ next.revision = rows[i].revision + 1
        /\ next.responder = rows[i].responder /\ next.key = FALSE
    <2>1. table[i] \in RowType /\ table[i].revision = 1
      BY <1>1, <1>2, <1>4
    <2>2. /\ next \in RowType /\ next.revision = 2 /\ next.challenger = table[i].challenger
          /\ next.status = to /\ next.responder = table[i].responder /\ next.key = FALSE
      BY <2>1, Closed
    <2>. QED BY <1>1, <1>4, <2>2
  <1>8. e \in EntryType /\ e.to = to /\ e.actor = a /\ e.override = override
    BY DEF Entry, EntryType
  <1>9. to \in Outcomes => /\ override <=> a \in Parties(rows[i])
                           /\ override => a \in Admins
    BY <1>3 DEF MayConclude, Involved, Parties
  <1>. HIDE DEF next, e
  <1>. QED BY <1>3, <1>5, <1>6, <1>7, <1>8, <1>9, CommandStep DEF table

LEMMA ListStep ==
    ASSUME ChallengeInv, NEW u \in Users, List(u)
    PROVE  ChallengeInv'
  <1>. USE DEF ChallengeInv, FilingsAreSound
  <1>. DEFINE table == Reconcile(rows, u)
  <1>1. Store(table) /\ UNCHANGED <<ledger, readable, removal>>
    BY DEF List
  <1>2. /\ table \in [1 .. Len(rows) -> RowType]
        /\ \A i \in DOMAIN rows :
                 /\ table[i].challenger = rows[i].challenger
                 /\ table[i].status = rows[i].status
                 /\ table[i].revision = rows[i].revision
                 /\ table[i].responder = rows[i].responder
                 /\ table[i].key => IsOldest(i, rows, rows[i].challenger)
    BY ReconcileKeys
  <1>. HIDE DEF table
  <1>3. rows' = table
    BY <1>1 DEF Store
  <1>4. /\ FilingsAreSound' /\ LedgersAgree' /\ Ages(rows')
    BY <1>1, <1>2, <1>3, KeysMove DEF ChallengeTypeOK
  <1>5. RemovalsAreCurrent'
    BY <1>1, <1>3, <1>4, StoreKeepsRemovals
  <1>. QED BY <1>4, <1>5

\* A removal moves on and nothing is stored.
LEMMA RemovalMoves ==
    ASSUME ChallengeInv, NEW r \in Removals, NEW local \in RemovalLocals,
           removal' = [removal EXCEPT ![r] = local], RemovalIsCurrent(local),
           local # Resting => local.row \in DOMAIN rows,
           UNCHANGED <<rows, ledger, readable>>
    PROVE  ChallengeInv'
  <1>. USE DEF ChallengeInv, FilingsAreSound
  <1>1. /\ removal' \in [Removals -> RemovalLocals]
        /\ removal'[r] = local
        /\ \A q \in Removals : q # r => removal'[q] = removal[q]
    BY DEF ChallengeTypeOK
  <1>2. ChallengeTypeOK'
    BY <1>1 DEF ChallengeTypeOK
  <1>3. CapHolds' /\ NoDuplicateFiling' /\ KeyOwnerIsOldest' /\ LedgersAgree'
    BY DEF CapHolds, NoDuplicateFiling, KeyOwnerIsOldest, LedgersAgree
  <1>4. RemovalsAreCurrent'
    <2>. SUFFICES ASSUME NEW q \in Removals, NEW l, l = removal'[q]
                  PROVE  RemovalIsCurrent(l)'
      BY DEF RemovalsAreCurrent, RemovalIsCurrent
    <2>1. RemovalIsCurrent(l)
      BY <1>1 DEF RemovalsAreCurrent
    <2>. QED BY <2>1 DEF RemovalIsCurrent
  <1>. QED BY <1>2, <1>3, <1>4

LEMMA LoadStep ==
    ASSUME ChallengeInv, NEW r \in Removals, NEW i \in DOMAIN rows, NEW a \in Users,
           NEW what \in {"text", "reply"}, Load(r, i, a, what)
    PROVE  ChallengeInv'
  <1>. DEFINE local == [phase |-> IF rows[i].status \in Active THEN "loaded" ELSE "reconciled",
                        row |-> i, what |-> what, cleared |-> {}, adopted |-> {}]
  <1>0. i \in Indices
    BY TableTypes DEF ChallengeInv, FilingsAreSound
  <1>1. local \in RemovalLocals /\ RemovalIsCurrent(local) /\ local.row = i
    BY <1>0 DEF RemovalLocals, RemovalIsCurrent
  <1>2. removal' = [removal EXCEPT ![r] = local] /\ UNCHANGED <<rows, ledger, readable>>
    BY DEF Load
  <1>. HIDE DEF local
  <1>. QED BY <1>1, <1>2, RemovalMoves

LEMMA PickWinnerStep ==
    ASSUME ChallengeInv, NEW r \in Removals, PickWinner(r)
    PROVE  ChallengeInv'
  <1>. USE DEF ChallengeInv, FilingsAreSound
  <1>. SUFFICES ASSUME NEW old, old = removal[r] PROVE ChallengeInv'
    OBVIOUS
  <1>. DEFINE u == rows[old.row].challenger
  <1>1. /\ old \in RemovalLocals /\ old.phase = "loaded" /\ old # Resting
        /\ old \in [phase : {"loaded", "reconciled"}, row : Indices, what : {"text", "reply"},
                    cleared : SUBSET Indices, adopted : SUBSET Indices]
        /\ old.row \in DOMAIN rows
    BY RemovalShapes DEF PickWinner, ChallengeTypeOK, Resting
  <1>2. UNCHANGED <<rows, ledger, readable>>
    BY DEF PickWinner
  <1>5. old.adopted = {}
    BY <1>1 DEF RemovalsAreCurrent, RemovalIsCurrent
  <1>3. CASE ActiveOf(rows, u) = {}
    <2>. DEFINE local == [old EXCEPT !.phase = "reconciled"]
    <2>1. /\ local \in RemovalLocals /\ local.phase = "reconciled"
          /\ local.row = old.row /\ local.adopted = old.adopted
      BY <1>1 DEF RemovalLocals
    <2>2. removal' = [removal EXCEPT ![r] = local]
      BY <1>3 DEF PickWinner, ChallengeTypeOK
    <2>. HIDE DEF local
    <2>3. RemovalIsCurrent(local)
      BY <1>5, <2>1 DEF RemovalIsCurrent
    <2>. QED BY <1>1, <1>2, <2>1, <2>2, <2>3, RemovalMoves
  <1>4. CASE ActiveOf(rows, u) # {}
    <2>. DEFINE w == CHOOSE i \in ActiveOf(rows, u) : IsOldest(i, rows, u)
                local == [phase |-> "picked", row |-> old.row, what |-> old.what,
                          winner |-> w, unkeyed |-> ~rows[w].key]
    <2>1. removal' = [removal EXCEPT ![r] = local]
      BY <1>4 DEF PickWinner, ChallengeTypeOK
    <2>2. w \in ActiveOf(rows, u) /\ IsOldest(w, rows, u)
      BY <1>4, OldestIsUnique
    <2>. SUFFICES ASSUME NEW v, v = w PROVE ChallengeInv'
      OBVIOUS
    <2>. HIDE DEF w
    <2>3. /\ v \in DOMAIN rows /\ v \in Indices /\ rows[v].challenger = u
          /\ rows[v].key \in BOOLEAN
          /\ IsOldest(v, rows, rows[v].challenger)
      BY <2>2, TableTypes DEF ActiveOf, ActiveRows, RowType
    <2>4. /\ local \in RemovalLocals /\ local.phase = "picked" /\ local.row = old.row
          /\ local.winner = v
      BY <1>1, <2>3 DEF RemovalLocals
    <2>. HIDE DEF local
    <2>5. RemovalIsCurrent(local)
      BY <2>3, <2>4 DEF RemovalIsCurrent
    <2>. QED BY <1>1, <1>2, <2>1, <2>4, <2>5, RemovalMoves
  <1>. QED BY <1>3, <1>4

LEMMA UpdateStep ==
    ASSUME ChallengeInv, NEW r \in Removals, Update(r)
    PROVE  ChallengeInv'
  <1>. USE DEF ChallengeInv, FilingsAreSound
  <1>. SUFFICES ASSUME NEW old, old = removal[r], NEW w, w = old.winner PROVE ChallengeInv'
    OBVIOUS
  <1>. DEFINE cleared == {i \in DOMAIN rows \ {w} : rows[i].challenger = rows[w].challenger
                                                    /\ rows[i].key}
              adopted == Adopts(w, old.unkeyed)
              local == [phase |-> "reconciled", row |-> old.row, what |-> old.what,
                        cleared |-> cleared, adopted |-> adopted]
  <1>1. /\ old \in RemovalLocals /\ old.phase = "picked" /\ old # Resting
        /\ old.row \in Indices /\ old.what \in {"text", "reply"}
        /\ old.row \in DOMAIN rows /\ RemovalIsCurrent(old)
    BY RemovalShapes DEF Update, ChallengeTypeOK, Resting, RemovalsAreCurrent
  <1>2. w \in DOMAIN rows
        /\ (rows[w].status \in Active => IsOldest(w, rows, rows[w].challenger))
    BY <1>1 DEF RemovalIsCurrent
  <1>3. removal' = [removal EXCEPT ![r] = local] /\ UNCHANGED <<rows, ledger, readable>>
    BY DEF Update, ChallengeTypeOK
  <1>4. adopted \subseteq {w} /\ (adopted # {} => rows[w].status \in Active)
    BY DEF Adopts
  <1>5. cleared \subseteq Indices /\ adopted \subseteq Indices
    BY <1>2, <1>4, TableTypes
  <1>. HIDE DEF cleared, adopted
  <1>6. /\ local \in RemovalLocals /\ local.phase = "reconciled" /\ local.row = old.row
        /\ local.adopted = adopted
    BY <1>1, <1>5 DEF RemovalLocals
  <1>. HIDE DEF local
  <1>7. RemovalIsCurrent(local)
    BY <1>2, <1>4, <1>6 DEF RemovalIsCurrent
  <1>. QED BY <1>1, <1>3, <1>6, <1>7, RemovalMoves

LEMMA GiveUpStep ==
    ASSUME ChallengeInv, NEW r \in Removals, GiveUp(r)
    PROVE  ChallengeInv'
  <1>1. Resting \in RemovalLocals /\ RemovalIsCurrent(Resting)
    BY DEF RemovalLocals, Resting, RemovalIsCurrent
  <1>. QED BY <1>1, RemovalMoves DEF GiveUp

\* The commit of a removal gives the key to the rows it adopted, which are oldest.
LEMMA RemoveStep ==
    ASSUME ChallengeInv, NEW r \in Removals, Remove(r)
    PROVE  ChallengeInv'
  <1>. USE DEF ChallengeInv, FilingsAreSound
  <1>. SUFFICES ASSUME NEW old, old = removal[r] PROVE ChallengeInv'
    OBVIOUS
  <1>. DEFINE keyed == [i \in DOMAIN rows |->
                          IF i \in old.cleared THEN [rows[i] EXCEPT !.key = FALSE]
                          ELSE IF i \in old.adopted THEN [rows[i] EXCEPT !.key = TRUE]
                          ELSE rows[i]]
  <1>1. /\ old \in RemovalLocals /\ old.phase = "reconciled" /\ old # Resting
        /\ old.row \in DOMAIN rows /\ RemovalIsCurrent(old)
    BY RemovalShapes DEF Remove, ChallengeTypeOK, Resting, RemovalsAreCurrent
  <1>2. DOMAIN rows = 1 .. Len(rows) /\ \A i \in DOMAIN rows : rows[i] \in RowType
    BY TableTypes
  <1>3. DOMAIN keyed = DOMAIN rows /\ \A i \in DOMAIN rows :
           /\ keyed[i] \in RowType
           /\ keyed[i].challenger = rows[i].challenger
           /\ keyed[i].status = rows[i].status
           /\ keyed[i].revision = rows[i].revision
           /\ keyed[i].responder = rows[i].responder
           /\ keyed[i].key => rows[i].key \/ i \in old.adopted
    BY <1>2 DEF RowType
  <1>4. rows' = [keyed EXCEPT ![old.row].text = "removed"]
        \/ rows' = [keyed EXCEPT ![old.row].reply = "removed"]
    BY DEF Remove
  <1>. HIDE DEF keyed
  <1>5. DOMAIN rows' = DOMAIN rows /\ \A i \in DOMAIN rows :
           \/ rows'[i] = keyed[i]
           \/ rows'[i] = [keyed[i] EXCEPT !.text = "removed"]
           \/ rows'[i] = [keyed[i] EXCEPT !.reply = "removed"]
    BY <1>1, <1>3, <1>4
  <1>6. ASSUME NEW i \in DOMAIN rows
        PROVE  /\ rows'[i] \in RowType
               /\ rows'[i].challenger = rows[i].challenger
               /\ rows'[i].status = rows[i].status
               /\ rows'[i].revision = rows[i].revision
               /\ rows'[i].responder = rows[i].responder
               /\ rows'[i].key => IsOldest(i, rows, rows[i].challenger)
    <2>1. \A row \in RowType :
             /\ [row EXCEPT !.text = "removed"] \in RowType
             /\ [row EXCEPT !.reply = "removed"] \in RowType
      BY DEF RowType
    <2>2. /\ rows'[i] \in RowType
          /\ rows'[i].challenger = keyed[i].challenger /\ rows'[i].status = keyed[i].status
          /\ rows'[i].revision = keyed[i].revision /\ rows'[i].responder = keyed[i].responder
          /\ rows'[i].key = keyed[i].key
      BY <1>3, <1>5, <2>1 DEF RowType
    <2>3. rows[i].key \/ i \in old.adopted => IsOldest(i, rows, rows[i].challenger)
      BY <1>1 DEF KeyOwnerIsOldest, RemovalIsCurrent
    <2>. QED BY <1>3, <2>2, <2>3
  <1>7. rows' \in [1 .. Len(rows) -> RowType]
    <2>1. rows' = [i \in DOMAIN rows |-> rows'[i]]
      BY <1>4, <1>5
    <2>. QED BY <1>2, <1>6, <2>1
  <1>8. /\ removal' \in [Removals -> RemovalLocals]
        /\ removal'[r] = Resting
        /\ \A q \in Removals : q # r => removal'[q] = removal[q]
        /\ UNCHANGED <<ledger, readable>>
    BY DEF Remove, ChallengeTypeOK, RemovalLocals
  <1>9. FilingsAreSound' /\ LedgersAgree' /\ Ages(rows')
    BY <1>6, <1>7, <1>8, KeysMove DEF ChallengeTypeOK
  <1>10. RemovalsAreCurrent'
    <2>. SUFFICES ASSUME NEW q \in Removals, NEW l, l = removal'[q]
                  PROVE  RemovalIsCurrent(l)'
      BY DEF RemovalsAreCurrent, RemovalIsCurrent
    <2>1. CASE q = r
      BY <1>8, <2>1 DEF RemovalIsCurrent, Resting
    <2>2. CASE q # r
      <3>1. l \in RemovalLocals /\ RemovalIsCurrent(l)
        BY <1>8, <2>2 DEF ChallengeTypeOK, RemovalsAreCurrent
      <3>2. l.phase = "reconciled" => \A i \in l.adopted : rows'[i].status \in Active
        BY <1>6, <3>1 DEF RemovalIsCurrent, IsOldest, ActiveOf, ActiveRows
      <3>. QED BY <1>9, <3>1, <3>2, RemovalStays
    <2>. QED BY <2>1, <2>2
  <1>. QED BY <1>9, <1>10

LEMMA ChallengeStep == ChallengeInv /\ [ChallengeNext]_challengeVars => ChallengeInv'
  <1>. SUFFICES ASSUME ChallengeInv, [ChallengeNext]_challengeVars PROVE ChallengeInv'
    OBVIOUS
  <1>1. ASSUME NEW u \in Users, File(u) \/ List(u) PROVE ChallengeInv'
    BY <1>1, FileStep, ListStep
  <1>2. ASSUME NEW i \in DOMAIN rows, NEW a \in Users,
               \/ Respond(i, a)
               \/ \E to \in ChallengeStatus, override \in BOOLEAN : Close(i, a, to, override)
               \/ \E r \in Removals, what \in {"text", "reply"} : Load(r, i, a, what)
        PROVE  ChallengeInv'
    BY <1>2, RespondStep, CloseStep, LoadStep
  <1>3. ASSUME NEW r \in Removals, PickWinner(r) \/ Update(r) \/ Remove(r) \/ GiveUp(r)
        PROVE  ChallengeInv'
    BY <1>3, PickWinnerStep, UpdateStep, RemoveStep, GiveUpStep
  <1>4. CASE Tombstone \/ UNCHANGED challengeVars
    <2>. USE DEF ChallengeInv, FilingsAreSound
    <2>1. UNCHANGED <<rows, ledger, removal>> /\ (readable' = readable \/ readable' = FALSE)
      BY <1>4 DEF Tombstone, challengeVars
    <2>2. ChallengeTypeOK'
      BY <2>1 DEF ChallengeTypeOK
    <2>3. CapHolds' /\ NoDuplicateFiling' /\ KeyOwnerIsOldest' /\ LedgersAgree'
      BY <2>1 DEF CapHolds, NoDuplicateFiling, KeyOwnerIsOldest, LedgersAgree
    <2>4. RemovalsAreCurrent'
      BY <2>1 DEF RemovalsAreCurrent, RemovalIsCurrent
    <2>. QED BY <2>2, <2>3, <2>4
  <1>. QED BY <1>1, <1>2, <1>3, <1>4 DEF ChallengeNext

\* The rows from before the keys: all of one filer, none keyed.
LEMMA ChallengeInitially == ChallengeInit => ChallengeInv
  <1>. SUFFICES ASSUME ChallengeInit PROVE ChallengeInv
    OBVIOUS
  <1>. DEFINE row == Row(LegacyFiler, FALSE)
              log == <<Entry("open", LegacyFiler, FALSE)>>
  <1>0. LegacyRows \in Nat /\ Cap \in Nat /\ MaxChallenges \in Nat /\ LegacyFiler \in Users
    BY ChallengeConstants
  <1>1. /\ row \in RowType /\ row.challenger = LegacyFiler /\ row.status = "open"
        /\ row.revision = 0 /\ row.responder = None /\ row.key = FALSE
    BY <1>0 DEF Row, RowType, ChallengeStatus, Active
  <1>2. /\ log \in Seq(EntryType) /\ Len(log) = 1 /\ log[1] = Entry("open", LegacyFiler, FALSE)
        /\ DOMAIN log = {1}
    BY <1>0 DEF Entry, EntryType, ChallengeStatus, Active
  <1>3. log[1].to = "open" /\ log[1].actor = LegacyFiler
    BY <1>2 DEF Entry
  <1>4. /\ rows = [i \in 1 .. LegacyRows |-> row]
        /\ ledger = [i \in 1 .. LegacyRows |-> log]
        /\ readable = TRUE
        /\ removal = [r \in Removals |-> Resting]
    BY DEF ChallengeInit
  <1>. HIDE DEF row, log
  <1>5. /\ rows \in Seq(RowType) /\ Len(rows) = LegacyRows
        /\ ledger \in Seq(Seq(EntryType)) /\ Len(ledger) = LegacyRows
    BY <1>0, <1>1, <1>2, <1>4, SeqOf
  <1>6. DOMAIN rows = 1 .. LegacyRows
        /\ \A i \in DOMAIN rows : rows[i] = row /\ ledger[i] = log
    BY <1>4
  <1>7. ChallengeTypeOK
    BY <1>4, <1>5, ChallengeConstants DEF ChallengeTypeOK, RemovalLocals
  <1>8. ActiveRows(rows) \subseteq 1 .. LegacyRows
    BY <1>6 DEF ActiveRows
  <1>9. CapHolds
    <2>1. IsFiniteSet(1 .. LegacyRows) /\ Cardinality(1 .. LegacyRows) = LegacyRows
      BY <1>0, FS_Interval
    <2>2. /\ Cardinality(ActiveRows(rows)) <= LegacyRows
          /\ Cardinality(ActiveRows(rows)) \in Nat
      BY <1>8, <2>1, FS_Subset, FS_CardinalityType
    <2>. QED BY <1>0, <2>2, ChallengeConstants DEF CapHolds
  <1>10. NoDuplicateFiling /\ KeyOwnerIsOldest
    BY <1>0, <1>1, <1>6, <1>8 DEF NoDuplicateFiling, KeyOwnerIsOldest
  <1>11. Explains(row, log) /\ Disinterested(row, log)
    BY <1>1, <1>2, <1>3, FirstEntry DEF Disinterested, Outcomes
  <1>12. LedgersAgree
    BY <1>6, <1>11 DEF LedgersAgree
  <1>13. RemovalsAreCurrent
    BY <1>4 DEF RemovalsAreCurrent, RemovalIsCurrent, Resting
  <1>. QED BY <1>7, <1>9, <1>10, <1>12, <1>13 DEF ChallengeInv, FilingsAreSound

LEMMA ChallengeInvariance == ChallengeSpec => []ChallengeInv
  BY ChallengeInitially, ChallengeStep, PTL DEF ChallengeSpec

\* The cap on active challenges, at most one of each person, and the key with the
\* oldest, for any number of removals that repair the keys from an old read while
\* challenges are filed and closed.
THEOREM Filings == ChallengeSpec => []FilingsAreSound
  BY ChallengeInvSuffices, ChallengeInvariance, PTL

\* A challenge's row is what its ledger of legal transitions says it is.
THEOREM Ledgers == ChallengeSpec => []LedgerExplainsRow
  BY ChallengeInvSuffices, ChallengeInvariance, PTL

\* Nobody concludes a challenge they are part of without the administrator's
\* override, and no uninvolved outcome carries one: who is a party of the row today
\* was one when it was concluded.
THEOREM Outcome == ChallengeSpec => []OutcomeIsDisinterested
  BY ChallengeInvSuffices, ChallengeInvariance, PTL
=============================================================================
