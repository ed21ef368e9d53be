--------------------------- MODULE CertificationRun ---------------------------
(***************************************************************************)
(* Certification runs and their results: createCertificationRun,           *)
(* transitionCertificationRun, submitCertificationResult and               *)
(* addCertificationLifecycle of apps/web/src/lib/certification.ts, with    *)
(* the unique keys and row guards of the database.                         *)
(*                                                                         *)
(* A handler reads first and writes later, in a transaction at isolation   *)
(* level Serializable that does not repeat the reads.  The reads of one    *)
(* handler are one step where what they found cannot be undone.  All       *)
(* requests come from the certifier that owns the runs.  Operators named   *)
(* Broken... are deliberate bugs for the mutation runs.                    *)
(***************************************************************************)
EXTENDS Naturals, FiniteSets

CONSTANTS
    Runs,       \* runs, named by the certifier's idempotency keys
    Requests,   \* request handlers in flight at once
    Subjects,   \* publication version and protocol of a run
    Modes,      \* how it assesses: assessment mode, external reference
    Texts,      \* contents of results
    Reasons,    \* reasons of ends and lifecycle events
    Nothing

Ended == {"completed", "failed", "cancelled"}

\* What a run is created with, all of which assertRunReplay compares.
Inputs == [subject : Subjects, mode : Modes]

RunRows == [input  : Inputs,
            status : {"running"} \union Ended,
            reason : Reasons \union {Nothing}]

\* What a result says, and the run whose result it replaces: the row, for runs
\* have one result at most.
Bodies == [text : Texts, supersedes : Runs \union {Nothing}]

\* The null of the database, which is no value and no row.
ASSUME CertificationConstants ==
    Nothing \notin Runs \union Texts \union Reasons \union RunRows \union Bodies

VARIABLES
    run,        \* CertificationRun rows
    result,     \* CertificationResult rows, unique per run
    events,     \* CertificationLifecycleEvent rows, of the result of a run
    audits,     \* AuditEvent rows of terminal transitions
    req,        \* local variables of the request handlers
    answers     \* history: what successful responses said

vars == <<run, result, events, audits, req, answers>>

Idle == [pc |-> "idle"]

Init ==
    /\ run = [k \in Runs |-> Nothing]
    /\ result = [k \in Runs |-> Nothing]
    /\ events = {}
    /\ audits = {}
    /\ req = [r \in Requests |-> Idle]
    /\ answers = {}

Goto(r, local) ==
    /\ req' = [req EXCEPT ![r] = local]
    /\ UNCHANGED <<run, result, events, audits, answers>>

\* The handler throws or dies between two of its queries.
Abandon(r) == req[r] # Idle /\ Goto(r, Idle)

Finish(r, answer) ==
    /\ req' = [req EXCEPT ![r] = Idle]
    /\ answers' = answers \union {answer}

\* The request is answered from what is stored already.
Replay(r, answer) == Finish(r, answer) /\ UNCHANGED <<run, result, events, audits>>

-----------------------------------------------------------------------------
(* createCertificationRun *)

RunAnswer(k, input) == [about |-> "run", run |-> k, said |-> input]

FindRun(r, k, input) ==
    /\ req[r] = Idle
    /\ \/ run[k] # Nothing /\ run[k].input = input /\ Replay(r, RunAnswer(k, input))
       \/ run[k] = Nothing /\ Goto(r, [pc |-> "insertRun", run |-> k, input |-> input])

InsertRun(r) ==
    /\ req[r].pc = "insertRun"
    /\ LET k == req[r].run IN
       \/ run[k] # Nothing /\ run[k].input = req[r].input
          /\ Replay(r, RunAnswer(k, req[r].input))
       \/ /\ run[k] = Nothing
          /\ run' = [run EXCEPT ![k] =
                [input |-> req[r].input, status |-> "running", reason |-> Nothing]]
          /\ Finish(r, RunAnswer(k, req[r].input))
          /\ UNCHANGED <<result, events, audits>>

-----------------------------------------------------------------------------
(* transitionCertificationRun *)

EndAnswer(k, status, reason) == [about |-> status, run |-> k, said |-> reason]

EndedAs(k, status, reason) == run[k].status = status /\ run[k].reason = reason

BeginEnd(r, k, status, reason) ==
    /\ req[r] = Idle
    /\ run[k] # Nothing
    /\ \/ EndedAs(k, status, reason) /\ Replay(r, EndAnswer(k, status, reason))
       \/ /\ run[k].status = "running"
          /\ Goto(r, [pc |-> "end", run |-> k, status |-> status, reason |-> reason])

BrokenEnd(r) ==    \* the update is not conditional and the row has no guard
    /\ req[r].pc = "end"
    /\ LET k == req[r].run IN
          /\ run' = [run EXCEPT ![k].status = req[r].status, ![k].reason = req[r].reason]
          /\ audits' = audits \union {<<k, req[r].status>>}
          /\ Finish(r, EndAnswer(k, req[r].status, req[r].reason))
          /\ UNCHANGED <<result, events>>

\* The compare-and-set and the audit row; whoever loses it rereads the run.
End(r) ==
    /\ req[r].pc = "end"
    /\ LET k == req[r].run IN
       \/ /\ run[k].status = "running"
          /\ run' = [run EXCEPT ![k].status = req[r].status, ![k].reason = req[r].reason]
          /\ audits' = audits \union {<<k, req[r].status>>}
          /\ Finish(r, EndAnswer(k, req[r].status, req[r].reason))
          /\ UNCHANGED <<result, events>>
       \/ /\ EndedAs(k, req[r].status, req[r].reason)
          /\ Replay(r, EndAnswer(k, req[r].status, req[r].reason))

-----------------------------------------------------------------------------
(* submitCertificationResult *)

ResultAnswer(k, body) == [about |-> "result", run |-> k, said |-> body]

ReplayResult(r, k, body) ==
    /\ result[k] # Nothing
    /\ result[k] = body
    /\ Replay(r, ResultAnswer(k, body))

BeginResult(r, k, body) ==
    /\ req[r] = Idle
    /\ run[k] # Nothing
    /\ \/ ReplayResult(r, k, body)
       \/ /\ result[k] = Nothing
          /\ run[k].status = "running"
          /\ Goto(r, [pc |-> IF body.supersedes = Nothing THEN "insertResult" ELSE "checkPrior",
                      run |-> k, body |-> body])

SupersededBy(p) == {k \in Runs : result[k] # Nothing /\ result[k].supersedes = p}

BrokenMayReplace(k, prior) == result[prior] # Nothing    \* of any subject

\* A result replaces one of the same publication version and protocol, in
\* whichever modes the two assess: the mode is not compared.
MayReplace(k, prior) ==
    /\ result[prior] # Nothing
    /\ run[prior].input.subject = run[k].input.subject

CheckPrior(r) ==
    /\ req[r].pc = "checkPrior"
    /\ LET prior == req[r].body.supersedes IN
          MayReplace(req[r].run, prior) /\ SupersededBy(prior) = {}
    /\ Goto(r, [req[r] EXCEPT !.pc = "insertResult"])

BrokenPriorIsFree(prior) == TRUE    \* no unique key on the superseded result

\* Unique keys on the superseded result and on the kind of its event.
PriorIsFree(prior) ==
    prior # Nothing => /\ SupersededBy(prior) = {}
                       /\ \A e \in events : ~(e.run = prior /\ e.kind = "superseded")

BrokenRunGuard(k) == TRUE    \* a terminal run may change its status

\* The row guard: a terminal run keeps its status.
RunGuard(k) == run[k].status = "running"

Event(k, kind, reason) == [run |-> k, kind |-> kind, reason |-> reason]

ResultEvents(k, body) ==
    {Event(k, "issued", Nothing)} \union
    (IF body.supersedes = Nothing THEN {}
     ELSE {Event(body.supersedes, "superseded", k)})

\* The binding trigger: the database requires of a new result what CheckPrior did.
BindingGuard(k, prior) == prior # Nothing => MayReplace(k, prior)

\* One transaction, which does not look at the run's status again.  A unique
\* violation is answered from the row that won, if the run has one; an error of
\* a trigger is not (Abandon).
InsertResult(r) ==
    /\ req[r].pc = "insertResult"
    /\ LET k == req[r].run
           body == req[r].body
       IN  \/ ReplayResult(r, k, body)
           \/ /\ result[k] = Nothing
              /\ BindingGuard(k, body.supersedes)
              /\ PriorIsFree(body.supersedes)
              /\ RunGuard(k)
              /\ result' = [result EXCEPT ![k] = body]
              /\ events' = events \union ResultEvents(k, body)
              /\ run' = [run EXCEPT ![k].status = "completed"]
              /\ Finish(r, ResultAnswer(k, body))
              /\ UNCHANGED audits

-----------------------------------------------------------------------------
(* addCertificationLifecycle *)

EventAnswer(k, kind, reason) == [about |-> kind, run |-> k, said |-> reason]

EventsOf(k, kind) == {e \in events : e.run = k /\ e.kind = kind}

BeginLifecycle(r, k, kind, reason) ==
    /\ req[r] = Idle
    /\ result[k] # Nothing
    /\ \/ Event(k, kind, reason) \in events /\ Replay(r, EventAnswer(k, kind, reason))
       \/ /\ EventsOf(k, kind) = {}
          /\ Goto(r, [pc |-> "insertEvent", run |-> k, kind |-> kind, reason |-> reason])

BrokenInsertEvent(r) ==    \* no unique key on result and kind
    /\ req[r].pc = "insertEvent"
    /\ events' = events \union {Event(req[r].run, req[r].kind, req[r].reason)}
    /\ Finish(r, EventAnswer(req[r].run, req[r].kind, req[r].reason))
    /\ UNCHANGED <<run, result, audits>>

InsertEvent(r) ==
    /\ req[r].pc = "insertEvent"
    /\ LET event == Event(req[r].run, req[r].kind, req[r].reason)
           answer == EventAnswer(req[r].run, req[r].kind, req[r].reason)
       IN  \/ event \in events /\ Replay(r, answer)
           \/ /\ EventsOf(event.run, event.kind) = {}
              /\ events' = events \union {event}
              /\ Finish(r, answer)
              /\ UNCHANGED <<run, result, audits>>

-----------------------------------------------------------------------------
Begin(r, k) ==
    \/ \E input \in Inputs : FindRun(r, k, input)
    \/ \E reason \in Reasons :
          \/ \E status \in {"failed", "cancelled"} : BeginEnd(r, k, status, reason)
          \/ \E kind \in {"withdrawn", "revoked"} : BeginLifecycle(r, k, kind, reason)
    \/ \E body \in Bodies : BeginResult(r, k, body)

Next ==
    \E r \in Requests :
        \/ \E k \in Runs : Begin(r, k)
        \/ InsertRun(r)
        \/ End(r)
        \/ CheckPrior(r)
        \/ InsertResult(r)
        \/ InsertEvent(r)
        \/ Abandon(r)

Spec == Init /\ [][Next]_vars

-----------------------------------------------------------------------------
(* Properties *)

EventRows == [run    : Runs,
              kind   : {"issued", "superseded", "withdrawn", "revoked"},
              reason : Runs \union Reasons \union {Nothing}]

Locals == [pc : {"insertRun"}, run : Runs, input : Inputs]
    \union [pc : {"end"}, run : Runs, status : {"failed", "cancelled"}, reason : Reasons]
    \union [pc : {"checkPrior", "insertResult"}, run : Runs, body : Bodies]
    \union [pc : {"insertEvent"}, run : Runs, kind : {"withdrawn", "revoked"}, reason : Reasons]

TypeOK ==
    /\ run \in [Runs -> RunRows \union {Nothing}]
    /\ result \in [Runs -> Bodies \union {Nothing}]
    /\ events \subseteq EventRows
    /\ \A e, f \in events : (e.run = f.run /\ e.kind = f.kind) => e = f
    /\ audits \subseteq Runs \X {"failed", "cancelled"}
    /\ req \in [Requests -> Locals \union {Idle}]

\* "only the owning certifier can close its open run; ... a conflicting
\* transition is rejected" (certification.md:118-119): a run ends once, as
\* completed with its result, or as failed or cancelled without one, and the one
\* audit row of such an end names how.  Ends and results race.
RunsEndOnce ==
    \A k \in Runs :
        /\ result[k] # Nothing <=> (run[k] # Nothing /\ run[k].status = "completed")
        /\ {a[2] : a \in {b \in audits : b[1] = k}} =
              IF run[k] # Nothing /\ run[k].status \in {"failed", "cancelled"}
              THEN {run[k].status} ELSE {}

\* "Issued, superseded, withdrawn, and revoked are append-only lifecycle events":
\* a result is shown as superseded exactly if another result of the same version
\* and protocol replaced it, one at most, and that result is the one the event
\* names.  The two may assess in different modes.
SupersededMeansReplaced ==
    \A k \in Runs : result[k] # Nothing =>
        /\ Event(k, "issued", Nothing) \in events
        /\ EventsOf(k, "superseded") = {Event(k, "superseded", s) : s \in SupersededBy(k)}
        /\ \A s, t \in SupersededBy(k) : s = t
        /\ \A s \in SupersededBy(k) : run[s].input.subject = run[k].input.subject

\* Replaced results never form a cycle: every chain of corrections has a latest
\* member, although two requests may check each other's result.
SupersessionEnds ==
    \A chain \in SUBSET {k \in Runs : SupersededBy(k) # {}} :
        chain # {} => \E k \in chain : SupersededBy(k) \intersect chain = {}

\* Whatever a certifier was told, the run it created, the end, the result or the
\* lifecycle event it recorded, and however often it repeated the request, is
\* what the archive holds.
ToldIsStored ==
    \A a \in answers :
        CASE a.about = "run"    -> run[a.run].input = a.said
          [] a.about = "result" -> result[a.run] = a.said
          [] a.about \in {"failed", "cancelled"} -> EndedAs(a.run, a.about, a.said)
          [] OTHER -> Event(a.run, a.about, a.said) \in events

\* certification.md: the shown supersessions of the results of one version
\* and protocol are lines of replacements, each with a latest member, never a fork
\* or a cycle.
SupersessionIsSound == SupersededMeansReplaced /\ SupersessionEnds

\* Runs, their audit trail and what certifiers were told agree on how each run
\* ended and what came of it, in rows of their types (completeCertificationRun and
\* submitCertificationResult race for the end).
EndsAreSound == TypeOK /\ RunsEndOnce /\ ToldIsStored
===============================================================================
