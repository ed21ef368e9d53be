-------------------------- MODULE VerificationRegistry --------------------------
(***************************************************************************)
(* The editor's side of apps/web/src/lib/scientific-verification.ts: the   *)
(* status of a verifier, its machine credentials, protocol retirement, and *)
(* the idempotent creation of a verification run.                          *)
(*                                                                         *)
(* Requests of several editors interleave.  A handler's reads and its      *)
(* writes are separate steps, also when an interactive transaction holds   *)
(* both, because PostgreSQL's default isolation (read committed) neither   *)
(* locks the row a plain SELECT returned nor repeats the check.  Operators *)
(* named Broken... are deliberate bugs for the mutation runs.              *)
(***************************************************************************)
EXTENDS Naturals, Sequences, FiniteSets

CONSTANTS
    Verifiers,
    Editors,        \* user ids, which revocations and audit rows name
    Requests,       \* editor requests in flight at once
    Credentials,    \* credential ids that may be issued
    Keys,           \* idempotency keys of verification requests
    Subjects,       \* what sameRunRequest compares: subject, protocol, profile
    Nothing

\* A VerifierCredential row: its owner, and who revoked it if anybody did.
CredentialRows == [verifier : Verifiers, revokedBy : Editors \union {Nothing}]

ASSUME RegistryConstants ==
    Nothing \notin Editors \union Subjects \union Verifiers \union CredentialRows

VARIABLES
    verifier,       \* Verifier.status
    credential,     \* VerifierCredential rows: owner and revoker
    protocol,       \* VerificationProtocol.status
    runs,           \* VerificationRun rows by idempotency key
    audits,         \* AuditEvent rows that claim a revocation: credential, actor
    req,            \* local variables of the request handlers
    answers         \* history: runs a creator was told it had requested

vars == <<verifier, credential, protocol, runs, audits, req, answers>>

VerifierStatus == {"active", "suspended", "retired"}

Idle == [pc |-> "idle"]

Init ==
    /\ verifier = [v \in Verifiers |-> "active"]
    /\ credential = [c \in Credentials |-> Nothing]
    /\ protocol = "active"
    /\ runs = [k \in Keys |-> Nothing]
    /\ audits = {}
    /\ req = [r \in Requests |-> Idle]
    /\ answers = {}

Goto(r, local) == req' = [req EXCEPT ![r] = local]
Finish(r) == Goto(r, Idle)

\* The handler throws or dies between two of its queries.
Abandon(r) ==
    /\ req[r] # Idle
    /\ Finish(r)
    /\ UNCHANGED <<verifier, credential, protocol, runs, audits, answers>>

-----------------------------------------------------------------------------
(* setVerifierStatus: a transaction of a read and an unconditional update *)

ReadVerifier(r, v, s) ==
    /\ req[r] = Idle
    /\ verifier[v] \notin {s, "retired"}
    /\ Goto(r, [pc |-> "setStatus", verifier |-> v, status |-> s])
    /\ UNCHANGED <<verifier, credential, protocol, runs, audits, answers>>

SetStatus(r) ==
    /\ req[r].pc = "setStatus"
    /\ verifier' = [verifier EXCEPT ![req[r].verifier] = req[r].status]
    /\ Finish(r)
    /\ UNCHANGED <<credential, protocol, runs, audits, answers>>

-----------------------------------------------------------------------------
(* issueVerifierCredential and revokeVerifierCredential *)

BeginIssue(r, v) ==
    /\ req[r] = Idle
    /\ verifier[v] = "active"
    /\ Goto(r, [pc |-> "issue", verifier |-> v])
    /\ UNCHANGED <<verifier, credential, protocol, runs, audits, answers>>

Issue(r, c) ==
    /\ req[r].pc = "issue"
    /\ credential[c] = Nothing
    /\ credential' = [credential EXCEPT ![c] =
          [verifier |-> req[r].verifier, revokedBy |-> Nothing]]
    /\ Finish(r)
    /\ UNCHANGED <<verifier, protocol, runs, audits, answers>>

BrokenBeginRevoke(r, e, c) ==    \* the audit row is written first
    /\ req[r] = Idle
    /\ credential[c] # Nothing
    /\ audits' = audits \union {<<c, e>>}
    /\ IF credential[c].revokedBy = Nothing
       THEN Goto(r, [pc |-> "revoke", editor |-> e, credential |-> c])
       ELSE Finish(r)
    /\ UNCHANGED <<verifier, credential, protocol, runs, answers>>

\* A credential that is already revoked is not updated again, but the request
\* is audited all the same.
BeginRevoke(r, e, c) ==
    /\ req[r] = Idle
    /\ credential[c] # Nothing
    /\ Goto(r, [pc |-> IF credential[c].revokedBy = Nothing THEN "revoke" ELSE "audit",
                editor |-> e, credential |-> c])
    /\ UNCHANGED <<verifier, credential, protocol, runs, audits, answers>>

BrokenCredentialGuard(c) == TRUE    \* no row guard

\* The row guard freezes the revocation; a second one raises (Abandon).
CredentialGuard(c) == credential[c].revokedBy = Nothing

Revoke(r) ==
    /\ req[r].pc = "revoke"
    /\ CredentialGuard(req[r].credential)
    /\ credential' = [credential EXCEPT ![req[r].credential].revokedBy = req[r].editor]
    /\ Goto(r, [req[r] EXCEPT !.pc = "audit"])
    /\ UNCHANGED <<verifier, protocol, runs, audits, answers>>

BrokenAuditRevocation(r) ==    \* the owner of the credential is recorded as the actor
    /\ req[r].pc = "audit"
    /\ audits' = audits \union {<<req[r].credential, credential[req[r].credential].verifier>>}
    /\ Finish(r)
    /\ UNCHANGED <<verifier, credential, protocol, runs, answers>>

AuditRevocation(r) ==
    /\ req[r].pc = "audit"
    /\ audits' = audits \union {<<req[r].credential, req[r].editor>>}
    /\ Finish(r)
    /\ UNCHANGED <<verifier, credential, protocol, runs, answers>>

\* retireVerificationProtocol; the row guard refuses every way back.
RetireProtocol ==
    /\ protocol = "active"
    /\ protocol' = "retired"
    /\ UNCHANGED <<verifier, credential, runs, audits, req, answers>>

-----------------------------------------------------------------------------
(* createVerificationRun *)

Replay(r, key, subject) ==
    /\ runs[key] = subject
    /\ answers' = answers \union {<<key, subject>>}
    /\ Finish(r)
    /\ UNCHANGED <<verifier, credential, protocol, runs, audits>>

\* The row under the key is compared first; another request's key conflicts.
FindRun(r, key, subject) ==
    /\ req[r] = Idle
    /\ \/ Replay(r, key, subject)
       \/ /\ runs[key] = Nothing
          /\ Goto(r, [pc |-> "checkProtocol", key |-> key, subject |-> subject])
          /\ UNCHANGED <<verifier, credential, protocol, runs, audits, answers>>

CheckProtocol(r) ==
    /\ req[r].pc = "checkProtocol"
    /\ protocol = "active"
    /\ Goto(r, [req[r] EXCEPT !.pc = "insertRun"])
    /\ UNCHANGED <<verifier, credential, protocol, runs, audits, answers>>

BrokenInsertRun(r) ==    \* whoever lost the race is told the run is its own
    /\ req[r].pc = "insertRun"
    /\ runs' = [runs EXCEPT ![req[r].key] = IF @ = Nothing THEN req[r].subject ELSE @]
    /\ answers' = answers \union {<<req[r].key, req[r].subject>>}
    /\ Finish(r)
    /\ UNCHANGED <<verifier, credential, protocol, audits>>

\* The unique key lets one insert through; the losers compare with its row.
InsertRun(r) ==
    /\ req[r].pc = "insertRun"
    /\ LET key == req[r].key
           subject == req[r].subject
       IN  \/ Replay(r, key, subject)
           \/ /\ runs[key] = Nothing
              /\ runs' = [runs EXCEPT ![key] = subject]
              /\ answers' = answers \union {<<key, subject>>}
              /\ Finish(r)
              /\ UNCHANGED <<verifier, credential, protocol, audits>>

Next ==
    \/ RetireProtocol
    \/ \E r \in Requests :
          \/ \E v \in Verifiers, s \in VerifierStatus : ReadVerifier(r, v, s)
          \/ SetStatus(r)
          \/ \E v \in Verifiers : BeginIssue(r, v)
          \/ \E c \in Credentials : Issue(r, c)
          \/ \E e \in Editors, c \in Credentials : BeginRevoke(r, e, c)
          \/ Revoke(r)
          \/ AuditRevocation(r)
          \/ \E k \in Keys, s \in Subjects : FindRun(r, k, s)
          \/ CheckProtocol(r)
          \/ InsertRun(r)
          \/ Abandon(r)

Spec == Init /\ [][Next]_vars

-----------------------------------------------------------------------------
(* Properties *)

TypeOK ==
    /\ verifier \in [Verifiers -> VerifierStatus]
    /\ credential \in [Credentials -> CredentialRows \union {Nothing}]
    /\ protocol \in {"active", "retired"}
    /\ runs \in [Keys -> Subjects \union {Nothing}]
    /\ audits \subseteq Credentials \X Editors
    /\ DOMAIN req = Requests
    /\ answers \subseteq Keys \X Subjects

\* A revocation is an accountable act: whoever revoked a credential first stays
\* its recorded revoker, though both editors may have read it unrevoked.
FirstRevocationStands ==
    [][\A c \in Credentials :
          (credential[c] # Nothing /\ credential[c].revokedBy # Nothing)
          => credential'[c] = credential[c]]_vars

\* The audit trail never reports a revocation that did not take place, although
\* the audit row is written in a transaction of its own after the update.
AuditedMeansRevoked ==
    \A a \in audits : credential[a[1]] # Nothing /\ credential[a[1]].revokedBy # Nothing

\* Every creator that was answered with a run under its key, created or
\* replayed, finds there exactly the request it made.
RunAnswersNameTheRow == \A a \in answers : runs[a[1]] = a[2]

\* The registry's records account for what was done: rows of their types, audited
\* revocations that took place, runs that are what their creators were told.
RecordsAreAccounted == TypeOK /\ AuditedMeansRevoked /\ RunAnswersNameTheRow

\* scientific-verification.ts:119, the conflict setVerifierStatus reports: "A
\* retired verifier cannot be reactivated."
RetiredIsFinal ==
    [][\A v \in Verifiers : verifier[v] = "retired" => verifier'[v] = "retired"]_vars
===============================================================================
