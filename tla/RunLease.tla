------------------------------- MODULE RunLease -------------------------------
(***************************************************************************)
(* What one VerificationRun row promises about its lease, independently of *)
(* the request handlers that implement it (docs/scientific-verification.md *)
(* "Claim and lease").                                                     *)
(*                                                                         *)
(* The row is granted to one verifier at a time.  A grant is replaced only *)
(* after it has expired, and every replacement raises the generation.  The *)
(* row moves along requested -> claimed -> running -> completed, with      *)
(* failed and cancelled as the other ends, and a terminal row is final.    *)
(*                                                                         *)
(* VerificationRun is shown to implement this module; VerificationEvidence *)
(* uses it as the environment in which artifacts and findings are written. *)
(***************************************************************************)
EXTENDS Integers

CONSTANTS
    Verifiers,      \* verifier identities, as authenticated by their credential
    NoVerifier,     \* the null claimedVerifierId
    MaxTime,        \* the clock stops here (bound)
    Durations,      \* lease lifetimes a claimant may request
    MaxGeneration   \* claims admitted before the model stops granting (bound)

ASSUME LeaseConstants ==
    /\ NoVerifier \notin Verifiers
    /\ MaxTime \in Nat
    /\ Durations \subseteq Nat \ {0}
    /\ MaxGeneration \in Nat

VARIABLES
    now,    \* the clock shared by the application and the database
    run     \* the row: status, claimant, generation, lease expiry

leaseVars == <<now, run>>

Leased   == {"claimed", "running"}
Open     == {"requested"} \union Leased
Terminal == {"completed", "failed", "cancelled"}
Status   == Open \union Terminal

\* A live lease: the claimant may act under it.
Live == run.status \in Leased /\ run.expiresAt > now

\* Expiry 0 is the null lease of a run nobody has claimed.
LeaseInit ==
    /\ now = 0
    /\ run = [status     |-> "requested",
              claimant   |-> NoVerifier,
              generation |-> 0,
              expiresAt  |-> 0]

Tick == now < MaxTime /\ now' = now + 1 /\ UNCHANGED run

\* The expiry is counted from the moment the claim's handler started, which
\* may lie in the past when the grant is written.
Expiries == {t + d : t \in 0 .. now, d \in Durations}

Grant(v, expiry) ==
    /\ run.status \in Open
    /\ ~Live
    /\ run.generation < MaxGeneration
    /\ run' = [status     |-> "claimed",
               claimant   |-> v,
               generation |-> run.generation + 1,
               expiresAt  |-> expiry]
    /\ UNCHANGED now

\* The other status changes leave the grant as it is.
Move(from, to) ==
    /\ run.status \in from
    /\ run' = [run EXCEPT !.status = to]
    /\ UNCHANGED now

Start    == Move({"claimed"}, "running")
Complete == Move({"running"}, "completed")
Fail     == Move(Leased, "failed")
Cancel   == Move(Open, "cancelled")

LeaseNext ==
    \/ Tick
    \/ \E v \in Verifiers, e \in Expiries : Grant(v, e)
    \/ Start
    \/ Complete
    \/ Fail
    \/ Cancel

LeaseSpec == LeaseInit /\ [][LeaseNext]_leaseVars
===============================================================================
