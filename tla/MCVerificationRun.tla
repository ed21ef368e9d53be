--------------------------- MODULE MCVerificationRun ---------------------------
(***************************************************************************)
(* VerificationRun for TLC: two verifiers, two handlers in flight.         *)
(***************************************************************************)
EXTENDS VerificationRun, TLC

\* Verifiers and handlers are interchangeable in every definition.
Symmetry == Permutations(Verifiers) \union Permutations(Requests)

\* A short and a long lease, so that a lease granted late can already be over
\* while another one is still running.
TwoDurations == {1, 2}
===============================================================================
