------------------------------ MODULE MCCertification ------------------------------
(* CertificationRun for TLC. *)
EXTENDS CertificationRun, TLC

\* Results are independent of one another, and at most two withdrawals or
\* revocations show the races for one of them.
FewRetractions == Cardinality({e \in events' : e.kind \in {"withdrawn", "revoked"}}) <= 2

\* Created or about to be.
InputsInUse ==
    {run[k].input : k \in {j \in Runs : run[j] # Nothing}}
        \union {req[r].input : r \in {q \in Requests : req[q].pc = "insertRun"}}

\* Two inputs that differ in the subject, in the mode or in both: a third shows
\* nothing that these do not.
FewInputs == Cardinality(InputsInUse') <= 2

CertificationNext == Next /\ FewRetractions /\ FewInputs

CertificationSpec == Init /\ [][CertificationNext]_vars

Symmetry == Permutations(Requests) \union Permutations(Runs)
            \union Permutations(Subjects) \union Permutations(Modes)
            \union Permutations(Reasons)
===============================================================================
