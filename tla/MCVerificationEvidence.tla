------------------------- MODULE MCVerificationEvidence -------------------------
(* VerificationEvidence for TLC. *)
EXTENDS VerificationEvidence, TLC

CONSTANTS k, f1, f2, f3

OneDuration == {2}

\* A finding with and without evidence, and two that may correct it or one
\* another.
Bare(supersedes) == [refs |-> {}, supersedes |-> supersedes]

SomeFindings ==
    {<<f1, Bare(Nothing)>>, <<f1, [refs |-> {k}, supersedes |-> Nothing]>>,
     <<f2, Bare(f1)>>, <<f2, Bare(f3)>>, <<f3, Bare(f1)>>, <<f3, Bare(f2)>>}

Symmetry ==
    Permutations(Verifiers) \union Permutations(Requests) \union
    Permutations(Metas) \union Permutations({f2, f3})
===============================================================================
