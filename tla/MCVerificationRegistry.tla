------------------------- MODULE MCVerificationRegistry -------------------------
(* VerificationRegistry for TLC: three editor requests in flight. *)
EXTENDS VerificationRegistry, TLC

Symmetry ==
    Permutations(Requests) \union Permutations(Editors) \union Permutations(Subjects)
===============================================================================
