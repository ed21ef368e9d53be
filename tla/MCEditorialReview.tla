--------------------------- MODULE MCEditorialReview ---------------------------
(* EditorialReview on two submissions, a submitter or reviewer without a role,
   an editor and an administrator. *)
EXTENDS EditorialReview, TLC

CONSTANTS u1, e1, a1

Roles == u1 :> "USER" @@ e1 :> "EDITOR" @@ a1 :> "ADMIN"

Symmetry == Permutations(Submissions) \union Permutations(Notes)
===============================================================================
