---------------------------- MODULE MCLiveEditor ----------------------------
(***************************************************************************)
(* Two pages, two comments on two blocks, all three vendors.               *)
(***************************************************************************)
EXTENDS LiveEditor, TLC

CONSTANTS p1, p2, c1, c2, b1, b2

MCSymmetry == Permutations({p1, p2}) \union Permutations({c1, c2})
              \union Permutations({b1, b2})
=============================================================================
