-------------------------- MODULE MCVersionHistory --------------------------
(* Small instances of VersionHistory. *)
EXTENDS VersionHistory, TLC

CONSTANTS w1, w2, w3

MCSymmetry == Permutations(Writers)
=============================================================================
