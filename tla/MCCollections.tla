--------------------------- MODULE MCCollections ---------------------------
(* A name, a name with a slash that reads as that name twice, and a name of  *)
(* which no slug can be made.                                                *)
EXTENDS Collections, TLC

CONSTANTS c1, c2, c3, p1, p2, w1, w2, r1, a, slash, accent

MCSlug == [n \in Names \union Titles |-> CASE n = accent -> NoSlug [] OTHER -> n]

MCSegments == [n \in Names |-> CASE n = slash -> <<a, a>> [] OTHER -> <<n>>]

MCSymmetry == 
  Permutations(Ids) \union Permutations(Pages) \union Permutations(Workspaces)
=============================================================================
