-------------------------- MODULE MCPageLifecycle --------------------------
(* Small instances of PageLifecycle: bodies of zero, one and two sections, *)
(* and two of one section to tell an edit from what it replaces.           *)
EXTENDS PageLifecycle, TLC

CONSTANTS p1, p2, en, pt, empty, short, other, long, r1, r2, j1, j2

MCSections == [c \in Contents |-> CASE c = empty -> 0 [] c \in {short, other} -> 1 [] c = long -> 2]

MCSymmetry == Permutations(Pages) \union Permutations(Languages)
                \union Permutations(Requests) \union Permutations(Jobs)
=============================================================================
