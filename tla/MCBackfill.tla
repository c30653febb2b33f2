----------------------------- MODULE MCBackfill -----------------------------
(* Small instances of Backfill: bodies of zero, one and two sections. *)
EXTENDS Backfill

CONSTANTS p1, p2, en, pt, empty, short, long, r1, r2, j1, j2

MCSections == [c \in Contents |-> CASE c = empty -> 0 [] c = short -> 1 [] c = long -> 2]
=============================================================================
