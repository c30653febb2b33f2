------------------------- MODULE AppendOnlyHistory --------------------------
(***************************************************************************)
(* What page_version_history promises: an audit trail that only grows at   *)
(* its end.  Entries are numbered 1, 2, 3, ... without a gap; none is ever *)
(* changed, removed or given another number.                               *)
(***************************************************************************)
EXTENDS Sequences

CONSTANT Snapshots

VARIABLE entries

Init == entries = <<>>

Next == \E s \in Snapshots : entries' = Append(entries, s)

Spec == Init /\ [][Next]_entries
=============================================================================
