--------------------------- MODULE MCInstallation ---------------------------
(* One browser with the setup page, whose two requests may overlap, and       *)
(* administrators of the workspaces those requests leave behind.              *)
EXTENDS Installation, TLC

CONSTANTS k1, u1, i1, i2, p1, p2

\* Bound: nobody is at the setup page while settings are being changed; once
\* no more workspace fits, the requests that wait to insert one are not followed
\* any further.
Apart ==
  /\ (\E p \in Patches : patch[p].pc # "idle") =>
       wizard = NewPage /\ \A i \in Inits : init[i].pc = "idle"
  /\ Len(spaces) = MaxSpaces =>
       /\ \A i \in Inits : init[i].pc \in {"idle", "flip"}
       /\ wizard = NewPage \/ \E i \in Inits : init[i].pc = "flip"

MCSymmetry == Permutations(Inits) \union Permutations(Patches)
=============================================================================
