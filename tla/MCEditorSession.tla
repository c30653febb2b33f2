-------------------------- MODULE MCEditorSession --------------------------
(* One author with one tab, two server tasks at a time. *)
EXTENDS EditorSession, TLC

CONSTANTS en, pt, tab1, tab2, s1, s2

\* Every property is about threads that are still undisturbed, and a thread
\* never becomes so again: behaviours are followed up to the first disturbance.
Undisturbed == \A t \in Threads : clean[t]

MCSymmetry == Permutations(Threads) \union Permutations(Tabs)
                \union Permutations(Sessions)
=============================================================================
