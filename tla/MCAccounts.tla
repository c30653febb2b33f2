----------------------------- MODULE MCAccounts -----------------------------
(* One address, two administrators, two clicks on the link, two tabs of which *)
(* one has two calls in progress.                                             *)
EXTENDS Accounts, TLC

CONSTANTS ana, a1, a2, l1, l2, t1, t2, k1, k2

MCTabOf == [k \in Calls |-> t1]

MCSymmetry == Permutations(Admins) \union Permutations(Links) \union Permutations(Calls)
=============================================================================
