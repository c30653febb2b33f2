SPECIFICATION Spec
CONSTANTS
  ana = ana
  a1 = a1
  a2 = a2
  l1 = l1
  l2 = l2
  t1 = t1
  t2 = t2
  k1 = k1
  k2 = k2
  Users = {ana}
  Admins = {a1, a2}
  Links = {l1, l2}
  Tabs = {t1, t2}
  Calls = {k1, k2}
  TabOf <- MCTabOf
  MaxPairs = 2
SYMMETRY MCSymmetry
INVARIANT TypeOK
INVARIANT NoPairAfterDeactivation
PROPERTY AccountsOnlyAdvance
PROPERTY NothingLiveThrownAway
