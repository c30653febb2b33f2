SPECIFICATION SetupSpec
CONSTANTS
  k1 = k1
  u1 = u1
  i1 = i1
  i2 = i2
  p1 = p1
  p2 = p2
  Providers = {"openai", "ollama"}
  Keys = {k1}
  Urls = {u1}
  Inits = {i1, i2}
  Patches = {p1, p2}
  MaxSpaces = 2
CONSTRAINT Apart
SYMMETRY MCSymmetry
INVARIANT GateFollowsTable
INVARIANT StoredWereAccepted
INVARIANT AlwaysAWayIn
