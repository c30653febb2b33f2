SPECIFICATION Spec
CONSTANTS
  en = en
  pt = pt
  tab1 = tab1
  tab2 = tab2
  s1 = s1
  s2 = s2
  None = None
  Threads = {en, pt}
  Tabs = {tab1}
  Sessions = {s1, s2}
  MaxTurns = 2
  MaxInFlight = 1
INVARIANT SeqIsPosition
INVARIANT CaughtUp
PROPERTY TranscriptOnlyGrows
CONSTRAINT Undisturbed
SYMMETRY MCSymmetry
