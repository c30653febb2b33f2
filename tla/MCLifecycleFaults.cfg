SPECIFICATION Spec
CONSTANTS
  p1 = p1
  p2 = p2
  en = en
  pt = pt
  empty = empty
  short = short
  other = other
  long = long
  r1 = r1
  r2 = r2
  j1 = j1
  j2 = j2
  NoWork = NoWork
  None = None
  Keep = Keep
  Pages = {p1}
  Languages = {en}
  Contents = {empty, short, long}
  Requests = {r1, r2}
  Jobs = {j1, j2}
  EmptyBody = empty
  Sections <- MCSections
  MaxLog = 4
  MaxRequests = 4
  MaxFaults = 1
SYMMETRY MCSymmetry
INVARIANT IndexTypeOK
INVARIANT RowsPointAtTheirRecord
INVARIANT OffsetsUnique
INVARIANT NeverPublishedNeverIndexed
INVARIANT StatusAgrees
INVARIANT PublishedIsRecorded
INVARIANT PublishedIsIndexed
PROPERTY IndexSpec
CHECK_DEADLOCK FALSE
