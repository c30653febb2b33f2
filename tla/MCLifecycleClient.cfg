SPECIFICATION FairSpec
CONSTANTS
  p1 = p1
  p2 = p2
  en = en
  pt = pt
  empty = empty
  short = short
  other = other
  long = long
  r1 = r1
  r2 = r2
  j1 = j1
  j2 = j2
  NoWork = NoWork
  None = None
  Keep = Keep
  Pages = {p1}
  Languages = {en}
  Contents = {empty, short, other}
  Requests = {r1}
  Jobs = {j1, j2}
  EmptyBody = empty
  Sections <- MCSections
  MaxLog = 12
  MaxRequests = 5
  MaxFaults = 0
PROPERTY PublishLeadsToIndexed
CHECK_DEADLOCK FALSE
