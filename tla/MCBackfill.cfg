SPECIFICATION FairBootSpec
CONSTANTS
  p1 = p1
  p2 = p2
  en = en
  pt = pt
  empty = empty
  short = short
  long = long
  r1 = r1
  r2 = r2
  j1 = j1
  j2 = j2
  NoWork = NoWork
  None = None
  Keep = Keep
  Pages = {p1, p2}
  Languages = {en}
  Contents = {empty, short}
  Requests = {r1}
  Jobs = {j1, j2}
  BackfillJob = j1
  Retries = 3
  EmptyBody = empty
  Sections <- MCSections
  MaxLog = 7
  MaxRequests = 1
  MaxFaults = 1
INVARIANT BootTypeOK
INVARIANT GapsAreCounted
PROPERTY BackfillEnds
CHECK_DEADLOCK FALSE
