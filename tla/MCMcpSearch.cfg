SPECIFICATION SearchSpec
CONSTANTS
  p1 = p1
  en = en
  pt = pt
  short = short
  long = long
  j1 = j1
  j2 = j2
  c1 = c1
  NoWork = NoWork
  NoLang = NoLang
  NoText = NoText
  NoMessage = NoMessage
  Pages = {p1}
  Languages = {en, pt}
  Contents = {short, long}
  Jobs = {j1}
  Calls = {c1}
  Messages <- MCMessages
  TopKs = {3}
  MaxTopK = 2
  Sections <- MCSections
  MaxLog = 3
  MaxSaves = 2
SYMMETRY MCSymmetry
INVARIANT ResultsAreTheirHits
INVARIANT LoggedAsAnswered
