SPECIFICATION TreeSpec
CONSTANTS
  c1 = c1
  c2 = c2
  c3 = c3
  p1 = p1
  p2 = p2
  a = a
  slash = slash
  accent = accent
  w1 = w1
  w2 = w2
  r1 = r1
  Null = Null
  NoSlug = NoSlug
  Ids = {c1, c2, c3}
  Pages = {p1, p2}
  Workspaces = {w1, w2}
  Names = {a, slash, accent}
  Titles = {a, accent}
  Slug <- MCSlug
  Segments <- MCSegments
  Requests = {r1}
SYMMETRY MCSymmetry
CHECK_DEADLOCK FALSE
INVARIANT EveryPageIsShown
INVARIANT EntriesApart
