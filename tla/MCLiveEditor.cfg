SPECIFICATION Spec
CONSTANTS
  p1 = p1
  p2 = p2
  c1 = c1
  c2 = c2
  b1 = b1
  b2 = b2
  None = None
  Pages = {p1, p2}
  Comments = {c1, c2}
  Blocks = {b1, b2}
  Vendors = {"openai", "anthropic", "ollama"}
  MaxDocs = 2
  MaxSaves = 2
  MaxMoves = 2
SYMMETRY MCSymmetry
INVARIANT DraftWhole
INVARIANT CommentsFollowTheirTurn
PROPERTY LoadedIsOnScreen
CHECK_DEADLOCK FALSE
