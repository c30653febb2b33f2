SPECIFICATION Spec
CONSTANTS
  w1 = w1
  w2 = w2
  w3 = w3
  Writers = {w1, w2, w3}
  Window = 2
  MaxTime = 3
  MaxCalls = 4
SYMMETRY MCSymmetry
INVARIANT TypeOK
INVARIANT SerialKeepsAll
INVARIANT SerialDebounced
INVARIANT SerialInOrder
PROPERTY AppendsOnly
CHECK_DEADLOCK FALSE
