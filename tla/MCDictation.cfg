SPECIFICATION Spec
CONSTANTS
  Window = {w1, w2}
  None = None
  MaxUtt = 3
  MaxText = 2
SYMMETRY Symmetry
INVARIANTS
  WaitsOnce
PROPERTIES
  TakesBackItsOwn
  PassNotAfterRewrite
