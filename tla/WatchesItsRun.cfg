SPECIFICATION Spec
CONSTANTS
  Console = {w1, w2}
  Version = {1, 2}
  Branch = Branch
  Stamp = {1}
  ListLimit = 5
  MaxRuns = 2
  None = None
SYMMETRY Symmetry
INVARIANT SuccessIsItsOwn
CHECK_DEADLOCK FALSE
