SPECIFICATION Spec
CONSTANTS
  h1 = h1
  h2 = h2
  c1 = c1
  c2 = c2
  v1 = v1
  v2 = v2
  Host = {h1, h2}
  Console = {c1, c2}
  Version = {v1, v2}
  None = None
SYMMETRY Symmetry
CONSTRAINT OneUpdates
INVARIANTS
  NotLockedOut
PROPERTIES
  CleanMeansConverged
  NoneLeftBehind
