SPECIFICATION Spec
CONSTANTS
  Console = {w1, w2}
  Role = {r1, r2, r3}
  None = None
SYMMETRY Symmetry
PROPERTIES
  ValidSessionsStay
  ClosedIsClosed
  OpenSweeps
CHECK_DEADLOCK FALSE
