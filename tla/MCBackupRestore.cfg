SPECIFICATION Spec
CONSTANTS
  Proc = {p1, p2}
  MaxStamp = 3
  Foreign = {1}
  Retain = 1
  None = None
SYMMETRY Symmetry
PROPERTIES
  BackupKept
  StoreImplemented
  RestoreHoldsItsSource
  NoDumpDuringRestore
  UploadReconciles
VIEW View
