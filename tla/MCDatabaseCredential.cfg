SPECIFICATION Spec
CONSTANTS
  r1 = r1
  r2 = r2
  r3 = r3
  Proc = {p1, p2}
  Release = {r1, r2, r3}
  Major = {17, 18}
  MajorOf <- MCMajorOf
  Password = {w1, w2, w3, w4, w5}
  NoUrl = NoUrl
  None = None
SYMMETRY Symmetry
INVARIANTS
  SacredVolume
PROPERTIES
  CredentialImplemented
  RotationAgrees
  CommittedCanLogIn
  LoginKept
VIEW View
