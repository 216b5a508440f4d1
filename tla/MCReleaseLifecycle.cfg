SPECIFICATION Spec
CONSTANTS
  t1 = t1
  t2 = t2
  h1 = h1
  h2 = h2
  Tag = {t1, t2}
  Host = {h1, h2}
  Release = {r1, r2, r3}
  Proc = {p1, p2}
  None = None
  Migrates <- MCMigrates
  HostsOf <- MCHostsOf
SYMMETRY Symmetry
INVARIANTS
  RecoveryMatchesContainers
  NoUncommittedTraffic
  RunningKeepsSecrets
  OfferedIsAccepted
PROPERTIES
  VerdictIsEarned
  ChainImplemented
VIEW View
