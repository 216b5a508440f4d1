SPECIFICATION Spec
CONSTANTS
  s1 = s1
  s2 = s2
  h1 = h1
  h2 = h2
  a1 = a1
  a2 = a2
  b1 = b1
  Scope = {s1}
  Host = {h1, h2}
  Release = {a1, a2}
  ScopeOf <- MCOneScope
  HostsOf <- MCOneScopeHosts
  Rejected = {a1}
  Addr = {1}
  Reconciler = Reconciler
  None = None
  MaxChanges = 1
  MaxRenewals = 1
PROPERTIES
  NewCertificatesAreLoaded
CHECK_DEADLOCK FALSE
