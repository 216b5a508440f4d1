SPECIFICATION Spec
CONSTANTS
  s1 = s1
  s2 = s2
  h1 = h1
  h2 = h2
  a1 = a1
  a2 = a2
  b1 = b1
  Scope = {s1, s2}
  Host = {h1, h2}
  Release = {a1, a2, b1}
  ScopeOf <- MCScopeOf
  HostsOf <- MCHostsOf
  Rejected = {a1}
  Addr = {1, 2}
  Reconciler = Reconciler
  None = None
  MaxChanges = 1
  MaxRenewals = 0
INVARIANTS
  OwnershipIsSound
  ProxyCanRestart
PROPERTIES
  MarkerClearedWhenApplied
  SwitchImplemented
CHECK_DEADLOCK FALSE
