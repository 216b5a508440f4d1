SPECIFICATION Spec
CONSTANTS
  s1 = s1
  s2 = s2
  i1 = i1
  i2 = i2
  p1 = p1
  p2 = p2
  q1 = q1
  q2 = q2
  Scope = {s1, s2}
  Image = {i1, i2}
  Bundle = {p1, p2, q1, q2}
  Release = {p1, p2, q1, q2}
  ScopeOf <- MCScopeOf
  ImageOf <- MCImageOf
  BundleOf <- MCBundleOf
  Depth <- MCDepth
  DefaultDepth = 1
  NoRelease = NoRelease
  MaxReleases <- MCMaxReleases
INVARIANTS
  RetainedBundlesWhole
PROPERTIES
  OwnImagesStay
CHECK_DEADLOCK FALSE
