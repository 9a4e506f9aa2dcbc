SPECIFICATION Spec
CONSTANTS
  c1 = c1
  c2 = c2
  m1 = m1
  Bodies <- MCBodies
  None = None
  Controllers <- MCControllers
  Agents = {a1}
  Manifests = {m1}
  Tomls <- MCTomls
  MaxEpoch = 2
  MaxSent = 4
INVARIANTS OneIssuerPerEpoch SameHeadSameHistory LeaseFollowsLog
PROPERTIES ManifestsMoveUnderLease ImplementsTenures
CHECK_DEADLOCK FALSE
