SPECIFICATION Spec
CONSTANTS
  k1 = k1
  alias = alias
  lost = lost
  bad = bad
  v1 = v1
  v2 = v2
  text = text
  png = png
  octet = octet
  None = None
  Open = Open
  Requests = {r1, r2, r3}
  Keys = {k1, lost, bad}
  Locations = {k1, lost, bad}
  Location <- Canonical
  BadPaths = {bad}
  Unrouted = {lost}
  Lossy = {}
  Values = {v1}
  Oversize = {}
  Guess <- Extensionless
  Magic <- Magics
  CTypes = {text, png, octet}
  Octet = octet
  InitStore <- Empty
  Ops <- ImmutableOps
  MaxRestarts = 1
SYMMETRY Symmetry
INVARIANTS
  TypeOK
  CacheAgreesWithStore
  FreshReads
  AckedWritesVisible
  OverlapNeedsLostLeader
  CachedBeforeLanding
  CountersReconcile
PROPERTY ImplementsProxy
\* Every request is served once, so the modelled system comes to rest.
CHECK_DEADLOCK FALSE
