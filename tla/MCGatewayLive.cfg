SPECIFICATION FairSpec
CONSTANTS
  k1 = k1
  alias = alias
  lost = lost
  bad = bad
  v1 = v1
  v2 = v2
  text = text
  png = png
  octet = octet
  None = None
  Open = Open
  Requests = {r1, r2, r3}
  Keys = {k1}
  Locations = {k1}
  Location <- Canonical
  BadPaths = {}
  Unrouted = {}
  Lossy = {}
  Values = {v1}
  Oversize = {}
  Guess <- Extensionless
  Magic <- Magics
  CTypes = {text, png, octet}
  Octet = octet
  InitStore <- Filled
  Ops <- FlightOps
  MaxRestarts = 0
PROPERTY AnsweredUnlessStranded
\* Every request is served once, so the modelled system comes to rest.
CHECK_DEADLOCK FALSE
