SPECIFICATION Spec
CONSTANTS
  r1 = r1
  r2 = r2
  r3 = r3
  p1 = p1
  p2 = p2
  Requests = {r1, r2, r3}
  Instances = {p1, p2}
  Host <- TwoHosts
  Keys = {k1}
  NoRequest = NoRequest
  NoKey = NoKey
  L1TTL = 1
  L2TTL = 1
  MaxFill = 1
  Stoppable = {p2}
  RedisFaults = TRUE
  MaxTime = 6
SYMMETRY Interchangeable
INVARIANTS TypeOK LoadsOnlyWhenCold SingleFlight
PROPERTY BoundedStaleness
