SPECIFICATION HSpec
CONSTANTS
  r1 = r1
  r2 = r2
  r3 = r3
  p1 = p1
  p2 = p2
  Requests = {r1, r2, r3}
  Instances = {p1}
  Host <- OneHost
  Keys = {k1}
  NoRequest = NoRequest
  NoKey = NoKey
  L1TTL = 1
  L2TTL = 3
  MaxFill = 2
  Stoppable = {}
  RedisFaults = FALSE
  MaxTime = 6
SYMMETRY Interchangeable
INVARIANT MonotonicReads
