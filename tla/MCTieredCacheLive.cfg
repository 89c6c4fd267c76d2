SPECIFICATION FairSpec
CONSTANTS
  r1 = r1
  r2 = r2
  r3 = r3
  p1 = p1
  p2 = p2
  Requests = {r1, r2}
  Instances = {p1}
  Host <- OneHost
  Keys = {k1, k2}
  NoRequest = NoRequest
  NoKey = NoKey
  L1TTL = 1
  L2TTL = 2
  MaxFill = 1
  Stoppable = {p1}
  RedisFaults = TRUE
  MaxTime = 2
PROPERTIES GetReturns DeadEntriesGo KeepsPromise
