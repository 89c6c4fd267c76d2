SPECIFICATION HSpec
CONSTANTS
  q1 = q1
  q2 = q2
  q3 = q3
  q4 = q4
  p1 = p1
  p2 = p2
  anon = anon
  capped = capped
  zero = zero
  h1 = h1
  h2 = h2
  ip1 = ip1
  ip2 = ip2
  Requests = {q1, q2, q3}
  Instances = {p1, p2}
  Host <- TwoHosts
  Clients = {capped, zero}
  KeyHash <- ClientHash
  NoHash = NoHash
  Rate <- ClientRate
  IP <- ClientIP
  NoClient = NoClient
  AnonymousRPS = 1
  MaxAllowed = 2
  FailoverRPS = 1
  Window = 1
  Slack = 1
  MaxRetries = 1
  RedisFaults = TRUE
  MayCrash = {p2}
  MaxTime = 2
SYMMETRY Interchangeable
CHECK_DEADLOCK FALSE
INVARIANTS TypeOK WithinLimit FailoverBounded NoUndueRejection NoEternalCounter
