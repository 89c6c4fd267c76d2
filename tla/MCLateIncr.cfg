SPECIFICATION Spec
CHECK_DEADLOCK FALSE
CONSTANTS
  q1 = q1
  q2 = q2
  q3 = q3
  q4 = q4
  p1 = p1
  p2 = p2
  anon = anon
  capped = capped
  zero = zero
  h1 = h1
  h2 = h2
  ip1 = ip1
  ip2 = ip2
  Requests = {q1, q2}
  Instances = {p1}
  Host <- OneHost
  Clients = {anon}
  KeyHash <- ClientHash
  NoHash = NoHash
  Rate <- ClientRate
  IP <- ClientIP
  NoClient = NoClient
  AnonymousRPS = 1
  MaxAllowed = 2
  FailoverRPS = 2
  Window = 2
  Slack = 1
  MaxRetries = 1
  RedisFaults = FALSE
  MayCrash = {}
  MaxTime = 3
INVARIANT LimitPerWindow
