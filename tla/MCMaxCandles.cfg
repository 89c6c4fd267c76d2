SPECIFICATION Spec
CONSTANTS
    r1 = r1
    r2 = r2
    i1 = i1
    candles = candles
    stats = stats
    s1 = s1
    Requests <- Pair
    Instances = {i1}
    Host <- OneHost
    Caches = {candles, stats}
    Candles = candles
    Subjects <- OnePair
    NoQuestion = NoQuestion
    Limits = {0, 1}
    DefaultLimit = 2
    MaxLimit = 3
    TTL = 1
    MaxFill = 1
    MaxDelay = 1
    RedisFaults = TRUE
    MaxTime = 30
INVARIANT MaxCandles
