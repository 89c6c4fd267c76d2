# Verification of orderbook-api

TLA+ models of the order book API (`src/`, Go), the TLC configurations that check them on
small instances, and TLAPS proofs of what matters most for every instance. Line numbers
refer to `src/internal/...` unless a path says otherwise. `PROJECT.json` maps every
definition to the lines it stands for.

## 1. Inventory

A read-only HTTP API over a PostgreSQL database of orders, with Redis as a shared cache and
counter store. Several processes may run over one Redis and one database. The repository has
no tests; comments and the API's annotations are the only statements of intent.

| component | state it keeps | operations | interacts with |
|---|---|---|---|
| order book cache `cache/orderbook.go` | in-memory entries per key (L1), Redis entries (L2), a singleflight group, a sweeper goroutine | `Get`, `getL1`, `setL1`, `cleanup`, `Close` | handlers, Redis, the order repository |
| batch context cache `cache/batch_context.go` | the same, with wallets and a status as key | the same | the batch handler |
| Redis-only caches `cache/{candles,trading_stats,coin_price,agent_leaderboard}.go` | Redis entries, a singleflight group each | `Get` | handlers, Redis, repositories |
| rate limiter `middleware/rate_limiter.go` | Redis counters with a lifetime; a map per process for outages | the middleware, `allowFailover` | Redis, authentication |
| order book handler `handler/orderbook.go` | none; works on slices the cache hands out | `GetOrderBook`, `filterOutliers`, `aggregateLevels`, `buildUSDFilter` | order book cache, coins |
| request pipeline `cmd/main.go`, `middleware/*`, `handler/router.go` | the request's contexts, gin's response | recovery, log, session, API key, limiter, deadline, `UpdateLastUsed` in the background | all handlers, the API-key table |
| order queries and their handlers `repository/order.go`, `handler/{order,coin_price,trading_stats,candles,agent_leaderboard}.go` | none | several statements per response, pages, merging of prices, the filter on small orders | database (written by another program), caches |
| coins and vaults `handler/{coins,vault}.go`, `repository/{coin,vault}.go` | none | lists, single rows, lookups of coins | database |
| lifecycle `cmd/main.go`, `services/services.go` | open connections | start, signal, `Close` in order | everything |
| configuration, logger, pool, models, schemas, generated docs | none of their own | wiring and wording | - |

**What is hard here.** Goroutines that miss the cache together and share one load; copies
between two levels of cache that each grant a full lifetime; slices handed to several
handlers of which some write in place; Redis calls whose replies are lost and which the
client library repeats; calls that are two Redis commands where they should be one; a context
that expires under a handler; a process that closes its connections under running requests;
responses put together from several statements that no transaction ties together, while another
program writes; pages cut from a table that grows; integer prices, rounded bucket widths and
sums that wrap. `PROJECT.json` lists each at its line, with the property that would catch it
going wrong or the reason why there is none.

**What makes each component correct.** Caches: what is handed out is never older than a known
bound, the database is not read for what memory holds, one load at a time, everyone gets an
answer, dead entries go, rows are those of the question asked. Slices: what a caller gets is
its own. Limiter: never more than the limit per window over all processes, nobody refused
below it, counters go away. Handler: order, completeness and honesty of what is shown.
Pipeline: nobody is served under a false name, one answer per request, handlers come back.
Queries: figures of one response contradict each other on one side only, an order that nobody
touches is shown where it belongs, a walk through a list misses nothing.

## 2. Modules

    BoundedReads  <== TieredCache -- TieredCacheHistory -- TieredCacheProofs -- TieredCacheRefinement
                                                      |  MCTieredCache -- MCTieredCacheHistory
    SharedLevels  -- SharedLevelsProofs               |  MCSharedLevels
    RateLimiter   -- RateLimiterHistory -- RateLimiterProofs
                                                      |  MCRateLimiter -- MCRateLimiterHistory
    RequestPipeline -- RequestPipelineProofs          |  MCRequestPipeline
    RedisCache    -- RedisCacheProofs                 |  MCRedisCache
    BookLevels    -- OrderBook -- OrderBookProofs     |  MCOrderBook
    OrderTable -- WalletReads, PairReads, Listing -- OrderReads -- OrderReadsProofs
                                                      |  MCOrderReads

(`--` is EXTENDS, `<==` implements.) How they cut the system: `RequestPipeline` takes the
limiter's verdict and a handler's query as choices; `RateLimiter`, the caches and `OrderReads`
decide them. `OrderReads` reads the database where a handler would ask a cache first;
`TieredCache` and `RedisCache` say how old what they answer may be. `OrderBook` takes the two
sides as they come out of the cache; `PairReads` says which orders are in them and `SharedLevels`
that the slices are the caller's own.

### BoundedReads - what the caches promise

The abstract specification: to its callers a cache is one store that may lag behind. A call for
a key is answered with a snapshot that the database really showed no longer ago than `Bound`,
or refused, or lost with its process. `Serve` moves any number of callers at once, because those
who wait for one flight get its result together and those of one process die together. No
levels, flights or Redis. A snapshot is a key and a moment, and a call is answered with one of its
own key only. `TieredCache!KeepsPromise` is this specification under the mapping
`Phase` (idle, calling, answered, refused, from where a goroutine is in `Get`) and `Answer`.

### TieredCache - both two-level caches

The order book cache and the batch context cache have the same control, so one module stands
for both. A snapshot is the key it answers and the moment at which the database was read: that is
all the properties ask of it. The key is put into it by the query alone (`subject`, in entries `of`)
and travels with it through both levels and the flight, next to the key under which each of them
files it, so that a snapshot filed or handed out under another key shows. Each step of `Get` that touches something shared is an action: the look at L1
(`GetHit`, `GetMiss`), entering singleflight (`Lead`, `Join`), the second look inside the
flight (`CheckHit`, `CheckMiss`), Redis GET (`RedisHit`, `RedisMiss`), the query (`LoadOk`,
`LoadFails`), Redis SET (`RedisSet`, `RedisSetFails`), the store into L1 (`SetL1`), and
singleflight handing out its result (`Finish`). Around them: the sweeper (`Cleanup`), shutdown
(`Close`, after which Redis calls of the process fail), death and restart (`Restart`), the
clock (`Tick`, which waits for flights that have reached the deadline of their context).

Modelled as in the code, and easy to get wrong: the loader's error or cancelled context fails
everyone who waits; a Redis error is a miss, a failed SET is ignored; an L1 entry is dead only
strictly after its time, a Redis entry at its time; an entry copied from Redis gets a full L1
lifetime.

`TieredCacheHistory` adds what no code remembers: per key the newest snapshot handed out so far, and
per caller what that was when he called. `MonotonicReads` is stated over these two.

### SharedLevels - who owns a slice

Slices as references into a heap. The cache copies into and out of memory and after
singleflight; handlers for the opposite pair turn what they got round in place, one exchange
per step, interleaved with everything else. `filterOutliers` hands slices shorter than three
levels on as they are, and longer ones whose median price is 0 - possible only if the first price
is 0 -, so that the reversal may hit the very array the cache returned. Which
levels are dropped or merged is left to `OrderBook`. Time is left out: the entry may expire at
any step, which only adds behaviours.

### RateLimiter

`Begin` picks the counter, the limit and the window from one reading of the clock; `Incr` is
INCR with the verdict, `IncrReplyLost` an INCR that Redis executed and whose reply was lost
(go-redis repeats it), `IncrFails` an unreachable Redis, `Expire` and `ExpireFails` the second
command for a counter at one, `AllowFailover` the in-memory fallback. Processes die between any
two steps. A restarted process is another member of `Instances`. `RateLimiterHistory` adds the variables
`faulted`, which remembers whether a call has failed or a process died, and `late`, the requests whose
INCR reached Redis when the counter of their window may have run out (`PastUse`).

How long an INCR takes is not bounded: it runs before `RequestTimeoutMiddleware` (main.go:90,
router.go:17), services.go:52 sets no timeouts, so that go-redis's own of some seconds and its three
repetitions apply, and the counter outlives its window by one second (rate_limiter.go:112-115). A
request that comes later than that starts the counter again at one. `late_incr` shows that the limit
is then exceeded; `WithinLimit` says that this is the only way: the requests that are not late are never
more than the limit. The clocks of the processes and of Redis are taken to be one.

### BookLevels, OrderBook

`filterOutliers` and `aggregateLevels` as operators: the median by running amount, the range
around it, the tick rounded down, buckets in the order in which they open, weighted prices
rounded down, int64 sums that wrap. `OrderBook` runs a request through them: parameters, both
sides from the cache, filter, aggregate, reverse, running sums, spread. What goes before - the
two coins, `buildUSDFilter` and the statement - is in `PairReads`; `Refuse` stands for all its 400s.

`BookAssumption` says what a side is that the cache hands out: levels whose prices ascend strictly
and which hold at most one order for each unit of amount. That is the statement's doing
(repository/order.go:278-311): it selects orders with an amount above zero, which is a bigint,
groups them by price and sorts by it. Merged levels and running sums are held to int64 by TypeOK, on
all sides: a sum that left it would show. `AtMostLimit` is what the documentation promises of the
number of levels and fails (`MCAtMostLimit.cfg`); `AtMostTwiceLimit` is what holds.

### RequestPipeline

The middlewares in the order in which main.go adds them. What a request carries is explicit:
its database session, its identity, its expired deadline, every status written. gin keeps the
first status while every body is sent, so `writes` is a sequence. Facts the model keeps:

- authentication runs before the deadline is set, so a lookup that hangs is not bounded;
- every error of the lookup is answered 401, a database being closed included, and every error
  of a coin's lookup 400;
- an answer that lies in memory is given after the deadline and without a database, too;
- the 504 of `RequestTimeoutMiddleware` comes after the handler has answered and never becomes
  the status: it is a second body behind a 500 or a 200 (`MCSecondBody.cfg`);
- a panic unwinds `RequestLogger` before it logs; `RecoveryLogger` sets "error" for nobody
  (`MCPanicUnlogged.cfg`);
- `main` closes the database under running requests and exits without waiting for them.

`AnsweredOnce` says of a finished request exactly which bodies and log lines it has left, both of the
above included: two bodies if and only if a handler answered under a deadline that had passed, no
line only after a panic. A client that goes away while its key is looked up is not modelled: nobody
reads the 401 that the cancelled lookup ends in.

### RedisCache - the four Redis-only caches

One control for the four. A key is what the code puts into it: cache, subject (pair and
interval, or pair and period, coin, kind of leaderboard) and for candles the second at which
the window begins. Limits are not in it. Rows are the question they answer and the moment they
were read at. A candles entry can only be hit within the second of its key, so that its
lifetime of 30 s hardly matters.

### OrderTable, WalletReads, PairReads, Listing, OrderReads - the queries

Nothing in the repository writes orders. `OrderTable` holds the table and the other program that
does: `Create` in the order of ids, `Move` among statuses, `Fill`. A statement sees the table at
one moment; between two statements of a request that program goes on. One request at a time is
enough, since requests only read. A count is modelled as the set of orders it counts and a sum as
the set it adds up, which tells more than the number. Two history variables serve the properties:
`existed`, the orders there were when the request came, and `steady`, those nobody has touched
since (kept for the kinds of request in `Watched` only, to keep the states few).

- `WalletReads`: `Stats` (counts per status, then the total), `DeployedTotals`, `BatchContext`
  (orders, rows of wallets, totals; the second is left out when the first finds nothing). The totals
  are those of two statuses, `deployed` and `pending_match`, as the statements have it; the
  documentation speaks of deployed orders only (`MCDeployedTotals.cfg`).
- `PairReads`: the order book's coins, `min_order_usd` and `buildUSDFilter` - a threshold that is
  no int64 is dropped -, both sides; `GetPrice`, whose counter coins are looked up in any order
  (the order of a Go map) and whose failed lookups drop a pair from a 200; `GetTradingStats`,
  whose periods are read shortest first, from the database (`PeriodLoad`) or as some earlier
  request has left them in the cache (`PeriodHit`). A failed lookup of a pair's coin is taken for
  an unknown coin: 400; a failed lookup of a price's coin: 404.
- `Listing`: pages of orders, coins and vaults by OFFSET and LIMIT. Rows that agree on all sort
  columns come in an order that may differ from page to page; a column that `GetList` does not
  know is a 500, and so is a column with a minus in front of it, which the documentation offers
  (`MCMinusSort.cfg`). A client walks from page to page until one is empty. Single rows by id. The
  leaderboard, whose pages are cut out of one cached list.

**Assumptions**, all about the program that writes: orders are never deleted, ids and
`created_at` ascend in the order of insertion, a finished order stays finished, an order's wallet,
coins and price do not change, coins and vaults do not change. Every order has a price, a natural
number: `GetCandles` leaves out rows whose `price_rate` is NULL and `GetOrderBook` does not, what such a
row makes of the book is not modelled.

## 3. Runs

| run | instance | shows |
|---|---|---|
| `tiered_cache` | 3 goroutines in 2 processes, 1 key, lifetimes and fills of 1, clock to 6; Redis faults, one process may be shut down, both die | `LoadsOnlyWhenCold`, `SingleFlight`, `BoundedStaleness` |
| `tiered_cache_history` | 3 goroutines, 1 process, reliable Redis, restarts | `MonotonicReads` |
| `tiered_cache_live` | 2 goroutines, 2 keys, faults, shutdown, restarts, fairness | `GetReturns`, `DeadEntriesGo`; `KeepsPromise`: it implements BoundedReads, each key answered with its own snapshots |
| `limiter` | 3 requests of two clients (stored limit above the cap, stored limit zero), 2 processes, one dies; 1 repetition, limits 2 and 1, windows and slack of one second as in the code, clock to 2; an INCR may take as long as the clock runs | `WithinLimit`, `FailoverBounded`; as long as nothing has failed `NoUndueRejection`, `NoEternalCounter` |
| `order_book` | all sides over two ladders of four prices with amounts 1 and 4, limits 0, 1, 2, 3, 7, int64 of -10..9 | `BestFirst`, `TopOfBook`, `CumulativeHonest`, `AtMostTwiceLimit` |
| `shared_levels` | 3 requests for one key, 2 as bids; books of 2 and 3 prices | `Exclusive`, `ReadInOrder`, `CacheUntouched` |
| `redis_cache` | 2 goroutines, candles and statistics of one pair, entries that live 2, fills and delays of 1, faults, restarts | `OwnSubject`, `CandlesOfThisWindow`, `BoundedAge` |
| `pipeline` | 2 requests, one with a database that may fail or hang, a key that may be revoked | `NoSideDoor`, `RefusedForCause`, `AnsweredOnce`, `HandlerReturns` |
| `order_reads` | 3 orders of 2 wallets between TON, a stablecoin and another coin, 2 periods, 8 lists to walk, pages of up to 2 | `StatsAddUp`, `BatchAgrees`, `SmallOrdersHidden`, `PairsWhole`, `PeriodsNest`, `WalkMissesNothing` |
| `max_candles` | violation | `MaxCandles`: requests of one second share rows loaded for another's limit |
| `last_used` | violation | `LastUsedRecorded`: the update has no database session in its context |
| `late_incr` | violation; 2 requests of an anonymous client with limit 1, windows of 2, nothing fails | `LimitPerWindow`: an INCR that comes when its window's counter has gone is let through beyond the limit that rate_limiter.go:43-44 states |

**Where code and documentation part.** Further statements of comments and annotations that the code does
not keep have a definition and a configuration of their own, for TLC to show a counterexample:
`tlc -config <cfg> <module>`. They are not among the runs of `PROJECT.json`; its findings name the passing
property that says what the code does instead.

| configuration | module | what is said, and what TLC shows |
|---|---|---|
| `MCPanicUnlogged.cfg` | MCRequestPipeline | `EveryRequestLogged`: logger.go:24 and 146 promise a log line for each request; a panic leaves none. `AnsweredOnce` is exact about it |
| `MCSecondBody.cfg` | MCRequestPipeline | `OneBody`: the annotations (orderbook.go:259-261) promise one object; the deadline's 504 comes behind the handler's. `AnsweredOnce` is exact about it |
| `MCDeployedTotals.cfg` | MCOrderReads | `TotalsOfDeployedOnly`: handler/order.go:245 and 363, repository/order.go:40 and 245 speak of deployed orders; orders in an exchange are summed up too, as `BatchAgrees` has it |
| `MCSmallOrders.cfg` | MCOrderReads | `SmallOrdersDropped`: orderbook.go:258 promises that small orders are dropped; a threshold that is no int64 drops none, as `SmallOrdersHidden` has it |
| `MCMinusSort.cfg` | MCOrderReads | `DocumentedSortServed`: handler/order.go:35, coins.go:32 and vault.go:32 offer a minus before a column; the list is then a 500 |
| `MCAtMostLimit.cfg` | MCOrderBook | `AtMostLimit`: orderbook.go:132 and 257 promise at most `limit` levels; what holds is `AtMostTwiceLimit` |
| `MCFailoverEntries.cfg` | MCRateLimiter | `FailoverEntriesGo`: rate_limiter.go:32-33 speaks of a cleanup goroutine that does not exist; an entry stays if its address does not come back |

**Bounds and why they suffice.** `tiered_cache`: `StaleBound` is 1+1+3, so that a clock to 6
lets the oldest snapshot be handed out and overstepped; three goroutines are two fills that
overlap over Redis and one that waits. `tiered_cache_history`: L2 outlives L1, so that reloads
come from Redis; a clock to 6 allows for three generations of an entry. `tiered_cache_live`:
a clock to 2 lets entries of both levels die (L1 at 1) and flights outlast them; entries and flights of
two keys lie side by side at both levels. The ages in `KeepsPromise` are beyond that clock: they are
`tiered_cache`'s and the theorem's. `limiter`:
limit 2 and three requests with a repeated INCR reach the limit and pass it by one; the clock to 2 covers
three windows, a counter that outlives its own and one that is dropped before a late INCR; `late_incr` has
windows in which requests come at different times; `faulted` confines the last two properties to histories in which nothing has failed. `order_book`: books of up to four
levels reach the filter's factor, the merging of levels into buckets, and wrapped sums; `OutlierFactor`
is 3 instead of 100 and `MaxInt` 9 so that small numbers cross them. `shared_levels`: five arrays
are one for the entry, one for each request and one to copy into; arrays that nobody refers to
are not told apart (`VIEW`). `redis_cache`: an entry that lives 2 can be hit a second after it
was stored, so that a lease renewed by hits would show; both caches have the same subject, so
that only the prefix tells their keys apart. A view relative to the clock makes the states
finite, the clock's bound of 30 is not reached. `order_reads`: with three orders each direction of
the pair between TON and the stablecoin has one and a second pair has one, so that a side, a pair
or a page can be lost without the other; all have the size 1, so that a fill leaves nothing, the
boundary `BookSide` tests; `MaxInt` 3 lets the threshold of `min_order_usd` 4 overflow, the default
of 2 meets the worth of one order exactly. A page holds one or two rows of three, a page of the
leaderboard one or two of at most two. Of the third order nothing is taken (`ThirdWhole`), and writes wait
for steps that read nothing of them (`WritesWait`): they commute with these. Symmetry is used only where no temporal property with
fairness is checked.

`CHECK_DEADLOCK FALSE` is set where a model really stops: requests that pass once through the
limiter or the pipeline, and a handler that has responded.

**Fairness.** Goroutines that can run are run, and calls under a deadline end (`TieredCache`,
`RequestPipeline`); the sweeper keeps running. Nothing obliges a client to come, a process to
stop or the database to answer. `GetReturns` has no fairness on the clock or on Redis: each
step of a flight has an outcome, because calls return an answer or the context's error.
`HandlerReturns` rests on deadlines passing, and starts behind the limiter because
authentication has no deadline. `MCFailoverEntries.cfg` has time and requests go on.

**Where properties stop.** `MonotonicReads` needs one process and a reliable Redis: two
processes may write an older snapshot over a newer one; after a failed SET, or a clean shutdown
during a fill, memory is newer than Redis, and a restart shows the older one. `BoundedStaleness`
bounds how far back such reads go. A SET that the client has given up on and Redis executes
later is not modelled. `WithinLimit` counts only requests whose INCR comes within a second after the
window, and is per fixed window: the comment at rate_limiter.go:85 calls it a sliding
one, and twice the limit may pass within a window's length across a boundary.
`NoUndueRejection` and `NoEternalCounter` are claimed only as long as nothing has failed: a repeated
INCR counts one request twice, and a lost EXPIRE leaves its key for ever. `BestFirst`, `TopOfBook` and
`CumulativeHonest` are stated for sides whose sums fit int64; TypeOK runs over all of them.
`SmallOrdersHidden` is exact on both sides of the exception: a side whose threshold is an int64 shows the
orders worth it, one whose threshold is none shows all on offer. `BatchAgrees` takes the totals as the
statements define them, not as the documentation does. `PairsWhole` allows for a pair whose counter coin could not be looked up. `PeriodsNest` is
about periods that are all loaded for the request: one out of the cache may count fewer.
`WalkMissesNothing` is about lists sorted by id and not filtered by status: sorted by a column with
equal values, a walk may miss rows even if nobody writes, because no tie-breaker is added
(repository/order.go); filtered by status, because rows leave the list under the walk. `StatsAddUp`
and `BatchAgrees` say what remains true although the figures of one response may differ.

## 4. Proofs

tlapm checks each to the last leaf; they hold for every value of the constants that satisfies
the named assumptions.

- **TieredCacheProofs** (`CacheAssumption`): `TypeCorrect`, `ColdLoads`, `OneFlight`, `Fresh`.
  The inductive invariant adds to types and `SingleFlight` how old a snapshot may be where it
  lies - in Redis, in memory, in a flight that is about to store it (`YoungL2`, `YoungL1`,
  `YoungVal`) - in terms of the entry's expiry or the flight's deadline, and that a flight is
  within its deadline (`Timely`). `BoundedStaleness` is an action property: the steps that hand
  a snapshot out use the invariant before the step. `LoadsOnlyWhenCold` needs that only a flight
  stores into L1 and that there is one flight per key and process. `NoTimeTravel` states
  `MonotonicReads` under `Alone`: one process, never shut down, a Redis that works. Its invariant
  (`HInv`) follows the newest snapshot handed out for a key: as long as one may not be older than
  it (`Remembered`), it lies in memory, or Redis has nothing older (`InStock`), and a flight that
  is under way will end with nothing older than what its callers have been shown (`InFlight`).
- **TieredCacheRefinement** (`CacheAssumption`): `Implements`, `TieredCache => BoundedReads`. `Views`
  gives the types of the mapped variables; `Dated` says that every snapshot, wherever it lies, was
  read at a moment that has been; `StepMoves` says for one caller which abstract move a concrete
  step is; `Simulates` puts the callers together. `BoundedStaleness` supplies the age.
- **RateLimiterProofs** (`LimiterAssumption`): `TypeCorrect`, `LimitHolds`, `FailoverHolds`.
  The invariant says that requests of one counter and window have different numbers, that such a
  number is at most the counter's value as long as the window may still be used (`Covered`), and
  that a counter outlives its window by the slack (`LongLived`), so that it is not dropped before an
  INCR would be late; the admitted requests that were not late then inject into `1..limit`. Nothing is
  assumed of how long an INCR takes. `FailoverHolds`: of
  each in-memory entry that has not run out (`EntryCounts`), its count is no less than the number of
  requests let through under it, and each of these was let through before the entry's time is over,
  so that an entry that is reset owes nothing to the one before. Over RateLimiterHistory,
  `NobodyTurnedAwayEarly` and `CountersGo`: as long as nothing has failed, every number
  up to a counter's value was drawn by some request of its client and window (`NoGaps`), and a
  counter without a lifetime has a request at its EXPIRE.
- **SharedLevelsProofs** (`SliceAssumption`): `TypeCorrect`, `SafeCopy`, `Untouched`, `Read`, for
  any number of requests and books of any length. The invariant says when two references may be
  the same (`Owned`: the callers that one load has just been handed to, never the entry), and of
  a half-reversed array that the levels outside the loop's index are exchanged and the others
  are not (`InOrder`).

- **RequestPipelineProofs**: `TypeCorrect`, `NobodySlipsIn`, `RefusalsHaveCauses`, `OneAnswer`, for
  any number of requests and keys. The invariant says stage by stage what a request has acquired
  and written: nobody before authentication and its token's owner behind it (`Unidentified`,
  `Front`), no body up to the handler, then one, or one and the deadline's (`Bodies`), the log line
  last and with the first status (`LoggedLast`); a key that is revoked remains so (`Doomed`), and a
  401 for one that never is has its cause in the database (`Cause`). Nothing in it relates two
  requests; a request that a step does not name is spared by it (`Spared`).
- **RedisCacheProofs** (`RedisCacheAssumption`): `TypeCorrect`, `Subject`, `Window`, `Aging`. The
  invariant says which key rows fit, in a goroutine and in Redis (`Fits`), and bounds the age of rows
  in flight by the flight's deadline and of rows in Redis by the entry's expiry (`Holding`,
  `Stored`), so that the clock may run without touching it. Keys leave the limit out, so nothing
  is said of it (`max_candles`).
- **OrderReadsProofs** (`TableAssumption`, `WalletAssumption`, `PairAssumption`,
  `ListingAssumption`): `TypeCorrect`, `CountsAddUp`, `BatchesAgree`, `SmallHidden`, `WholePairs`,
  `LongerCountsMore`, `NothingMissed`, for any table of orders. The invariant says at each statement what the
  request's registers still have to do with the table: groups read by `Stats` are disjoint and lie
  within today's table because nobody deletes (`GroupsRead`, `StillThere`); what a batch saw finished
  is finished (`FoundHolds`); a side of the book is right for the steady orders (`SideHolds`), and so
  are the rows of a price (`RowsHold`); the periods loaded so far nest (`PeriodsHold`). In the middle
  of a walk (`WalkHolds`), a row not shown yet has at least as many rows before it as have been
  shown, which is the offset of the next page; upwards, what has been shown ascends and has no gap.
- **OrderBookProofs** (`LevelsAssumption`, `BookAssumption`): `TypeCorrect`, `Best`, `Top`, `Honest`,
  `NeverTwice`, for books of any length, any prices, amounts and limits and any width of integers. The
  invariant (`Progress`) is the easy part: at each step, both sides are what the handler's functions have
  made of the levels so far. The work is in what these functions do. Sums are folds over sets of
  indices; what they split into and are bounded by (`SumSplit`, `SumBetween`, `SumFlat`) goes by induction
  over finite subsets, which is obtained from the library's theorem that natural numbers are well-founded, with sets
  in the place of predicates (`NatInd`, `SetInd`). `NthIs` gives the k-th smallest element of a set.
  `FilterSide`: the filter keeps a subsequence, and an inhabited one, since the median is plausible.
  `TickIs`: prices are integers and ascend strictly, so that a side with more levels than the limit
  spans at least the limit and its buckets are at least one wide; the code's cut for a width of zero
  is never made on such sides. `BucketsAre`, `MembersAre`: buckets are disjoint ranges of consecutive levels in
  the order of prices. `BucketIs`: a bucket's average price lies between its first and its last level.
  `EndsFaithful`: the levels of an end of the merged side are those of an end of the filtered one.

**Only model-checked**: everything temporal under fairness (`GetReturns`, `DeadEntriesGo`,
`HandlerReturns`), which tlapm does not prove. The runs that expect a violation are
counterexamples and need no proof. Every other property of a run is stated by a theorem.

## 5. Not modelled

- Volumes and other sums of trading statistics, and amounts as JSON numbers: which orders are
  counted is modelled, adding them up is the database's.
- Middle prices, fractional `price_rate` (the models' prices are integers) and wording.
- The filters of the order list on amounts, prices and slippage: they restrict the rows further
  as owner and status do, and are stood for by these.
- Failures at startup (`cmd/main.go`, `services/services.go`): the process exits before it serves
  anything. What a shutdown or a crash does to running requests and caches is modelled.
- An INCR or SET that Redis executes after the client has given up on it for good (section 3).
- A client that goes away during the lookup of its key, and orders without a price (section 2).
- Configuration, logging, connection pool tuning, schemas, models and generated documentation, which
  have no state of their own or are pure wording.
