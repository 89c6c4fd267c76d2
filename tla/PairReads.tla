----------------------------- MODULE PairReads -----------------------------
(***************************************************************************)
(* What the API tells about coins and pairs, as far as the database goes:  *)
(* GetOrderBook (internal/handler/orderbook.go) up to the levels of both   *)
(* sides, with the filter that hides small orders, GetPrice                *)
(* (internal/handler/coin_price.go), which looks coins up one by one, and  *)
(* GetTradingStats (internal/handler/trading_stats.go), which asks for one *)
(* period after the other. The caches in front of the queries are          *)
(* TieredCache and RedisCache; here a request loads, except that the       *)
(* figures of a period may be older. What becomes of the levels of a book  *)
(* is OrderBook.                                                           *)
(***************************************************************************)
EXTENDS OrderTable, Sequences

CONSTANTS Stable,      \* the coins whose symbol is a stablecoin's
          NoCoin,      \* a name that the database does not know
          Unit,        \* pow10 of a coin's decimals: what one of it is in its smallest units
          PriceUnit,   \* 10^18 in the code: what a price of one is as a price_rate
          MaxInt,      \* the greatest int64
          DefaultUsd,  \* 40 in the code
          NotGiven,    \* a request without min_order_usd
          Periods,     \* how many periods trading statistics have: 4 in the code
          MinUsds      \* values of the min_order_usd parameter

ASSUME PairAssumption ==
    /\ Stable \subseteq Coins
    /\ NoCoin \notin Coins
    /\ Unit \in [Coins -> Nat]
    /\ PriceUnit \in Nat
    /\ MaxInt \in Nat
    /\ DefaultUsd \in Nat
    /\ Periods \in Nat \ {0}
    /\ MinUsds \subseteq Int \cup {NotGiven}

VARIABLES from,     \* the coin the book's asks sell, or the coin a price is asked of
          to,       \* the coin they buy
          minUsd,   \* the least worth of an order in the book
          asks,     \* the orders of the book's sides
          bids,
          pairs,    \* the rows of a price, by counter coin
          left,     \* the counter coins yet to be looked up
          priced,   \* the pairs of the response
          since,    \* for each period, the last order of the pair that is too old for it
          counted,  \* for each period so far, the orders counted
          fresh     \* whether all of them have been loaded for this request

bookVars == <<minUsd, asks, bids>>
priceVars == <<pairs, left, priced>>
periodVars == <<since, counted, fresh>>
pairVars == <<from, to, bookVars, priceVars, periodVars>>

PairTypeOK ==
    /\ {from, to} \subseteq Coins \cup {NoCoin}
    /\ minUsd \in Nat
    /\ asks \subseteq Orders /\ bids \subseteq Orders
    /\ left \subseteq Coins
    /\ DOMAIN pairs \subseteq Coins /\ DOMAIN priced \subseteq DOMAIN pairs
    /\ since \in Seq(Nat) /\ counted \in Seq(SUBSET Orders)
    /\ fresh \in BOOLEAN

NoPairs == [c \in {} |-> {}]

PairInit ==
    /\ from = NoCoin /\ to = NoCoin /\ minUsd = 0
    /\ asks = {} /\ bids = {}
    /\ pairs = NoPairs /\ left = {} /\ priced = NoPairs
    /\ since = <<>> /\ counted = <<>> /\ fresh = TRUE

Deployed(a, b) == {o \in Table : status[o] = "deployed" /\ From[o] = a /\ To[o] = b}

----------------------------------------------------------------------------
(* The filter that hides small orders. *)

\* No threshold: the value of a field that is left out.
Zero == [minAmount |-> 0, minTotal |-> 0]

\* Mutant of BuildUSDFilter: both directions take the first coin's decimals.
BuildUSDFilterSwapped(a, b, usd) ==
    IF usd <= 0 THEN Zero
    ELSE IF a \in Stable \/ b \in Stable
         THEN [Zero EXCEPT !.minAmount = usd * Unit[a]]
         ELSE Zero

\* Of orders that sell a for b. What a stablecoin order sells is its worth; otherwise
\* what it buys, if that is a stablecoin. A threshold that is no int64 is dropped.
BuildUSDFilter(a, b, usd) ==
    IF usd <= 0 THEN Zero
    ELSE IF a \in Stable
         THEN IF usd * Unit[a] <= MaxInt
              THEN [Zero EXCEPT !.minAmount = usd * Unit[a]]
              ELSE Zero
    ELSE IF b \in Stable
         THEN [Zero EXCEPT !.minTotal = usd * (PriceUnit * Unit[b])]
         ELSE Zero

\* GetOrderBook's statement. Orders with nothing left are not in the book.
BookSide(a, b, filter) ==
    {o \in Deployed(a, b) : /\ amount[o] > 0
                            /\ amount[o] >= filter.minAmount
                            /\ amount[o] * Price[o] >= filter.minTotal}

----------------------------------------------------------------------------
(* A pair: of the order book, or of trading statistics. *)

\* No pair, two pairs, or parameters that do not parse.
PairRefused ==
    /\ \E k \in {"book", "price", "periods"} : Refused(k)
    /\ UNCHANGED pairVars

PairAsked ==
    /\ \E k \in {"book", "periods"} : Arrives(k, "from")
    /\ UNCHANGED pairVars

\* TON has no row; any other coin is looked up.
ResolveFrom(a) ==
    /\ Goes("from", "to")
    /\ from' = a
    /\ UNCHANGED <<to, bookVars, priceVars, periodVars>>

\* Mutant of ResolveTo: a negative min_order_usd is taken as it is.
ResolveToNegative(b, usd) ==
    /\ kind = "book"
    /\ Goes("to", "asks")
    /\ b # from
    /\ to' = b
    /\ minUsd' = IF usd = NotGiven THEN DefaultUsd ELSE usd
    /\ UNCHANGED <<from, asks, bids, priceVars, periodVars>>

\* The book's second coin, and its min_order_usd.
ResolveTo(b, usd) ==
    /\ kind = "book"
    /\ Goes("to", "asks")
    /\ b # from
    /\ to' = b
    /\ minUsd' = IF usd = NotGiven THEN DefaultUsd ELSE IF usd < 0 THEN 0 ELSE usd
    /\ UNCHANGED <<from, asks, bids, priceVars, periodVars>>

\* An unknown coin, the same coin twice, or a lookup that failed: every failure is taken
\* for a coin that does not exist.
NotResolved ==
    /\ pc \in {"from", "to"}
    /\ Answers(pc, 400)
    /\ UNCHANGED pairVars

----------------------------------------------------------------------------
(* The order book. *)

BookAsks ==
    /\ Goes("asks", "bids")
    /\ asks' = BookSide(from, to, BuildUSDFilter(from, to, minUsd))
    /\ UNCHANGED <<from, to, minUsd, bids, priceVars, periodVars>>

BookBids ==
    /\ Answers("bids", 200)
    /\ bids' = BookSide(to, from, BuildUSDFilter(to, from, minUsd))
    /\ UNCHANGED <<from, to, minUsd, asks, priceVars, periodVars>>

PairReadFails ==
    /\ pc \in {"asks", "bids", "summary", "periods"}
    /\ Answers(pc, 500)
    /\ UNCHANGED pairVars

----------------------------------------------------------------------------
(* The prices of a coin. *)

Prices ==
    /\ Arrives("price", "coin")
    /\ UNCHANGED pairVars

ResolveCoin(a) ==
    /\ Goes("coin", "summary")
    /\ from' = a
    /\ UNCHANGED <<to, bookVars, priceVars, periodVars>>

CoinNotResolved ==
    /\ Answers("coin", 404)
    /\ UNCHANGED pairVars

\* One statement reads both sides of every pair; orders with nothing left are in.
Summary(a) ==
    LET row(c) == [asks |-> Deployed(a, c), bids |-> Deployed(c, a)]
    IN  [c \in {d \in Coins : Deployed(a, d) \cup Deployed(d, a) # {}} |-> row(c)]

\* Mutant of ReadSummary: a row that comes later takes the place of the pair's first.
ReadSummaryOneSide ==
    /\ Goes("summary", "counter")
    /\ pairs' = [c \in DOMAIN Summary(from) |->
                    IF Summary(from)[c].bids = {} THEN Summary(from)[c]
                    ELSE [Summary(from)[c] EXCEPT !.asks = {}]]
    /\ left' = DOMAIN pairs'
    /\ UNCHANGED <<from, to, priced, bookVars, periodVars>>

\* The rows of both sides, merged by counter coin.
ReadSummary ==
    /\ Goes("summary", "counter")
    /\ pairs' = Summary(from)
    /\ left' = DOMAIN pairs'
    /\ UNCHANGED <<from, to, priced, bookVars, periodVars>>

\* In the order of a Go map, which is any.
ResolveCounter(c) ==
    /\ Goes("counter", "counter")
    /\ c \in left
    /\ left' = left \ {c}
    /\ priced' = [d \in DOMAIN priced \cup {c} |-> pairs[d]]
    /\ UNCHANGED <<from, to, pairs, bookVars, periodVars>>

\* Its pair is left out of the response, which is a 200 all the same.
CounterNotResolved(c) ==
    /\ Goes("counter", "counter")
    /\ c \in left \ {TON}
    /\ left' = left \ {c}
    /\ UNCHANGED <<from, to, pairs, priced, bookVars, periodVars>>

PriceAnswered ==
    /\ left = {}
    /\ Answers("counter", 200)
    /\ UNCHANGED pairVars

----------------------------------------------------------------------------
(* Trading statistics. *)

OfPair == {o \in Orders : From[o] = from /\ To[o] = to}

\* The periods end now and begin once and for all, the longer the earlier. Orders are
\* created in the order of their ids: those up to some id are too old.
ResolvePeriods(b) ==
    /\ kind = "periods"
    /\ Goes("to", "periods")
    /\ b # from
    /\ to' = b
    /\ since' \in {s \in [1..Periods -> {o \in existed : From[o] = from /\ To[o] = b} \cup {0}] :
                      \A p, q \in 1..Periods : p < q => s[q] <= s[p]}
    /\ UNCHANGED <<from, counted, fresh, bookVars, priceVars>>

\* Mutant of PeriodLoad: the longest period first.
PeriodLoadBackwards ==
    /\ Len(counted) < Periods
    /\ Goes("periods", "periods")
    /\ counted' = <<{o \in OfPair \cap Table : o > since[Periods - Len(counted)]}>> \o counted
    /\ UNCHANGED <<from, to, since, fresh, bookVars, priceVars>>

\* The next period, the shortest first.
PeriodLoad ==
    /\ Len(counted) < Periods
    /\ Goes("periods", "periods")
    /\ counted' = Append(counted, {o \in OfPair \cap Table : o > since[Len(counted) + 1]})
    /\ UNCHANGED <<from, to, since, fresh, bookVars, priceVars>>

\* What an earlier request has loaded for it: fewer of the orders of today, and more of
\* those that are too old by now.
PeriodHit ==
    /\ Len(counted) < Periods
    /\ Goes("periods", "periods")
    /\ \E first, last \in (OfPair \cap existed) \cup {0} :
          /\ first <= since[Len(counted) + 1]
          /\ counted' = Append(counted, {o \in OfPair : first < o /\ o <= last})
    /\ fresh' = FALSE
    /\ UNCHANGED <<from, to, since, bookVars, priceVars>>

PeriodsAnswered ==
    /\ Len(counted) = Periods
    /\ Answers("periods", 200)
    /\ UNCHANGED pairVars

PairNext ==
    \/ PairRefused
    \/ PairAsked \/ Prices
    \/ \E a \in Coins : ResolveFrom(a) \/ ResolveCoin(a)
    \/ \E b \in Coins, usd \in MinUsds : ResolveTo(b, usd)
    \/ \E b \in Coins : ResolvePeriods(b)
    \/ NotResolved \/ CoinNotResolved
    \/ BookAsks \/ BookBids
    \/ ReadSummary
    \/ \E c \in Coins : ResolveCounter(c) \/ CounterNotResolved(c)
    \/ PriceAnswered
    \/ PeriodLoad \/ PeriodHit \/ PeriodsAnswered
    \/ PairReadFails

----------------------------------------------------------------------------
(* Properties *)

Priced(k) == pc = "answered" /\ code = 200 /\ kind = k

\* What orderbook.go:38-39 says an order is worth, as far as anyone can tell.
Worth(o, usd) ==
    CASE From[o] \in Stable -> amount[o] >= usd * Unit[From[o]]
      [] From[o] \notin Stable /\ To[o] \in Stable ->
            amount[o] * Price[o] >= usd * (PriceUnit * Unit[To[o]])
      [] OTHER -> TRUE

Fits(a, usd) == a \in Stable => usd * Unit[a] <= MaxInt

\* The book hides small orders and nothing else, on both sides and whichever of the
\* two coins is the stablecoin: of the orders nobody has touched since the request came,
\* a side shows exactly those that are deployed, have something left and are worth
\* min_order_usd. A side whose threshold is no int64 is the exception: there
\* buildUSDFilter gives up, and the side shows every order on offer.
SmallOrdersHidden ==
    Priced("book") =>
        \A o \in steady \cap existed :
            LET exact(a, b, side) ==
                    o \in side <=> /\ o \in Deployed(a, b) /\ amount[o] > 0
                                   /\ Fits(a, minUsd) => Worth(o, minUsd)
            IN  exact(from, to, asks) /\ exact(to, from, bids)

\* The annotation of GetOrderBook: orders whose USD value is below min_order_usd are
\* dropped where one side is a stablecoin. The exception above is not in it.
SmallOrdersDropped ==
    Priced("book") =>
        \A o \in (asks \cup bids) \cap steady : Worth(o, minUsd)

\* A lookup that fails costs the response one pair and not a figure of another: every
\* order on offer that nobody has touched since the request came is on its own side of
\* its own pair, if that is shown at all, and the pair with TON, which needs no lookup,
\* always is.
PairsWhole ==
    Priced("price") =>
        \A o \in steady \cap existed : status[o] = "deployed" =>
            /\ From[o] = from => \/ To[o] \in DOMAIN priced /\ o \in priced[To[o]].asks
                                 \/ To[o] \notin DOMAIN priced \cup {TON}
            /\ To[o] = from => \/ From[o] \in DOMAIN priced /\ o \in priced[From[o]].bids
                               \/ From[o] \notin DOMAIN priced \cup {TON}

\* The periods of one response are read one after the other, while orders are added. If
\* all are read for this request, a longer period counts every order that a shorter one
\* counts, because the shorter is read first and "now" is taken once. A period that comes
\* out of the cache may count fewer.
PeriodsNest ==
    Priced("periods") /\ fresh =>
        \A p, q \in 1..Periods : p < q => counted[p] \subseteq counted[q]
=============================================================================
