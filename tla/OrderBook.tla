----------------------------- MODULE OrderBook -----------------------------
(***************************************************************************)
(* GetOrderBook of internal/handler/orderbook.go: one request from its     *)
(* parameters to the response. Both sides of the book come from the cache, *)
(* one after the other, as levels sorted by price; they are cleaned,       *)
(* aggregated, the bids turned round, and running sums put on both.        *)
(***************************************************************************)
EXTENDS BookLevels

CONSTANTS Books,          \* what the cache may answer
          Limits,         \* values of the limit parameter
          DefaultLimit,   \* 10 in the code
          MaxLimit        \* 50 in the code

\* The database groups orders by price, in the order of prices, and every order it
\* counts has an amount.
ASSUME BookAssumption ==
    /\ Books \subseteq Seq(Level)
    /\ \A levels \in Books :
          /\ Ascending(levels)
          /\ \A i \in DOMAIN levels : levels[i].orders <= levels[i].amount
    /\ Limits \subseteq Int
    /\ DefaultLimit \in Nat \ {0}
    /\ MaxLimit \in Nat \ {0}
    /\ DefaultLimit <= MaxLimit

VARIABLES pc,        \* the step the handler is at
          limit,     \* levels per side
          rawAsks,   \* the asks as the cache answered them
          rawBids,
          asks,      \* the asks as shaped so far
          bids,
          askSums,   \* cumulative_amount and cumulative_value of each ask
          bidSums,
          spread,    \* the best ask's price less the best bid's, or nothing
          status     \* the response's status code

vars == <<pc, limit, rawAsks, rawBids, asks, bids, askSums, bidSums, spread, status>>

Init ==
    /\ pc = "validate"
    /\ limit = 0
    /\ rawAsks = <<>> /\ rawBids = <<>>
    /\ asks = <<>> /\ bids = <<>>
    /\ askSums = <<>> /\ bidSums = <<>>
    /\ spread = {}
    /\ status = 0

\* A request without a pair, with two, or with the same coin twice; or a coin that
\* the database does not know.
Refuse ==
    /\ pc = "validate"
    /\ pc' = "responded"
    /\ status' = 400
    /\ UNCHANGED <<limit, rawAsks, rawBids, asks, bids, askSums, bidSums, spread>>

\* Mutant of Accept: no maximum.
AcceptAny(l) ==
    /\ pc = "validate"
    /\ limit' = IF l <= 0 THEN DefaultLimit ELSE l
    /\ pc' = "asks"
    /\ UNCHANGED <<rawAsks, rawBids, asks, bids, askSums, bidSums, spread, status>>

\* The limit parameter: a default, and a maximum.
Accept(l) ==
    /\ pc = "validate"
    /\ limit' = IF l <= 0 THEN DefaultLimit ELSE IF l > MaxLimit THEN MaxLimit ELSE l
    /\ pc' = "asks"
    /\ UNCHANGED <<rawAsks, rawBids, asks, bids, askSums, bidSums, spread, status>>

GetAsks(levels) ==
    /\ pc = "asks"
    /\ rawAsks' = levels
    /\ asks' = levels
    /\ pc' = "bids"
    /\ UNCHANGED <<limit, rawBids, bids, askSums, bidSums, spread, status>>

GetBids(levels) ==
    /\ pc = "bids"
    /\ rawBids' = levels
    /\ bids' = levels
    /\ pc' = "filter"
    /\ UNCHANGED <<limit, rawAsks, asks, askSums, bidSums, spread, status>>

CacheFails ==
    /\ pc \in {"asks", "bids"}
    /\ pc' = "responded"
    /\ status' = 500
    /\ UNCHANGED <<limit, rawAsks, rawBids, asks, bids, askSums, bidSums, spread>>

Filter ==
    /\ pc = "filter"
    /\ asks' = FilterOutliers(asks)
    /\ bids' = FilterOutliers(bids)
    /\ pc' = "aggregate"
    /\ UNCHANGED <<limit, rawAsks, rawBids, askSums, bidSums, spread, status>>

Aggregate ==
    /\ pc = "aggregate"
    /\ asks' = AggregateLevels(asks, limit)
    /\ bids' = AggregateLevels(bids, limit)
    /\ pc' = "reverse"
    /\ UNCHANGED <<limit, rawAsks, rawBids, askSums, bidSums, spread, status>>

ReverseBids ==
    /\ pc = "reverse"
    /\ bids' = [i \in DOMAIN bids |-> bids[Len(bids) - i + 1]]
    /\ pc' = "sums"
    /\ UNCHANGED <<limit, rawAsks, rawBids, asks, askSums, bidSums, spread, status>>

\* Running sums: the amount as int64, the value as a big integer.
Sums(side) ==
    [i \in DOMAIN side |-> [amount |-> Wrap(Total(side, 1..i)), value |-> Value(side, 1..i)]]

\* Running sums, the spread and the response.
Respond ==
    /\ pc = "sums"
    /\ askSums' = Sums(asks)
    /\ bidSums' = Sums(bids)
    /\ spread' = IF asks # <<>> /\ bids # <<>> THEN {asks[1].price - bids[1].price} ELSE {}
    /\ status' = 200
    /\ pc' = "responded"
    /\ UNCHANGED <<limit, rawAsks, rawBids, asks, bids>>

Next ==
    \/ Refuse
    \/ \E l \in Limits : Accept(l)
    \/ \E levels \in Books : GetAsks(levels) \/ GetBids(levels)
    \/ CacheFails
    \/ Filter \/ Aggregate \/ ReverseBids \/ Respond

Spec == Init /\ [][Next]_vars

----------------------------------------------------------------------------
(* Properties *)

\* Type correctness: amounts and counts are int64 from the database to the response,
\* whatever wraps on the way.
TypeOK ==
    /\ pc \in {"validate", "asks", "bids", "filter", "aggregate", "reverse", "sums", "responded"}
    /\ limit \in 0..MaxLimit
    /\ rawAsks \in Seq(Level) /\ rawBids \in Seq(Level)
    /\ asks \in Seq(Merged) /\ bids \in Seq(Merged)
    /\ askSums \in Seq([amount : Int64, value : Int])
    /\ bidSums \in Seq([amount : Int64, value : Int])
    /\ status \in {0, 200, 400, 500}

Responded == pc = "responded" /\ status = 200

\* No sum over a side wraps.
Fits == Total(rawAsks, DOMAIN rawAsks) <= MaxInt /\ Total(rawBids, DOMAIN rawBids) <= MaxInt

\* The best price comes first on both sides, and no price comes twice: aggregation
\* and the turning round of the bids keep the order strict.
BestFirst ==
    Responded /\ Fits =>
        /\ Ascending(asks)
        /\ \A i, j \in DOMAIN bids : i < j => bids[i].price > bids[j].price

\* The top of the book is honest: a side with orders is never filtered empty, its first
\* level promises no better price than the best plausible order and misses it by less
\* than a bucket; so the spread is never understated.
TopOfBook ==
    Responded /\ Fits =>
        LET a == FilterOutliers(rawAsks)
            b == FilterOutliers(rawBids)
            within(first, best, levels) ==
                first = best \/ (Len(levels) > limit
                                 /\ first - best < TickSize(levels, limit)
                                 /\ best - first < TickSize(levels, limit))
        IN  /\ rawAsks # <<>> => /\ asks # <<>>
                               /\ asks[1].price >= a[1].price
                               /\ within(asks[1].price, a[1].price, a)
            /\ rawBids # <<>> => /\ bids # <<>>
                               /\ bids[1].price <= b[Len(b)].price
                               /\ within(bids[1].price, b[Len(b)].price, b)
            /\ \A s \in spread : s >= a[1].price - b[Len(b)].price

\* The running sums are honest: what a side shows down to its i-th level is what some
\* number of the best plausible levels hold, to the unit in amount, and in value less
\* by under one for each unit of amount, as bucket prices are rounded down. At the
\* last level nothing is missing, and every order has been counted once.
CumulativeHonest ==
    Responded /\ Fits =>
        \A side \in {"asks", "bids"} :
            LET raw == FilterOutliers(IF side = "asks" THEN rawAsks ELSE rawBids)
                out == IF side = "asks" THEN asks ELSE bids
                sums == IF side = "asks" THEN askSums ELSE bidSums
                best(k) == IF side = "asks" THEN 1..k ELSE (Len(raw) - k + 1)..Len(raw)
                honest(i, k) ==
                    /\ sums[i].amount = Total(raw, best(k))
                    /\ Value(raw, best(k)) - sums[i].value \in 0..(sums[i].amount - 1)
            IN  /\ \A i \in DOMAIN out : \E k \in DOMAIN raw :
                        honest(i, k) /\ (i = Len(out) => k = Len(raw))
                /\ Orders(out, DOMAIN out) = Orders(raw, DOMAIN raw)

\* The width of a bucket is rounded down, so that a side may have more levels than the
\* limit, but never more than twice as many.
AtMostTwiceLimit ==
    Responded => Len(asks) <= 2 * limit /\ Len(bids) <= 2 * limit

\* The limit parameter as the API documents it, and aggregateLevels' comment: at most
\* `limit` price levels per side.
AtMostLimit ==
    Responded => Len(asks) <= limit /\ Len(bids) <= limit
=============================================================================
