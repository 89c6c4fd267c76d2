----------------------------- MODULE BookLevels -----------------------------
(***************************************************************************)
(* The pure functions of internal/handler/orderbook.go that shape one side *)
(* of the book: filterOutliers and aggregateLevels. Price rates are big    *)
(* integers in the code and integers here; amounts are int64, and sums of  *)
(* them wrap at MaxInt.                                                    *)
(***************************************************************************)
EXTENDS Integers, Sequences, FiniteSets, Functions, FiniteSetsExt

CONSTANTS OutlierFactor,   \* 100 in the code
          MaxInt           \* the largest int64

ASSUME LevelsAssumption == OutlierFactor \in Nat \ {0} /\ MaxInt \in Nat \ {0}

\* A price level: what the database groups orders into. A sum that is no int64 does not
\* scan: it is an error of the query.
Level == [price : Nat, amount : 1..MaxInt, orders : 1..MaxInt]

Int64 == (-MaxInt - 1)..MaxInt

\* A level after levels have been merged: sums may have wrapped.
Merged == [price : Nat, amount : Int64, orders : Int64]

\* int64 arithmetic: two's complement.
Wrap(x) == ((x + MaxInt + 1) % (2 * (MaxInt + 1))) - (MaxInt + 1)

\* Sums over some indices of a sequence of levels.
Total(levels, I) == SumFunctionOnSet([i \in I |-> levels[i].amount], I)
Orders(levels, I) == SumFunctionOnSet([i \in I |-> levels[i].orders], I)
Value(levels, I) == SumFunctionOnSet([i \in I |-> levels[i].price * levels[i].amount], I)

\* The k-th smallest element of a set of integers.
Nth(S, k) == CHOOSE x \in S : Cardinality({y \in S : y < x}) = k - 1

Ascending(levels) ==
    \A i, j \in DOMAIN levels : i < j => levels[i].price < levels[j].price

----------------------------------------------------------------------------
(* filterOutliers *)

\* The price of the level at which the running amount crosses half of the total;
\* the price in the middle when no level does (which takes an overflow).
Median(levels) ==
    LET total == Wrap(Total(levels, DOMAIN levels))
        crossing == {i \in DOMAIN levels : Wrap(Total(levels, 1..i)) >= total \div 2}
    IN  IF total > 0 /\ crossing # {} THEN levels[Min(crossing)].price
        ELSE levels[Len(levels) \div 2 + 1].price

Plausible(price, median) ==
    price >= median \div OutlierFactor /\ price <= median * OutlierFactor

FilterOutliers(levels) ==
    LET kept == {i \in DOMAIN levels : Plausible(levels[i].price, Median(levels))}
    IN  IF Len(levels) < 3 \/ Median(levels) = 0 THEN levels
        ELSE [k \in 1..Cardinality(kept) |-> levels[Nth(kept, k)]]

----------------------------------------------------------------------------
(* aggregateLevels *)

\* Mutant of TickSize: buckets half as wide.
TickSizeHalf(levels, limit) == (levels[Len(levels)].price - levels[1].price) \div (2 * limit)

\* The width of a bucket, rounded down.
TickSize(levels, limit) == (levels[Len(levels)].price - levels[1].price) \div limit

\* The bucket that level i falls into.
BucketOf(levels, limit, i) ==
    (levels[i].price - levels[1].price) \div TickSize(levels, limit)

\* The middle of the bucket with index b.
Middle(levels, limit, b) ==
    levels[1].price + b * TickSize(levels, limit) + TickSize(levels, limit) \div 2

\* Mutant of Bucket: a bucket keeps the amount of the last level merged into it.
BucketLastWins(levels, limit, I) ==
    [price |-> Value(levels, I) \div Total(levels, I),
     amount |-> levels[Max(I)].amount,
     orders |-> Wrap(Orders(levels, I))]

\* Mutant of Bucket: always the middle of the bucket, whatever trades in it.
BucketInTheMiddle(levels, limit, I) ==
    [price |-> Middle(levels, limit, BucketOf(levels, limit, Max(I))),
     amount |-> Wrap(Total(levels, I)),
     orders |-> Wrap(Orders(levels, I))]

\* The levels with indices in I, all of one bucket, merged into one: at the average
\* price weighted by amount, or in the middle of the bucket when the sum of the
\* amounts has wrapped. (The database hands out no level without an amount, so that
\* the code's average for such levels is never taken.)
Bucket(levels, limit, I) ==
    LET amount == Wrap(Total(levels, I))
    IN  [price |-> IF amount > 0 THEN Value(levels, I) \div amount
                   ELSE Middle(levels, limit, BucketOf(levels, limit, Max(I))),
         amount |-> amount,
         orders |-> Wrap(Orders(levels, I))]

\* The indices that open a new bucket.
Openers(levels, limit) ==
    {i \in DOMAIN levels : \A j \in 1..(i - 1) :
         BucketOf(levels, limit, j) # BucketOf(levels, limit, i)}

\* Mutant of Merge: the buckets in an order of a map's own.
MergeInMapOrder(levels, limit) ==
    LET opener == Openers(levels, limit)
        members(i) == {j \in DOMAIN levels :
                          BucketOf(levels, limit, j) = BucketOf(levels, limit, i)}
        last == Cardinality(opener)
    IN  [k \in 1..last |-> Bucket(levels, limit, members(Nth(opener, last - k + 1)))]

\* Buckets come in the order in which they are opened.
Merge(levels, limit) ==
    LET opener == Openers(levels, limit)
        members(i) == {j \in DOMAIN levels :
                          BucketOf(levels, limit, j) = BucketOf(levels, limit, i)}
    IN  [k \in 1..Cardinality(opener) |-> Bucket(levels, limit, members(Nth(opener, k)))]

AggregateLevels(levels, limit) ==
    IF Len(levels) <= limit \/ limit <= 0 THEN levels
    ELSE IF TickSize(levels, limit) = 0 THEN SubSeq(levels, 1, limit)
    ELSE Merge(levels, limit)
=============================================================================
