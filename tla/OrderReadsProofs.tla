-------------------------- MODULE OrderReadsProofs --------------------------
(***************************************************************************)
(* Theorems about OrderReads, for any number of orders, wallets, coins and *)
(* periods. What a response says rests on what its earlier statements have *)
(* read and on what the other program cannot have done to it since.        *)
(***************************************************************************)
EXTENDS OrderReads, FiniteSetTheorems, SequenceTheorems, TLAPS

----------------------------------------------------------------------------
(* The inductive invariant *)

WalletKinds == {"stats", "totals", "batch"}
PairKinds == {"book", "price", "periods"}
ListKinds == {"list", "board", "row"}

\* The statements of a request are those of its kind.
AtItsStep ==
    /\ pc \in {"stats", "stats total"} => kind = "stats"
    /\ pc = "totals" => kind = "totals"
    /\ pc \in {"batch", "batch wallets", "batch totals"} => kind = "batch"
    /\ pc \in {"from", "to"} => kind \in {"book", "periods"}
    /\ pc \in {"asks", "bids"} => kind = "book"
    /\ pc \in {"coin", "summary", "counter"} => kind = "price"
    /\ pc = "periods" => kind = "periods"
    /\ pc = "page" => kind = "list"
    /\ pc = "board" => kind = "board"

\* Nobody deletes an order.
StillThere == existed \subseteq Table

\* Between the two statements of Stats.
GroupsRead ==
    kind = "stats" /\ pc = "stats total" =>
        /\ \A s, t \in Statuses : s # t => groups[s] \cap groups[t] = {}
        /\ \A s \in Statuses : groups[s] \subseteq OrdersOf(asked)
        /\ existed \cap OrdersOf(asked) \subseteq UNION {groups[s] : s \in Statuses}

\* What a batch has read is still true of finished orders and of those nobody touched.
FoundHolds ==
    /\ \A o \in DOMAIN found : found[o] \in Finished => status[o] \in Finished
    /\ \A o \in steady \cap existed :
          WalletOf[o] \in asked /\ wanted \in {AnyStatus, status[o]} => o \in DOMAIN found

OwnersFound == \A o \in DOMAIN found : WalletOf[o] \in owners

TotalsHold ==
    \A w \in asked :
        /\ \A o \in DOMAIN found : found[o] \in Finished => o \notin Summed(w)
        /\ \A o \in steady \cap existed :
              WalletOf[o] = w /\ status[o] \in {"deployed", "pending_match"} => o \in Summed(w)

BatchRead ==
    /\ kind = "batch" /\ pc \in {"batch wallets", "batch totals"} => FoundHolds
    /\ kind = "batch" /\ pc = "batch totals" => OwnersFound
    /\ Stated("batch") => FoundHolds /\ OwnersFound /\ TotalsHold

\* A side of the book that has been read is still right for orders nobody touched.
SideHolds(side, a, b) ==
    \A o \in steady \cap existed : o \in side <=> o \in BookSide(a, b, BuildUSDFilter(a, b, minUsd))

CoinsResolved ==
    /\ kind \in {"book", "periods"} /\ pc \in {"to", "asks", "bids", "periods"} => from \in Coins
    /\ pc \in {"asks", "bids", "periods"} => to \in Coins
    /\ Priced("book") => from \in Coins /\ to \in Coins

BookRead ==
    /\ kind = "book" /\ pc = "bids" => SideHolds(asks, from, to)
    /\ Priced("book") => SideHolds(asks, from, to) /\ SideHolds(bids, to, from)

\* The rows of a price, and those of its response.
RowsHold ==
    /\ left \subseteq DOMAIN pairs
    /\ \A c \in DOMAIN priced : c \in DOMAIN pairs /\ priced[c] = pairs[c]
    /\ TON \in DOMAIN pairs => TON \in left \cup DOMAIN priced
    /\ \A o \in steady \cap existed : status[o] = "deployed" =>
          /\ From[o] = from => To[o] \in DOMAIN pairs /\ o \in pairs[To[o]].asks
          /\ To[o] = from => From[o] \in DOMAIN pairs /\ o \in pairs[From[o]].bids

PriceRead ==
    /\ pc \notin {"counter", "answered"} => DOMAIN priced = {}
    /\ pc = "counter" => RowsHold
    /\ Priced("price") => RowsHold /\ left = {}

\* The periods loaded so far.
TooOld(p) == {o \in Orders : o <= since[p]}

PeriodsHold ==
    /\ since \in [1..Periods -> Nat]
    /\ \A p, q \in 1..Periods : p < q => since[q] <= since[p]
    /\ Len(counted) <= Periods
    /\ fresh => \A p \in 1..Len(counted) :
          /\ counted[p] \subseteq (OfPair \cap Table) \ TooOld(p)
          /\ \A q \in 1..Len(counted) : p < q => counted[p] \subseteq counted[q]

PeriodsRead ==
    /\ pc \notin {"periods", "answered"} => counted = <<>>
    /\ pc = "periods" => PeriodsHold
    /\ Priced("periods") => PeriodsHold /\ Len(counted) = Periods

IInv ==
    /\ TypeOK /\ AtItsStep /\ StillThere
    /\ GroupsRead /\ StatsAddUp
    /\ BatchRead
    /\ CoinsResolved /\ BookRead
    /\ PriceRead /\ PeriodsRead

----------------------------------------------------------------------------
(* What steps do to the table and to the request *)

\* The table as steady orders and finished ones see it.
TableKept ==
    /\ steady' \subseteq steady
    /\ \A o \in steady' : status'[o] = status[o] /\ amount'[o] = amount[o]
    /\ \A o \in Orders : status[o] \in Finished => status'[o] \in Finished
    /\ Table \subseteq Table'

\* A write takes the order it touches out of steady.
LEMMA WriteKeeps ==
    ASSUME TypeOK, Write
    PROVE  TableKept /\ UNCHANGED <<kind, pc, code, existed>>
<1>1. PICK o \in Orders :
          \/ Create(o)
          \/ \E s \in Statuses : Move(o, s)
          \/ \E rest \in 0..Size[o] : Fill(o, rest)
  BY DEF Write
<1>2. CASE Create(o)
  BY <1>2 DEF Create, TableKept, Table, TypeOK, TableTypeOK, Finished, Statuses, Open
<1>3. CASE \E s \in Statuses : Move(o, s)
  <2>1. PICK s \in Statuses : Move(o, s)
    BY <1>3
  <2> QED
    BY <2>1 DEF Move, TableKept, Table, TypeOK, TableTypeOK, Finished, Statuses, Open
<1>4. CASE \E rest \in 0..Size[o] : Fill(o, rest)
  <2>1. PICK rest \in 0..Size[o] : Fill(o, rest)
    BY <1>4
  <2> QED
    BY <2>1 DEF Fill, TableKept, Table, TypeOK, TableTypeOK
<1> QED
  BY <1>1, <1>2, <1>3, <1>4

\* A handler's statements leave the table alone, and belong to requests of its kinds.
LEMMA WalletStep ==
    ASSUME AtItsStep, WalletNext
    PROVE  kind' \in WalletKinds /\ UNCHANGED tableVars /\ AtItsStep'
  BY DEF AtItsStep, WalletNext, WalletKinds, tableVars, WalletReadRefused, Stats, DeployedTotals,
         Batch, StatsGroups, StatsTotal, TotalsRead, BatchOrders, BatchWallets, BatchTotals,
         WalletReadFails, Arrives, Refused, Goes, Answers

LEMMA PairStep ==
    ASSUME AtItsStep, PairNext
    PROVE  kind' \in PairKinds /\ UNCHANGED tableVars /\ AtItsStep'
  BY DEF AtItsStep, PairNext, PairKinds, tableVars, PairRefused, PairAsked, Prices, ResolveFrom,
         ResolveCoin, ResolveTo, ResolvePeriods, NotResolved, CoinNotResolved, BookAsks, BookBids,
         ReadSummary, ResolveCounter, CounterNotResolved, PriceAnswered, PeriodLoad, PeriodHit,
         PeriodsAnswered, PairReadFails, Arrives, Refused, Goes, Answers

LEMMA ListStep ==
    ASSUME AtItsStep, ListNext
    PROVE  kind' \in ListKinds /\ UNCHANGED tableVars /\ AtItsStep'
<1>1. CASE ListRefused \/ BadColumn \/ PageFails
  BY <1>1 DEF AtItsStep, ListKinds, tableVars, ListRefused, BadColumn, PageFails, Refused, Answers
<1>2. CASE NextPage
  BY <1>2 DEF AtItsStep, ListKinds, tableVars, NextPage, Takes, Goes, Answers
<1>3. CASE NextBoardPage
  BY <1>3 DEF AtItsStep, ListKinds, tableVars, NextBoardPage, Takes, Goes, Answers
<1>4. CASE \E w \in Walks : StartWalk(w)
  BY <1>4 DEF AtItsStep, ListKinds, tableVars, StartWalk, Arrives
<1>5. CASE \E coin \in Coins, limit \in PageLimits : StartBoard(coin, limit)
  BY <1>5 DEF AtItsStep, ListKinds, tableVars, StartBoard, Arrives
<1>6. CASE \E id \in Orders \cup Coins \cup VaultIds : OrderByID(id) \/ CoinByID(id) \/ VaultByID(id)
  BY <1>6 DEF AtItsStep, ListKinds, tableVars, OrderByID, CoinByID, VaultByID, GetByID
<1> QED
  BY <1>1, <1>2, <1>3, <1>4, <1>5, <1>6 DEF ListNext

\* Wallets and lists do not disturb a pair's request, nor one that is answered.
LEMMA StaysAnswered ==
    ASSUME WalletNext \/ ListNext
    PROVE  /\ pc \in {"counter", "answered"} => pc' \in {"counter", "answered"}
           /\ pc \in {"periods", "answered"} => pc' \in {"periods", "answered"}
<1>1. CASE WalletNext
  BY <1>1 DEF WalletNext, WalletReadRefused, Stats, DeployedTotals, Batch, StatsGroups,
         StatsTotal, TotalsRead, BatchOrders, BatchWallets, BatchTotals, WalletReadFails,
         Arrives, Refused, Goes, Answers
<1>2. CASE ListNext
  <2>1. CASE ListRefused \/ BadColumn \/ PageFails \/ NextPage \/ NextBoardPage
    BY <2>1 DEF ListRefused, BadColumn, PageFails, NextPage, NextBoardPage, Takes, Refused,
           Goes, Answers
  <2>2. CASE \E w \in Walks : StartWalk(w)
    BY <2>2 DEF StartWalk, Arrives
  <2>3. CASE \E coin \in Coins, limit \in PageLimits : StartBoard(coin, limit)
    BY <2>3 DEF StartBoard, Arrives
  <2>4. CASE \E id \in Orders \cup Coins \cup VaultIds :
                 OrderByID(id) \/ CoinByID(id) \/ VaultByID(id)
    BY <2>4 DEF OrderByID, CoinByID, VaultByID, GetByID
  <2> QED
    BY <1>2, <2>1, <2>2, <2>3, <2>4 DEF ListNext
<1> QED
  BY <1>1, <1>2

\* A step that is no write comes from a handler, or the request leaves.
LEMMA StillThereStep ==
    ASSUME TypeOK, StillThere, AtItsStep, Next
    PROVE  StillThere'
<1>1. CASE Write
  BY <1>1, WriteKeeps DEF StillThere, TableKept
<1>2. ASSUME UNCHANGED tableVars, existed' \in {existed, Table, {}}
      PROVE  StillThere'
  BY <1>2 DEF StillThere, tableVars, Table
<1>3. CASE WalletNext
  <2>1. existed' \in {existed, Table, {}}
    BY <1>3 DEF WalletNext, WalletReadRefused, Stats, DeployedTotals, Batch, StatsGroups,
           StatsTotal, TotalsRead, BatchOrders, BatchWallets, BatchTotals, WalletReadFails,
           Arrives, Refused, Goes, Answers
  <2> QED
    BY <1>2, <1>3, <2>1, WalletStep
<1>4. CASE PairNext
  <2>1. existed' \in {existed, Table, {}}
    BY <1>4 DEF PairNext, PairRefused, PairAsked, Prices, ResolveFrom, ResolveCoin, ResolveTo,
           ResolvePeriods, NotResolved, CoinNotResolved, BookAsks, BookBids, ReadSummary,
           ResolveCounter, CounterNotResolved, PriceAnswered, PeriodLoad, PeriodHit,
           PeriodsAnswered, PairReadFails, Arrives, Refused, Goes, Answers
  <2> QED
    BY <1>2, <1>4, <2>1, PairStep
<1>5. CASE ListNext
  <2>1. existed' \in {existed, Table, {}}
    <3>1. CASE ListRefused \/ BadColumn \/ PageFails \/ NextPage \/ NextBoardPage
      BY <3>1 DEF ListRefused, BadColumn, PageFails, NextPage, NextBoardPage, Takes, Refused,
             Goes, Answers
    <3>2. CASE \E w \in Walks : StartWalk(w)
      BY <3>2 DEF StartWalk, Arrives
    <3>3. CASE \E coin \in Coins, limit \in PageLimits : StartBoard(coin, limit)
      BY <3>3 DEF StartBoard, Arrives
    <3>4. CASE \E id \in Orders \cup Coins \cup VaultIds :
                   OrderByID(id) \/ CoinByID(id) \/ VaultByID(id)
      BY <3>4 DEF OrderByID, CoinByID, VaultByID, GetByID
    <3> QED
      BY <1>5, <3>1, <3>2, <3>3, <3>4 DEF ListNext
  <2> QED
    BY <1>2, <1>5, <2>1, ListStep
<1>6. CASE Leave
  BY <1>2, <1>6 DEF Leave, Leaves, tableVars
<1> QED
  BY <1>1, <1>3, <1>4, <1>5, <1>6 DEF Next

----------------------------------------------------------------------------
(* Stats *)

\* The wallet's counts: the orders counted stay the wallet's, and those the request
\* found on arrival stay counted.
LEMMA StatsStep ==
    ASSUME IInv, Next
    PROVE  GroupsRead' /\ StatsAddUp'
<1> TypeOK /\ AtItsStep /\ StillThere /\ GroupsRead /\ StatsAddUp
  BY DEF IInv
<1>1. CASE Write /\ UNCHANGED <<walletVars, pairVars, walkVars>>
  <2>1. /\ UNCHANGED <<kind, pc, code, existed, asked, groups, total>>
        /\ Table \subseteq Table'
    BY <1>1, WriteKeeps DEF TableKept, walletVars
  <2>2. /\ OrdersOf(asked) \subseteq OrdersOf(asked)'
        /\ existed \cap OrdersOf(asked) = (existed \cap OrdersOf(asked))'
    BY <2>1 DEF OrdersOf, StillThere, Table
  <2>3. GroupsRead'
    BY <2>1, <2>2 DEF GroupsRead
  <2>4. StatsAddUp'
    BY <2>1, <2>2 DEF StatsAddUp, Stated, OpenCount, ClosedCount
  <2> QED
    BY <2>3, <2>4
<1>2. CASE WalletNext
  <2>1. ASSUME kind' = "stats", pc' = "stats total"
        PROVE  GroupsRead'
    <3>1. StatsGroups
      BY <1>2, <2>1 DEF WalletNext, WalletReadRefused, Stats, DeployedTotals, Batch, StatsTotal,
         TotalsRead, BatchOrders, BatchWallets, BatchTotals, WalletReadFails, Arrives, Refused,
         Goes, Answers, AtItsStep
    <3>2. /\ groups' = [s \in Statuses |-> {o \in OrdersOf(asked) : status[o] = s}]
          /\ UNCHANGED <<asked, status, existed>>
          /\ OrdersOf(asked)' = OrdersOf(asked)
      BY <3>1 DEF StatsGroups, Goes, OrdersOf, Table
    <3>3. \A o \in OrdersOf(asked) : status[o] \in Statuses
      BY DEF OrdersOf, Table, TypeOK, TableTypeOK
    <3>4. OrdersOf(asked) \subseteq UNION {groups'[s] : s \in Statuses}
      BY <3>2, <3>3
    <3> QED
      BY <3>2, <3>4 DEF GroupsRead
  <2>2. ASSUME Stated("stats")'
        PROVE  StatsAddUp'
    <3>0. pc' = "answered" /\ code' = 200 /\ kind' = "stats"
      BY <2>2 DEF Stated
    <3>1. StatsTotal
      <4>1. ~WalletReadRefused /\ ~WalletReadFails
        BY <3>0 DEF WalletReadRefused, WalletReadFails, Refused, Answers
      <4>2. \A w \in Wallets : ~Stats(w) /\ ~DeployedTotals(w)
        BY <3>0 DEF Stats, DeployedTotals, Arrives
      <4>3. \A ws \in (SUBSET Wallets) \ {{}}, s \in BatchStatuses : ~Batch(ws, s)
        BY <3>0 DEF Batch, Arrives
      <4>4. ~StatsGroups /\ ~BatchOrders /\ ~BatchWallets
        BY <3>0 DEF StatsGroups, BatchOrders, BatchWallets, Goes
      <4>5. ~TotalsRead /\ ~BatchTotals
        BY <3>0 DEF TotalsRead, BatchTotals, Answers, AtItsStep
      <4> QED
        BY <1>2, <4>1, <4>2, <4>3, <4>4, <4>5 DEF WalletNext
    <3>2. /\ pc = "stats total" /\ kind = "stats"
          /\ total' = OrdersOf(asked)
          /\ UNCHANGED <<asked, groups, status, existed>>
          /\ OrdersOf(asked)' = OrdersOf(asked)
      BY <3>1 DEF StatsTotal, Answers, OrdersOf, Table, AtItsStep
    <3>3. GroupsRead'
      BY <3>2, <3>1 DEF StatsTotal, Answers, GroupsRead
    <3>4. /\ \A s, t \in Statuses : s # t => groups[s] \cap groups[t] = {}
          /\ \A s \in Statuses : groups[s] \subseteq OrdersOf(asked)
          /\ existed \cap OrdersOf(asked) \subseteq UNION {groups[s] : s \in Statuses}
      BY <3>2 DEF GroupsRead
    <3>5. OpenCount \cap ClosedCount = {}
      BY <3>4 DEF OpenCount, ClosedCount
    <3>6. OpenCount \cup ClosedCount = UNION {groups[s] : s \in Statuses}
      BY DEF OpenCount, ClosedCount
    <3>7. /\ UNCHANGED <<OpenCount, ClosedCount>>
          /\ (existed \cap OrdersOf(asked))' = existed \cap OrdersOf(asked)
      BY <3>2 DEF OpenCount, ClosedCount
    <3>8. OpenCount \cup ClosedCount \subseteq OrdersOf(asked)
      BY <3>4, <3>6
    <3>9. existed \cap OrdersOf(asked) \subseteq OpenCount \cup ClosedCount
      BY <3>4, <3>6
    <3>10. /\ (OpenCount \cap ClosedCount)' = {}
           /\ (OpenCount \cup ClosedCount)' \subseteq total'
           /\ (existed \cap OrdersOf(asked))' \subseteq (OpenCount \cup ClosedCount)'
      BY <3>2, <3>5, <3>7, <3>8, <3>9
    <3> QED
      BY <3>10 DEF StatsAddUp
  <2> QED
    BY <2>1, <2>2 DEF GroupsRead, StatsAddUp
<1>3. CASE kind' # "stats"
  BY <1>3 DEF GroupsRead, StatsAddUp, Stated
<1> QED
  BY <1>1, <1>2, <1>3, PairStep, ListStep DEF Next, Leave, Leaves, PairKinds, ListKinds

----------------------------------------------------------------------------
(* Batches *)

\* A wallet's sums over all coins are its orders on offer.
LEMMA SumsOfWallet ==
    ASSUME NEW ws \in SUBSET Wallets, NEW w \in Wallets
    PROVE  UNION {Sums(ws)[w][c] : c \in Coins} =
              {o \in OrdersOf(ws) : WalletOf[o] = w /\ status[o] \in {"deployed", "pending_match"}}
<1>1. \A o \in OrdersOf(ws) : From[o] \in Coins
  BY TableAssumption DEF OrdersOf, Table
<1>2. \A c \in Coins : Sums(ws)[w][c] =
         {o \in OrdersOf(ws) : WalletOf[o] = w /\ From[o] = c /\ status[o] \in {"deployed", "pending_match"}}
  BY DEF Sums
<1> QED
  BY <1>1, <1>2

\* The three statements of a batch, and the writes between them.
LEMMA BatchStep ==
    ASSUME IInv, Next
    PROVE  BatchRead'
<1> TypeOK /\ AtItsStep /\ StillThere /\ BatchRead
  BY DEF IInv
<1>1. CASE Write /\ UNCHANGED <<walletVars, pairVars, walkVars>>
  <2>1. UNCHANGED <<kind, pc, code, existed, asked, wanted, found, owners, totals>>
    BY <1>1, WriteKeeps DEF walletVars
  <2>2. /\ steady' \subseteq steady
        /\ \A o \in steady' : status'[o] = status[o]
        /\ \A o \in Orders : status[o] \in Finished => status'[o] \in Finished
    BY <1>1, WriteKeeps DEF TableKept
  <2>3. DOMAIN found \subseteq Orders
    BY DEF TypeOK, WalletTypeOK
  <2>4. FoundHolds => FoundHolds'
    BY <2>1, <2>2, <2>3 DEF FoundHolds
  <2>5. OwnersFound => OwnersFound'
    BY <2>1 DEF OwnersFound
  <2>6. TotalsHold => TotalsHold'
    BY <2>1, <2>2 DEF TotalsHold, Summed
  <2> QED
    BY <2>1, <2>4, <2>5, <2>6 DEF BatchRead, Stated
<1>2. CASE WalletNext
  <2>1. CASE BatchOrders
    <3>1. /\ found' = [o \in Matching |-> status[o]]
          /\ UNCHANGED <<asked, wanted, status, existed, steady, kind>>
          /\ pc' = IF Matching = {} THEN "batch totals" ELSE "batch wallets"
      BY <2>1 DEF BatchOrders, Goes
    <3>2. FoundHolds'
      BY <3>1 DEF FoundHolds, Matching, OrdersOf, StillThere
    <3>3. Matching = {} => OwnersFound'
      BY <3>1 DEF OwnersFound
    <3> QED
      BY <3>1, <3>2, <3>3 DEF BatchRead, Stated
  <2>2. CASE BatchWallets
    <3>1. /\ owners' = {WalletOf[o] : o \in DOMAIN found}
          /\ pc = "batch wallets" /\ pc' = "batch totals"
          /\ UNCHANGED <<asked, wanted, found, status, existed, steady, kind>>
      BY <2>2 DEF BatchWallets, Goes
    <3>2. FoundHolds'
      BY <3>1 DEF FoundHolds, BatchRead, AtItsStep
    <3>3. OwnersFound'
      BY <3>1 DEF OwnersFound
    <3> QED
      BY <3>1, <3>2, <3>3 DEF BatchRead, Stated
  <2>3. CASE BatchTotals
    <3>1. /\ totals' = Sums(asked)
          /\ pc = "batch totals" /\ pc' = "answered" /\ kind = "batch"
          /\ UNCHANGED <<asked, wanted, found, owners, status, existed, steady, kind>>
      BY <2>3 DEF BatchTotals, Answers, AtItsStep
    <3>2. FoundHolds /\ OwnersFound
      BY <3>1 DEF BatchRead
    <3>3. FoundHolds' /\ OwnersFound'
      BY <3>1, <3>2 DEF FoundHolds, OwnersFound
    <3>4. asked \in SUBSET Wallets
      BY DEF TypeOK, WalletTypeOK
    <3>5. ASSUME NEW w \in asked
          PROVE  Summed(w)' = {o \in OrdersOf(asked) :
                                  WalletOf[o] = w /\ status[o] \in {"deployed", "pending_match"}}
      <4>1. Summed(w)' = UNION {Sums(asked)[w][c] : c \in Coins}
        BY <3>1 DEF Summed
      <4>2. w \in Wallets
        BY <3>4, <3>5
      <4> QED
        BY <3>4, <4>1, <4>2, SumsOfWallet
    <3>6. ASSUME NEW w \in asked
          PROVE  \A o \in DOMAIN found : found[o] \in Finished => o \notin Summed(w)'
      BY <3>2, <3>5, <3>6 DEF FoundHolds, Finished
    <3>7. ASSUME NEW w \in asked
          PROVE  \A o \in steady \cap existed :
                    WalletOf[o] = w /\ status[o] \in {"deployed", "pending_match"} => o \in Summed(w)'
      BY <3>5, <3>7 DEF OrdersOf, StillThere
    <3>8. TotalsHold'
      BY <3>1, <3>6, <3>7 DEF TotalsHold
    <3> QED
      BY <3>1, <3>3, <3>8 DEF BatchRead
  <2>4. CASE WalletReadRefused \/ WalletReadFails
    <3>1. pc' = "answered" /\ code' \in {400, 500}
      BY <2>4 DEF WalletReadRefused, WalletReadFails, Refused, Answers
    <3>2. code' # 200
      BY <3>1
    <3>3. ~Stated("batch")'
      BY <3>2 DEF Stated
    <3> QED
      BY <3>1, <3>3 DEF BatchRead
  <2>5. CASE StatsGroups \/ StatsTotal \/ TotalsRead
    BY <2>5 DEF StatsGroups, StatsTotal, TotalsRead, Goes, Answers, BatchRead, Stated, AtItsStep
  <2>6. ASSUME NEW w \in Wallets, Stats(w) \/ DeployedTotals(w)
        PROVE  BatchRead'
    BY <2>6 DEF Stats, DeployedTotals, Arrives, BatchRead, Stated
  <2>7. ASSUME NEW ws \in (SUBSET Wallets) \ {{}}, NEW s \in BatchStatuses, Batch(ws, s)
        PROVE  BatchRead'
    BY <2>7 DEF Batch, Arrives, BatchRead, Stated
  <2> QED
    BY <1>2, <2>1, <2>2, <2>3, <2>4, <2>5, <2>6, <2>7 DEF WalletNext
<1>3. CASE kind' # "batch"
  BY <1>3 DEF BatchRead, Stated
<1> QED
  BY <1>1, <1>2, <1>3, PairStep, ListStep DEF Next, Leave, Leaves, PairKinds, ListKinds

----------------------------------------------------------------------------
(* The order book *)

\* What a statement of the book would say of an order nobody has touched does not change.
LEMMA SideKept ==
    ASSUME TypeOK, StillThere, TableKept, UNCHANGED <<existed, minUsd>>,
           NEW side, NEW a, NEW b, SideHolds(side, a, b)
    PROVE  \A o \in steady' \cap existed' :
              o \in side <=> o \in BookSide(a, b, BuildUSDFilter(a, b, minUsd))'
<1>1. TAKE o \in steady' \cap existed'
<1>2. /\ o \in steady \cap existed /\ o \in Table /\ o \in Table'
      /\ status'[o] = status[o] /\ amount'[o] = amount[o]
  BY <1>1 DEF TableKept, StillThere
<1>3. o \in Deployed(a, b)' <=> o \in Deployed(a, b)
  BY <1>2 DEF Deployed
<1>4. BuildUSDFilter(a, b, minUsd)' = BuildUSDFilter(a, b, minUsd)
  BY DEF BuildUSDFilter
<1>5. o \in BookSide(a, b, BuildUSDFilter(a, b, minUsd))'
         <=> o \in BookSide(a, b, BuildUSDFilter(a, b, minUsd))
  BY <1>2, <1>3, <1>4 DEF BookSide
<1> QED
  BY <1>2, <1>5 DEF SideHolds

\* The coins of a pair, once they are looked up.
LEMMA CoinsStep ==
    ASSUME IInv, Next
    PROVE  CoinsResolved'
<1> TypeOK /\ AtItsStep /\ CoinsResolved
  BY DEF IInv
<1>1. CASE Write /\ UNCHANGED <<walletVars, pairVars, walkVars>>
  BY <1>1, WriteKeeps DEF CoinsResolved, Priced, pairVars
<1>2. CASE PairNext
  <2>1. CASE \E a \in Coins : ResolveFrom(a) \/ ResolveCoin(a)
    BY <2>1 DEF ResolveFrom, ResolveCoin, Goes, CoinsResolved, Priced, AtItsStep
  <2>2. CASE \E b \in Coins, usd \in MinUsds : ResolveTo(b, usd)
    BY <2>2 DEF ResolveTo, Goes, CoinsResolved, Priced, AtItsStep
  <2>3. CASE \E b \in Coins : ResolvePeriods(b)
    BY <2>3 DEF ResolvePeriods, Goes, CoinsResolved, Priced, AtItsStep
  <2>4. CASE BookAsks \/ BookBids \/ PeriodLoad \/ PeriodHit
    BY <2>4 DEF BookAsks, BookBids, PeriodLoad, PeriodHit, Goes, Answers, CoinsResolved, Priced,
           AtItsStep
  <2>5. CASE ReadSummary \/ (\E c \in Coins : ResolveCounter(c) \/ CounterNotResolved(c))
    BY <2>5 DEF ReadSummary, ResolveCounter, CounterNotResolved, Goes, CoinsResolved, Priced,
           AtItsStep
  <2>6. CASE PairAsked \/ Prices
    BY <2>6 DEF PairAsked, Prices, Arrives, CoinsResolved, Priced
  <2>7. CASE PriceAnswered \/ PeriodsAnswered
    BY <2>7 DEF PriceAnswered, PeriodsAnswered, Answers, CoinsResolved, Priced, AtItsStep
  <2>8. CASE PairRefused \/ NotResolved \/ CoinNotResolved \/ PairReadFails
    <3>1. pc' = "answered" /\ code' \in {400, 404, 500}
      BY <2>8 DEF PairRefused, NotResolved, CoinNotResolved, PairReadFails, Refused, Answers
    <3>2. code' # 200
      BY <3>1
    <3>3. ~Priced("book")'
      BY <3>2 DEF Priced
    <3> QED
      BY <3>1, <3>3 DEF CoinsResolved
  <2> QED
    BY <1>2, <2>1, <2>2, <2>3, <2>4, <2>5, <2>6, <2>7, <2>8 DEF PairNext
<1>3. CASE kind' \notin PairKinds
  <2>1. AtItsStep'
    BY <1>1, <1>3, WalletStep, PairStep, ListStep, WriteKeeps
       DEF Next, Leave, Leaves, AtItsStep
  <2> QED
    BY <1>3, <2>1 DEF CoinsResolved, Priced, PairKinds, AtItsStep
<1> QED
  BY <1>1, <1>2, <1>3, WalletStep, ListStep DEF Next, Leave, Leaves, PairKinds, ListKinds, WalletKinds

\* The two statements of a book, and the writes between and after them.
LEMMA BookStep ==
    ASSUME IInv, Next
    PROVE  BookRead'
<1> TypeOK /\ AtItsStep /\ StillThere /\ BookRead
  BY DEF IInv
<1>1. CASE Write /\ UNCHANGED <<walletVars, pairVars, walkVars>>
  <2>1. UNCHANGED <<kind, pc, code, existed, from, to, minUsd, asks, bids>>
    BY <1>1, WriteKeeps DEF pairVars, bookVars
  <2>2. ASSUME NEW side, NEW a, NEW b, SideHolds(side, a, b)
        PROVE  \A o \in steady' \cap existed' :
                  o \in side <=> o \in BookSide(a, b, BuildUSDFilter(a, b, minUsd))'
    BY <1>1, <2>1, <2>2, WriteKeeps, SideKept
  <2>3. SideHolds(asks, from, to) => SideHolds(asks, from, to)'
    BY <2>1, <2>2 DEF SideHolds
  <2>4. SideHolds(bids, to, from) => SideHolds(bids, to, from)'
    BY <2>1, <2>2 DEF SideHolds
  <2> QED
    BY <2>1, <2>3, <2>4 DEF BookRead, Priced
<1>2. CASE PairNext
  <2>1. CASE BookAsks
    <3>1. /\ asks' = BookSide(from, to, BuildUSDFilter(from, to, minUsd))
          /\ UNCHANGED <<status, amount, from, to, minUsd>>
          /\ pc' = "bids"
      BY <2>1 DEF BookAsks, Goes
    <3>2. BookSide(from, to, BuildUSDFilter(from, to, minUsd))'
             = BookSide(from, to, BuildUSDFilter(from, to, minUsd))
      BY <3>1 DEF BookSide, Deployed, Table, BuildUSDFilter
    <3>3. SideHolds(asks, from, to)'
      BY <3>1, <3>2 DEF SideHolds
    <3> QED
      BY <3>1, <3>3 DEF BookRead, Priced
  <2>2. CASE BookBids
    <3>1. /\ bids' = BookSide(to, from, BuildUSDFilter(to, from, minUsd))
          /\ UNCHANGED <<status, amount, existed, steady, from, to, minUsd, asks>>
          /\ pc = "bids" /\ pc' = "answered" /\ kind = "book"
      BY <2>2 DEF BookBids, Answers, AtItsStep
    <3>2. /\ BookSide(to, from, BuildUSDFilter(to, from, minUsd))'
             = BookSide(to, from, BuildUSDFilter(to, from, minUsd))
          /\ BookSide(from, to, BuildUSDFilter(from, to, minUsd))'
             = BookSide(from, to, BuildUSDFilter(from, to, minUsd))
      BY <3>1 DEF BookSide, Deployed, Table, BuildUSDFilter
    <3>3. SideHolds(asks, from, to)' /\ SideHolds(bids, to, from)'
      BY <3>1, <3>2 DEF SideHolds, BookRead
    <3> QED
      BY <3>1, <3>3 DEF BookRead
  <2>3. CASE PairAsked \/ Prices
    BY <2>3 DEF PairAsked, Prices, Arrives, BookRead, Priced
  <2>4. CASE (\E a \in Coins : ResolveFrom(a) \/ ResolveCoin(a))
             \/ (\E b \in Coins, usd \in MinUsds : ResolveTo(b, usd))
    BY <2>4 DEF ResolveFrom, ResolveCoin, ResolveTo, Goes, BookRead, Priced
  <2>5. CASE (\E b \in Coins : ResolvePeriods(b)) \/ PeriodLoad \/ PeriodHit
    BY <2>5 DEF ResolvePeriods, PeriodLoad, PeriodHit, Goes, BookRead, Priced
  <2>6. CASE ReadSummary \/ (\E c \in Coins : ResolveCounter(c) \/ CounterNotResolved(c))
    BY <2>6 DEF ReadSummary, ResolveCounter, CounterNotResolved, Goes, BookRead, Priced
  <2>7. CASE PriceAnswered \/ PeriodsAnswered
    BY <2>7 DEF PriceAnswered, PeriodsAnswered, Answers, BookRead, Priced, AtItsStep
  <2>8. CASE PairRefused \/ NotResolved \/ CoinNotResolved \/ PairReadFails
    <3>1. pc' = "answered" /\ code' \in {400, 404, 500}
      BY <2>8 DEF PairRefused, NotResolved, CoinNotResolved, PairReadFails, Refused, Answers
    <3>2. code' # 200
      BY <3>1
    <3>3. ~Priced("book")'
      BY <3>2 DEF Priced
    <3> QED
      BY <3>1, <3>3 DEF BookRead
  <2> QED
    BY <1>2, <2>1, <2>2, <2>3, <2>4, <2>5, <2>6, <2>7, <2>8 DEF PairNext
<1>3. CASE kind' # "book"
  BY <1>3 DEF BookRead, Priced
<1> QED
  BY <1>1, <1>2, <1>3, WalletStep, ListStep DEF Next, Leave, Leaves, WalletKinds, ListKinds

----------------------------------------------------------------------------
(* Prices *)

\* The one statement of a price, the lookups of its counter coins, and the writes between.
LEMMA PriceStep ==
    ASSUME IInv, Next
    PROVE  PriceRead'
<1> TypeOK /\ AtItsStep /\ StillThere /\ PriceRead
  BY DEF IInv
<1>1. CASE Write /\ UNCHANGED <<walletVars, pairVars, walkVars>>
  <2>1. UNCHANGED <<kind, pc, code, existed, from, pairs, left, priced>>
    BY <1>1, WriteKeeps DEF pairVars, priceVars
  <2>2. /\ steady' \subseteq steady
        /\ \A o \in steady' : status'[o] = status[o]
    BY <1>1, WriteKeeps DEF TableKept
  <2>3. RowsHold => RowsHold'
    BY <2>1, <2>2 DEF RowsHold
  <2> QED
    BY <2>1, <2>3 DEF PriceRead, Priced
<1>2. CASE PairNext
  <2>1. CASE ReadSummary
    <3>1. /\ pairs' = Summary(from) /\ left' = DOMAIN pairs'
          /\ pc = "summary" /\ pc' = "counter"
          /\ UNCHANGED <<status, amount, existed, steady, from, priced, code, kind>>
      BY <2>1 DEF ReadSummary, Goes
    <3>2. DOMAIN priced = {}
      BY <3>1 DEF PriceRead
    <3>3. ASSUME NEW o \in steady \cap existed, status[o] = "deployed"
          PROVE  /\ From[o] = from => To[o] \in DOMAIN pairs' /\ o \in pairs'[To[o]].asks
                 /\ To[o] = from => From[o] \in DOMAIN pairs' /\ o \in pairs'[From[o]].bids
      <4>1. o \in Table /\ From[o] \in Coins /\ To[o] \in Coins
        BY <3>3, TableAssumption DEF StillThere, Table
      <4>2. ASSUME From[o] = from
            PROVE  To[o] \in DOMAIN pairs' /\ o \in pairs'[To[o]].asks
        <5>1. o \in Deployed(from, To[o])
          BY <3>3, <4>1, <4>2 DEF Deployed
        <5> QED
          BY <3>1, <4>1, <5>1 DEF Summary
      <4>3. ASSUME To[o] = from
            PROVE  From[o] \in DOMAIN pairs' /\ o \in pairs'[From[o]].bids
        <5>1. o \in Deployed(From[o], from)
          BY <3>3, <4>1, <4>3 DEF Deployed
        <5> QED
          BY <3>1, <4>1, <5>1 DEF Summary
      <4> QED
        BY <4>2, <4>3
    <3>4. RowsHold'
      BY <3>1, <3>2, <3>3 DEF RowsHold
    <3> QED
      BY <3>1, <3>4 DEF PriceRead, Priced
  <2>2. CASE \E c \in Coins : ResolveCounter(c)
    <3>1. PICK c \in Coins : ResolveCounter(c)
      BY <2>2
    <3>2. /\ c \in left /\ left' = left \ {c}
          /\ priced' = [d \in DOMAIN priced \cup {c} |-> pairs[d]]
          /\ pc = "counter" /\ pc' = "counter"
          /\ UNCHANGED <<status, existed, steady, from, pairs, code, kind>>
      BY <3>1 DEF ResolveCounter, Goes
    <3>3. RowsHold
      BY <3>2 DEF PriceRead
    <3>4. RowsHold'
      BY <3>2, <3>3 DEF RowsHold
    <3> QED
      BY <3>2, <3>4 DEF PriceRead, Priced
  <2>3. CASE \E c \in Coins : CounterNotResolved(c)
    <3>1. PICK c \in Coins : CounterNotResolved(c)
      BY <2>3
    <3>2. /\ c \in left \ {TON} /\ left' = left \ {c}
          /\ pc = "counter" /\ pc' = "counter"
          /\ UNCHANGED <<status, existed, steady, from, pairs, priced, code, kind>>
      BY <3>1 DEF CounterNotResolved, Goes
    <3>3. RowsHold
      BY <3>2 DEF PriceRead
    <3>4. RowsHold'
      BY <3>2, <3>3 DEF RowsHold
    <3> QED
      BY <3>2, <3>4 DEF PriceRead, Priced
  <2>4. CASE PriceAnswered
    <3>1. /\ left = {} /\ pc = "counter" /\ pc' = "answered"
          /\ UNCHANGED <<status, existed, steady, from, pairs, left, priced, kind>>
      BY <2>4 DEF PriceAnswered, Answers, pairVars, priceVars
    <3>2. RowsHold'
      BY <3>1 DEF RowsHold, PriceRead
    <3> QED
      BY <3>1, <3>2 DEF PriceRead
  <2>5. CASE PairAsked \/ Prices
    BY <2>5 DEF PairAsked, Prices, Arrives, PriceRead, Priced, pairVars, priceVars
  <2>6. CASE (\E a \in Coins : ResolveFrom(a) \/ ResolveCoin(a))
             \/ (\E b \in Coins, usd \in MinUsds : ResolveTo(b, usd))
             \/ (\E b \in Coins : ResolvePeriods(b))
    BY <2>6 DEF ResolveFrom, ResolveCoin, ResolveTo, ResolvePeriods, Goes, PriceRead, Priced,
           priceVars
  <2>7. CASE BookAsks \/ PeriodLoad \/ PeriodHit
    BY <2>7 DEF BookAsks, PeriodLoad, PeriodHit, Goes, PriceRead, Priced, priceVars
  <2>8. CASE BookBids \/ PeriodsAnswered
    BY <2>8 DEF BookBids, PeriodsAnswered, Answers, PriceRead, Priced, AtItsStep
  <2>9. CASE PairRefused \/ NotResolved \/ CoinNotResolved \/ PairReadFails
    <3>1. pc' = "answered" /\ code' \in {400, 404, 500}
      BY <2>9 DEF PairRefused, NotResolved, CoinNotResolved, PairReadFails, Refused, Answers
    <3>2. code' # 200
      BY <3>1
    <3>3. ~Priced("price")'
      BY <3>2 DEF Priced
    <3> QED
      BY <3>1, <3>3 DEF PriceRead
  <2> QED
    BY <1>2, <2>1, <2>2, <2>3, <2>4, <2>5, <2>6, <2>7, <2>8, <2>9 DEF PairNext
<1>3. CASE (WalletNext \/ ListNext) /\ UNCHANGED pairVars
  <2>1. kind' # "price" /\ AtItsStep'
    BY <1>3, WalletStep, ListStep DEF WalletKinds, ListKinds
  <2>2. pc \in {"counter", "answered"} => pc' \in {"counter", "answered"}
    BY <1>3, StaysAnswered
  <2> QED
    BY <1>3, <2>1, <2>2 DEF PriceRead, Priced, pairVars, priceVars, AtItsStep
<1>4. CASE Leave
  BY <1>4 DEF Leave, Leaves, PriceRead, Priced, NoPairs
<1> QED
  BY <1>1, <1>2, <1>3, <1>4 DEF Next

----------------------------------------------------------------------------
(* Trading statistics *)

\* A period that is loaded after a shorter one counts what that one counts.
LEMMA LoadNests ==
    ASSUME TypeOK, PeriodsHold, PeriodLoad
    PROVE  PeriodsHold'
<1> DEFINE n == Len(counted)
           loaded == {o \in OfPair \cap Table : o > since[n + 1]}
<1>1. /\ counted \in Seq(SUBSET Orders) /\ Orders \subseteq Nat /\ Periods \in Nat \ {0}
      /\ since \in [1..Periods -> Nat]
  BY TableAssumption, PairAssumption DEF TypeOK, PairTypeOK, PeriodsHold
<1>2. /\ n < Periods /\ counted' = Append(counted, loaded)
      /\ UNCHANGED <<status, from, to, since, fresh>>
  BY DEF PeriodLoad, Goes
<1>3. loaded \subseteq Orders
  BY DEF Table
<1>4. /\ n \in Nat /\ Len(counted') = n + 1
      /\ counted'[n + 1] = loaded
      /\ \A p \in 1..n : counted'[p] = counted[p]
  BY <1>1, <1>2, <1>3
<1>5. /\ OfPair' = OfPair /\ Table' = Table
      /\ \A p \in 1..Periods : TooOld(p)' = TooOld(p)
  BY <1>2 DEF OfPair, Table, TooOld
<1>6. n + 1 \in 1..Periods
  BY <1>1, <1>2, <1>4
<1>7. loaded \subseteq (OfPair \cap Table) \ TooOld(n + 1)
  <2>1. since[n + 1] \in Nat
    BY <1>1, <1>6
  <2>2. ASSUME NEW o \in loaded
        PROVE  o \in OfPair \cap Table /\ ~(o <= since[n + 1])
    <3>1. o \in Nat /\ o > since[n + 1]
      BY <1>1, <1>3, <2>2
    <3> QED
      BY <2>1, <2>2, <3>1
  <2> HIDE DEF n
  <2> QED
    BY <2>2 DEF TooOld
<1>8. ASSUME fresh, NEW p \in 1..n
      PROVE  /\ counted[p] \subseteq (OfPair \cap Table) \ TooOld(p)
             /\ \A q \in 1..n : p < q => counted[p] \subseteq counted[q]
             /\ counted[p] \subseteq loaded
  <2>1. /\ counted[p] \subseteq (OfPair \cap Table) \ TooOld(p)
        /\ \A q \in 1..n : p < q => counted[p] \subseteq counted[q]
    BY <1>8 DEF PeriodsHold
  <2>2. p \in 1..Periods /\ p < n + 1
    BY <1>1, <1>2, <1>4, <1>8
  <2>3. since[n + 1] <= since[p] /\ since[p] \in Nat /\ since[n + 1] \in Nat
    BY <1>1, <1>6, <2>2 DEF PeriodsHold
  <2>4. ASSUME NEW o \in counted[p]
        PROVE  o \in loaded
    <3>1. o \in OfPair /\ o \in Table /\ o \in Nat /\ ~(o <= since[p])
      BY <1>1, <2>1, <2>4 DEF TooOld, Table
    <3> QED
      BY <2>3, <3>1
  <2> QED
    BY <2>1, <2>4
<1>9. ASSUME fresh, NEW p \in 1..(n + 1)
      PROVE  /\ counted'[p] \subseteq (OfPair \cap Table) \ TooOld(p)
             /\ \A q \in 1..(n + 1) : p < q => counted'[p] \subseteq counted'[q]
  <2>1. CASE p = n + 1
    BY <1>4, <1>7, <2>1
  <2>2. CASE p \in 1..n
    <3>1. ASSUME NEW q \in 1..(n + 1), p < q
          PROVE  counted'[p] \subseteq counted'[q]
      <4>1. CASE q = n + 1
        BY <1>4, <1>8, <1>9, <2>2, <4>1
      <4>2. CASE q \in 1..n
        BY <1>4, <1>8, <1>9, <2>2, <3>1, <4>2
      <4> QED
        BY <1>4, <4>1, <4>2
    <3> QED
      BY <1>4, <1>8, <1>9, <2>2, <3>1
  <2> QED
    BY <1>4, <2>1, <2>2
<1>10. fresh' => \A p \in 1..Len(counted') :
          /\ counted'[p] \subseteq (OfPair \cap Table)' \ TooOld(p)'
          /\ \A q \in 1..Len(counted') : p < q => counted'[p] \subseteq counted'[q]
  <2>1. \A p \in 1..(n + 1) : p \in 1..Periods
    BY <1>1, <1>4, <1>6
  <2> QED
    BY <1>2, <1>4, <1>5, <1>9, <2>1
<1>11. /\ since' \in [1..Periods -> Nat] /\ Len(counted') <= Periods
       /\ \A p, q \in 1..Periods : p < q => since'[q] <= since'[p]
  BY <1>1, <1>2, <1>4, <1>6 DEF PeriodsHold
<1> QED
  BY <1>10, <1>11 DEF PeriodsHold

\* The periods of a response, loaded for it one after the other or not, and the writes
\* between.
LEMMA PeriodsStep ==
    ASSUME IInv, Next
    PROVE  PeriodsRead'
<1> TypeOK /\ AtItsStep /\ StillThere /\ PeriodsRead
  BY DEF IInv
<1>1. CASE Write /\ UNCHANGED <<walletVars, pairVars, walkVars>>
  <2>1. /\ UNCHANGED <<kind, pc, code, from, to, since, counted, fresh>>
        /\ Table \subseteq Table'
    BY <1>1, WriteKeeps DEF pairVars, periodVars, TableKept
  <2>2. PeriodsHold => PeriodsHold'
    BY <2>1 DEF PeriodsHold, OfPair, TooOld
  <2> QED
    BY <2>1, <2>2 DEF PeriodsRead, Priced
<1>2. CASE PairNext
  <2>1. CASE PeriodLoad
    <3>1. pc = "periods" /\ pc' = "periods"
      BY <2>1 DEF PeriodLoad, Goes
    <3>2. PeriodsHold'
      BY <2>1, <3>1, LoadNests DEF PeriodsRead
    <3> QED
      BY <3>1, <3>2 DEF PeriodsRead, Priced
  <2>2. CASE PeriodHit
    <3>1. PICK first \in (OfPair \cap existed) \cup {0}, last \in (OfPair \cap existed) \cup {0} :
              counted' = Append(counted, {o \in OfPair : first < o /\ o <= last})
      BY <2>2 DEF PeriodHit
    <3>2. /\ pc = "periods" /\ pc' = "periods" /\ fresh' = FALSE
          /\ since' = since /\ Len(counted) < Periods
      BY <2>2 DEF PeriodHit, Goes
    <3>3. Len(counted') = Len(counted) + 1 /\ Len(counted) \in Nat /\ Periods \in Nat
      <4>1. counted \in Seq(SUBSET Orders)
        BY DEF TypeOK, PairTypeOK
      <4>2. {o \in OfPair : first < o /\ o <= last} \in SUBSET Orders
        BY DEF OfPair
      <4> QED
        BY <3>1, <4>1, <4>2, PairAssumption
    <3>4. PeriodsHold
      BY <3>2 DEF PeriodsRead
    <3>5. PeriodsHold'
      BY <3>2, <3>3, <3>4 DEF PeriodsHold
    <3> QED
      BY <3>2, <3>5 DEF PeriodsRead, Priced
  <2>3. CASE \E b \in Coins : ResolvePeriods(b)
    <3>1. /\ pc = "to" /\ pc' = "periods" /\ counted' = counted
          /\ since' \in [1..Periods -> {o \in existed : From[o] = from /\ To[o] = to'} \cup {0}]
          /\ \A p, q \in 1..Periods : p < q => since'[q] <= since'[p]
      BY <2>3 DEF ResolvePeriods, Goes
    <3>2. counted' = <<>>
      BY <3>1 DEF PeriodsRead
    <3>3. existed \cup {0} \subseteq Nat
      BY TableAssumption DEF TypeOK, TableTypeOK
    <3>4. since' \in [1..Periods -> Nat]
      BY <3>1, <3>3
    <3>5. Len(counted') = 0 /\ 1..Len(counted') = {} /\ 0 <= Periods
      BY <3>2, PairAssumption
    <3>6. PeriodsHold'
      BY <3>1, <3>4, <3>5 DEF PeriodsHold
    <3> QED
      BY <3>1, <3>6 DEF PeriodsRead, Priced
  <2>4. CASE PeriodsAnswered
    <3>1. /\ pc = "periods" /\ pc' = "answered" /\ Len(counted) = Periods
          /\ UNCHANGED <<status, from, to, since, counted, fresh>>
      BY <2>4 DEF PeriodsAnswered, Answers, pairVars, periodVars
    <3>2. PeriodsHold'
      BY <3>1 DEF PeriodsRead, PeriodsHold, OfPair, Table, TooOld
    <3> QED
      BY <3>1, <3>2 DEF PeriodsRead
  <2>5. CASE PairAsked \/ Prices
    BY <2>5 DEF PairAsked, Prices, Arrives, PeriodsRead, Priced, pairVars, periodVars
  <2>6. CASE (\E a \in Coins : ResolveFrom(a) \/ ResolveCoin(a))
             \/ (\E b \in Coins, usd \in MinUsds : ResolveTo(b, usd))
    BY <2>6 DEF ResolveFrom, ResolveCoin, ResolveTo, Goes, PeriodsRead, Priced, periodVars
  <2>7. CASE BookAsks \/ ReadSummary \/ (\E c \in Coins : ResolveCounter(c) \/ CounterNotResolved(c))
    BY <2>7 DEF BookAsks, ReadSummary, ResolveCounter, CounterNotResolved, Goes, PeriodsRead,
           Priced, periodVars
  <2>8. CASE BookBids \/ PriceAnswered
    BY <2>8 DEF BookBids, PriceAnswered, Answers, PeriodsRead, Priced, AtItsStep
  <2>9. CASE PairRefused \/ NotResolved \/ CoinNotResolved \/ PairReadFails
    <3>1. pc' = "answered" /\ code' \in {400, 404, 500}
      BY <2>9 DEF PairRefused, NotResolved, CoinNotResolved, PairReadFails, Refused, Answers
    <3>2. code' # 200
      BY <3>1
    <3>3. ~Priced("periods")'
      BY <3>2 DEF Priced
    <3> QED
      BY <3>1, <3>3 DEF PeriodsRead
  <2> QED
    BY <1>2, <2>1, <2>2, <2>3, <2>4, <2>5, <2>6, <2>7, <2>8, <2>9 DEF PairNext
<1>3. CASE (WalletNext \/ ListNext) /\ UNCHANGED pairVars
  <2>1. kind' # "periods" /\ AtItsStep'
    BY <1>3, WalletStep, ListStep DEF WalletKinds, ListKinds
  <2>2. pc \in {"periods", "answered"} => pc' \in {"periods", "answered"}
    BY <1>3, StaysAnswered
  <2> QED
    BY <1>3, <2>1, <2>2 DEF PeriodsRead, Priced, pairVars, periodVars, AtItsStep
<1>4. CASE Leave
  BY <1>4 DEF Leave, Leaves, PeriodsRead, Priced
<1> QED
  BY <1>1, <1>2, <1>3, <1>4 DEF Next

----------------------------------------------------------------------------
(* Types *)

\* The table, and the request's own registers.
LEMMA TableTypeStep ==
    ASSUME TypeOK, AtItsStep, Next
    PROVE  TableTypeOK'
<1> TableTypeOK
  BY DEF TypeOK
<1>1. CASE Write
  <2>1. PICK o \in Orders :
            \/ Create(o)
            \/ \E s \in Statuses : Move(o, s)
            \/ \E rest \in 0..Size[o] : Fill(o, rest)
    BY <1>1 DEF Write
  <2>2. CASE Create(o)
    BY <2>2 DEF Create, TableTypeOK, Statuses, Open
  <2>3. CASE \E s \in Statuses : Move(o, s)
    BY <2>3 DEF Move, TableTypeOK
  <2>4. CASE \E rest \in 0..Size[o] : Fill(o, rest)
    <3>1. PICK rest \in 0..Size[o] : Fill(o, rest)
      BY <2>4
    <3>2. rest \in Nat
      BY TableAssumption
    <3> QED
      BY <3>1, <3>2 DEF Fill, TableTypeOK
  <2> QED
    BY <2>1, <2>2, <2>3, <2>4
<1>2. ASSUME UNCHANGED tableVars, existed' \in {existed, Table, {}}, steady' \in {steady, Orders, {}},
             code' \in {code, 0, 200, 400, 404, 500}
      PROVE  TableTypeOK'
  BY <1>2 DEF TableTypeOK, tableVars, Table
<1>3. CASE WalletNext
  <2>1. existed' \in {existed, Table, {}} /\ steady' \in {steady, Orders, {}}
    BY <1>3 DEF WalletNext, WalletReadRefused, Stats, DeployedTotals, Batch, StatsGroups,
           StatsTotal, TotalsRead, BatchOrders, BatchWallets, BatchTotals, WalletReadFails,
           Arrives, Refused, Goes, Answers
  <2>2. code' \in {code, 0, 200, 400, 404, 500}
    BY <1>3 DEF WalletNext, WalletReadRefused, Stats, DeployedTotals, Batch, StatsGroups,
           StatsTotal, TotalsRead, BatchOrders, BatchWallets, BatchTotals, WalletReadFails,
           Arrives, Refused, Goes, Answers
  <2> QED
    BY <1>2, <1>3, <2>1, <2>2, WalletStep
<1>4. CASE PairNext
  <2>1. existed' \in {existed, Table, {}} /\ steady' \in {steady, Orders, {}}
    BY <1>4 DEF PairNext, PairRefused, PairAsked, Prices, ResolveFrom, ResolveCoin, ResolveTo,
           ResolvePeriods, NotResolved, CoinNotResolved, BookAsks, BookBids, ReadSummary,
           ResolveCounter, CounterNotResolved, PriceAnswered, PeriodLoad, PeriodHit,
           PeriodsAnswered, PairReadFails, Arrives, Refused, Goes, Answers
  <2>2. code' \in {code, 0, 200, 400, 404, 500}
    BY <1>4 DEF PairNext, PairRefused, PairAsked, Prices, ResolveFrom, ResolveCoin, ResolveTo,
           ResolvePeriods, NotResolved, CoinNotResolved, BookAsks, BookBids, ReadSummary,
           ResolveCounter, CounterNotResolved, PriceAnswered, PeriodLoad, PeriodHit,
           PeriodsAnswered, PairReadFails, Arrives, Refused, Goes, Answers
  <2> QED
    BY <1>2, <1>4, <2>1, <2>2, PairStep
<1>5. CASE ListNext
  <2>1. /\ existed' \in {existed, Table, {}} /\ steady' \in {steady, Orders, {}}
        /\ code' \in {code, 0, 200, 400, 404, 500}
    <3>1. CASE ListRefused \/ BadColumn \/ PageFails \/ NextPage \/ NextBoardPage
      BY <3>1 DEF ListRefused, BadColumn, PageFails, NextPage, NextBoardPage, Takes, Refused,
             Goes, Answers
    <3>2. CASE \E w \in Walks : StartWalk(w)
      BY <3>2 DEF StartWalk, Arrives
    <3>3. CASE \E coin \in Coins, limit \in PageLimits : StartBoard(coin, limit)
      BY <3>3 DEF StartBoard, Arrives
    <3>4. CASE \E id \in Orders \cup Coins \cup VaultIds :
                   OrderByID(id) \/ CoinByID(id) \/ VaultByID(id)
      BY <3>4 DEF OrderByID, CoinByID, VaultByID, GetByID
    <3> QED
      BY <1>5, <3>1, <3>2, <3>3, <3>4 DEF ListNext
  <2> QED
    BY <1>2, <1>5, <2>1, ListStep
<1>6. CASE Leave
  BY <1>2, <1>6 DEF Leave, Leaves, tableVars
<1> QED
  BY <1>1, <1>3, <1>4, <1>5, <1>6 DEF Next

\* The registers of requests about wallets.
LEMMA WalletTypeStep ==
    ASSUME TypeOK, Next
    PROVE  WalletTypeOK'
<1> TableTypeOK /\ WalletTypeOK
  BY DEF TypeOK
<1>1. CASE WalletNext
  <2>1. CASE StatsGroups \/ StatsTotal
    BY <2>1 DEF StatsGroups, StatsTotal, WalletTypeOK, OrdersOf, Table
  <2>2. ASSUME asked \subseteq Wallets
        PROVE  Sums(asked) \in [Wallets -> [Coins -> SUBSET Orders]]
    BY DEF Sums, OrdersOf, Table
  <2>3. CASE TotalsRead \/ BatchTotals
    BY <2>2, <2>3 DEF TotalsRead, BatchTotals, WalletTypeOK
  <2>4. CASE BatchOrders
    <3>1. Matching \subseteq Orders
      BY DEF Matching, OrdersOf, Table
    <3> QED
      BY <2>4, <3>1 DEF BatchOrders, WalletTypeOK
  <2>5. CASE BatchWallets
    BY <2>5, TableAssumption DEF BatchWallets, WalletTypeOK
  <2>6. CASE WalletReadRefused \/ WalletReadFails
    BY <2>6 DEF WalletReadRefused, WalletReadFails, walletVars, WalletTypeOK
  <2>7. CASE \E w \in Wallets : Stats(w) \/ DeployedTotals(w)
    BY <2>7 DEF Stats, DeployedTotals, WalletTypeOK
  <2>8. CASE \E ws \in (SUBSET Wallets) \ {{}}, s \in BatchStatuses : Batch(ws, s)
    BY <2>8, WalletAssumption DEF Batch, WalletTypeOK
  <2> QED
    BY <1>1, <2>1, <2>3, <2>4, <2>5, <2>6, <2>7, <2>8 DEF WalletNext
<1>2. CASE UNCHANGED walletVars
  BY <1>2 DEF walletVars, WalletTypeOK
<1>3. CASE Leave
  BY <1>3 DEF Leave, WalletTypeOK, NoGroups, NoTotals
<1> QED
  BY <1>1, <1>2, <1>3 DEF Next

\* The registers of requests about pairs.
LEMMA PairTypeStep ==
    ASSUME IInv, Next
    PROVE  PairTypeOK'
<1> PairTypeOK /\ StillThere /\ PriceRead /\ PeriodsRead /\ TableTypeOK
  BY DEF IInv, TypeOK
<1>1. CASE PairNext
  <2>1. CASE PairRefused \/ PairAsked \/ Prices \/ NotResolved \/ CoinNotResolved
             \/ PriceAnswered \/ PeriodsAnswered \/ PairReadFails
    <3>1. UNCHANGED pairVars
      BY <2>1 DEF PairRefused, PairAsked, Prices, NotResolved, CoinNotResolved, PriceAnswered,
             PeriodsAnswered, PairReadFails
    <3> QED
      BY <3>1 DEF pairVars, bookVars, priceVars, periodVars, PairTypeOK
  <2>2. CASE \E a \in Coins : ResolveFrom(a) \/ ResolveCoin(a)
    BY <2>2 DEF ResolveFrom, ResolveCoin, bookVars, priceVars, periodVars, PairTypeOK
  <2>3. CASE \E b \in Coins, usd \in MinUsds : ResolveTo(b, usd)
    <3>1. PICK b \in Coins, usd \in MinUsds : ResolveTo(b, usd)
      BY <2>3
    <3>2. minUsd' \in Nat
      BY <3>1, PairAssumption DEF ResolveTo
    <3> QED
      BY <3>1, <3>2 DEF ResolveTo, priceVars, periodVars, PairTypeOK
  <2>4. CASE BookAsks \/ BookBids
    BY <2>4 DEF BookAsks, BookBids, BookSide, Deployed, Table, priceVars, periodVars, PairTypeOK
  <2>5. CASE ReadSummary
    <3>1. /\ DOMAIN priced = {} /\ priced' = priced
          /\ DOMAIN pairs' \subseteq Coins /\ left' = DOMAIN pairs'
      BY <2>5 DEF ReadSummary, Goes, Summary, PriceRead
    <3> QED
      BY <2>5, <3>1 DEF ReadSummary, bookVars, periodVars, PairTypeOK
  <2>6. CASE \E c \in Coins : ResolveCounter(c)
    <3>1. PICK c \in Coins : ResolveCounter(c)
      BY <2>6
    <3>2. RowsHold /\ c \in left
      BY <3>1 DEF ResolveCounter, Goes, PriceRead
    <3>3. DOMAIN priced' \subseteq DOMAIN pairs
      BY <3>1, <3>2 DEF ResolveCounter, RowsHold, PairTypeOK
    <3> QED
      BY <3>1, <3>3 DEF ResolveCounter, bookVars, periodVars, PairTypeOK
  <2>7. CASE \E c \in Coins : CounterNotResolved(c)
    BY <2>7 DEF CounterNotResolved, bookVars, periodVars, PairTypeOK
  <2>8. CASE \E b \in Coins : ResolvePeriods(b)
    <3>1. /\ since' \in [1..Periods -> {o \in existed : From[o] = from /\ To[o] = to'} \cup {0}]
          /\ existed \cup {0} \subseteq Nat
      BY <2>8, TableAssumption DEF ResolvePeriods, TableTypeOK
    <3>2. since' \in [1..Periods -> Nat] /\ Periods \in Nat
      BY <3>1, PairAssumption
    <3>3. since' \in Seq(Nat)
      BY <3>2
    <3> QED
      BY <2>8, <3>3 DEF ResolvePeriods, bookVars, priceVars, PairTypeOK
  <2>9. CASE PeriodLoad
    <3>1. {o \in OfPair \cap Table : o > since[Len(counted) + 1]} \in SUBSET Orders
      BY DEF Table
    <3>2. counted' \in Seq(SUBSET Orders)
      BY <2>9, <3>1 DEF PeriodLoad, PairTypeOK
    <3> QED
      BY <2>9, <3>2 DEF PeriodLoad, bookVars, priceVars, PairTypeOK
  <2>10. CASE PeriodHit
    <3>1. PICK first \in (OfPair \cap existed) \cup {0}, last \in (OfPair \cap existed) \cup {0} :
              counted' = Append(counted, {o \in OfPair : first < o /\ o <= last})
      BY <2>10 DEF PeriodHit
    <3>2. {o \in OfPair : first < o /\ o <= last} \in SUBSET Orders
      BY DEF OfPair
    <3>3. counted' \in Seq(SUBSET Orders)
      BY <3>1, <3>2 DEF PairTypeOK
    <3> QED
      BY <2>10, <3>3 DEF PeriodHit, bookVars, priceVars, PairTypeOK
  <2> QED
    BY <1>1, <2>1, <2>2, <2>3, <2>4, <2>5, <2>6, <2>7, <2>8, <2>9, <2>10 DEF PairNext
<1>2. CASE UNCHANGED pairVars
  BY <1>2 DEF pairVars, bookVars, priceVars, periodVars, PairTypeOK
<1>3. CASE Leave
  BY <1>3 DEF Leave, PairTypeOK, NoPairs
<1> QED
  BY <1>1, <1>2, <1>3 DEF Next

----------------------------------------------------------------------------
(* Theorems *)

LEMMA Initially == Init => IInv
<1> SUFFICES ASSUME Init
             PROVE  IInv
  OBVIOUS
<1> USE DEF Init, TableInit, WalletInit, PairInit
<1>1. TableTypeOK /\ Table = {}
  BY TableAssumption DEF TableTypeOK, Table
<1>2. WalletTypeOK
  BY DEF WalletTypeOK, NoGroups, NoTotals
<1>3. PairTypeOK
  BY DEF PairTypeOK, NoPairs
<1>4. AtItsStep /\ StillThere /\ GroupsRead /\ StatsAddUp /\ BatchRead
  BY DEF AtItsStep, StillThere, GroupsRead, StatsAddUp, BatchRead, Stated
<1>5. CoinsResolved /\ BookRead /\ PriceRead /\ PeriodsRead
  BY DEF CoinsResolved, BookRead, PriceRead, PeriodsRead, Priced, NoPairs
<1> QED
  BY <1>1, <1>2, <1>3, <1>4, <1>5 DEF IInv, TypeOK

LEMMA AtItsStepStep ==
    ASSUME IInv, Next
    PROVE  AtItsStep'
<1> TypeOK /\ AtItsStep
  BY DEF IInv
<1>1. CASE Write
  BY <1>1, WriteKeeps DEF AtItsStep
<1>2. CASE Leave
  BY <1>2 DEF Leave, Leaves, AtItsStep
<1> QED
  BY <1>1, <1>2, WalletStep, PairStep, ListStep DEF Next

LEMMA Inductive == IInv /\ [Next]_vars => IInv'
<1> SUFFICES ASSUME IInv, [Next]_vars
             PROVE  IInv'
  OBVIOUS
<1>1. CASE Next
  <2>1. TypeOK /\ AtItsStep /\ StillThere
    BY DEF IInv
  <2>2. TypeOK'
    BY <1>1, <2>1, TableTypeStep, WalletTypeStep, PairTypeStep DEF TypeOK
  <2> QED
    BY <1>1, <2>1, <2>2, AtItsStepStep, StillThereStep, StatsStep, BatchStep, CoinsStep, BookStep,
       PriceStep, PeriodsStep DEF IInv
<1>2. CASE UNCHANGED vars
  <2>1. UNCHANGED <<status, amount, kind, pc, code, existed, steady>>
    BY <1>2 DEF vars, tableVars, requestVars
  <2>2. UNCHANGED <<asked, wanted, groups, total, found, owners, totals>>
    BY <1>2 DEF vars, walletVars
  <2>3. UNCHANGED <<from, to, minUsd, asks, bids, pairs, left, priced, since, counted, fresh>>
    BY <1>2 DEF vars, pairVars, bookVars, priceVars, periodVars
  <2>4. TypeOK'
    <3>1. TableTypeOK'
      BY <2>1 DEF IInv, TypeOK, TableTypeOK
    <3>2. WalletTypeOK'
      BY <2>2 DEF IInv, TypeOK, WalletTypeOK
    <3>3. PairTypeOK'
      BY <2>3 DEF IInv, TypeOK, PairTypeOK
    <3> QED
      BY <3>1, <3>2, <3>3 DEF TypeOK
  <2>5. (AtItsStep /\ StillThere)'
    BY <2>1 DEF IInv, AtItsStep, StillThere, Table
  <2>6. (GroupsRead /\ StatsAddUp)'
    <3>1. /\ UNCHANGED <<Stated("stats"), OpenCount, ClosedCount>>
          /\ OrdersOf(asked)' = OrdersOf(asked)
      BY <2>1, <2>2 DEF Stated, OpenCount, ClosedCount, OrdersOf, Table
    <3>2. GroupsRead'
      BY <2>1, <2>2, <3>1 DEF IInv, GroupsRead
    <3>3. StatsAddUp'
      BY <2>1, <2>2, <3>1 DEF IInv, StatsAddUp
    <3> QED
      BY <3>2, <3>3
  <2>7. BatchRead'
    <3>1. UNCHANGED Stated("batch")
      BY <2>1 DEF Stated
    <3>2. (FoundHolds => FoundHolds') /\ (OwnersFound => OwnersFound')
      BY <2>1, <2>2 DEF FoundHolds, OwnersFound
    <3>3. TotalsHold => TotalsHold'
      BY <2>1, <2>2 DEF TotalsHold, Summed
    <3> QED
      BY <2>1, <3>1, <3>2, <3>3 DEF IInv, BatchRead
  <2>8. (CoinsResolved /\ BookRead)'
    BY <2>1, <2>3 DEF IInv, CoinsResolved, BookRead, SideHolds, BookSide, Deployed, Table,
       BuildUSDFilter, Priced
  <2>9. PriceRead'
    BY <2>1, <2>3 DEF IInv, PriceRead, RowsHold, Priced
  <2>10. PeriodsRead'
    BY <2>1, <2>3 DEF IInv, PeriodsRead, PeriodsHold, TooOld, OfPair, Table, Priced
  <2> QED
    BY <2>4, <2>5, <2>6, <2>7, <2>8, <2>9, <2>10 DEF IInv
<1> QED
  BY <1>1, <1>2

LEMMA Invariance == Spec => []IInv
  BY Initially, Inductive, PTL DEF Spec

\* The registers of a request keep their types, whatever it asks for.
THEOREM TypeCorrect == Spec => []TypeOK
<1>1. IInv => TypeOK
  BY DEF IInv
<1> QED
  BY <1>1, Invariance, PTL

\* Stats: what the two statements of one response say errs on one side only, for any
\* orders and whatever is written between them.
THEOREM CountsAddUp == Spec => []StatsAddUp
<1>1. IInv => StatsAddUp
  BY DEF IInv
<1> QED
  BY <1>1, Invariance, PTL

\* BatchContext: no order is shown as finished and summed up, and no order that is left
\* alone is missing, though its orders, wallets and totals are three statements.
THEOREM BatchesAgree == Spec => []BatchAgrees
<1>1. IInv => BatchAgrees
  <2> SUFFICES ASSUME IInv, Stated("batch"), NEW w \in asked
               PROVE  /\ \A o \in Shown(w) : found[o] \in Finished => o \notin Summed(w)
                      /\ \A o \in steady \cap existed : WalletOf[o] = w =>
                            /\ wanted \in {AnyStatus, status[o]} => o \in Shown(w)
                            /\ status[o] \in {"deployed", "pending_match"} => o \in Summed(w)
    BY DEF BatchAgrees
  <2>1. FoundHolds /\ OwnersFound /\ TotalsHold
    BY DEF IInv, BatchRead
  <2> QED
    BY <2>1 DEF FoundHolds, OwnersFound, TotalsHold, Shown
<1> QED
  BY <1>1, Invariance, PTL

\* The filter of buildUSDFilter, applied by GetOrderBook: what is worth enough is shown,
\* and everything where the threshold does not fit.
LEMMA FilterExact ==
    ASSUME TypeOK, NEW a \in Coins, NEW b \in Coins, NEW usd \in Nat, NEW o \in Orders,
           o \in Deployed(a, b), amount[o] > 0
    PROVE  o \in BookSide(a, b, BuildUSDFilter(a, b, usd)) <=> (Fits(a, usd) => Worth(o, usd))
<1> DEFINE f == BuildUSDFilter(a, b, usd)
<1>1. From[o] = a /\ To[o] = b
  BY DEF Deployed
<1>2. /\ amount[o] \in Nat /\ Price[o] \in Nat /\ Unit[a] \in Nat /\ Unit[b] \in Nat
      /\ PriceUnit \in Nat /\ MaxInt \in Nat
  BY TableAssumption, PairAssumption DEF TypeOK, TableTypeOK
<1>3. amount[o] * Price[o] \in Nat /\ PriceUnit * Unit[b] \in Nat
  BY <1>2
<1>4. o \in BookSide(a, b, f) <=>
         amount[o] >= f.minAmount /\ amount[o] * Price[o] >= f.minTotal
  BY DEF BookSide
<1>5. CASE usd = 0
  <2>1. f.minAmount = 0 /\ f.minTotal = 0
    BY <1>5 DEF BuildUSDFilter, Zero
  <2>2. 0 * Unit[a] = 0 /\ 0 * (PriceUnit * Unit[b]) = 0
    BY <1>2, <1>3
  <2>3. Worth(o, usd)
    BY <1>1, <1>2, <1>3, <1>5, <2>2 DEF Worth
  <2> QED
    BY <1>2, <1>3, <1>4, <2>1, <2>3
<1>6. CASE usd > 0 /\ a \in Stable
  <2>1. Worth(o, usd) <=> amount[o] >= usd * Unit[a]
    BY <1>1, <1>6 DEF Worth
  <2>4. Fits(a, usd) <=> usd * Unit[a] <= MaxInt
    BY <1>6 DEF Fits
  <2>2. CASE usd * Unit[a] <= MaxInt
    <3>1. f.minAmount = usd * Unit[a] /\ f.minTotal = 0
      BY <1>6, <2>2 DEF BuildUSDFilter, Zero
    <3> QED
      BY <1>3, <1>4, <2>1, <2>2, <2>4, <3>1
  <2>3. CASE ~(usd * Unit[a] <= MaxInt)
    <3>1. f.minAmount = 0 /\ f.minTotal = 0
      BY <1>6, <2>3 DEF BuildUSDFilter, Zero
    <3> QED
      BY <1>2, <1>3, <1>4, <2>3, <2>4, <3>1
  <2> QED
    BY <2>2, <2>3
<1>7. CASE usd > 0 /\ a \notin Stable /\ b \in Stable
  <2>1. f.minAmount = 0 /\ f.minTotal = usd * (PriceUnit * Unit[b])
    BY <1>7 DEF BuildUSDFilter, Zero
  <2>2. Worth(o, usd) <=> amount[o] * Price[o] >= usd * (PriceUnit * Unit[b])
    BY <1>1, <1>7 DEF Worth
  <2>3. Fits(a, usd)
    BY <1>7 DEF Fits
  <2> QED
    BY <1>2, <1>4, <2>1, <2>2, <2>3
<1>8. CASE usd > 0 /\ a \notin Stable /\ b \notin Stable
  <2>1. f.minAmount = 0 /\ f.minTotal = 0
    BY <1>8 DEF BuildUSDFilter, Zero
  <2>2. Worth(o, usd)
    BY <1>1, <1>8 DEF Worth
  <2> QED
    BY <1>2, <1>3, <1>4, <2>1, <2>2
<1> QED
  BY <1>5, <1>6, <1>7, <1>8

\* GetOrderBook hides exactly the orders that are worth too little, on both sides, for any
\* decimals, prices and amounts, on a side whose threshold is an int64, and no order on
\* one whose threshold is not.
THEOREM SmallHidden == Spec => []SmallOrdersHidden
<1>1. IInv => SmallOrdersHidden
  <2> DEFINE Exact(o, a, b, side) ==
                 o \in side <=> /\ o \in Deployed(a, b) /\ amount[o] > 0
                                /\ Fits(a, minUsd) => Worth(o, minUsd)
  <2> SUFFICES ASSUME IInv, Priced("book"), NEW o \in steady \cap existed
               PROVE  Exact(o, from, to, asks) /\ Exact(o, to, from, bids)
    BY DEF SmallOrdersHidden
  <2>1. /\ TypeOK /\ minUsd \in Nat /\ o \in Orders /\ from \in Coins /\ to \in Coins
        /\ SideHolds(asks, from, to) /\ SideHolds(bids, to, from)
    BY DEF IInv, TypeOK, TableTypeOK, PairTypeOK, CoinsResolved, BookRead
  <2>2. ASSUME NEW a \in Coins, NEW b \in Coins, NEW side, SideHolds(side, a, b)
        PROVE  Exact(o, a, b, side)
    <3>1. o \in side <=> o \in BookSide(a, b, BuildUSDFilter(a, b, minUsd))
      BY <2>2 DEF SideHolds
    <3>2. o \in side => o \in Deployed(a, b) /\ amount[o] > 0
      BY <3>1 DEF BookSide
    <3>3. o \in Deployed(a, b) /\ amount[o] > 0 =>
             (o \in side <=> (Fits(a, minUsd) => Worth(o, minUsd)))
      BY <2>1, <2>2, <3>1, FilterExact
    <3> QED
      BY <3>2, <3>3
  <2> HIDE DEF Exact
  <2> QED
    BY <2>1, <2>2
<1> QED
  BY <1>1, Invariance, PTL

\* GetPrice: a counter coin whose lookup fails takes its own pair out and no figure of another.
THEOREM WholePairs == Spec => []PairsWhole
<1>1. IInv => PairsWhole
  <2> SUFFICES ASSUME IInv, Priced("price"), NEW o \in steady \cap existed, status[o] = "deployed"
               PROVE  /\ From[o] = from => \/ To[o] \in DOMAIN priced /\ o \in priced[To[o]].asks
                                           \/ To[o] \notin DOMAIN priced \cup {TON}
                      /\ To[o] = from => \/ From[o] \in DOMAIN priced /\ o \in priced[From[o]].bids
                                         \/ From[o] \notin DOMAIN priced \cup {TON}
    BY DEF PairsWhole
  <2>1. RowsHold /\ left = {}
    BY DEF IInv, PriceRead
  <2> QED
    BY <2>1 DEF RowsHold
<1> QED
  BY <1>1, Invariance, PTL

\* GetTradingStats: periods that are all read for one response nest, for any number of them.
THEOREM LongerCountsMore == Spec => []PeriodsNest
<1>1. IInv => PeriodsNest
  <2> SUFFICES ASSUME IInv, Priced("periods"), fresh,
                      NEW p \in 1..Periods, NEW q \in 1..Periods, p < q
               PROVE  counted[p] \subseteq counted[q]
    BY DEF PeriodsNest
  <2>1. PeriodsHold /\ Len(counted) = Periods
    BY DEF IInv, PeriodsRead
  <2> QED
    BY <2>1 DEF PeriodsHold
<1> QED
  BY <1>1, Invariance, PTL

----------------------------------------------------------------------------
(* Walks through a list *)

\* The parameters of a list, once its page has a length.
WalkRecord ==
    [list : {"orders", "coins", "vaults"}, owner : Wallets \cup {Everyone},
     state : STRING, sort : Seq(STRING), order : STRING, limit : Nat \ {0}]

\* A list by id, whatever the statuses, and its order.
ById == walk.sort = <<>> /\ walk.state = "any"
Precedes(a, b) == IF walk.order = "desc" THEN a > b ELSE a < b

SeenRows == {seen[n] : n \in DOMAIN seen}

\* The rows the client must not miss.
Due ==
    IF walk.list = "orders" THEN {o \in existed : walk.owner \in {Everyone, WalletOf[o]}}
    ELSE Rows(walk)

\* Ids come from a sequence.
NoGapsInIds == \A p \in Table, o \in Orders : o < p => o \in Table

\* In the middle of a walk: a row that has not been shown is not on the pages that have
\* been, even if new rows have come before it; upwards, none can come in between.
WalkHolds ==
    /\ walk \in WalkRecord
    /\ seen \in Seq(Nat)
    /\ ById =>
        /\ SeenRows \subseteq Rows(walk)
        /\ Len(seen) <= Cardinality(Rows(walk))
        /\ \A x \in Due \ SeenRows : Len(seen) <= Cardinality({y \in Rows(walk) : Precedes(y, x)})
        /\ walk.order # "desc" =>
              /\ \A m, n \in DOMAIN seen : m < n => seen[m] < seen[n]
              /\ \A x \in SeenRows, y \in Rows(walk) : y < x => y \in SeenRows

BoardHolds ==
    /\ walk.limit \in Nat \ {0}
    /\ board \in Seq(Wallets)
    /\ Len(seen) \in 0..Len(board)
    /\ seen = SubSeq(board, 1, Len(seen))

\* At the end.
WalkEnds ==
    /\ walk \in WalkRecord
    /\ seen \in Seq(Nat)
    /\ ById =>
        /\ Due \subseteq SeenRows
        /\ walk.list # "orders" => SeenRows = Rows(walk)
        /\ walk.order # "desc" => \A m, n \in DOMAIN seen : m < n => seen[m] < seen[n]

WalkRead ==
    /\ NoGapsInIds
    /\ pc \notin {"page", "board", "answered"} => seen = <<>>
    /\ pc = "page" => WalkHolds
    /\ pc = "board" => BoardHolds
    /\ pc = "answered" /\ code = 200 =>
          /\ kind = "list" => WalkEnds
          /\ kind = "board" => seen = board

LEMMA RowsFinite ==
    ASSUME TypeOK, walk \in WalkRecord
    PROVE  Rows(walk) \subseteq Nat /\ IsFiniteSet(Rows(walk)) /\ Cardinality(Rows(walk)) \in Nat
<1>1. Rows(walk) \in SUBSET Orders \/ Rows(walk) \in SUBSET Coins \/ Rows(walk) = VaultIds
  BY DEF Rows, WalkRecord, Table
<1>2. Rows(walk) \subseteq Nat
  BY <1>1, TableAssumption, ListingAssumption
<1>3. IsFiniteSet(Rows(walk))
  BY <1>1, TableAssumption, ListingAssumption, FS_Subset
<1> QED
  BY <1>2, <1>3, FS_CardinalityType

\* Without columns to sort by, rows come by id.
LEMMA BeforeById ==
    ASSUME walk.sort = <<>>, NEW a \in Nat, NEW b \in Nat
    PROVE  Before(walk, a, b) <=> Precedes(a, b)
<1> DEFINE columns == SortList(walk.sort)
<1>1. columns = <<"id">> /\ DOMAIN columns = {1} /\ columns[1] = "id"
  BY DEF SortList
<1>2. \A id : ColumnOf(walk.list, "id", id) = id
  BY DEF ColumnOf
<1>3. \A m : m \notin 1..(1 - 1)
  OBVIOUS
<1> HIDE DEF columns
<1>4. Before(walk, a, b) <=>
          \E n \in DOMAIN columns :
             /\ \A m \in 1..(n - 1) :
                   ColumnOf(walk.list, columns[m], a) = ColumnOf(walk.list, columns[m], b)
             /\ IF walk.order = "desc"
                  THEN ColumnOf(walk.list, columns[n], a) > ColumnOf(walk.list, columns[n], b)
                  ELSE ColumnOf(walk.list, columns[n], a) < ColumnOf(walk.list, columns[n], b)
  BY DEF Before, columns
<1>5. Before(walk, a, b) <=>
          /\ \A m \in 1..(1 - 1) :
                ColumnOf(walk.list, columns[m], a) = ColumnOf(walk.list, columns[m], b)
          /\ IF walk.order = "desc"
               THEN ColumnOf(walk.list, columns[1], a) > ColumnOf(walk.list, columns[1], b)
               ELSE ColumnOf(walk.list, columns[1], a) < ColumnOf(walk.list, columns[1], b)
  BY <1>1, <1>4, Zenon
<1> QED
  BY <1>1, <1>2, <1>3, <1>5 DEF Precedes

LEMMA UpTo ==
    ASSUME NEW m \in Nat
    PROVE  IsFiniteSet(1..m) /\ Cardinality(1..m) = m
  BY FS_Interval

\* Where the rows are in a sorted list without repetitions.
LEMMA Places ==
    ASSUME NEW R \in SUBSET Nat, IsFiniteSet(R), NEW n \in Nat, n = Cardinality(R),
           NEW s \in [1..n -> R],
           \A i, j \in 1..n : i < j => s[i] # s[j] /\ ~Precedes(s[j], s[i])
    PROVE  /\ \A i, j \in 1..n : Precedes(s[i], s[j]) <=> i < j
           /\ \A x \in R : \E j \in 1..n : s[j] = x
           /\ \A j \in 1..n : Cardinality({y \in R : Precedes(y, s[j])}) = j - 1
<1>0. \A x \in R : x \in Nat
  OBVIOUS
<1>1. \A i, j \in 1..n : Precedes(s[i], s[j]) <=> i < j
  <2> SUFFICES ASSUME NEW i \in 1..n, NEW j \in 1..n PROVE Precedes(s[i], s[j]) <=> i < j
    OBVIOUS
  <2>1. s[i] \in Nat /\ s[j] \in Nat /\ i \in Nat /\ j \in Nat
    <3>1. s[i] \in R /\ s[j] \in R
      OBVIOUS
    <3>2. s[i] \in Nat /\ s[j] \in Nat
      BY <1>0, <3>1
    <3> QED
      BY <3>2
  <2>2. i < j => s[i] # s[j] /\ ~Precedes(s[j], s[i])
    OBVIOUS
  <2>3. j < i => ~Precedes(s[i], s[j])
    OBVIOUS
  <2>4. i = j => ~Precedes(s[i], s[j])
    BY <2>1 DEF Precedes
  <2> QED
    BY <2>1, <2>2, <2>3, <2>4 DEF Precedes
<1>2. s \in Injection(1..n, R)
  <2>1. ASSUME NEW i \in 1..n, NEW j \in 1..n, s[i] = s[j] PROVE i = j
    <3>1. ~(i < j) /\ ~(j < i)
      BY <2>1
    <3> QED
      BY <3>1
  <2> QED
    BY <2>1 DEF Injection, IsInjective
<1>3. IsFiniteSet(1..n) /\ Cardinality(1..n) = n
  BY FS_Interval
<1>4. s \in Surjection(1..n, R)
  BY <1>2, <1>3, FS_Injection
<1>5. \A x \in R : \E j \in 1..n : s[j] = x
  BY <1>4 DEF Surjection
<1>6. ASSUME NEW j \in 1..n PROVE Cardinality({y \in R : Precedes(y, s[j])}) = j - 1
  <2> DEFINE T == {y \in R : Precedes(y, s[j])}
             f == [i \in 1..(j - 1) |-> s[i]]
  <2>1. ASSUME NEW i \in 1..(j - 1) PROVE f[i] \in T
    <3>1. i \in 1..n /\ i < j
      OBVIOUS
    <3> QED
      BY <1>1, <3>1
  <2>2. f \in [1..(j - 1) -> T]
    BY <2>1
  <2>3. \A a, b \in 1..(j - 1) : f[a] = f[b] => a = b
    BY <1>2 DEF Injection, IsInjective
  <2>4. ASSUME NEW y \in T PROVE \E i \in 1..(j - 1) : f[i] = y
    <3>1. PICK i \in 1..n : s[i] = y
      BY <1>5
    <3>2. i < j
      BY <1>1, <3>1
    <3> QED
      BY <3>1, <3>2
  <2>5. f \in Bijection(1..(j - 1), T)
    BY <2>2, <2>3, <2>4 DEF Bijection, Injection, IsInjective, Surjection
  <2>6. IsFiniteSet(1..(j - 1)) /\ Cardinality(1..(j - 1)) = j - 1
    <3>1. j - 1 \in Nat
      OBVIOUS
    <3> QED
      BY <3>1, UpTo
  <2>7. ExistsBijection(1..(j - 1), T)
    BY <2>5 DEF ExistsBijection
  <2> QED
    BY <2>6, <2>7, FS_Bijection
<1> QED
  BY <1>1, <1>5, <1>6

\* A page goes on where the last one ended, and is empty only at the end.
LEMMA PageFollows ==
    ASSUME NEW R \in SUBSET Nat, NEW n \in Nat, NEW s \in [1..n -> R], NEW limit \in Nat \ {0},
           seen \in Seq(Nat)
    PROVE  LET page == Page(s, Len(seen), limit)
               m == Least(Len(seen) + limit, n)
           IN  /\ seen \o page \in Seq(Nat)
               /\ Len(seen) <= n =>
                     /\ m \in Len(seen)..n
                     /\ Len(seen \o page) = m
                     /\ \A i \in 1..Len(seen) : (seen \o page)[i] = seen[i]
                     /\ \A i \in (Len(seen) + 1)..m : (seen \o page)[i] = s[i]
                     /\ page = <<>> => m = n
<1> DEFINE l == Len(seen)
           m == Least(l + limit, n)
           page == Page(s, l, limit)
<1>1. l \in Nat
  BY LenProperties
<1>2. Len(s) = n
  BY DEF Page
<1>3. m \in Int /\ m <= n /\ m <= l + limit /\ (l <= n => l <= m) /\ (l < n => l < m)
  BY <1>1 DEF Least
<1>4. page = SubSeq(s, l + 1, m)
  BY <1>2 DEF Page
<1> HIDE DEF l, m, page
<1>5. \A i \in (l + 1)..m : s[i] \in Nat
  <2> SUFFICES ASSUME NEW i \in (l + 1)..m PROVE s[i] \in Nat
    OBVIOUS
  <2>1. i \in 1..n
    BY <1>1, <1>3
  <2>2. s[i] \in R
    BY <2>1
  <2>3. \A x \in R : x \in Nat
    OBVIOUS
  <2> QED
    BY <2>2, <2>3
<1>6. /\ page \in Seq(Nat)
      /\ Len(page) = IF l + 1 <= m THEN m - (l + 1) + 1 ELSE 0
      /\ \A i \in 1..(m - (l + 1) + 1) : page[i] = s[l + 1 + i - 1]
  <2> DEFINE lo == l + 1
  <2>1. lo \in Int /\ m \in Int /\ \A i \in lo..m : s[i] \in Nat
    BY <1>1, <1>3, <1>5
  <2> HIDE DEF lo
  <2>2. /\ SubSeq(s, lo, m) \in Seq(Nat)
        /\ Len(SubSeq(s, lo, m)) = IF lo <= m THEN m - lo + 1 ELSE 0
        /\ \A i \in 1..(m - lo + 1) : SubSeq(s, lo, m)[i] = s[lo + i - 1]
    BY <2>1, SubSeqProperties
  <2> QED
    BY <1>4, <2>2 DEF lo
<1>7. /\ seen \o page \in Seq(Nat)
      /\ Len(seen \o page) = Len(seen) + Len(page)
      /\ \A i \in 1 .. Len(seen) + Len(page) :
            (seen \o page)[i] = IF i <= Len(seen) THEN seen[i] ELSE page[i - Len(seen)]
  BY <1>6, ConcatProperties
<1>8. ASSUME l <= n
      PROVE  /\ m \in l..n
             /\ Len(seen \o page) = m
             /\ \A i \in 1..l : (seen \o page)[i] = seen[i]
             /\ \A i \in (l + 1)..m : (seen \o page)[i] = s[i]
             /\ page = <<>> => m = n
  <2>1. m \in l..n /\ Len(page) = m - l
    BY <1>1, <1>3, <1>6, <1>8
  <2>2. Len(seen \o page) = m
    BY <1>1, <1>3, <1>7, <2>1 DEF l
  <2>3. ASSUME NEW i \in 1..l PROVE (seen \o page)[i] = seen[i]
    BY <1>1, <1>3, <1>7, <2>1 DEF l
  <2>4. ASSUME NEW i \in (l + 1)..m PROVE (seen \o page)[i] = s[i]
    <3>1. i \in 1..(l + Len(page)) /\ ~(i <= l) /\ i - l \in 1..(m - (l + 1) + 1)
      BY <1>1, <1>3, <2>1
    <3>2. (seen \o page)[i] = page[i - l]
      BY <1>7, <3>1 DEF l
    <3>3. page[i - l] = s[l + 1 + (i - l) - 1]
      BY <1>6, <3>1
    <3>4. l + 1 + (i - l) - 1 = i
      BY <1>1, <3>1
    <3> QED
      BY <3>2, <3>3, <3>4
  <2>5. page = <<>> => m = n
    BY <1>1, <1>3, <1>8, <2>1
  <2> QED
    BY <2>1, <2>2, <2>3, <2>4, <2>5
<1> QED
  BY <1>7, <1>8 DEF l, m, page

\* Upwards, what has been shown is the beginning of any sorted list.
LEMMA ShownFirst ==
    ASSUME NEW R \in SUBSET Nat, IsFiniteSet(R), NEW n \in Nat, n = Cardinality(R),
           NEW s \in [1..n -> R],
           \A i, j \in 1..n : s[i] < s[j] <=> i < j,
           \A x \in R : \E j \in 1..n : s[j] = x,
           \A j \in 1..n : Cardinality({y \in R : y < s[j]}) = j - 1,
           seen \in Seq(Nat), SeenRows \subseteq R, Len(seen) <= n,
           \A a, b \in DOMAIN seen : a < b => seen[a] < seen[b],
           \A x \in SeenRows, y \in R : y < x => y \in SeenRows
    PROVE  \A j \in 1..n : s[j] \in SeenRows <=> j <= Len(seen)
<1> DEFINE l == Len(seen)
<1>1. l \in Nat /\ DOMAIN seen = 1..l /\ seen \in [1..l -> Nat]
  BY LenProperties
<1>2. IsFiniteSet(1..l) /\ Cardinality(1..l) = l
  BY <1>1, UpTo
<1>3. SeenRows = {seen[i] : i \in 1..l}
  BY <1>1 DEF SeenRows
<1> HIDE DEF l
<1>4. \A x \in R : x \in Nat
  OBVIOUS
<1>5. \A a, b \in 1..l : seen[a] = seen[b] => a = b
  <2> SUFFICES ASSUME NEW a \in 1..l, NEW b \in 1..l, seen[a] = seen[b] PROVE a = b
    OBVIOUS
  <2>1. seen[a] \in Nat /\ seen[b] \in Nat
    BY <1>1
  <2>2. ~(a < b) /\ ~(b < a)
    BY <1>1, <2>1
  <2> QED
    BY <1>1, <2>2
<1>6. IsFiniteSet(SeenRows) /\ Cardinality(SeenRows) <= l
  <2> DEFINE f == [i \in 1..l |-> seen[i]]
  <2>1. f \in Surjection(1..l, SeenRows)
    BY <1>3 DEF Surjection
  <2> QED
    BY <1>2, <2>1, FS_Surjection
<1>7. ASSUME NEW j \in 1..n, s[j] \notin SeenRows PROVE ~(j <= l)
  <2> DEFINE T == {y \in R : y < s[j]}
             f == [i \in 1..l |-> seen[i]]
  <2>1. ASSUME NEW i \in 1..l PROVE seen[i] \in T
    <3>1. seen[i] \in SeenRows /\ seen[i] \in R /\ s[j] \in R
      BY <1>3
    <3>2. ~(s[j] < seen[i]) /\ s[j] # seen[i]
      BY <1>7, <3>1
    <3>3. seen[i] \in Nat /\ s[j] \in Nat
      BY <1>4, <3>1
    <3> QED
      BY <3>1, <3>2, <3>3
  <2>2. f \in Injection(1..l, T)
    BY <1>5, <2>1 DEF Injection, IsInjective
  <2>3. IsFiniteSet(T) /\ Cardinality(T) = j - 1
    BY FS_Subset
  <2>4. Cardinality(1..l) <= Cardinality(T)
    BY <2>2, <2>3, FS_Injection
  <2> QED
    BY <1>1, <1>2, <2>3, <2>4
<1>8. ASSUME NEW j \in 1..n, s[j] \in SeenRows PROVE j <= l
  <2> DEFINE f == [i \in 1..j |-> s[i]]
  <2>1. ASSUME NEW i \in 1..j PROVE s[i] \in SeenRows
    <3>1. i \in 1..n /\ (i < j \/ i = j)
      OBVIOUS
    <3>2. s[i] \in R
      BY <3>1
    <3> QED
      BY <1>8, <3>1, <3>2
  <2>2. \A a, b \in 1..j : s[a] = s[b] => a = b
    <3> SUFFICES ASSUME NEW a \in 1..j, NEW b \in 1..j, s[a] = s[b] PROVE a = b
      OBVIOUS
    <3>1. a \in 1..n /\ b \in 1..n
      OBVIOUS
    <3>2. s[a] \in R
      BY <3>1
    <3>3. s[a] \in Nat
      BY <1>4, <3>2
    <3>4. ~(a < b) /\ ~(b < a)
      BY <3>1, <3>3
    <3> QED
      BY <3>1, <3>4
  <2>3. f \in Injection(1..j, SeenRows)
    BY <2>1, <2>2 DEF Injection, IsInjective
  <2>4. Cardinality(1..j) <= Cardinality(SeenRows)
    BY <1>6, <2>3, FS_Injection
  <2>5. Cardinality(1..j) = j
    BY UpTo
  <2>6. Cardinality(SeenRows) \in Nat
    BY <1>6, FS_CardinalityType
  <2> QED
    BY <1>1, <1>6, <2>4, <2>5, <2>6
<1> QED
  BY <1>7, <1>8 DEF l

\* A new order has a greater id than all there are.
LEMMA WriteAppends ==
    ASSUME TypeOK, NoGapsInIds, Write
    PROVE  NoGapsInIds' /\ \A o \in Table' \ Table, p \in Table : p < o
<1>1. PICK o \in Orders :
          \/ Create(o)
          \/ \E s \in Statuses : Move(o, s)
          \/ \E rest \in 0..Size[o] : Fill(o, rest)
  BY DEF Write
<1>2. CASE Create(o)
  <2>1. Table' = Table \cup {o}
    BY <1>2 DEF Create, Table, TypeOK, TableTypeOK
  <2>2. ASSUME NEW p \in Table PROVE p < o
    <3>1. p \in Orders /\ p # o /\ ~(o < p)
      BY <1>2 DEF Create, NoGapsInIds, Table
    <3>2. p \in Nat /\ o \in Nat
      BY <3>1, TableAssumption
    <3> QED
      BY <3>1, <3>2
  <2>3. \A p \in Orders : p < o => p \in Table
    BY <1>2 DEF Create
  <2> QED
    BY <2>1, <2>2, <2>3 DEF NoGapsInIds
<1>3. CASE \E s \in Statuses : Move(o, s)
  <2>1. Table' = Table
    BY <1>3 DEF Move, Table, TypeOK, TableTypeOK, Open, Statuses, Finished
  <2> QED
    BY <2>1 DEF NoGapsInIds
<1>4. CASE \E rest \in 0..Size[o] : Fill(o, rest)
  <2>1. Table' = Table
    BY <1>4 DEF Fill, Table
  <2> QED
    BY <2>1 DEF NoGapsInIds
<1> QED
  BY <1>1, <1>2, <1>3, <1>4

\* The rows of a list by id, whose owner is given or not.
LEMMA RowsById ==
    ASSUME walk \in WalkRecord, ById
    PROVE  Rows(walk) = CASE walk.list = "orders" -> {o \in Table : walk.owner \in {Everyone, WalletOf[o]}}
                          [] walk.list = "coins" -> Coins \ {TON}
                          [] walk.list = "vaults" -> VaultIds
  BY DEF Rows, WalkRecord, ById

\* While a client walks, rows come to the end of its list, and none goes.
LEMMA WriteWalk ==
    ASSUME TypeOK, TypeOK', StillThere, WalkRead, Write, UNCHANGED walkVars
    PROVE  WalkRead'
<1>1. UNCHANGED <<kind, pc, code, existed, walk, seen, board>> /\ Table \subseteq Table'
  BY WriteKeeps DEF TableKept, walkVars
<1>2. NoGapsInIds /\ NoGapsInIds' /\ \A o \in Table' \ Table, p \in Table : p < o
  BY WriteAppends DEF WalkRead
<1>3. ASSUME walk \in WalkRecord, ById
      PROVE  /\ Rows(walk) \subseteq Rows(walk)' /\ Due' = Due
             /\ walk.list # "orders" => Rows(walk)' = Rows(walk)
             /\ \A y \in Rows(walk)' \ Rows(walk), x \in Rows(walk) : x < y
  <2>1. Rows(walk)' = CASE walk.list = "orders" -> {o \in Table' : walk.owner \in {Everyone, WalletOf[o]}}
                        [] walk.list = "coins" -> Coins \ {TON}
                        [] walk.list = "vaults" -> VaultIds
    BY <1>1, <1>3 DEF Rows, WalkRecord, ById, Table
  <2>2. walk.list \in {"orders", "coins", "vaults"}
    BY <1>3 DEF WalkRecord
  <2>3. Rows(walk) \subseteq Rows(walk)' /\ (walk.list # "orders" => Rows(walk)' = Rows(walk))
    BY <1>1, <1>3, <2>1, <2>2, RowsById
  <2>4. Due' = Due
    BY <1>1, <2>2, <2>3 DEF Due
  <2>5. \A y \in Rows(walk)' \ Rows(walk), x \in Rows(walk) : x < y
    BY <1>2, <1>3, <2>1, <2>2, RowsById
  <2> QED
    BY <2>3, <2>4, <2>5
<1>4. ASSUME WalkHolds PROVE WalkHolds'
  <2>1. walk \in WalkRecord /\ seen \in Seq(Nat)
    BY <1>4 DEF WalkHolds
  <2>2. CASE ~ById
    BY <1>1, <2>1, <2>2 DEF WalkHolds, ById, WalkRecord
  <2>3. CASE ById
    <3>1. /\ SeenRows \subseteq Rows(walk)
          /\ Len(seen) <= Cardinality(Rows(walk))
          /\ \A x \in Due \ SeenRows : Len(seen) <= Cardinality({y \in Rows(walk) : Precedes(y, x)})
          /\ walk.order # "desc" =>
                /\ \A m, n \in DOMAIN seen : m < n => seen[m] < seen[n]
                /\ \A x \in SeenRows, y \in Rows(walk) : y < x => y \in SeenRows
      BY <1>4, <2>3 DEF WalkHolds
    <3>2. /\ Rows(walk) \subseteq Rows(walk)' /\ Due' = Due
          /\ \A y \in Rows(walk)' \ Rows(walk), x \in Rows(walk) : x < y
      BY <1>3, <2>1, <2>3
    <3>3. walk' \in WalkRecord
      BY <1>1, <2>1 DEF WalkRecord
    <3>4. /\ Rows(walk)' \subseteq Nat /\ IsFiniteSet(Rows(walk)')
          /\ Cardinality(Rows(walk)') \in Nat
      <4>1. \/ Rows(walk)' \in SUBSET Orders \/ Rows(walk)' \in SUBSET Coins
            \/ Rows(walk)' = VaultIds
        BY <1>1, <2>1 DEF Rows, WalkRecord, Table
      <4>2. Rows(walk)' \subseteq Nat
        BY <4>1, TableAssumption, ListingAssumption
      <4>3. IsFiniteSet(Rows(walk)')
        BY <4>1, TableAssumption, ListingAssumption, FS_Subset
      <4> QED
        BY <4>2, <4>3, FS_CardinalityType
    <3>5. Len(seen) \in Nat
      BY <2>1, LenProperties
    <3>6. Len(seen) <= Cardinality(Rows(walk)')
      <4>1. Cardinality(Rows(walk)) <= Cardinality(Rows(walk)') /\ Cardinality(Rows(walk)) \in Nat
        BY <2>1, <3>2, <3>4, FS_Subset, RowsFinite
      <4> QED
        BY <3>1, <3>4, <3>5, <4>1
    <3>7. ASSUME NEW x \in Due \ SeenRows
          PROVE  Len(seen) <= Cardinality({y \in Rows(walk)' : Precedes(y, x)})
      <4> DEFINE A == {y \in Rows(walk) : Precedes(y, x)}
                 B == {y \in Rows(walk)' : Precedes(y, x)}
      <4>1. IsFiniteSet(B) /\ Cardinality(B) \in Nat
        BY <3>4, FS_Subset, FS_CardinalityType
      <4>2. A \subseteq B
        BY <3>2
      <4>3. IsFiniteSet(A) /\ Cardinality(A) <= Cardinality(B) /\ Cardinality(A) \in Nat
        BY <4>1, <4>2, FS_Subset, FS_CardinalityType
      <4>4. Len(seen) <= Cardinality(A)
        BY <3>1
      <4> QED
        BY <3>5, <4>1, <4>3, <4>4
    <3>8. ASSUME walk.order # "desc", NEW x \in SeenRows, NEW y \in Rows(walk)', y < x
          PROVE  y \in SeenRows
      <4>1. x \in Rows(walk) /\ x \in Nat /\ y \in Nat
        BY <2>1, <3>1, <3>4, RowsFinite
      <4>2. y \in Rows(walk)
        <5> SUFFICES ASSUME y \notin Rows(walk) PROVE FALSE
          OBVIOUS
        <5>1. x < y
          BY <3>2, <4>1
        <5> QED
          BY <3>8, <4>1, <5>1
      <4> QED
        BY <3>1, <3>8, <4>2
    <3>9. UNCHANGED <<SeenRows, ById>> /\ \A a, b : Precedes(a, b)' = Precedes(a, b)
      BY <1>1 DEF SeenRows, ById, Precedes
    <3>10. \A x : {y \in Rows(walk)' : Precedes(y, x)'} = {y \in Rows(walk)' : Precedes(y, x)}
      BY <3>9
    <3>11. /\ SeenRows' \subseteq Rows(walk)'
           /\ Len(seen') <= Cardinality(Rows(walk)')
           /\ \A x \in Due' \ SeenRows' : Len(seen') <= Cardinality({y \in Rows(walk)' : Precedes(y, x)'})
           /\ walk'.order # "desc" =>
                 /\ \A m, n \in DOMAIN seen' : m < n => seen'[m] < seen'[n]
                 /\ \A x \in SeenRows', y \in Rows(walk)' : y < x => y \in SeenRows'
      BY <1>1, <3>1, <3>2, <3>6, <3>7, <3>8, <3>9, <3>10
    <3> QED
      BY <1>1, <2>1, <3>3, <3>11 DEF WalkHolds
  <2> QED
    BY <2>2, <2>3
<1>5. ASSUME WalkEnds PROVE WalkEnds'
  <2>1. walk \in WalkRecord /\ seen \in Seq(Nat)
    BY <1>5 DEF WalkEnds
  <2>2. UNCHANGED <<SeenRows, ById>> /\ walk' \in WalkRecord
    BY <1>1, <2>1 DEF SeenRows, ById, WalkRecord
  <2>3. ById => Due' = Due /\ (walk.list # "orders" => Rows(walk)' = Rows(walk))
    BY <1>3, <2>1
  <2> QED
    BY <1>1, <1>5, <2>1, <2>2, <2>3 DEF WalkEnds
<1>6. BoardHolds => BoardHolds'
  BY <1>1 DEF BoardHolds
<1> QED
  BY <1>1, <1>2, <1>4, <1>5, <1>6 DEF WalkRead

\* A page leaves out no row that was there, and the last one is empty because there is
\* no row left.
LEMMA PageWalk ==
    ASSUME TypeOK, StillThere, WalkHolds, NEW s \in Sorted(walk), UNCHANGED <<walk, status, existed>>,
           seen' = seen \o Page(s, Len(seen), walk.limit)
    PROVE  /\ WalkHolds'
           /\ Page(s, Len(seen), walk.limit) = <<>> => WalkEnds'
<1> DEFINE R == Rows(walk)
           n == Cardinality(R)
           l == Len(seen)
           page == Page(s, l, walk.limit)
           m == Least(l + walk.limit, n)
<1>1. /\ walk \in WalkRecord /\ seen \in Seq(Nat) /\ walk.limit \in Nat \ {0}
      /\ walk' \in WalkRecord /\ walk' = walk
  BY DEF WalkHolds, WalkRecord
<1>2. R \in SUBSET Nat /\ IsFiniteSet(R) /\ n \in Nat
  BY <1>1, RowsFinite
<1>3. /\ s \in [1..n -> R] /\ DOMAIN s = 1..n
      /\ \A i, j \in 1..n : i < j => s[i] # s[j] /\ ~Before(walk, s[j], s[i])
  BY DEF Sorted
<1>4. l \in Nat /\ DOMAIN seen = 1..l
  BY <1>1, LenProperties
<1>5. Rows(walk)' = R /\ Due' = Due /\ ById' = ById /\ \A a, b : Precedes(a, b)' = Precedes(a, b)
  BY <1>1 DEF Rows, Due, ById, Precedes, Table, WalkRecord
<1>6. /\ seen' \in Seq(Nat)
      /\ l <= n =>
            /\ m \in l..n
            /\ Len(seen') = m
            /\ \A i \in 1..l : seen'[i] = seen[i]
            /\ \A i \in (l + 1)..m : seen'[i] = s[i]
            /\ page = <<>> => m = n
  <2> HIDE DEF R, n
  <2>1. /\ seen \o page \in Seq(Nat)
        /\ l <= n =>
              /\ m \in l..n
              /\ Len(seen \o page) = m
              /\ \A i \in 1..l : (seen \o page)[i] = seen[i]
              /\ \A i \in (l + 1)..m : (seen \o page)[i] = s[i]
              /\ page = <<>> => m = n
    BY <1>1, <1>2, <1>3, PageFollows
  <2>2. seen' = seen \o page
    OBVIOUS
  <2> HIDE DEF l, m, page
  <2> QED
    BY <2>1, <2>2
<1>7. CASE ~ById
  BY <1>1, <1>5, <1>6, <1>7 DEF WalkHolds, WalkEnds
<1>8. CASE ById
  <2>1. /\ SeenRows \subseteq R /\ l <= n
        /\ \A x \in Due \ SeenRows : l <= Cardinality({y \in R : Precedes(y, x)})
        /\ walk.order # "desc" =>
              /\ \A a, b \in DOMAIN seen : a < b => seen[a] < seen[b]
              /\ \A x \in SeenRows, y \in R : y < x => y \in SeenRows
    BY <1>8 DEF WalkHolds
  <2>2. walk.sort = <<>>
    BY <1>8 DEF ById
  <2>3. ASSUME NEW i \in 1..n, NEW j \in 1..n, i < j PROVE s[i] # s[j] /\ ~Precedes(s[j], s[i])
    <3>1. s[i] \in R /\ s[j] \in R
      BY <1>3
    <3>2. s[i] \in Nat /\ s[j] \in Nat
      BY <1>2, <3>1
    <3> QED
      BY <1>3, <2>2, <2>3, <3>2, BeforeById
  <2> HIDE DEF R, n, page, m
  <2>4. /\ \A i, j \in 1..n : Precedes(s[i], s[j]) <=> i < j
        /\ \A x \in R : \E j \in 1..n : s[j] = x
        /\ \A j \in 1..n : Cardinality({y \in R : Precedes(y, s[j])}) = j - 1
    BY <1>2, <1>3, <2>3, Places DEF n
  <2>5. /\ seen' \in Seq(Nat) /\ m \in l..n /\ Len(seen') = m /\ DOMAIN seen' = 1..m
        /\ \A i \in 1..l : seen'[i] = seen[i]
        /\ \A i \in (l + 1)..m : seen'[i] = s[i]
        /\ page = <<>> => m = n
    BY <1>6, <2>1, LenProperties
  <2>6. SeenRows = {seen[i] : i \in 1..l} /\ SeenRows' = {seen'[i] : i \in 1..m}
    BY <1>4, <2>5 DEF SeenRows
  <2>7. SeenRows' = SeenRows \cup {s[i] : i \in (l + 1)..m}
    <3>1. ASSUME NEW x \in SeenRows' PROVE x \in SeenRows \cup {s[i] : i \in (l + 1)..m}
      <4>1. PICK i \in 1..m : x = seen'[i]
        BY <2>6
      <4>2. i \in 1..l \/ i \in (l + 1)..m
        BY <1>4, <2>5
      <4> QED
        BY <2>5, <2>6, <4>1, <4>2
    <3>2. ASSUME NEW x \in SeenRows PROVE x \in SeenRows'
      <4>1. PICK i \in 1..l : x = seen[i]
        BY <2>6
      <4>2. i \in 1..m
        BY <1>4, <2>5
      <4> QED
        BY <2>5, <2>6, <4>1, <4>2
    <3>3. ASSUME NEW i \in (l + 1)..m PROVE s[i] \in SeenRows'
      <4>1. i \in 1..m
        BY <1>4, <2>5
      <4> QED
        BY <2>5, <2>6, <4>1
    <3> QED
      BY <3>1, <3>2, <3>3
  <2>8. m \in Int /\ n \in Int /\ m <= n /\ \A i \in (l + 1)..m : i \in 1..n
    BY <1>2, <1>4, <2>5
  <2>9. SeenRows' \subseteq R
    BY <1>3, <2>1, <2>7, <2>8
  <2>10. Due \subseteq R
    BY <1>1, <1>8 DEF Due, R, Rows, ById, StillThere, WalkRecord
  <2>11. ASSUME NEW x \in Due \ SeenRows'
         PROVE  \E j \in 1..n : m <= j - 1 /\ Cardinality({y \in R : Precedes(y, x)}) = j - 1
    <3>1. PICK j \in 1..n : s[j] = x
      BY <2>4, <2>10
    <3>2. Cardinality({y \in R : Precedes(y, x)}) = j - 1
      BY <2>4, <3>1
    <3>3. l <= j - 1
      BY <2>1, <2>7, <2>11, <3>2
    <3>4. j \notin (l + 1)..m
      BY <2>7, <2>11, <3>1
    <3>5. m <= j - 1
      <4>1. j \in Int /\ l \in Int /\ l + 1 <= j
        BY <1>4, <3>3
      <4> QED
        BY <2>8, <3>4, <4>1
    <3> QED
      BY <3>2, <3>5
  <2>12. ASSUME walk.order # "desc"
         PROVE  /\ \A a, b \in 1..m : a < b => seen'[a] < seen'[b]
                /\ \A x \in SeenRows', y \in R : y < x => y \in SeenRows'
    <3>1. \A a, b : Precedes(a, b) <=> a < b
      BY <2>12 DEF Precedes
    <3>2. /\ \A i, j \in 1..n : s[i] < s[j] <=> i < j
          /\ \A j \in 1..n : Cardinality({y \in R : y < s[j]}) = j - 1
      <4>1. ASSUME NEW j \in 1..n PROVE {y \in R : Precedes(y, s[j])} = {y \in R : y < s[j]}
        BY <3>1
      <4> QED
        BY <2>4, <3>1, <4>1
    <3>3. \A j \in 1..n : s[j] \in SeenRows <=> j <= l
      BY <1>1, <1>2, <1>3, <2>1, <2>4, <2>12, <3>2, ShownFirst DEF n
    <3>4. ASSUME NEW j \in 1..n PROVE s[j] \in SeenRows' <=> j <= m
      <4>1. CASE j <= l
        BY <1>4, <2>5, <2>7, <3>3, <4>1
      <4>2. CASE j > l
        <5>1. j <= m => s[j] \in SeenRows'
          BY <1>4, <2>7, <4>2
        <5>2. ASSUME s[j] \in SeenRows' PROVE j <= m
          <6>1. s[j] \notin SeenRows
            BY <1>4, <3>3, <4>2
          <6>2. PICK i \in (l + 1)..m : s[i] = s[j]
            BY <2>7, <5>2, <6>1
          <6>3. i \in 1..n /\ ~(i < j)
            <7>1. i \in 1..n
              BY <2>8
            <7>2. s[i] \in Nat
              <8>1. s[i] \in R
                BY <1>3, <7>1
              <8> QED
                BY <1>2, <8>1
            <7>3. ~(s[i] < s[j])
              BY <6>2, <7>2
            <7> QED
              BY <3>2, <7>1, <7>3
          <6> QED
            BY <1>4, <2>5, <6>3
        <5> QED
          BY <5>1, <5>2
      <4> QED
        BY <1>4, <4>1, <4>2
    <3>5. ASSUME NEW a \in 1..m, NEW b \in 1..m, a < b PROVE seen'[a] < seen'[b]
      <4>1. CASE b <= l
        <5>1. a \in 1..l /\ b \in 1..l
          BY <1>4, <2>5, <3>5, <4>1
        <5> QED
          BY <1>4, <2>1, <2>5, <2>12, <3>5, <5>1
      <4>2. CASE a <= l /\ l < b
        <5>1. a \in 1..l /\ b \in (l + 1)..m /\ b \in 1..n
          BY <1>4, <2>5, <2>8, <4>2
        <5>2. seen[a] \in SeenRows /\ seen[a] \in R
          BY <2>1, <2>6, <5>1
        <5>3. PICK j \in 1..n : s[j] = seen[a]
          BY <2>4, <5>2
        <5>4. j <= l
          BY <3>3, <5>2, <5>3
        <5>5. j < b
          BY <1>4, <4>2, <5>1, <5>4
        <5>6. s[j] < s[b]
          BY <3>2, <5>1, <5>5
        <5> QED
          BY <2>5, <5>1, <5>3, <5>6
      <4>3. CASE l < a
        <5>1. a \in (l + 1)..m /\ b \in (l + 1)..m /\ a \in 1..n /\ b \in 1..n
          BY <1>4, <2>8, <3>5, <4>3
        <5> QED
          BY <2>5, <3>2, <3>5, <5>1
      <4>4. a \in Int /\ b \in Int /\ l \in Int
        BY <1>4, <2>8
      <4>5. b <= l \/ (a <= l /\ l < b) \/ l < a
        BY <3>5, <4>4
      <4> QED
        BY <4>1, <4>2, <4>3, <4>5
    <3>6. ASSUME NEW x \in SeenRows', NEW y \in R, y < x PROVE y \in SeenRows'
      <4>1. PICK i \in 1..n, j \in 1..n : s[i] = y /\ s[j] = x
        BY <2>4, <2>9
      <4>2. i < j /\ j <= m
        BY <3>2, <3>4, <3>6, <4>1
      <4> QED
        BY <1>4, <2>8, <3>4, <4>1, <4>2
    <3> QED
      BY <3>5, <3>6
  <2>13. ASSUME NEW x \in Due \ SeenRows' PROVE m <= Cardinality({y \in R : Precedes(y, x)})
    BY <2>11
  <2>14. \A x : {y \in R : Precedes(y, x)'} = {y \in R : Precedes(y, x)}
    BY <1>5
  <2>15. WalkHolds'
    <3>1. /\ SeenRows' \subseteq R
          /\ Len(seen') <= n
          /\ \A x \in Due \ SeenRows' : Len(seen') <= Cardinality({y \in R : Precedes(y, x)'})
          /\ walk.order # "desc" =>
                /\ \A a, b \in DOMAIN seen' : a < b => seen'[a] < seen'[b]
                /\ \A x \in SeenRows', y \in R : y < x => y \in SeenRows'
      <4>1. Len(seen') <= n
        BY <2>5, <2>8
      <4>2. \A x \in Due \ SeenRows' : Len(seen') <= Cardinality({y \in R : Precedes(y, x)'})
        BY <2>5, <2>13, <2>14
      <4> QED
        BY <2>5, <2>9, <2>12, <4>1, <4>2
    <3> QED
      BY <1>1, <1>5, <2>5, <3>1 DEF WalkHolds, R, n
  <2>16. ASSUME page = <<>> PROVE WalkEnds'
    <3>1. m = n
      BY <2>5, <2>16
    <3>2. Due \subseteq SeenRows'
      <4> SUFFICES ASSUME NEW x \in Due \ SeenRows' PROVE FALSE
        OBVIOUS
      <4>1. PICK j \in 1..n : m <= j - 1
        BY <2>11
      <4> QED
        BY <2>8, <3>1, <4>1
    <3>3. walk.list # "orders" => Due = R
      BY DEF Due, R
    <3> QED
      BY <1>1, <1>5, <2>5, <2>9, <2>12, <3>2, <3>3 DEF WalkEnds
  <2> QED
    BY <2>15, <2>16 DEF page
<1> QED
  BY <1>7, <1>8

\* The other handlers do not touch a walk, and none of them takes one over.
LEMMA NotInWalk ==
    ASSUME AtItsStep, AtItsStep', WalletNext \/ PairNext
    PROVE  pc \notin {"page", "board"} /\ kind' \in WalletKinds \cup PairKinds
           /\ pc' \notin {"page", "board"} /\ (pc = "answered" => pc' = "answered")
<1>1. CASE WalletNext
  <2>1. pc \notin {"page", "board"}
    BY <1>1 DEF WalletNext, WalletReadRefused, Stats, DeployedTotals, Batch, StatsGroups,
           StatsTotal, TotalsRead, BatchOrders, BatchWallets, BatchTotals, WalletReadFails,
           Arrives, Refused, Goes, Answers
  <2>2. kind' \in WalletKinds /\ (pc = "answered" => pc' = "answered")
    BY <1>1, WalletStep, StaysAnswered
  <2> QED
    BY <2>1, <2>2 DEF AtItsStep, WalletKinds
<1>2. CASE PairNext
  <2>1. pc \notin {"page", "board", "answered"}
    BY <1>2 DEF PairNext, PairRefused, PairAsked, Prices, ResolveFrom,
           ResolveCoin, ResolveTo, ResolvePeriods, NotResolved, CoinNotResolved, BookAsks, BookBids,
           ReadSummary, ResolveCounter, CounterNotResolved, PriceAnswered, PeriodLoad, PeriodHit,
           PeriodsAnswered, PairReadFails, Arrives, Refused, Goes, Answers
  <2>2. kind' \in PairKinds
    BY <1>2, PairStep
  <2> QED
    BY <2>1, <2>2 DEF AtItsStep, PairKinds
<1> QED
  BY <1>1, <1>2

\* A walk begins with nothing shown, and with a page that shows something.
LEMMA WalkBegins ==
    ASSUME TypeOK, StillThere, WalkRead, NEW w \in Walks, StartWalk(w)
    PROVE  WalkHolds'
<1>1. PICK limit \in PageLimits : limit >= 0 /\ walk' = [w EXCEPT !.limit = EffectiveLimit(limit)]
  BY DEF StartWalk
<1>2. EffectiveLimit(limit) \in Nat \ {0}
  BY <1>1, ListingAssumption DEF EffectiveLimit
<1>3. walk' \in WalkRecord
  <2>1. w \in [list : {"orders", "coins", "vaults"}, owner : Wallets \cup {Everyone},
               state : STRING, sort : Seq(STRING), order : STRING, limit : {0}]
    BY ListingAssumption
  <2> QED
    BY <1>1, <1>2, <2>1 DEF WalkRecord
<1>4. seen' = <<>> /\ UNCHANGED status
  BY DEF StartWalk, Arrives, WalkRead
<1>5. SeenRows' = {} /\ Len(seen') = 0 /\ DOMAIN seen' = {} /\ seen' \in Seq(Nat)
  BY <1>4 DEF SeenRows
<1>6. \/ Rows(walk)' \in SUBSET Orders \/ Rows(walk)' \in SUBSET Coins
      \/ Rows(walk)' = VaultIds
  BY <1>3, <1>4 DEF Rows, WalkRecord, Table
<1>7. IsFiniteSet(Rows(walk)')
  BY <1>6, TableAssumption, ListingAssumption, FS_Subset
<1>8. ASSUME NEW A \in SUBSET Rows(walk)' PROVE 0 <= Cardinality(A)
  <2>1. Cardinality(A) \in Nat
    BY <1>7, FS_Subset, FS_CardinalityType
  <2> QED
    BY <2>1
<1>9. \A x : {y \in Rows(walk)' : Precedes(y, x)'} \in SUBSET Rows(walk)'
  OBVIOUS
<1>10. /\ SeenRows' \subseteq Rows(walk)'
       /\ Len(seen') <= Cardinality(Rows(walk)')
       /\ \A x \in Due' \ SeenRows' :
             Len(seen') <= Cardinality({y \in Rows(walk)' : Precedes(y, x)'})
  BY <1>5, <1>8, <1>9
<1>11. /\ \A m, n \in DOMAIN seen' : m < n => seen'[m] < seen'[n]
       /\ \A x \in SeenRows', y \in Rows(walk)' : y < x => y \in SeenRows'
  BY <1>5
<1> QED
  BY <1>3, <1>5, <1>10, <1>11 DEF WalkHolds

\* The board of a walk is a list of wallets.
LEMMA BoardBegins ==
    ASSUME TypeOK, WalkRead, NEW coin \in Coins, NEW limit \in PageLimits, StartBoard(coin, limit)
    PROVE  BoardHolds'
<1>1. PICK b \in Boards(coin) : board' = b
  BY DEF StartBoard
<1>2. walk'.limit = BoardLimit(limit) /\ seen' = <<>>
  BY DEF StartBoard, Arrives, WalkRead
<1>3. BoardLimit(limit) \in Nat \ {0}
  BY ListingAssumption DEF BoardLimit, Least
<1>4. Agents(coin) \subseteq Wallets /\ Cardinality(Agents(coin)) \in Nat
  <2> DEFINE T == {WalletOf[o] : o \in Table}
             f == [o \in Table |-> WalletOf[o]]
  <2>1. IsFiniteSet(Table)
    BY TableAssumption, FS_Subset DEF Table
  <2>2. f \in Surjection(Table, T)
    BY DEF Surjection
  <2>3. IsFiniteSet(T)
    BY <2>1, <2>2, FS_Surjection
  <2>4. Agents(coin) \in SUBSET T /\ Agents(coin) \subseteq Wallets
    BY DEF Agents
  <2> QED
    BY <2>3, <2>4, FS_Subset, FS_CardinalityType
<1>5. board' \in Seq(Wallets) /\ Len(board') \in Nat
  <2> DEFINE n == Cardinality(Agents(coin))
  <2>1. PICK t \in [1..n -> Agents(coin)] : b = SubSeq(t, 1, Least(BoardRows, Len(t)))
    BY DEF Boards
  <2>2. Len(t) = n
    BY <1>4
  <2> HIDE DEF n
  <2>3. n \in Nat /\ Least(BoardRows, n) \in Int /\ Least(BoardRows, n) <= n
    BY <1>4, ListingAssumption DEF n, Least
  <2> DEFINE hi == Least(BoardRows, n)
  <2> HIDE DEF hi
  <2>4. hi \in Int /\ \A i \in 1..hi : t[i] \in Wallets
    <3>1. hi \in Int /\ \A i \in 1..hi : i \in 1..n
      BY <2>3 DEF hi
    <3>2. \A i \in 1..n : t[i] \in Wallets
      BY <1>4
    <3> QED
      BY <3>1, <3>2
  <2>5. SubSeq(t, 1, hi) \in Seq(Wallets)
    BY <2>4, SubSeqProperties
  <2> QED
    BY <1>1, <2>1, <2>2, <2>5, LenProperties DEF hi
<1>6. seen' = SubSeq(board', 1, Len(seen')) /\ Len(seen') = 0
  <2>1. SubSeq(board', 1, 0) = <<>>
    BY <1>5, SubSeqEmpty
  <2> QED
    BY <1>2, <2>1
<1> QED
  BY <1>2, <1>3, <1>5, <1>6 DEF BoardHolds

\* Pages cut out of the board one after another are the board's beginning.
LEMMA BoardFollows ==
    ASSUME BoardHolds, UNCHANGED <<walk, board>>, seen' = seen \o BoardSlice(Len(seen), walk.limit)
    PROVE  /\ BoardHolds'
           /\ BoardSlice(Len(seen), walk.limit) = <<>> => seen' = board'
<1> DEFINE l == Len(seen)
           n == Len(board)
           hi == Least(l + walk.limit, n)
<1>1. l \in 0..n /\ n \in Nat /\ board \in Seq(Wallets) /\ walk.limit \in Nat \ {0}
  BY LenProperties DEF BoardHolds
<1>2. seen = SubSeq(board, 1, l)
  BY DEF BoardHolds
<1>3. CASE l >= n
  <2>1. l = n /\ seen = board
    BY <1>1, <1>2, <1>3, SubSeqFull
  <2>2. BoardSlice(Len(seen), walk.limit) = <<>>
    BY <1>3 DEF BoardSlice
  <2>3. seen' = seen
    BY <1>1, <2>1, <2>2, ConcatEmptySeq
  <2> QED
    BY <2>1, <2>3 DEF BoardHolds
<1>4. CASE l < n
  <2>1. BoardSlice(l, walk.limit) = SubSeq(board, l + 1, hi)
    <3>1. ~(Len(seen) >= Len(board))
      BY <1>1, <1>4
    <3> QED
      BY <3>1, Zenon DEF BoardSlice
  <2>2. hi \in (l + 1)..n
    BY <1>1, <1>4 DEF Least
  <2> HIDE DEF l, n, hi
  <2>3. 1 \in 1..(n + 1) /\ l \in 0..n /\ l \in (1 - 1)..n /\ hi \in l..n
    BY <1>1, <2>2
  <2>4. SubSeq(board, 1, l) \o SubSeq(board, l + 1, hi) = SubSeq(board, 1, hi)
    BY <1>1, <2>3, ConcatAdjacentSubSeq DEF n
  <2>5. seen' = SubSeq(board, 1, hi)
    BY <1>2, <2>1, <2>4 DEF l
  <2>6. \A i \in 1..n : board[i] \in Wallets
    BY <1>1, LenProperties DEF n
  <2>7. hi \in Int /\ 1 <= hi /\ hi <= n /\ \A i \in 1..hi : board[i] \in Wallets
    BY <1>1, <2>2, <2>6
  <2>8. Len(SubSeq(board, 1, hi)) = IF 1 <= hi THEN hi - 1 + 1 ELSE 0
    BY <2>7, SubSeqProperties
  <2>9. Len(seen') = hi
    BY <2>5, <2>7, <2>8
  <2>10. BoardHolds'
    BY <1>1, <2>5, <2>7, <2>9 DEF BoardHolds, n
  <2>11. SubSeq(board, l + 1, hi) # <<>>
    <3> DEFINE lo == l + 1
    <3>1. lo \in Int /\ lo <= hi /\ \A i \in lo..hi : board[i] \in Wallets
      <4>1. \A i \in lo..hi : i \in 1..hi
        BY <1>1, <2>7
      <4> QED
        BY <1>1, <2>2, <2>7, <4>1
    <3> HIDE DEF lo
    <3>2. Len(SubSeq(board, lo, hi)) = IF lo <= hi THEN hi - lo + 1 ELSE 0
      BY <2>7, <3>1, SubSeqProperties
    <3>3. Len(SubSeq(board, lo, hi)) # 0
      BY <2>7, <3>1, <3>2
    <3> QED
      BY <3>3, EmptySeq DEF lo
  <2> QED
    BY <2>1, <2>10, <2>11 DEF l
<1> QED
  BY <1>1, <1>3, <1>4

LEMMA WalkStep ==
    ASSUME IInv, IInv', WalkRead, Next
    PROVE  WalkRead'
<1>1. TypeOK /\ TypeOK' /\ StillThere /\ AtItsStep /\ AtItsStep'
  BY DEF IInv
<1>2. ASSUME UNCHANGED tableVars PROVE NoGapsInIds'
  BY <1>2 DEF WalkRead, NoGapsInIds, Table, tableVars
<1>3. CASE Write /\ UNCHANGED <<walletVars, pairVars, walkVars>>
  BY <1>1, <1>3, WriteWalk
<1>4. CASE (WalletNext \/ PairNext) /\ UNCHANGED walkVars
  <2>1. UNCHANGED tableVars
    BY <1>1, <1>4, WalletStep, PairStep
  <2>2. /\ pc \notin {"page", "board"} /\ kind' \in WalletKinds \cup PairKinds
        /\ pc' \notin {"page", "board"} /\ (pc = "answered" => pc' = "answered")
    BY <1>1, <1>4, NotInWalk
  <2>3. pc' # "answered" => seen' = <<>>
    BY <1>4, <2>2 DEF WalkRead, walkVars
  <2>4. kind' \notin {"list", "board"}
    BY <2>2 DEF WalletKinds, PairKinds
  <2> QED
    BY <1>2, <2>1, <2>2, <2>3, <2>4 DEF WalkRead
<1>5. CASE ListNext
  <2>1. NoGapsInIds'
    BY <1>1, <1>2, <1>5, ListStep
  <2>2. CASE ListRefused
    BY <2>1, <2>2 DEF ListRefused, Refused, WalkRead
  <2>3. CASE \E w \in Walks : StartWalk(w)
    <3>1. WalkHolds' /\ pc' = "page"
      BY <1>1, <2>3, WalkBegins DEF StartWalk, Arrives
    <3> QED
      BY <2>1, <3>1 DEF WalkRead
  <2>4. CASE BadColumn \/ PageFails
    BY <2>1, <2>4 DEF BadColumn, PageFails, Answers, WalkRead
  <2>5. CASE NextPage
    <3>1. PICK s \in Sorted(walk) : Takes("page", Page(s, Len(seen), walk.limit))
      BY <2>5 DEF NextPage
    <3>2. WalkHolds /\ UNCHANGED <<walk, status, existed, kind>> /\ kind = "list"
      BY <1>1, <2>5, <3>1 DEF NextPage, Takes, Goes, Answers, WalkRead, AtItsStep
    <3>3. seen' = seen \o Page(s, Len(seen), walk.limit)
      BY <3>1 DEF Takes
    <3>4. /\ WalkHolds'
          /\ Page(s, Len(seen), walk.limit) = <<>> => WalkEnds'
      BY <1>1, <3>2, <3>3, PageWalk
    <3>5. \/ pc' = "page"
          \/ pc' = "answered" /\ Page(s, Len(seen), walk.limit) = <<>>
      BY <3>1 DEF Takes, Goes, Answers
    <3> QED
      BY <2>1, <3>2, <3>4, <3>5 DEF WalkRead
  <2>6. CASE \E coin \in Coins, limit \in PageLimits : StartBoard(coin, limit)
    <3>1. BoardHolds' /\ pc' = "board"
      BY <1>1, <2>6, BoardBegins DEF StartBoard, Arrives
    <3> QED
      BY <2>1, <3>1 DEF WalkRead
  <2>7. CASE NextBoardPage
    <3>1. BoardHolds /\ UNCHANGED <<walk, board, kind>> /\ kind = "board"
      BY <1>1, <2>7 DEF NextBoardPage, Takes, Goes, Answers, WalkRead, AtItsStep
    <3>2. /\ seen' = seen \o BoardSlice(Len(seen), walk.limit)
          /\ \/ pc' = "board"
             \/ pc' = "answered" /\ BoardSlice(Len(seen), walk.limit) = <<>>
      BY <2>7 DEF NextBoardPage, Takes, Goes, Answers
    <3>3. /\ BoardHolds'
          /\ BoardSlice(Len(seen), walk.limit) = <<>> => seen' = board'
      BY <3>1, <3>2, BoardFollows
    <3> QED
      BY <2>1, <3>1, <3>2, <3>3 DEF WalkRead
  <2>8. CASE \E id \in Orders \cup Coins \cup VaultIds : OrderByID(id) \/ CoinByID(id) \/ VaultByID(id)
    BY <2>1, <2>8 DEF OrderByID, CoinByID, VaultByID, GetByID, WalkRead
  <2> QED
    BY <1>5, <2>2, <2>3, <2>4, <2>5, <2>6, <2>7, <2>8 DEF ListNext
<1>6. CASE Leave
  BY <1>2, <1>6 DEF Leave, Leaves, WalkRead, tableVars
<1> QED
  BY <1>3, <1>4, <1>5, <1>6 DEF Next

LEMMA WalkInvariance == Spec => []WalkRead
<1>1. Init => WalkRead
  <2> SUFFICES ASSUME Init PROVE WalkRead
    OBVIOUS
  <2>1. Table = {} /\ pc = "idle" /\ seen = <<>>
    BY DEF Init, TableInit, ListInit, Table
  <2> QED
    BY <2>1 DEF WalkRead, NoGapsInIds
<1>2. IInv /\ IInv' /\ WalkRead /\ [Next]_vars => WalkRead'
  <2> SUFFICES ASSUME IInv, IInv', WalkRead, [Next]_vars PROVE WalkRead'
    OBVIOUS
  <2>1. CASE Next
    BY <2>1, WalkStep
  <2>2. CASE UNCHANGED vars
    <3>1. UNCHANGED <<status, kind, pc, code, existed, walk, seen, board>>
      BY <2>2 DEF vars, tableVars, requestVars, walkVars
    <3>2. UNCHANGED <<NoGapsInIds, Rows(walk), Due, ById, SeenRows>>
          /\ \A a, b : Precedes(a, b)' = Precedes(a, b)
      BY <3>1 DEF NoGapsInIds, Rows, Table, Due, ById, SeenRows, Precedes
    <3>3. WalkHolds' = WalkHolds
      BY <3>1, <3>2 DEF WalkHolds, WalkRecord
    <3>4. WalkEnds' = WalkEnds /\ BoardHolds' = BoardHolds
      BY <3>1, <3>2 DEF WalkEnds, BoardHolds, WalkRecord
    <3> QED
      BY <3>1, <3>2, <3>3, <3>4 DEF WalkRead
  <2> QED
    BY <2>1, <2>2
<1> QED
  BY <1>1, <1>2, Invariance, PTL DEF Spec

\* A client that walks through a list by id, not filtered by status, misses no row that was
\* there when it began, and walking upwards it sees none twice, for any number of rows, any
\* length of page and however many orders are added; a walk through the leaderboard shows the one loaded.
THEOREM NothingMissed == Spec => []WalkMissesNothing
<1>1. WalkRead => WalkMissesNothing
  <2> SUFFICES ASSUME WalkRead, pc = "answered", code = 200, kind \in {"list", "board"}
               PROVE  WalkMissesNothing
    BY DEF WalkMissesNothing
  <2>1. CASE kind = "board"
    BY <2>1 DEF WalkRead, WalkMissesNothing
  <2>2. CASE kind = "list"
    <3>1. WalkEnds
      BY <2>2 DEF WalkRead
    <3>2. ASSUME ById, walk.order # "desc" PROVE Cardinality(SeenRows) = Len(seen)
      <4> DEFINE l == Len(seen)
                 f == [i \in 1..l |-> seen[i]]
      <4>1. l \in Nat /\ DOMAIN seen = 1..l /\ seen \in [1..l -> Nat]
        BY <3>1, LenProperties DEF WalkEnds
      <4>2. \A a, b \in 1..l : a < b => seen[a] < seen[b]
        BY <3>1, <3>2, <4>1 DEF WalkEnds
      <4>3. ASSUME NEW a \in 1..l, NEW b \in 1..l, seen[a] = seen[b] PROVE a = b
        <5>1. seen[a] \in Nat
          BY <4>1
        <5>2. ~(a < b) /\ ~(b < a)
          BY <4>2, <4>3, <5>1
        <5> QED
          BY <4>1, <5>2
      <4>4. f \in Bijection(1..l, SeenRows)
        <5>1. SeenRows = {seen[i] : i \in 1..l}
          BY <4>1 DEF SeenRows
        <5> QED
          BY <4>3, <5>1 DEF Bijection, Injection, IsInjective, Surjection
      <4>5. ExistsBijection(1..l, SeenRows)
        BY <4>4 DEF ExistsBijection
      <4>6. IsFiniteSet(1..l) /\ Cardinality(1..l) = l
        BY <4>1, UpTo
      <4> QED
        BY <4>5, <4>6, FS_Bijection
    <3> QED
      BY <2>2, <3>1, <3>2 DEF WalkEnds, WalkMissesNothing, ById, Due, SeenRows
  <2> QED
    BY <2>1, <2>2
<1> QED
  BY <1>1, WalkInvariance, PTL
=============================================================================
