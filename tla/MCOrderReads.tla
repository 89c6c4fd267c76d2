---------------------------- MODULE MCOrderReads ----------------------------
(* TLC instance of OrderReads: three orders between TON, a stablecoin and one more coin. *)
EXTENDS OrderReads, TLC

CONSTANTS w1, w2

\* The first wallet sells TON for the stablecoin, the second the other way round.
Owner == 1 :> w1 @@ 2 :> w2 @@ 3 :> w1
Sells == 1 :> 0 @@ 2 :> 1 @@ 3 :> 0
Buys == 1 :> 1 @@ 2 :> 0 @@ 3 :> 2
Rate == 1 :> 4 @@ 2 :> 1 @@ 3 :> 1
Amounts == 1 :> 1 @@ 2 :> 1 @@ 3 :> 1

\* A stablecoin of fewer decimals than TON.
Units == 0 :> 4 @@ 1 :> 1 @@ 2 :> 2
\* None, which makes it 2, negative, and one whose threshold is no int64 any more. Of the
\* first order the worth is just 2, of the second it is 1.
UsdParameters == {NotGiven, -1, 4}
LimitParameters == {-1, 0, 1, 5}

StatusesAsked == {AnyStatus, "deployed"}

\* By id both ways, of one owner, by status, by a column that does not exist; coins by
\* what orders make of them.
List(list, owner, state, sort, order) ==
    [list |-> list, owner |-> owner, state |-> state, sort |-> sort, order |-> order, limit |-> 0]
ListsWalked ==
    {List("orders", Everyone, "any", <<>>, ""),
     List("orders", Everyone, "any", <<>>, "desc"),
     List("orders", w1, "any", <<>>, ""),
     List("orders", Everyone, "deployed", <<"status", "id">>, ""),
     List("orders", Everyone, "any", <<"-id">>, ""),
     List("coins", Everyone, "any", <<"cnt_orders">>, ""),
     List("coins", Everyone, "any", <<>>, "desc"),
     List("vaults", Everyone, "any", <<>>, "")}

\* Steps that read nothing of what is written: the lookups of coins and of wallets, and the
\* client that takes its answer. A write commutes with each of them, so TLC need only see
\* it behind them: before the next statement, or when the client has gone. (Behind the
\* last statement a write leaves fewer orders steady, and no property says more of those.)
Blind == {"from", "to", "coin", "counter", "batch wallets", "answered"}
WritesWait == pc \in Blind => UNCHANGED tableVars

\* A bound: of the third order nothing is ever taken. The first two show what that does.
ThirdWhole == amount'[3] = amount[3]
=============================================================================
