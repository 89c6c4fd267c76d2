---------------------------- MODULE MCOrderBook ----------------------------
(* TLC instances of OrderBook: every side over a few prices and amounts. *)
EXTENDS OrderBook, SequencesExt

CONSTANTS Ladders, Amounts

\* The strictly ascending sequences of levels over a ladder of prices, with any amounts; as many
\* orders as the amount, to tell the levels apart.
AscendingBooks ==
    UNION {LET price == SetToSortSeq(P, <)
           IN  {[i \in DOMAIN price |-> [price |-> price[i], amount |-> a[i], orders |-> a[i]]] :
                    a \in [DOMAIN price -> Amounts]} : P \in UNION {SUBSET ladder : ladder \in Ladders}}
=============================================================================
