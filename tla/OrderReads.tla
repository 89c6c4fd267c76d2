----------------------------- MODULE OrderReads -----------------------------
(***************************************************************************)
(* The reads of the API put together over the table of orders that another *)
(* program writes: wallets, pairs and lists.                               *)
(***************************************************************************)
EXTENDS WalletReads, PairReads, Listing

vars == <<tableVars, requestVars, walletVars, pairVars, walkVars>>

Init == TableInit /\ WalletInit /\ PairInit /\ ListInit

Leave ==
    /\ Leaves
    /\ asked' = {} /\ wanted' = AnyStatus
    /\ groups' = NoGroups /\ total' = {}
    /\ found' = [o \in {} |-> AnyStatus] /\ owners' = {} /\ totals' = NoTotals
    /\ from' = NoCoin /\ to' = NoCoin /\ minUsd' = 0
    /\ asks' = {} /\ bids' = {}
    /\ pairs' = NoPairs /\ left' = {} /\ priced' = NoPairs
    /\ since' = <<>> /\ counted' = <<>> /\ fresh' = TRUE
    /\ walk' = NoWalk /\ seen' = <<>> /\ board' = <<>>

Next ==
    \/ Write /\ UNCHANGED <<walletVars, pairVars, walkVars>>
    \/ WalletNext /\ UNCHANGED <<pairVars, walkVars>>
    \/ PairNext /\ UNCHANGED <<walletVars, walkVars>>
    \/ ListNext /\ UNCHANGED <<walletVars, pairVars>>
    \/ Leave

Spec == Init /\ [][Next]_vars

\* Type correctness: the registers of a request hold orders, wallets and coins.
TypeOK == TableTypeOK /\ WalletTypeOK /\ PairTypeOK
=============================================================================
