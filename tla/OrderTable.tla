----------------------------- MODULE OrderTable -----------------------------
(***************************************************************************)
(* The table of orders as the API reads it, and the request that reads it. *)
(* Nothing in this repository writes orders: another program inserts them, *)
(* moves them through their statuses and fills them. A statement of a      *)
(* request sees the table at one moment; between two statements, which no  *)
(* transaction ties together, that other program goes on.                  *)
(*                                                                         *)
(* Requests only read and do not disturb each other: one at a time is      *)
(* enough.                                                                 *)
(***************************************************************************)
EXTENDS Integers, FiniteSets

CONSTANTS Orders,     \* orders by their id; who comes later has the greater one
          Wallets,    \* the wallets that own them
          Coins,      \* the coins by their id, TON included
          TON,        \* 0 in the code: the native coin, which has no row of its own
          WalletOf,   \* an order's owner
          From,       \* the coin it sells
          To,         \* the coin it buys
          Price,      \* its price_rate
          Size        \* its initial_amount

ASSUME TableAssumption ==
    /\ Orders \subseteq Nat
    /\ IsFiniteSet(Orders)
    /\ Coins \subseteq Nat
    /\ IsFiniteSet(Coins)
    /\ TON \in Coins
    /\ WalletOf \in [Orders -> Wallets]
    /\ From \in [Orders -> Coins]
    /\ To \in [Orders -> Coins]
    /\ Price \in [Orders -> Nat]
    /\ Size \in [Orders -> Nat]

VARIABLES status,    \* an order's status, or that it is not there yet
          amount,    \* what is left of it
          kind,      \* what the request asks for
          pc,        \* the statement it is at
          code,      \* the response's status code
          existed,   \* history: the orders there were when the request came
          steady     \* history: the orders that nobody has touched since, of the
                     \* requests whose properties ask for it

tableVars == <<status, amount>>
requestVars == <<kind, pc, code, existed, steady>>

Open == {"created", "deployed", "pending_match"}
\* For cancelled, completed, failed and closed, which no query here tells apart
\* except the leaderboard's.
Finished == {"completed"}
Statuses == Open \cup Finished

Table == {o \in Orders : status[o] # "absent"}

TableInit ==
    /\ status = [o \in Orders |-> "absent"]
    /\ amount = Size
    /\ kind = "none"
    /\ pc = "idle"
    /\ code = 0
    /\ existed = {}
    /\ steady = {}

----------------------------------------------------------------------------
(* The other program. *)

\* Ids come from a sequence.
Create(o) ==
    /\ o \notin Table
    /\ \A p \in Orders : p < o => p \in Table
    /\ status' = [status EXCEPT ![o] = "created"]
    /\ steady' = steady \ {o}
    /\ UNCHANGED <<amount, kind, pc, code, existed>>

\* A match that comes to nothing makes an order deployed again; a finished order
\* stays finished.
Move(o, s) ==
    /\ status[o] \in Open
    /\ s \notin {"created", status[o]}
    /\ status' = [status EXCEPT ![o] = s]
    /\ steady' = steady \ {o}
    /\ UNCHANGED <<amount, kind, pc, code, existed>>

\* A match takes its part; what is left may be nothing before the order is closed.
Fill(o, left) ==
    /\ status[o] \in {"deployed", "pending_match"}
    /\ left < amount[o]
    /\ amount' = [amount EXCEPT ![o] = left]
    /\ steady' = steady \ {o}
    /\ UNCHANGED <<status, kind, pc, code, existed>>

Write ==
    \E o \in Orders :
        \/ Create(o)
        \/ \E s \in Statuses : Move(o, s)
        \/ \E left \in 0..Size[o] : Fill(o, left)

----------------------------------------------------------------------------
(* The request. *)

Watched == {"totals", "batch", "book", "price"}

\* It passes the checks of its parameters and is at its first statement.
Arrives(k, step) ==
    /\ pc = "idle"
    /\ kind' = k
    /\ pc' = step
    /\ existed' = Table
    /\ steady' = IF k \in Watched THEN Orders ELSE {}
    /\ UNCHANGED <<status, amount, code>>

\* It does not pass them.
Refused(k) ==
    /\ pc = "idle"
    /\ kind' = k
    /\ pc' = "answered"
    /\ code' = 400
    /\ UNCHANGED <<status, amount, existed, steady>>

\* It goes on to its next statement.
Goes(here, there) ==
    /\ pc = here
    /\ pc' = there
    /\ UNCHANGED <<status, amount, kind, code, existed, steady>>

Answers(here, c) ==
    /\ pc = here
    /\ pc' = "answered"
    /\ code' = c
    /\ UNCHANGED <<status, amount, kind, existed, steady>>

\* The client has the response.
Leaves ==
    /\ pc = "answered"
    /\ kind' = "none"
    /\ pc' = "idle"
    /\ code' = 0
    /\ existed' = {}
    /\ steady' = {}
    /\ UNCHANGED <<status, amount>>

TableTypeOK ==
    /\ status \in [Orders -> Statuses \cup {"absent"}]
    /\ amount \in [Orders -> Nat]
    /\ existed \subseteq Orders
    /\ steady \subseteq Orders
    /\ code \in {0, 200, 400, 404, 500}
=============================================================================
