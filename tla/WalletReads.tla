---------------------------- MODULE WalletReads ----------------------------
(***************************************************************************)
(* What the API tells about the orders of wallets: internal/handler/       *)
(* order.go (Stats, DeployedTotals, BatchContext) over                     *)
(* internal/repository/order.go. A count is modelled as the set of orders  *)
(* it counts, a sum as the set of orders it adds up.                       *)
(***************************************************************************)
EXTENDS OrderTable

CONSTANTS AnyStatus,     \* a batch that does not ask for a status
          BatchStatuses  \* what batches ask for

ASSUME WalletAssumption == BatchStatuses \subseteq Statuses \cup {AnyStatus}

VARIABLES asked,    \* the wallets the request is about
          wanted,   \* the status a batch asks for
          groups,   \* by status: the orders counted
          total,    \* the orders counted together
          found,    \* the orders a batch has read, with the status they had
          owners,   \* the wallets whose rows it has looked up
          totals    \* by wallet and coin: the orders summed up

walletVars == <<asked, wanted, groups, total, found, owners, totals>>

WalletTypeOK ==
    /\ asked \subseteq Wallets /\ owners \subseteq Wallets
    /\ wanted \in Statuses \cup {AnyStatus}
    /\ groups \in [Statuses -> SUBSET Orders]
    /\ total \subseteq Orders
    /\ DOMAIN found \subseteq Orders
    /\ totals \in [Wallets -> [Coins -> SUBSET Orders]]

NoGroups == [s \in Statuses |-> {}]
NoTotals == [w \in Wallets |-> [c \in Coins |-> {}]]

WalletInit ==
    /\ asked = {} /\ wanted = AnyStatus
    /\ groups = NoGroups /\ total = {}
    /\ found = [o \in {} |-> AnyStatus] /\ owners = {} /\ totals = NoTotals

OrdersOf(ws) == {o \in Table : WalletOf[o] \in ws}

\* A statement of the request under way fails: the database is away, or the deadline
\* of the request's context has passed.
WalletReadFails ==
    /\ pc \in {"stats", "stats total", "totals", "batch", "batch wallets", "batch totals"}
    /\ Answers(pc, 500)
    /\ UNCHANGED walletVars

----------------------------------------------------------------------------
(* Stats: the counts per status, then their total. *)

Stats(w) ==
    /\ Arrives("stats", "stats")
    /\ asked' = {w}
    /\ UNCHANGED <<wanted, groups, total, found, owners, totals>>

StatsGroups ==
    /\ Goes("stats", "stats total")
    /\ groups' = [s \in Statuses |-> {o \in OrdersOf(asked) : status[o] = s}]
    /\ UNCHANGED <<asked, wanted, total, found, owners, totals>>

\* Mutant of StatsTotal: joined with coins, so that orders that sell TON are not counted.
StatsTotalOfCoins ==
    /\ Answers("stats total", 200)
    /\ total' = {o \in OrdersOf(asked) : From[o] # TON}
    /\ UNCHANGED <<asked, wanted, groups, found, owners, totals>>

StatsTotal ==
    /\ Answers("stats total", 200)
    /\ total' = OrdersOf(asked)
    /\ UNCHANGED <<asked, wanted, groups, found, owners, totals>>

\* The response's open and closed.
OpenCount == UNION {groups[s] : s \in Statuses \cap {"created", "deployed", "pending_match"}}
ClosedCount == UNION {groups[s] : s \in Statuses \ {"created", "deployed", "pending_match"}}

----------------------------------------------------------------------------
(* DeployedTotals, and the totals of a batch. *)

\* Mutant of Sums: every order of the wallet counts.
SumsOfAll(ws) ==
    [w \in Wallets |-> [c \in Coins |->
        {o \in OrdersOf(ws) : WalletOf[o] = w /\ From[o] = c}]]

\* What is up for exchange, by wallet and coin. An order in an exchange counts, though
\* comments and annotations speak of deployed orders only (TotalsOfDeployedOnly).
Sums(ws) ==
    [w \in Wallets |-> [c \in Coins |->
        {o \in OrdersOf(ws) : /\ WalletOf[o] = w
                              /\ From[o] = c
                              /\ status[o] \in {"deployed", "pending_match"}}]]

DeployedTotals(w) ==
    /\ Arrives("totals", "totals")
    /\ asked' = {w}
    /\ UNCHANGED <<wanted, groups, total, found, owners, totals>>

TotalsRead ==
    /\ Answers("totals", 200)
    /\ totals' = Sums(asked)
    /\ UNCHANGED <<asked, wanted, groups, total, found, owners>>

----------------------------------------------------------------------------
(* GetBatchContext: the orders, the rows of their wallets, the totals. *)

Batch(ws, s) ==
    /\ Arrives("batch", "batch")
    /\ asked' = ws
    /\ wanted' = s
    /\ UNCHANGED <<groups, total, found, owners, totals>>

Matching == {o \in OrdersOf(asked) : wanted \in {AnyStatus, status[o]}}

\* The second statement is left out when the first finds nothing.
BatchOrders ==
    /\ Goes("batch", IF Matching = {} THEN "batch totals" ELSE "batch wallets")
    /\ found' = [o \in Matching |-> status[o]]
    /\ UNCHANGED <<asked, wanted, groups, total, owners, totals>>

BatchWallets ==
    /\ Goes("batch wallets", "batch totals")
    /\ owners' = {WalletOf[o] : o \in DOMAIN found}
    /\ UNCHANGED <<asked, wanted, groups, total, found, totals>>

BatchTotals ==
    /\ Answers("batch totals", 200)
    /\ totals' = Sums(asked)
    /\ UNCHANGED <<asked, wanted, groups, total, found, owners>>

\* The orders of the response, grouped by the wallet's address. An order whose wallet
\* has not been found is left out.
Shown(w) == {o \in DOMAIN found : WalletOf[o] = w /\ w \in owners}

\* An empty or too long list of addresses, or one that is none.
WalletReadRefused ==
    /\ \E k \in {"stats", "totals", "batch"} : Refused(k)
    /\ UNCHANGED walletVars

WalletNext ==
    \/ WalletReadRefused
    \/ \E w \in Wallets : Stats(w) \/ DeployedTotals(w)
    \/ \E ws \in (SUBSET Wallets) \ {{}}, s \in BatchStatuses : Batch(ws, s)
    \/ StatsGroups \/ StatsTotal
    \/ TotalsRead
    \/ BatchOrders \/ BatchWallets \/ BatchTotals
    \/ WalletReadFails

----------------------------------------------------------------------------
(* Properties *)

Stated(k) == pc = "answered" /\ code = 200 /\ kind = k

\* The two statements of Stats may see different tables, and the figures of one
\* response need not add up; but they err on one side only. Nothing is counted as
\* open or closed that the total leaves out, no order is both, and every order there
\* was when the request came is counted. A total over a narrower join than the counts,
\* or read before them, could be less than its parts.
StatsAddUp ==
    Stated("stats") =>
        /\ OpenCount \cap ClosedCount = {}
        /\ OpenCount \cup ClosedCount \subseteq total
        /\ existed \cap OrdersOf(asked) \subseteq OpenCount \cup ClosedCount

Summed(w) == UNION {totals[w][c] : c \in Coins}

\* The statements of a batch see different tables, too. The totals are read last, so
\* that no order is shown as finished and summed up as being on offer; and what nobody
\* has touched since the statements began is shown, under its own wallet, if it has the
\* status asked for, and summed up if it is on offer or in an exchange. (Those in an
\* exchange are against the documentation: TotalsOfDeployedOnly.)
BatchAgrees ==
    Stated("batch") =>
        \A w \in asked :
            /\ \A o \in Shown(w) : found[o] \in Finished => o \notin Summed(w)
            /\ \A o \in steady \cap existed : WalletOf[o] = w =>
                  /\ wanted \in {AnyStatus, status[o]} => o \in Shown(w)
                  /\ status[o] \in {"deployed", "pending_match"} => o \in Summed(w)

\* The annotations of DeployedTotals and BatchContext, and the comments of the statements
\* behind them: the totals are those of deployed orders. Of the orders nobody has touched
\* since the request came, none with another status is summed up.
TotalsOfDeployedOnly ==
    Stated("totals") \/ Stated("batch") =>
        \A w \in asked : \A o \in Summed(w) \cap steady : status[o] = "deployed"
=============================================================================
