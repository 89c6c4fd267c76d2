------------------------------ MODULE Listing ------------------------------
(***************************************************************************)
(* The paged lists: orders, coins and vaults (List of internal/handler/    *)
(* order.go, coins.go and vault.go over GetList of internal/repository),   *)
(* whose control is the same, single rows by id, and the leaderboard of    *)
(* agents (handler/agent_leaderboard.go), which pages through a list that  *)
(* lies in a cache. A client walks through a list: it asks for page after  *)
(* page, each from where the last one ended, until one is empty.           *)
(***************************************************************************)
EXTENDS OrderTable, Sequences, FiniteSetsExt

CONSTANTS VaultIds,    \* the rows of vaults, which do not change
          Everyone,    \* a list that is not filtered by owner
          Walks,       \* the lists that clients walk through, with their filters and order
          PageLimits,  \* values of the limit parameter
          MaxPage,     \* 1000 in the code, which is the default as well
          BoardPage,   \* 50 in the code: the leaderboard's default
          MaxBoardPage,\* 200 in the code
          BoardRows    \* 1000 in the code: the rows of the leaderboard's statement

ASSUME ListingAssumption ==
    /\ VaultIds \subseteq Nat
    /\ IsFiniteSet(VaultIds)
    /\ Everyone \notin Wallets
    /\ Walks \subseteq [list : {"orders", "coins", "vaults"}, owner : Wallets \cup {Everyone},
                       state : STRING, sort : Seq(STRING), order : STRING, limit : {0}]
    /\ PageLimits \subseteq Int
    /\ {MaxPage, BoardPage, MaxBoardPage, BoardRows} \subseteq Nat \ {0}

VARIABLES walk,    \* the parameters the client repeats, or nothing
          seen,    \* what the pages so far have shown, ids or wallets
          board    \* the leaderboard as this walk's last load left it

walkVars == <<walk, seen, board>>

NoWalk == {}

ListInit == walk = NoWalk /\ seen = <<>> /\ board = <<>>

Least(a, b) == IF a < b THEN a ELSE b

----------------------------------------------------------------------------
(* Orders, coins and vaults. *)

\* The columns a list can be sorted by, those that the model tells apart. They are looked
\* up by the whole name: one with a "-" in front is another column, which there is not.
SortColumns ==
    [orders |-> {"id", "status"}, coins |-> {"id", "cnt_orders"}, vaults |-> {"id"}]

\* Mutant of SortList: no order where the client names none.
SortListNone(columns) == columns

\* By id, unless the client says otherwise.
SortList(columns) == IF columns = <<>> THEN <<"id">> ELSE columns

\* The page's length.
EffectiveLimit(limit) ==
    IF limit = 0 \/ limit > MaxPage THEN MaxPage ELSE limit

\* What the statement selects, before it sorts and cuts.
Rows(w) ==
    CASE w.list = "orders" -> {o \in Table : /\ w.owner \in {Everyone, WalletOf[o]}
                                             /\ w.state \in {"any", status[o]}}
      [] w.list = "coins" -> Coins \ {TON}
      [] w.list = "vaults" -> VaultIds

StatusRank == [created |-> 1, deployed |-> 2, pending_match |-> 3, completed |-> 4]

ColumnOf(list, column, id) ==
    CASE column = "id" -> id
      [] column = "status" -> StatusRank[status[id]]
      [] column = "cnt_orders" -> Cardinality({o \in Table : From[o] = id})

\* a comes before b: by the columns in turn, all in one direction, upwards unless the
\* parameter is "desc".
Before(w, a, b) ==
    LET columns == SortList(w.sort)
        at(n, id) == ColumnOf(w.list, columns[n], id)
    IN  \E n \in DOMAIN columns :
            /\ \A m \in 1..(n - 1) : at(m, a) = at(m, b)
            /\ IF w.order = "desc" THEN at(n, a) > at(n, b) ELSE at(n, a) < at(n, b)

\* Rows that agree on all columns come in any order, a new one for every page.
Sorted(w) ==
    {s \in [1..Cardinality(Rows(w)) -> Rows(w)] :
        \A i, j \in DOMAIN s : i < j => s[i] # s[j] /\ ~Before(w, s[j], s[i])}

\* OFFSET and LIMIT.
Page(s, offset, limit) == SubSeq(s, offset + 1, Least(offset + limit, Len(s)))

\* A negative limit, an owner that is no address, a price that is no number; for the
\* leaderboard a coin that is not known.
ListRefused ==
    /\ Refused("list")
    /\ UNCHANGED walkVars

StartWalk(w) ==
    /\ Arrives("list", "page")
    /\ \E limit \in PageLimits :
          /\ limit >= 0
          /\ walk' = [w EXCEPT !.limit = EffectiveLimit(limit)]
    /\ UNCHANGED <<seen, board>>

Sortable == \A n \in DOMAIN SortList(walk.sort) : SortList(walk.sort)[n] \in SortColumns[walk.list]

\* A column that GetList does not know: an error, which the handler answers with a 500.
BadColumn ==
    /\ Answers("page", 500)
    /\ ~Sortable
    /\ UNCHANGED walkVars

\* What a client does with a page: it goes on from there, or stops at an empty one.
Takes(step, page) ==
    /\ seen' = seen \o page
    /\ IF page = <<>> THEN Answers(step, 200) ELSE Goes(step, step)

NextPage ==
    /\ pc = "page"
    /\ Sortable
    /\ \E s \in Sorted(walk) : Takes("page", Page(s, Len(seen), walk.limit))
    /\ UNCHANGED <<walk, board>>

PageFails ==
    /\ pc \in {"page", "board"}
    /\ Answers(pc, 500)
    /\ UNCHANGED walkVars

----------------------------------------------------------------------------
(* The leaderboard. *)

\* GetAgentLeaderboard: who has an order in the coin, by the volume of the finished
\* ones, then by their number.
Agents(coin) == {w \in Wallets : \E o \in Table : WalletOf[o] = w /\ coin \in {From[o], To[o]}}
Completed(coin, w) ==
    {o \in Table : WalletOf[o] = w /\ coin \in {From[o], To[o]} /\ status[o] = "completed"}
Volume(coin, w) == MapThenSumSet(LAMBDA o : Size[o], Completed(coin, w))

Better(coin, v, w) ==
    \/ Volume(coin, v) > Volume(coin, w)
    \/ /\ Volume(coin, v) = Volume(coin, w)
       /\ Cardinality(Completed(coin, v)) > Cardinality(Completed(coin, w))

Boards(coin) ==
    {SubSeq(s, 1, Least(BoardRows, Len(s))) :
        s \in {t \in [1..Cardinality(Agents(coin)) -> Agents(coin)] :
                  \A i, j \in DOMAIN t : i < j => t[i] # t[j] /\ ~Better(coin, t[j], t[i])}}

BoardLimit(limit) ==
    IF limit <= 0 THEN BoardPage ELSE Least(limit, MaxBoardPage)

StartBoard(coin, limit) ==
    /\ Arrives("board", "board")
    /\ walk' = [coin |-> coin, limit |-> BoardLimit(limit)]
    /\ \E b \in Boards(coin) : board' = b
    /\ UNCHANGED seen

\* The handler cuts the page out of the cached list, and numbers its rows from there.
BoardSlice(offset, limit) ==
    IF offset >= Len(board) THEN <<>>
    ELSE SubSeq(board, offset + 1, Least(offset + limit, Len(board)))

NextBoardPage ==
    /\ pc = "board"
    /\ Takes("board", BoardSlice(Len(seen), walk.limit))
    /\ UNCHANGED <<walk, board>>

----------------------------------------------------------------------------
(* Single rows. *)

\* The row is there, it is not, the id is no number, or the query fails.
GetByID(rows, id) ==
    /\ pc = "idle"
    /\ kind' = "row"
    /\ pc' = "answered"
    /\ code' \in {400, 500, IF id \in rows THEN 200 ELSE 404}
    /\ UNCHANGED <<status, amount, existed, steady, walk, seen, board>>

OrderByID(id) == GetByID(Table, id)
CoinByID(id) == GetByID(Coins \ {TON}, id)
VaultByID(id) == GetByID(VaultIds, id)

----------------------------------------------------------------------------
ListNext ==
    \/ ListRefused
    \/ \E w \in Walks : StartWalk(w)
    \/ BadColumn \/ NextPage \/ PageFails
    \/ \E coin \in Coins, limit \in PageLimits : StartBoard(coin, limit)
    \/ NextBoardPage
    \/ \E id \in Orders \cup Coins \cup VaultIds : OrderByID(id) \/ CoinByID(id) \/ VaultByID(id)

----------------------------------------------------------------------------
(* Properties *)

\* Walking through a list while orders are added: sorted by id, as it is unless the
\* client says otherwise, and not filtered by status, the client sees every row there
\* was when it began, and none twice if it walks upwards. It holds because new orders
\* have greater ids, nobody deletes one, and an order's owner does not change. Sorted by
\* a column with equal values or filtered by a status it does not, even if nobody writes.
\* A walk through one load of the leaderboard shows every agent once, in order.
WalkMissesNothing ==
    pc = "answered" /\ code = 200 =>
        LET shown == {seen[n] : n \in DOMAIN seen}
            byId == kind = "list" /\ walk.sort = <<>> /\ walk.state = "any"
        IN  /\ byId /\ walk.list = "orders" =>
                  {o \in existed : walk.owner \in {Everyone, WalletOf[o]}} \subseteq shown
            /\ byId /\ walk.list # "orders" => shown = Rows(walk)
            /\ byId /\ walk.order # "desc" => Cardinality(shown) = Len(seen)
            /\ kind = "board" => seen = board

\* The annotations of the three lists: sort takes the columns, each with a "-" in front
\* of it for the other direction.
DocumentedColumns ==
    [orders |-> {"id", "-id", "status", "-status"},
     coins |-> {"id", "-id", "cnt_orders", "-cnt_orders"},
     vaults |-> {"id", "-id"}]

\* A list that is sorted as documented can be served: there is a next page.
DocumentedSortServed ==
    /\ pc = "page"
    /\ \A n \in DOMAIN walk.sort : walk.sort[n] \in DocumentedColumns[walk.list]
    => ENABLED NextPage
=============================================================================
