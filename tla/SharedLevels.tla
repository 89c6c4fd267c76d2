---------------------------- MODULE SharedLevels ----------------------------
(***************************************************************************)
(* Who owns a slice of levels. One key of the order book cache of one      *)
(* process (internal/cache/orderbook.go) is asked for at the same time by  *)
(* requests that read it as asks and by requests for the opposite pair     *)
(* that read it as bids and turn it round in place                         *)
(* (internal/handler/orderbook.go). Slices are references: the cache, the  *)
(* callers that share one load, and the handlers only stay out of each     *)
(* other's way because the cache copies.                                   *)
(* Time is left out: the entry may expire at any step.                     *)
(***************************************************************************)
EXTENDS Integers, Sequences

CONSTANTS Requests,     \* goroutines that serve requests for this key
          Bidders,      \* those that read the key as bids
          Slices,       \* the arrays there is room for
          NoSlice,
          Books,        \* what a load may return: prices, ascending
          CopyLength    \* filterOutliers makes a new slice from this length: 3

ASSUME SliceAssumption ==
    /\ Bidders \subseteq Requests
    /\ NoSlice \notin Slices
    /\ Books \subseteq Seq(Nat)
    /\ CopyLength \in Nat

VARIABLES heap,      \* what each array holds
          memory,    \* the array of the L1 entry, or NoSlice
          pc,        \* the step each request is at
          held,      \* the array each request refers to, or NoSlice
          next,      \* the lower index of the next exchange of the reversal
          read       \* the prices each request has put in its response

vars == <<heap, memory, pc, held, next, read>>

Init ==
    /\ heap = [s \in Slices |-> <<>>]
    /\ memory = NoSlice
    /\ pc = [r \in Requests |-> "idle"]
    /\ held = [r \in Requests |-> NoSlice]
    /\ next = [r \in Requests |-> 1]
    /\ read = [r \in Requests |-> <<>>]

Goto(r, step) == pc' = [pc EXCEPT ![r] = step]

\* An array nobody refers to.
Free(s) == s # memory /\ \A r \in Requests : held[r] # s

\* make: a new array. The collector has seen to it that there is one.
New == CHOOSE s \in Slices : Free(s)
Fill(levels) == (\E s \in Slices : Free(s)) /\ heap' = [heap EXCEPT ![New] = levels]

Leading == \E r \in Requests : pc[r] \in {"check", "load", "store", "finish"}

----------------------------------------------------------------------------
(* OrderBookCache.Get *)

\* Mutant of GetHit: getL1 returns the array of the entry itself.
GetHitShares(r) ==
    /\ pc[r] = "idle" /\ memory # NoSlice
    /\ held' = [held EXCEPT ![r] = memory]
    /\ Goto(r, "shape")
    /\ UNCHANGED <<heap, memory, next, read>>

\* A live entry in L1: its copy is the caller's.
GetHit(r) ==
    /\ pc[r] = "idle" /\ memory # NoSlice
    /\ Fill(heap[memory]) /\ held' = [held EXCEPT ![r] = New]
    /\ Goto(r, "shape")
    /\ UNCHANGED <<memory, next, read>>

GetMiss(r) ==
    /\ pc[r] = "idle" /\ memory = NoSlice
    /\ Goto(r, "miss")
    /\ UNCHANGED <<heap, memory, held, next, read>>

\* sf.Do: the first caller leads, the others wait.
Enter(r) ==
    /\ pc[r] = "miss"
    /\ Goto(r, IF Leading THEN "wait" ELSE "check")
    /\ UNCHANGED <<heap, memory, held, next, read>>

\* The leader's second look at L1.
CheckHit(r) ==
    /\ pc[r] = "check" /\ memory # NoSlice
    /\ Fill(heap[memory]) /\ held' = [held EXCEPT ![r] = New]
    /\ Goto(r, "finish")
    /\ UNCHANGED <<memory, next, read>>

CheckMiss(r) ==
    /\ pc[r] = "check" /\ memory = NoSlice
    /\ Goto(r, "load")
    /\ UNCHANGED <<heap, memory, held, next, read>>

\* Redis or the database: either way a new array.
Load(r) ==
    /\ pc[r] = "load"
    /\ \E book \in Books : Fill(book)
    /\ held' = [held EXCEPT ![r] = New]
    /\ Goto(r, "store")
    /\ UNCHANGED <<memory, next, read>>

\* The callers that share the leader's load.
Party(r) == {r} \cup {q \in Requests : pc[q] = "wait"}

\* The loader fails: so do all that wait.
LoadFails(r) ==
    /\ pc[r] = "load"
    /\ pc' = [q \in Requests |-> IF q \in Party(r) THEN "idle" ELSE pc[q]]
    /\ read' = [q \in Requests |-> IF q \in Party(r) THEN <<>> ELSE read[q]]
    /\ UNCHANGED <<heap, memory, held, next>>

\* setL1 keeps a copy.
Store(r) ==
    /\ pc[r] = "store"
    /\ Fill(heap[held[r]]) /\ memory' = New
    /\ Goto(r, "finish")
    /\ UNCHANGED <<held, next, read>>

\* singleflight hands the leader's array to every caller that waits.
Finish(r) ==
    /\ pc[r] = "finish"
    /\ pc' = [q \in Requests |-> IF q \in Party(r) THEN "return" ELSE pc[q]]
    /\ held' = [q \in Requests |-> IF q \in Party(r) THEN held[r] ELSE held[q]]
    /\ UNCHANGED <<heap, memory, next, read>>

\* Mutant of Return: callers go on with the array they share.
ReturnShares(r) ==
    /\ pc[r] = "return"
    /\ Goto(r, "shape")
    /\ UNCHANGED <<heap, memory, held, next, read>>

\* Every caller takes a copy of its own.
Return(r) ==
    /\ pc[r] = "return"
    /\ Fill(heap[held[r]]) /\ held' = [held EXCEPT ![r] = New]
    /\ Goto(r, "shape")
    /\ UNCHANGED <<memory, next, read>>

\* The entry's time is up; or cleanup removes it.
Expire ==
    /\ memory # NoSlice
    /\ memory' = NoSlice
    /\ UNCHANGED <<heap, pc, held, next, read>>

----------------------------------------------------------------------------
(* GetOrderBook *)

\* filterOutliers and aggregateLevels hand a short slice on as it is, and a longer one
\* as a new slice, unless the median price is 0, which takes a level at that price.
\* Which levels they drop or merge is the matter of OrderBook.
Shape(r) ==
    /\ pc[r] = "shape"
    /\ \/ /\ Len(heap[held[r]]) < CopyLength \/ heap[held[r]][1] = 0
          /\ UNCHANGED <<heap, held>>
       \/ /\ Len(heap[held[r]]) >= CopyLength
          /\ Fill(heap[held[r]]) /\ held' = [held EXCEPT ![r] = New]
    /\ Goto(r, IF r \in Bidders THEN "reverse" ELSE "respond")
    /\ UNCHANGED <<memory, next, read>>

\* bids[i], bids[j] = bids[j], bids[i]
Exchange(levels, i, j) == [levels EXCEPT ![i] = levels[j], ![j] = levels[i]]

\* One exchange of the loop that turns the bids round, in place.
Swap(r) ==
    LET levels == heap[held[r]]
        i == next[r]
    IN  /\ pc[r] = "reverse"
        /\ i < Len(levels) - i + 1
        /\ heap' = [heap EXCEPT ![held[r]] = Exchange(levels, i, Len(levels) - i + 1)]
        /\ next' = [next EXCEPT ![r] = i + 1]
        /\ UNCHANGED <<memory, pc, held, read>>

\* Mutant of Reversed: the loop's index starts a place too low.
ReversedFromZero(r) ==
    /\ pc[r] = "reverse"
    /\ next[r] >= Len(heap[held[r]]) - next[r] + 1
    /\ next' = [next EXCEPT ![r] = 0]
    /\ Goto(r, "respond")
    /\ UNCHANGED <<heap, memory, held, read>>

\* The loop is over.
Reversed(r) ==
    /\ pc[r] = "reverse"
    /\ next[r] >= Len(heap[held[r]]) - next[r] + 1
    /\ next' = [next EXCEPT ![r] = 1]
    /\ Goto(r, "respond")
    /\ UNCHANGED <<heap, memory, held, read>>

\* The levels are read into the response, and the next request comes.
Respond(r) ==
    /\ pc[r] = "respond"
    /\ read' = [read EXCEPT ![r] = heap[held[r]]]
    /\ held' = [held EXCEPT ![r] = NoSlice]
    /\ Goto(r, "idle")
    /\ UNCHANGED <<heap, memory, next>>

Next ==
    \/ \E r \in Requests :
           \/ GetHit(r) \/ GetMiss(r) \/ Enter(r) \/ CheckHit(r) \/ CheckMiss(r)
           \/ Load(r) \/ LoadFails(r) \/ Store(r) \/ Finish(r) \/ Return(r)
           \/ Shape(r) \/ Swap(r) \/ Reversed(r) \/ Respond(r)
    \/ Expire

Spec == Init /\ [][Next]_vars

----------------------------------------------------------------------------
(* Properties *)

TypeOK ==
    /\ heap \in [Slices -> Seq(Nat)]
    /\ memory \in Slices \cup {NoSlice}
    /\ pc \in [Requests -> {"idle", "miss", "wait", "check", "load", "store", "finish",
                            "return", "shape", "reverse", "respond"}]
    /\ held \in [Requests -> Slices \cup {NoSlice}]
    /\ next \in [Requests -> Nat \ {0}]
    /\ read \in [Requests -> Seq(Nat)]

\* "Returned slice is a safe copy that the caller can freely modify" (orderbook.go:97):
\* what a handler has been given is referred to by nobody else, neither by the L1 entry
\* nor by another request, wherever that one is.
Exclusive ==
    \A r \in Requests : pc[r] \in {"shape", "reverse", "respond"} =>
        /\ held[r] # memory
        /\ \A q \in Requests \ {r} : held[q] # held[r]

\* A cached slice is immutable: whatever handlers do, the array of the L1 entry keeps
\* its contents for as long as it is the entry.
CacheUntouched == [][memory # NoSlice /\ memory' = memory => heap'[memory] = heap[memory]]_vars

\* Nobody sees another request's exchanges: asks are read as they were loaded, and
\* bids turned round exactly once.
ReadInOrder ==
    \A r \in Requests :
        \/ read[r] = <<>>
        \/ \E book \in Books :
               IF r \in Bidders
               THEN read[r] = [i \in DOMAIN book |-> book[Len(book) - i + 1]]
               ELSE read[r] = book
=============================================================================
