------------------------- MODULE SharedLevelsProofs -------------------------
(***************************************************************************)
(* Proofs about SharedLevels, for any number of requests and slices and    *)
(* any books. Exclusive is not inductive as it stands: a load's array is   *)
(* shared for a while on purpose, and its copies are only private because  *)
(* a new array is one that nobody refers to at any step. Owned says for    *)
(* every pair of references when they may be the same. ReadInOrder needs   *)
(* to know what is in every array that is referred to, half turned round   *)
(* or not: InOrder.                                                        *)
(***************************************************************************)
EXTENDS SharedLevels, TLAPS

Empty == {"idle", "miss", "wait", "check", "load"}
Holding == {"store", "finish", "return", "shape", "reverse", "respond"}

\* Who refers to an array at which step, and who may share it: only the callers that a
\* load has just been handed to, never with the L1 entry.
Owned ==
    /\ \A r \in Requests : pc[r] \in Empty <=> held[r] = NoSlice
    /\ \A r \in Requests : held[r] # NoSlice => held[r] # memory
    /\ \A r, q \in Requests :
           r # q /\ held[r] = held[q] /\ held[r] # NoSlice => pc[r] = "return" /\ pc[q] = "return"

\* A book of which the k - 1 outer levels at either end have been exchanged.
Turned(book, k) ==
    [i \in 1..Len(book) |-> IF i < k \/ Len(book) - i + 1 < k THEN book[Len(book) - i + 1]
                                                             ELSE book[i]]

Backwards(book) == [i \in DOMAIN book |-> book[Len(book) - i + 1]]

\* What a request's array holds: a book, turned round as far as its loop has come.
Sound(r) ==
    /\ pc[r] # "reverse" => next[r] = 1
    /\ pc[r] \in {"store", "finish", "return", "shape"} => heap[held[r]] \in Books
    /\ pc[r] = "reverse" =>
           /\ r \in Bidders
           /\ \E book \in Books : heap[held[r]] = Turned(book, next[r])
    /\ pc[r] = "respond" =>
           \E book \in Books :
               heap[held[r]] = IF r \in Bidders THEN Backwards(book) ELSE book

InOrder ==
    /\ memory # NoSlice => heap[memory] \in Books
    /\ \A r \in Requests : Sound(r)

IInv == TypeOK /\ Owned /\ InOrder /\ ReadInOrder

Step(r) ==
    \/ GetHit(r) \/ GetMiss(r) \/ Enter(r) \/ CheckHit(r) \/ CheckMiss(r)
    \/ Load(r) \/ LoadFails(r) \/ Store(r) \/ Finish(r) \/ Return(r)
    \/ Shape(r) \/ Swap(r) \/ Reversed(r) \/ Respond(r)

\* An exchange leaves a sequence a sequence.
LEMMA SwapSeq ==
    ASSUME NEW q \in Seq(Nat), NEW i \in 1..Len(q), NEW j \in 1..Len(q)
    PROVE  Exchange(q, i, j) \in Seq(Nat)
<1>1. Len(q) \in Nat /\ q \in [1..Len(q) -> Nat]
  OBVIOUS
<1>2. Exchange(q, i, j) \in [1..Len(q) -> Nat]
  BY <1>1 DEF Exchange
<1> QED BY <1>1, <1>2

\* A new array is one that nobody refers to.
LEMMA NewIsFree ==
    ASSUME NEW s \in Slices, Free(s)
    PROVE  New \in Slices /\ Free(New)
BY DEF New

\* The definition of the reversal's halfway states fits its end.
LEMMA TurnedEnds ==
    ASSUME NEW book \in Seq(Nat), NEW k \in Nat, k >= Len(book) - k + 1
    PROVE  Turned(book, k) = Backwards(book)
<1>1. Len(book) \in Nat /\ DOMAIN book = 1..Len(book) /\ book = [i \in 1..Len(book) |-> book[i]]
  OBVIOUS
<1>3. \A i \in 1..Len(book) : Turned(book, k)[i] = book[Len(book) - i + 1]
  <2> TAKE i \in 1..Len(book)
  <2>1. CASE i < k \/ Len(book) - i + 1 < k
    BY <2>1, <1>1 DEF Turned
  <2>2. CASE ~(i < k \/ Len(book) - i + 1 < k)
    <3>1. i = Len(book) - i + 1
      BY <2>2, <1>1
    <3> QED BY <3>1, <2>2, <1>1 DEF Turned
  <2> QED BY <2>1, <2>2
<1>4. Turned(book, k) = Backwards(book)
  BY <1>1, <1>3 DEF Turned, Backwards
<1> QED BY <1>4

LEMMA TurnedStart ==
    ASSUME NEW book \in Seq(Nat)
    PROVE  Turned(book, 1) = book
<1>1. Len(book) \in Nat /\ book = [i \in 1..Len(book) |-> book[i]]
  OBVIOUS
<1> QED BY <1>1 DEF Turned

LEMMA TurnedLen ==
    ASSUME NEW book \in Seq(Nat), NEW k \in Nat
    PROVE  Len(Turned(book, k)) = Len(book)
BY DEF Turned

LEMMA BelowNext ==
    \A x, k \in Int : x # k => (x < k + 1 <=> x < k)
OBVIOUS

\* One exchange takes the reversal one step further.
LEMMA TurnedSwap ==
    ASSUME NEW book \in Seq(Nat), NEW k \in Nat, k >= 1,
           NEW j, j = Len(book) - k + 1, k < j,
           NEW half, half = Turned(book, k)
    PROVE  Exchange(half, k, j) = Turned(book, k + 1)
<1>1. Len(book) \in Nat /\ k \in 1..Len(book) /\ j \in 1..Len(book) /\ Len(book) - j + 1 = k
  OBVIOUS
<1>2. half[k] = book[k] /\ half[j] = book[j]
  BY <1>1 DEF Turned
<1>3. ASSUME NEW i \in 1..Len(book) PROVE Exchange(half, k, j)[i] = Turned(book, k + 1)[i]
  <2>1. CASE i = k
    BY <2>1, <1>1, <1>2 DEF Turned, Exchange
  <2>2. CASE i = j
    BY <2>2, <1>1, <1>2 DEF Turned, Exchange
  <2>3. CASE i # k /\ i # j
    <3>1. Exchange(half, k, j)[i] = half[i]
      BY <2>3, <1>1 DEF Turned, Exchange
    <3>2. Len(book) - i + 1 # k /\ Len(book) - i + 1 # j
      BY <2>3, <1>1
    <3>3. (i < k + 1 \/ Len(book) - i + 1 < k + 1) <=> (i < k \/ Len(book) - i + 1 < k)
      <4>1. i # k /\ Len(book) - i + 1 # k BY <2>3, <3>2
      <4>2. i \in Int /\ Len(book) - i + 1 \in Int BY <1>1, <1>3
      <4>3. k \in Int OBVIOUS
      <4>4. i < k + 1 <=> i < k BY <4>1, <4>2, <4>3, BelowNext
      <4>5. Len(book) - i + 1 < k + 1 <=> Len(book) - i + 1 < k
        BY <4>1, <4>2, <4>3, BelowNext
      <4> QED BY <4>4, <4>5
    <3>4. half[i] = Turned(book, k + 1)[i]
      BY <3>3 DEF Turned
    <3> QED BY <3>1, <3>4
  <2> QED BY <2>1, <2>2, <2>3
<1> QED BY <1>1, <1>3 DEF Turned, Exchange

LEMMA InitIInv == ASSUME SliceAssumption, Init PROVE IInv
BY DEF SliceAssumption, Init, IInv, TypeOK, Owned, InOrder, Sound, ReadInOrder, Empty, Holding

----------------------------------------------------------------------------
(* Owned and TypeOK, step by step *)

LEMMA FillFacts ==
    ASSUME TypeOK, NEW levels \in Seq(Nat), Fill(levels)
    PROVE  /\ New \in Slices /\ New # memory /\ \A r \in Requests : held[r] # New
           /\ heap' \in [Slices -> Seq(Nat)]
           /\ heap'[New] = levels
           /\ \A s \in Slices \ {New} : heap'[s] = heap[s]
BY NewIsFree DEF TypeOK, Fill, Free

LEMMA NextTypeOK ==
    ASSUME SliceAssumption, TypeOK, Owned, Next
    PROVE  TypeOK'
<1>1. ASSUME NEW r \in Requests, Step(r) PROVE TypeOK'
  <2>1. pc[r] \in Holding => held[r] \in Slices
    BY DEF TypeOK, Owned, Empty, Holding
  <2>2. CASE GetHit(r)
    <3>1. heap[memory] \in Seq(Nat) BY <2>2, SliceAssumption DEF TypeOK, GetHit
    <3> QED BY <3>1, <2>2, FillFacts DEF TypeOK, GetHit, Goto
  <2>3. CASE CheckHit(r)
    <3>1. heap[memory] \in Seq(Nat) BY <2>3, SliceAssumption DEF TypeOK, CheckHit
    <3> QED BY <3>1, <2>3, FillFacts DEF TypeOK, CheckHit, Goto
  <2>4. CASE Load(r)
    <3>1. PICK book \in Books : Fill(book) BY <2>4 DEF Load
    <3>2. book \in Seq(Nat) BY SliceAssumption DEF SliceAssumption
    <3> QED BY <3>1, <3>2, <2>4, FillFacts DEF TypeOK, Load, Goto
  <2>5. CASE Store(r)
    <3>1. heap[held[r]] \in Seq(Nat) BY <2>5, <2>1 DEF TypeOK, Store, Holding
    <3> QED BY <3>1, <2>5, FillFacts DEF TypeOK, Store, Goto
  <2>6. CASE Return(r)
    <3>1. heap[held[r]] \in Seq(Nat) BY <2>6, <2>1 DEF TypeOK, Return, Holding
    <3> QED BY <3>1, <2>6, FillFacts DEF TypeOK, Return, Goto
  <2>7. CASE Shape(r)
    <3>1. heap[held[r]] \in Seq(Nat) BY <2>7, <2>1 DEF TypeOK, Shape, Holding
    <3>2. CASE UNCHANGED <<heap, held>>
      BY <3>2, <2>7 DEF TypeOK, Shape, Goto
    <3>3. CASE Fill(heap[held[r]]) /\ held' = [held EXCEPT ![r] = New]
      BY <3>1, <3>3, <2>7, FillFacts DEF TypeOK, Shape, Goto
    <3> QED BY <3>2, <3>3, <2>7 DEF Shape
  <2>8. CASE Swap(r)
    <3> DEFINE levels == heap[held[r]]
               j == Len(levels) - next[r] + 1
    <3>1. held[r] \in Slices /\ levels \in Seq(Nat)
      BY <2>8, <2>1 DEF TypeOK, Swap, Holding
    <3>2. next[r] \in 1..Len(levels) /\ j \in 1..Len(levels)
      <4>1. Len(levels) \in Nat BY <3>1
      <4>2. next[r] \in Nat \ {0} BY DEF TypeOK
      <4>3. next[r] < j BY <2>8 DEF Swap
      <4> QED BY <4>1, <4>2, <4>3
    <3>3. Exchange(levels, next[r], j) \in Seq(Nat)
      BY <3>1, <3>2, SwapSeq
    <3> QED BY <3>1, <3>3, <2>8 DEF TypeOK, Swap
  <2>9. CASE Respond(r)
    <3>1. heap[held[r]] \in Seq(Nat) BY <2>9, <2>1 DEF TypeOK, Respond, Holding
    <3> QED BY <3>1, <2>9 DEF TypeOK, Respond, Goto
  <2>10. CASE GetMiss(r)
    BY <2>10 DEF TypeOK, GetMiss, Goto
  <2>15. CASE Enter(r)
    BY <2>15 DEF TypeOK, Enter, Goto
  <2>11. CASE CheckMiss(r)
    BY <2>11 DEF TypeOK, CheckMiss, Goto
  <2>12. CASE LoadFails(r)
    <3>1. <<>> \in Seq(Nat) OBVIOUS
    <3> QED BY <3>1, <2>12 DEF TypeOK, LoadFails
  <2>13. CASE Finish(r)
    BY <2>13 DEF TypeOK, Finish
  <2>14. CASE Reversed(r)
    BY <2>14 DEF TypeOK, Reversed, Goto
  <2> QED BY <1>1, <2>2, <2>3, <2>4, <2>5, <2>6, <2>7, <2>8, <2>9, <2>10, <2>11, <2>12,
             <2>13, <2>14, <2>15 DEF Step
<1>2. CASE Expire
  BY <1>2 DEF TypeOK, Expire
<1> QED BY <1>1, <1>2 DEF Next, Step
\* A caller that refers to a new array in place of the one it had refers to one of its own.
LEMMA OwnedFill ==
    ASSUME SliceAssumption, TypeOK, Owned, NEW r \in Requests,
           New \in Slices, New # memory, \A q \in Requests : held[q] # New,
           held' = [held EXCEPT ![r] = New], memory' = memory,
           NEW step \in Holding, pc' = [pc EXCEPT ![r] = step],
           pc[r] # "return" \/ step # "return"
    PROVE  Owned'
<1>1. New # NoSlice BY DEF SliceAssumption
<1>2. \A q \in Requests : held'[q] = (IF q = r THEN New ELSE held[q])
                        /\ pc'[q] = (IF q = r THEN step ELSE pc[q])
  BY DEF TypeOK
<1>3. step \notin Empty BY DEF Empty, Holding
<1>4. (\A q \in Requests : pc[q] \in Empty <=> held[q] = NoSlice)'
  BY <1>1, <1>2, <1>3 DEF Owned
<1>5. (\A q \in Requests : held[q] # NoSlice => held[q] # memory)'
  BY <1>2 DEF Owned
<1>6. (\A p, q \in Requests :
          p # q /\ held[p] = held[q] /\ held[p] # NoSlice => pc[p] = "return" /\ pc[q] = "return")'
  BY <1>2 DEF Owned
<1> QED BY <1>4, <1>5, <1>6 DEF Owned

\* A caller that keeps the array it has, or still has none.
LEMMA OwnedKeep ==
    ASSUME TypeOK, Owned, NEW r \in Requests,
           held' = held, memory' = memory,
           NEW step, pc' = [pc EXCEPT ![r] = step],
           pc[r] # "return",
           step \in Empty <=> pc[r] \in Empty
    PROVE  Owned'
<1>1. \A q \in Requests : pc'[q] = IF q = r THEN step ELSE pc[q]
  BY DEF TypeOK
<1> QED BY <1>1 DEF Owned

LEMMA NextOwned ==
    ASSUME SliceAssumption, TypeOK, Owned, Next
    PROVE  Owned'
<1>1. ASSUME NEW r \in Requests, Step(r) PROVE Owned'
  <2>1. pc[r] \in Holding => held[r] \in Slices
    BY DEF TypeOK, Owned, Empty, Holding
  <2>2. CASE GetHit(r)
    <3>1. heap[memory] \in Seq(Nat) BY <2>2 DEF TypeOK, GetHit
    <3>2. "shape" \in Holding BY DEF Holding
    <3> QED BY <3>1, <3>2, <2>2, FillFacts, OwnedFill DEF GetHit, Goto
  <2>3. CASE CheckHit(r)
    <3>1. heap[memory] \in Seq(Nat) BY <2>3 DEF TypeOK, CheckHit
    <3>2. "finish" \in Holding BY DEF Holding
    <3> QED BY <3>1, <3>2, <2>3, FillFacts, OwnedFill DEF CheckHit, Goto
  <2>4. CASE Load(r)
    <3>1. PICK book \in Books : Fill(book) BY <2>4 DEF Load
    <3>2. book \in Seq(Nat) BY DEF SliceAssumption
    <3>3. "store" \in Holding BY DEF Holding
    <3> QED BY <3>1, <3>2, <3>3, <2>4, FillFacts, OwnedFill DEF Load, Goto
  <2>5. CASE Store(r)
    <3>1. heap[held[r]] \in Seq(Nat) BY <2>5, <2>1 DEF TypeOK, Store, Holding
    <3>2. New \in Slices /\ \A q \in Requests : held[q] # New
      BY <3>1, <2>5, FillFacts DEF Store
    <3>3. held' = held /\ memory' = New /\ pc' = [pc EXCEPT ![r] = "finish"]
      BY <2>5 DEF Store, Goto
    <3>4. \A q \in Requests : pc'[q] = IF q = r THEN "finish" ELSE pc[q]
      BY <3>3 DEF TypeOK
    <3>5. pc[r] = "store" BY <2>5 DEF Store
    <3> QED BY <3>2, <3>3, <3>4, <3>5 DEF Owned, Empty
  <2>6. CASE Return(r)
    <3>1. heap[held[r]] \in Seq(Nat) BY <2>6, <2>1 DEF TypeOK, Return, Holding
    <3>2. "shape" \in Holding BY DEF Holding
    <3> QED BY <3>1, <3>2, <2>6, FillFacts, OwnedFill DEF Return, Goto
  <2>7. CASE Shape(r)
    <3>1. heap[held[r]] \in Seq(Nat) BY <2>7, <2>1 DEF TypeOK, Shape, Holding
    <3> DEFINE step == IF r \in Bidders THEN "reverse" ELSE "respond"
    <3>2. pc[r] = "shape" /\ memory' = memory /\ pc' = [pc EXCEPT ![r] = step]
      BY <2>7 DEF Shape, Goto
    <3>3. step \in Holding /\ step \notin Empty /\ "shape" \notin Empty
      BY DEF Holding, Empty
    <3> HIDE DEF step
    <3>4. CASE UNCHANGED <<heap, held>>
      BY <3>2, <3>3, <3>4, OwnedKeep
    <3>5. CASE Fill(heap[held[r]]) /\ held' = [held EXCEPT ![r] = New]
      BY <3>1, <3>2, <3>3, <3>5, FillFacts, OwnedFill
    <3> QED BY <3>4, <3>5, <2>7 DEF Shape
  <2>8. CASE Swap(r)
    BY <2>8 DEF Owned, Swap
  <2>9. CASE Respond(r)
    <3>1. \A q \in Requests : /\ pc'[q] = (IF q = r THEN "idle" ELSE pc[q])
                           /\ held'[q] = (IF q = r THEN NoSlice ELSE held[q])
      BY <2>9 DEF TypeOK, Respond, Goto
    <3> QED BY <3>1, <2>9 DEF Owned, Respond, Empty
  <2>10. CASE GetMiss(r)
    <3>1. \A q \in Requests : pc'[q] = IF q = r THEN "miss" ELSE pc[q]
      BY <2>10 DEF TypeOK, GetMiss, Goto
    <3> QED BY <3>1, <2>10 DEF Owned, GetMiss, Empty
  <2>15. CASE Enter(r)
    <3>1. \A q \in Requests :
              pc'[q] = IF q = r THEN IF Leading THEN "wait" ELSE "check" ELSE pc[q]
      BY <2>15 DEF TypeOK, Enter, Goto
    <3> QED BY <3>1, <2>15 DEF Owned, Enter, Empty
  <2>11. CASE CheckMiss(r)
    <3>1. \A q \in Requests : pc'[q] = IF q = r THEN "load" ELSE pc[q]
      BY <2>11 DEF TypeOK, CheckMiss, Goto
    <3> QED BY <3>1, <2>11 DEF Owned, CheckMiss, Empty
  <2>12. CASE LoadFails(r)
    <3>1. \A q \in Requests : pc'[q] = pc[q] \/ (pc'[q] = "idle" /\ pc[q] \in {"wait", "load"})
      BY <2>12 DEF LoadFails, Party
    <3>2. held' = held /\ memory' = memory BY <2>12 DEF LoadFails
    <3> QED BY <3>1, <3>2 DEF Owned, Empty
  <2>13. CASE Finish(r)
    <3>1. \A q \in Requests :
              /\ pc'[q] = (IF q \in Party(r) THEN "return" ELSE pc[q])
              /\ held'[q] = (IF q \in Party(r) THEN held[r] ELSE held[q])
      BY <2>13 DEF Finish
    <3>2. pc[r] = "finish" /\ memory' = memory BY <2>13 DEF Finish
    <3>3. held[r] # NoSlice /\ held[r] # memory
      BY <3>2 DEF Owned, Empty
    <3>4. \A q \in Requests : q \notin Party(r) => held[q] # held[r]
      BY <3>2, <3>3 DEF Owned, Party
    <3>5. (\A q \in Requests : pc[q] \in Empty <=> held[q] = NoSlice)'
      BY <3>1, <3>3 DEF Owned, Empty
    <3>6. (\A q \in Requests : held[q] # NoSlice => held[q] # memory)'
      BY <3>1, <3>2, <3>3 DEF Owned
    <3>7. (\A p, q \in Requests : p # q /\ held[p] = held[q] /\ held[p] # NoSlice
                                   => pc[p] = "return" /\ pc[q] = "return")'
      BY <3>1, <3>4 DEF Owned
    <3> QED BY <3>5, <3>6, <3>7 DEF Owned
  <2>14. CASE Reversed(r)
    <3>1. pc[r] = "reverse" /\ pc' = [pc EXCEPT ![r] = "respond"]
      BY <2>14 DEF Reversed, Goto
    <3>2. "respond" \notin Empty /\ "reverse" \notin Empty BY DEF Empty
    <3> QED BY <3>1, <3>2, <2>14, OwnedKeep DEF Reversed
  <2> QED BY <1>1, <2>2, <2>3, <2>4, <2>5, <2>6, <2>7, <2>8, <2>9, <2>10, <2>11, <2>12,
             <2>13, <2>14, <2>15 DEF Step
<1>2. CASE Expire
  BY <1>2 DEF TypeOK, Owned, Expire, SliceAssumption
<1> QED BY <1>1, <1>2 DEF Next, Step
----------------------------------------------------------------------------
(* InOrder and ReadInOrder *)

\* A new array takes nothing away from those who hold another one.
LEMMA FillSpares ==
    ASSUME TypeOK, Owned, NEW q \in Requests, pc[q] \in Holding,
           held[q] # New, \A s \in Slices \ {New} : heap'[s] = heap[s]
    PROVE  heap'[held[q]] = heap[held[q]]
<1>1. held[q] \in Slices
  BY DEF TypeOK, Owned, Empty, Holding
<1> QED BY <1>1

\* A request that does not move is not disturbed either: what it refers to stays as it is.
LEMMA StillSound ==
    ASSUME NEW q \in Requests, Sound(q),
           pc'[q] = pc[q], held'[q] = held[q], next'[q] = next[q],
           pc[q] \in Holding => heap'[held[q]] = heap[held[q]]
    PROVE  Sound(q)'
BY DEF Sound, Holding

\* A request that gets a new array with a book in it, and no other one is disturbed.
LEMMA InOrderFill ==
    ASSUME SliceAssumption, TypeOK, Owned, InOrder, NEW r \in Requests,
           NEW book \in Books, Fill(book),
           held' = [held EXCEPT ![r] = New], memory' = memory, next' = next,
           NEW step \in {"store", "finish", "shape"}, pc' = [pc EXCEPT ![r] = step],
           pc[r] # "reverse"
    PROVE  InOrder'
<1>1. /\ New \in Slices /\ New # memory /\ \A q \in Requests : held[q] # New
      /\ heap'[New] = book
      /\ \A s \in Slices \ {New} : heap'[s] = heap[s]
  BY FillFacts DEF SliceAssumption
<1>2. (memory # NoSlice => heap[memory] \in Books)'
  BY <1>1 DEF InOrder, TypeOK
<1>3. ASSUME NEW q \in Requests, q # r PROVE Sound(q)'
  <2>1. pc[q] \in Holding => heap'[held[q]] = heap[held[q]]
    BY <1>1, FillSpares
  <2>2. pc'[q] = pc[q] /\ held'[q] = held[q] /\ next'[q] = next[q]
    BY <1>3 DEF TypeOK
  <2> QED BY <2>1, <2>2, StillSound DEF InOrder
<1>4. Sound(r)'
  <2>1. pc'[r] = step /\ held'[r] = New /\ next'[r] = 1 /\ heap'[New] = book
    BY <1>1 DEF TypeOK, InOrder, Sound
  <2> QED BY <2>1 DEF Sound
<1> QED BY <1>2, <1>3, <1>4 DEF InOrder

\* A request that takes a step of its own in which nothing anybody refers to changes.
LEMMA InOrderMove ==
    ASSUME TypeOK, Owned, InOrder, NEW r \in Requests,
           heap' = heap, memory' = memory, next' = next,
           \A q \in Requests \ {r} : pc'[q] = pc[q] /\ held'[q] = held[q],
           Sound(r)'
    PROVE  InOrder'
<1>1. ASSUME NEW q \in Requests, q # r PROVE Sound(q)'
  BY <1>1, StillSound DEF InOrder
<1> QED BY <1>1 DEF InOrder

LEMMA NextInOrder ==
    ASSUME SliceAssumption, TypeOK, Owned, InOrder, Next
    PROVE  InOrder'
<1>1. ASSUME NEW r \in Requests, Step(r) PROVE InOrder'
  <2>1. pc[r] \in Holding => held[r] \in Slices
    BY DEF TypeOK, Owned, Empty, Holding
  <2>s. Sound(r) BY DEF InOrder
  <2>2. CASE GetHit(r)
    <3>1. heap[memory] \in Books BY <2>2 DEF InOrder, GetHit
    <3> QED BY <3>1, <2>2, InOrderFill DEF GetHit, Goto
  <2>3. CASE CheckHit(r)
    <3>1. heap[memory] \in Books BY <2>3 DEF InOrder, CheckHit
    <3> QED BY <3>1, <2>3, InOrderFill DEF CheckHit, Goto
  <2>4. CASE Load(r)
    <3>1. PICK book \in Books : Fill(book) BY <2>4 DEF Load
    <3> QED BY <3>1, <2>4, InOrderFill DEF Load, Goto
  <2>5. CASE Store(r)
    <3>1. heap[held[r]] \in Books BY <2>5, <2>s DEF Sound, Store
    <3>2. /\ New \in Slices /\ New # memory /\ \A q \in Requests : held[q] # New
          /\ heap'[New] = heap[held[r]]
          /\ \A s \in Slices \ {New} : heap'[s] = heap[s]
      BY <3>1, <2>5, FillFacts DEF Store, SliceAssumption
    <3>3. (memory # NoSlice => heap[memory] \in Books)'
      BY <3>1, <3>2, <2>5 DEF Store
    <3>4. ASSUME NEW q \in Requests PROVE pc[q] \in Holding => heap'[held[q]] = heap[held[q]]
      BY <3>2, <3>4, FillSpares
    <3>5. ASSUME NEW q \in Requests, q # r PROVE Sound(q)'
      <4>1. pc'[q] = pc[q] /\ held'[q] = held[q] /\ next'[q] = next[q]
        BY <3>5, <2>5 DEF TypeOK, Store, Goto
      <4> QED BY <3>4, <4>1, StillSound DEF InOrder
    <3>6. Sound(r)'
      <4>1. pc[r] = "store" /\ pc'[r] = "finish" /\ held'[r] = held[r] /\ next'[r] = next[r]
        BY <2>5 DEF TypeOK, Store, Goto
      <4>2. heap'[held[r]] = heap[held[r]]
        BY <3>4, <4>1 DEF Holding
      <4> QED BY <4>1, <4>2, <3>1, <2>s DEF Sound
    <3> QED BY <3>3, <3>5, <3>6 DEF InOrder
  <2>6. CASE Return(r)
    <3>1. heap[held[r]] \in Books BY <2>6, <2>s DEF Sound, Return
    <3> QED BY <3>1, <2>6, InOrderFill DEF Return, Goto
  <2>7. CASE Shape(r)
    <3>1. heap[held[r]] \in Books /\ next[r] = 1 BY <2>7, <2>s DEF Sound, Shape
    <3> DEFINE step == IF r \in Bidders THEN "reverse" ELSE "respond"
    <3>2. /\ pc[r] = "shape" /\ memory' = memory /\ next' = next
          /\ pc'[r] = step
          /\ \A q \in Requests \ {r} : pc'[q] = pc[q]
      BY <2>7 DEF Shape, Goto, TypeOK
    <3>3. heap[held[r]] = Turned(heap[held[r]], 1)
      BY <3>1, TurnedStart DEF SliceAssumption
    <3>4. CASE UNCHANGED <<heap, held>>
      <4>1. Sound(r)'
        BY <3>1, <3>2, <3>3, <3>4 DEF Sound
      <4> QED BY <4>1, <3>2, <3>4, InOrderMove
    <3>5. CASE Fill(heap[held[r]]) /\ held' = [held EXCEPT ![r] = New]
      <4>1. /\ New \in Slices /\ New # memory /\ \A q \in Requests : held[q] # New
            /\ heap'[New] = heap[held[r]]
            /\ \A s \in Slices \ {New} : heap'[s] = heap[s]
        BY <3>1, <3>5, FillFacts DEF SliceAssumption
      <4>2. (memory # NoSlice => heap[memory] \in Books)'
        BY <4>1, <3>2 DEF InOrder, TypeOK
      <4>3. ASSUME NEW q \in Requests, q # r PROVE Sound(q)'
        <5>1. pc[q] \in Holding => heap'[held[q]] = heap[held[q]]
          BY <4>1, <4>3, FillSpares
        <5>2. pc'[q] = pc[q] /\ held'[q] = held[q] /\ next'[q] = next[q]
          BY <4>3, <3>2, <3>5 DEF TypeOK
        <5> QED BY <5>1, <5>2, StillSound DEF InOrder
      <4>4. Sound(r)'
        <5>1. held'[r] = New BY <3>5 DEF TypeOK
        <5> QED BY <5>1, <4>1, <3>1, <3>2, <3>3 DEF Sound
      <4> QED BY <4>2, <4>3, <4>4 DEF InOrder
    <3> QED BY <3>4, <3>5, <2>7 DEF Shape
  <2>8. CASE Swap(r)
    <3> DEFINE levels == heap[held[r]]
               k == next[r]
    <3>1. pc[r] = "reverse" /\ k < Len(levels) - k + 1 BY <2>8 DEF Swap
    <3>2. k \in Nat /\ k >= 1 BY DEF TypeOK
    <3>3. PICK book \in Books : levels = Turned(book, k) BY <3>1, <2>s DEF Sound
    <3>4. book \in Seq(Nat) BY DEF SliceAssumption
    <3>5. Len(levels) = Len(book) BY <3>2, <3>3, <3>4, TurnedLen
    <3>6. Exchange(levels, k, Len(levels) - k + 1) = Turned(book, k + 1)
      BY <3>1, <3>2, <3>3, <3>4, <3>5, TurnedSwap
    <3>7. held[r] \in Slices /\ held[r] # memory BY <3>1, <2>1 DEF Holding, Owned, SliceAssumption
    <3>8. heap'[held[r]] = Turned(book, k + 1) /\ \A s \in Slices \ {held[r]} : heap'[s] = heap[s]
      BY <2>8, <3>6, <3>7 DEF Swap, TypeOK
    <3>9. (memory # NoSlice => heap[memory] \in Books)'
      BY <3>7, <3>8, <2>8 DEF InOrder, TypeOK, Swap
    <3>10. ASSUME NEW q \in Requests, q # r PROVE Sound(q)'
      <4>1. pc[q] \in Holding => held[q] \in Slices /\ held[q] # held[r]
        BY <3>10, <3>1, <3>7 DEF TypeOK, Owned, Empty, Holding, SliceAssumption
      <4>2. pc'[q] = pc[q] /\ held'[q] = held[q] /\ next'[q] = next[q]
        BY <3>10, <2>8 DEF TypeOK, Swap
      <4> QED BY <3>8, <4>1, <4>2, StillSound DEF InOrder
    <3>11. Sound(r)'
      <4>1. pc'[r] = "reverse" /\ held'[r] = held[r] /\ next'[r] = k + 1
        BY <3>1, <2>8 DEF TypeOK, Swap
      <4> QED BY <4>1, <3>1, <3>8, <2>s DEF Sound
    <3> QED BY <3>9, <3>10, <3>11 DEF InOrder
  <2>9. CASE Respond(r)
    <3>1. /\ pc[r] = "respond" /\ pc'[r] = "idle"
          /\ \A q \in Requests \ {r} : pc'[q] = pc[q] /\ held'[q] = held[q]
      BY <2>9 DEF TypeOK, Respond, Goto
    <3>2. Sound(r)' BY <3>1, <2>s, <2>9 DEF Sound, Respond
    <3> QED BY <3>1, <3>2, <2>9, InOrderMove DEF Respond
  <2>10. CASE GetMiss(r)
    <3>1. /\ pc[r] = "idle" /\ pc'[r] = "miss"
          /\ \A q \in Requests \ {r} : pc'[q] = pc[q]
      BY <2>10 DEF TypeOK, GetMiss, Goto
    <3>2. Sound(r)' BY <3>1, <2>s, <2>10 DEF Sound, GetMiss
    <3> QED BY <3>1, <3>2, <2>10, InOrderMove DEF GetMiss
  <2>15. CASE Enter(r)
    <3>1. /\ pc[r] = "miss" /\ pc'[r] \in {"wait", "check"}
          /\ \A q \in Requests \ {r} : pc'[q] = pc[q]
      BY <2>15 DEF TypeOK, Enter, Goto
    <3>2. Sound(r)' BY <3>1, <2>s, <2>15 DEF Sound, Enter
    <3> QED BY <3>1, <3>2, <2>15, InOrderMove DEF Enter
  <2>11. CASE CheckMiss(r)
    <3>1. /\ pc[r] = "check" /\ pc'[r] = "load"
          /\ \A q \in Requests \ {r} : pc'[q] = pc[q]
      BY <2>11 DEF TypeOK, CheckMiss, Goto
    <3>2. Sound(r)' BY <3>1, <2>s, <2>11 DEF Sound, CheckMiss
    <3> QED BY <3>1, <3>2, <2>11, InOrderMove DEF CheckMiss
  <2>12. CASE LoadFails(r)
    <3>1. ASSUME NEW q \in Requests PROVE Sound(q)'
      <4>1. pc'[q] = pc[q] \/ (pc'[q] = "idle" /\ pc[q] \in {"wait", "load"})
        BY <2>12 DEF LoadFails, Party
      <4> QED BY <4>1, <2>12 DEF LoadFails, InOrder, Sound
    <3> QED BY <3>1, <2>12 DEF LoadFails, InOrder
  <2>13. CASE Finish(r)
    <3>1. heap[held[r]] \in Books BY <2>13, <2>s DEF Sound, Finish
    <3>2. ASSUME NEW q \in Requests PROVE Sound(q)'
      <4>1. CASE q \in Party(r)
        <5>1. pc'[q] = "return" /\ held'[q] = held[r] /\ pc[q] # "reverse"
          BY <4>1, <2>13 DEF Finish, Party
        <5> QED BY <5>1, <3>1, <2>13 DEF Finish, InOrder, Sound
      <4>2. CASE q \notin Party(r)
        <5>1. pc'[q] = pc[q] /\ held'[q] = held[q] BY <4>2, <2>13 DEF Finish
        <5> QED BY <5>1, <2>13, StillSound DEF Finish, InOrder
      <4> QED BY <4>1, <4>2
    <3> QED BY <3>2, <2>13 DEF Finish, InOrder
  <2>14. CASE Reversed(r)
    <3> DEFINE levels == heap[held[r]]
               k == next[r]
    <3>1. pc[r] = "reverse" /\ k >= Len(levels) - k + 1 BY <2>14 DEF Reversed
    <3>2. k \in Nat BY DEF TypeOK
    <3>3. PICK book \in Books : levels = Turned(book, k) BY <3>1, <2>s DEF Sound
    <3>4. book \in Seq(Nat) BY DEF SliceAssumption
    <3>5. Len(levels) = Len(book) BY <3>2, <3>3, <3>4, TurnedLen
    <3>6. levels = Backwards(book) BY <3>1, <3>2, <3>3, <3>4, <3>5, TurnedEnds
    <3>7. /\ pc'[r] = "respond" /\ held' = held /\ heap' = heap /\ memory' = memory
          /\ next'[r] = 1
          /\ \A q \in Requests \ {r} : pc'[q] = pc[q] /\ next'[q] = next[q]
      BY <2>14 DEF TypeOK, Reversed, Goto
    <3>8. Sound(r)' BY <3>1, <3>6, <3>7, <2>s DEF Sound
    <3>9. ASSUME NEW q \in Requests, q # r PROVE Sound(q)'
      BY <3>7, <3>9, StillSound DEF InOrder
    <3> QED BY <3>7, <3>8, <3>9 DEF InOrder
  <2> QED BY <1>1, <2>2, <2>3, <2>4, <2>5, <2>6, <2>7, <2>8, <2>9, <2>10, <2>11, <2>12,
             <2>13, <2>14, <2>15 DEF Step
<1>2. CASE Expire
  BY <1>2 DEF Expire, InOrder, Sound
<1> QED BY <1>1, <1>2 DEF Next, Step

LEMMA NextReadInOrder ==
    ASSUME TypeOK, InOrder, ReadInOrder, Next
    PROVE  ReadInOrder'
<1>1. ASSUME NEW r \in Requests, Respond(r) PROVE ReadInOrder'
  <2>1. PICK book \in Books : heap[held[r]] = IF r \in Bidders THEN Backwards(book) ELSE book
    BY <1>1 DEF InOrder, Sound, Respond
  <2>2. \A q \in Requests : read'[q] = IF q = r THEN heap[held[r]] ELSE read[q]
    BY <1>1 DEF TypeOK, Respond
  <2> QED BY <2>1, <2>2 DEF ReadInOrder, Backwards
<1>2. ASSUME NEW r \in Requests, LoadFails(r) PROVE ReadInOrder'
  <2>1. \A q \in Requests : read'[q] = read[q] \/ read'[q] = <<>>
    BY <1>2 DEF LoadFails
  <2> QED BY <2>1 DEF ReadInOrder
<1>3. CASE UNCHANGED read
  BY <1>3 DEF ReadInOrder
<1> QED BY <1>1, <1>2, <1>3
        DEF Next, GetHit, GetMiss, Enter, CheckHit, CheckMiss, Load, Store, Finish, Return, Shape,
            Swap, Reversed, Expire

----------------------------------------------------------------------------
(* Theorems *)

THEOREM Invariance == Spec => []IInv
<1>1. Init => IInv BY InitIInv, SliceAssumption
<1>2. IInv /\ [Next]_vars => IInv'
  <2> SUFFICES ASSUME IInv, [Next]_vars PROVE IInv'
    OBVIOUS
  <2>1. CASE Next
    BY <2>1, NextTypeOK, NextOwned, NextInOrder, NextReadInOrder, SliceAssumption DEF IInv
  <2>2. CASE UNCHANGED vars
    BY <2>2 DEF vars, IInv, TypeOK, Owned, InOrder, Sound, ReadInOrder
  <2> QED BY <2>1, <2>2
<1> QED BY <1>1, <1>2, PTL DEF Spec

\* Every variable keeps its type.
THEOREM TypeCorrect == Spec => []TypeOK
<1>1. IInv => TypeOK BY DEF IInv
<1> QED BY <1>1, Invariance, PTL

\* What Get returns is a copy the caller may freely modify.
THEOREM SafeCopy == Spec => []Exclusive
<1>1. IInv => Exclusive
  <2> SUFFICES ASSUME IInv, NEW r \in Requests, pc[r] \in {"shape", "reverse", "respond"}
               PROVE  held[r] # memory /\ \A q \in Requests \ {r} : held[q] # held[r]
    BY DEF Exclusive
  <2>1. held[r] # NoSlice BY DEF IInv, TypeOK, Owned, Empty
  <2> QED BY <2>1 DEF IInv, Owned
<1> QED BY <1>1, Invariance, PTL

\* The contents of a cached array never change.
THEOREM Untouched == Spec => CacheUntouched
<1>1. IInv /\ [Next]_vars => [memory # NoSlice /\ memory' = memory => heap'[memory] = heap[memory]]_vars
  <2> SUFFICES ASSUME IInv, Next, memory # NoSlice, memory' = memory
               PROVE  heap'[memory] = heap[memory]
    BY DEF vars
  <2>1. memory \in Slices BY DEF IInv, TypeOK
  <2>2. CASE heap' = heap
    BY <2>2
  <2>3. ASSUME NEW levels, Fill(levels) PROVE heap'[memory] = heap[memory]
    BY <2>1, <2>3, NewIsFree DEF Fill, Free, IInv, TypeOK
  <2>4. ASSUME NEW r \in Requests, Swap(r) PROVE heap'[memory] = heap[memory]
    <3>1. held[r] # memory
      BY <2>4, <2>1 DEF IInv, Owned, TypeOK, Swap, Empty
    <3> QED BY <3>1, <2>1, <2>4 DEF Swap, IInv, TypeOK
  <2> QED BY <2>2, <2>3, <2>4
          DEF Next, GetHit, GetMiss, Enter, CheckHit, CheckMiss, Load, LoadFails, Store, Finish,
              Return, Shape, Reversed, Respond, Expire
<1> QED BY <1>1, Invariance, PTL DEF Spec, CacheUntouched

\* Asks are read as loaded, bids turned round exactly once.
THEOREM Read == Spec => []ReadInOrder
<1>1. IInv => ReadInOrder BY DEF IInv
<1> QED BY <1>1, Invariance, PTL
=============================================================================
