------------------------- MODULE RateLimiterProofs -------------------------
(***************************************************************************)
(* Theorems about RateLimiter, for every number of requests, processes and *)
(* clients, for every limit and window, and however late a call to Redis.  *)
(***************************************************************************)
EXTENDS RateLimiterHistory, FiniteSetTheorems, TLAPS

\* The requests that have got a number from Redis.
Counted == {r \in Requests : pc[r] \in {"expire", "admitted", "rejected"}}

\* A request past the beginning has a client.
ClientKnown == \A r \in Requests : pc[r] \notin {"new", "lost"} => client[r] \in Clients

\* The clock is read in the past.
ReadBefore == \A r \in Requests : read[r] <= now

\* A counter's lifetime reaches beyond its window by the slack.
LongLived ==
    \A l \in LimitKeys, w \in Windows :
        ttl[l][w] # Forever => ttl[l][w] >= w + Window + Slack

\* A number that Redis gave is within the counter, as long as the counter is there.
Covered ==
    \A r \in Counted :
        count[r] <= counter[KeyOf(r)][WinOf(r)] \/ PastUse(WinOf(r))

\* Two requests of one counter and one window have different numbers, those aside
\* that came late.
Distinct ==
    \A r, q \in Counted \ late :
        r # q /\ KeyOf(r) = KeyOf(q) /\ WinOf(r) = WinOf(q) => count[r] # count[q]

\* Numbers start at 1, and who is let through is within the limit.
Ranked ==
    \A r \in Counted :
        /\ count[r] >= 1
        /\ pc[r] = "admitted" => count[r] <= LimitOf(client[r])

LInv ==
    /\ TypeOK /\ ClientKnown /\ ReadBefore
    /\ LongLived /\ Covered /\ Ranked

----------------------------------------------------------------------------
\* A window starts at or before each of its moments and ends after it.
LEMMA WindowFacts ==
    ASSUME NEW t \in Nat
    PROVE  /\ WindowOf(t) \in Nat
           /\ WindowOf(t) <= t
           /\ t < WindowOf(t) + Window
<1>1. t % Window \in Nat /\ t % Window < Window /\ t % Window <= t
  BY LimiterAssumption
<1> QED
  BY <1>1, LimiterAssumption DEF WindowOf

\* A limit is at least 1, and clients that share a counter share its limit.
LEMMA LimitFacts ==
    /\ \A c \in Clients : LimitOf(c) \in Nat \ {0} /\ LimitKey(c) \in LimitKeys
    /\ \A c, d \in Clients : LimitKey(c) = LimitKey(d) => LimitOf(c) = LimitOf(d)
<1>1. \A c \in Clients : LimitOf(c) \in Nat \ {0}
  BY LimiterAssumption DEF LimitOf, HasOwnLimit
<1>2. \A c \in Clients : LimitKey(c) \in LimitKeys
  BY DEF LimitKeys
<1>3. ASSUME NEW c \in Clients, NEW d \in Clients, LimitKey(c) = LimitKey(d)
      PROVE  LimitOf(c) = LimitOf(d)
  <2>1. HasOwnLimit(c) <=> HasOwnLimit(d)
    BY <1>3 DEF LimitKey
  <2>2. HasOwnLimit(c) => KeyHash[c] = KeyHash[d]
    BY <1>3, <2>1 DEF LimitKey
  <2> QED
    BY <2>1, <2>2, LimiterAssumption DEF LimitOf
<1> QED
  BY <1>1, <1>2, <1>3

\* Where a request counts: one of the counters there are.
LEMMA SlotFacts ==
    ASSUME TypeOK, ClientKnown
    PROVE  /\ \A r \in Requests : read[r] \in Nat /\ WinOf(r) \in Windows /\ WinOf(r) \in Nat
           /\ \A r \in Requests : read[r] >= WinOf(r) /\ read[r] < WinOf(r) + Window
           /\ \A r \in Requests : pc[r] \notin {"new", "lost"} => KeyOf(r) \in LimitKeys
           /\ \A w \in Windows : w \in Nat
<1>1. \A t \in 0..MaxTime : WindowOf(t) \in Nat /\ WindowOf(t) <= t /\ t < WindowOf(t) + Window
  BY WindowFacts, LimiterAssumption
<1>2. \A r \in Requests : read[r] \in 0..MaxTime
  BY DEF TypeOK
<1>3. \A r \in Requests : /\ WinOf(r) \in Windows /\ WinOf(r) \in Nat
                          /\ read[r] >= WinOf(r) /\ read[r] < WinOf(r) + Window
  BY <1>1, <1>2 DEF WinOf, Windows
<1>4. \A w \in Windows : w \in Nat
  BY <1>1 DEF Windows
<1>5. \A r \in Requests : pc[r] \notin {"new", "lost"} => KeyOf(r) \in LimitKeys
  BY LimitFacts DEF ClientKnown, KeyOf
<1> QED
  BY <1>2, <1>3, <1>4, <1>5, LimiterAssumption

----------------------------------------------------------------------------
LEMMA InitLInv == Init => LInv
<1> SUFFICES ASSUME Init PROVE LInv
  OBVIOUS
<1>1. TypeOK
  BY LimiterAssumption DEF Init, TypeOK, NoEntry, Forever
<1>2. Counted = {}
  BY DEF Init, Counted
<1>3. ClientKnown /\ ReadBefore /\ LongLived
  BY DEF Init, ClientKnown, ReadBefore, LongLived
<1> QED
  BY <1>1, <1>2, <1>3 DEF LInv, Covered, Ranked

----------------------------------------------------------------------------
(* Each conjunct of LInv is preserved by every step. *)

\* Type correctness.
LEMMA NextTypeOK == LInv /\ [Next]_vars => TypeOK'
<1> SUFFICES ASSUME LInv, [Next]_vars PROVE TypeOK'
  OBVIOUS
<1> USE LimiterAssumption DEF TypeOK, NoEntry, Forever
<1>a. TypeOK /\ ClientKnown
  BY DEF LInv
<1>b. \A r \in Requests : pc[r] \notin {"new", "lost"} => KeyOf(r) \in LimitKeys /\ WinOf(r) \in Windows
  BY <1>a, SlotFacts
<1>1. ASSUME NEW r \in Requests, Incr(r) PROVE TypeOK'
  <2>1. pc[r] = "incr" /\ KeyOf(r) \in LimitKeys /\ WinOf(r) \in Windows
    BY <1>b, <1>1 DEF Incr
  <2> DEFINE n == counter[KeyOf(r)][WinOf(r)] + 1
  <2>2. n \in Nat
    BY <1>a, <2>1
  <2> HIDE DEF n
  <2>3. /\ counter' = [counter EXCEPT ![KeyOf(r)] = [counter[KeyOf(r)] EXCEPT ![WinOf(r)] = n]]
        /\ count' = [count EXCEPT ![r] = n]
    BY <1>1 DEF Incr, n
  <2>4. [counter[KeyOf(r)] EXCEPT ![WinOf(r)] = n] \in [Windows -> Nat]
    BY <1>a, <2>1, <2>2
  <2>5. counter' \in [LimitKeys -> [Windows -> Nat]] /\ count' \in [Requests -> Nat]
    BY <1>a, <2>1, <2>2, <2>3, <2>4
  <2>6. pc' = [pc EXCEPT ![r] = "expire"] \/ pc' = [pc EXCEPT ![r] = "rejected"]
          \/ pc' = [pc EXCEPT ![r] = "admitted"]
    BY <1>1 DEF Incr
  <2> QED
    BY <1>a, <1>1, <2>5, <2>6 DEF Incr
<1>2. ASSUME NEW r \in Requests, IncrReplyLost(r) PROVE TypeOK'
  <2>1. pc[r] = "incr" /\ KeyOf(r) \in LimitKeys /\ WinOf(r) \in Windows
    BY <1>b, <1>2 DEF IncrReplyLost
  <2> DEFINE row == [counter[KeyOf(r)] EXCEPT ![WinOf(r)] = @ + 1]
  <2>2. row \in [Windows -> Nat]
    BY <1>a, <2>1
  <2>3. counter' = [counter EXCEPT ![KeyOf(r)] = row]
    BY <1>2 DEF IncrReplyLost
  <2> HIDE DEF row
  <2>4. counter' \in [LimitKeys -> [Windows -> Nat]]
    BY <1>a, <2>1, <2>2, <2>3
  <2>5. tries' \in [Requests -> 0..MaxRetries]
    BY <1>a, <1>2 DEF IncrReplyLost
  <2> QED
    BY <1>a, <1>2, <2>4, <2>5 DEF IncrReplyLost
<1>3. ASSUME NEW r \in Requests, IncrFails(r) PROVE TypeOK'
  BY <1>a, <1>b, <1>3 DEF IncrFails
<1>4. ASSUME NEW r \in Requests, Expire(r) PROVE TypeOK'
  <2>1. pc[r] = "expire" /\ KeyOf(r) \in LimitKeys /\ WinOf(r) \in Windows
    BY <1>b, <1>4 DEF Expire
  <2> DEFINE row == [ttl[KeyOf(r)] EXCEPT ![WinOf(r)] =
                        IF counter[KeyOf(r)][WinOf(r)] = 0 THEN @ ELSE now + Window + Slack]
  <2>2. row \in [Windows -> Int]
    BY <1>a, <2>1
  <2>3. ttl' = [ttl EXCEPT ![KeyOf(r)] = row]
    BY <1>4 DEF Expire
  <2> HIDE DEF row
  <2>4. ttl' \in [LimitKeys -> [Windows -> Int]]
    BY <1>a, <2>1, <2>2, <2>3
  <2> QED
    BY <1>a, <1>4, <2>4 DEF Expire, FirstVerdict
<1>5. ASSUME NEW r \in Requests, ExpireFails(r) PROVE TypeOK'
  BY <1>a, <1>b, <1>5 DEF ExpireFails, FirstVerdict
<1>6. ASSUME NEW r \in Requests, AllowFailover(r) PROVE TypeOK'
  <2>1. client[r] \in Clients /\ IP[client[r]] \in Addresses
    BY <1>a, <1>6 DEF AllowFailover, ClientKnown, Addresses
  <2>2. failover' \in [Instances -> [Addresses -> [count : Nat, resetAt : Int]]]
    <3>1. CASE failover' = [failover EXCEPT ![Host[r]][IP[client[r]]] =
                                [count |-> 1, resetAt |-> now + Window]]
      BY <1>a, <2>1, <3>1
    <3>2. CASE failover' = [failover EXCEPT ![Host[r]][IP[client[r]]].count = @ + 1]
      <4> DEFINE e == failover[Host[r]][IP[client[r]]]
                 d == [e EXCEPT !.count = @ + 1]
      <4>1. e \in [count : Nat, resetAt : Int]
        BY <1>a, <2>1
      <4>2. d \in [count : Nat, resetAt : Int]
        BY <4>1
      <4>3. failover' = [failover EXCEPT ![Host[r]] = [failover[Host[r]] EXCEPT ![IP[client[r]]] = d]]
        BY <3>2
      <4> HIDE DEF d, e
      <4> QED
        BY <1>a, <2>1, <4>2, <4>3
    <3> QED
      BY <1>6, <3>1, <3>2 DEF AllowFailover
  <2>3. pc' = [pc EXCEPT ![r] = "admitted_degraded"] \/ pc' = [pc EXCEPT ![r] = "rejected_degraded"]
    BY <1>6 DEF AllowFailover
  <2> QED
    BY <1>a, <1>6, <2>2, <2>3 DEF AllowFailover
<1>7. ASSUME NEW r \in Requests, NEW c \in Clients, Begin(r, c) PROVE TypeOK'
  BY <1>a, <1>b, <1>7 DEF Begin
<1>8. ASSUME NEW i \in Instances, Crash(i) PROVE TypeOK'
  BY <1>a, <1>b, <1>8 DEF Crash
<1>9. CASE Tick
  BY <1>a, <1>b, <1>9 DEF Tick
<1>10. CASE UNCHANGED vars
  BY <1>a, <1>b, <1>10 DEF vars
<1> QED
  BY <1>1, <1>2, <1>3, <1>4, <1>5, <1>6, <1>7, <1>8, <1>9, <1>10 DEF Next, Step

\* A client is set at the beginning and forgotten by a crash only.
LEMMA NextClientKnown == LInv /\ [Next]_vars => ClientKnown'
<1> SUFFICES ASSUME LInv, [Next]_vars PROVE ClientKnown'
  OBVIOUS
<1> USE DEF LInv, ClientKnown, TypeOK
<1>1. ASSUME NEW r \in Requests, Incr(r) PROVE ClientKnown'
  BY <1>1 DEF Incr
<1>2. ASSUME NEW r \in Requests, IncrReplyLost(r) PROVE ClientKnown'
  BY <1>2 DEF IncrReplyLost
<1>3. ASSUME NEW r \in Requests, IncrFails(r) PROVE ClientKnown'
  BY <1>3 DEF IncrFails
<1>4. ASSUME NEW r \in Requests, Expire(r) PROVE ClientKnown'
  BY <1>4 DEF Expire, FirstVerdict
<1>5. ASSUME NEW r \in Requests, ExpireFails(r) PROVE ClientKnown'
  BY <1>5 DEF ExpireFails, FirstVerdict
<1>6. ASSUME NEW r \in Requests, AllowFailover(r) PROVE ClientKnown'
  BY <1>6 DEF AllowFailover
<1>7. ASSUME NEW r \in Requests, NEW c \in Clients, Begin(r, c) PROVE ClientKnown'
  BY <1>7 DEF Begin
<1>8. ASSUME NEW i \in Instances, Crash(i) PROVE ClientKnown'
  BY <1>8 DEF Crash
<1>9. CASE Tick
  BY <1>9 DEF Tick
<1>10. CASE UNCHANGED vars
  BY <1>10 DEF vars
<1> QED
  BY <1>1, <1>2, <1>3, <1>4, <1>5, <1>6, <1>7, <1>8, <1>9, <1>10 DEF Next, Step

\* The clock moves on only.
LEMMA NextReadBefore == LInv /\ [Next]_vars => ReadBefore'
<1> SUFFICES ASSUME LInv, [Next]_vars PROVE ReadBefore'
  OBVIOUS
<1> USE LimiterAssumption DEF LInv, ReadBefore, TypeOK
<1>1. ASSUME NEW r \in Requests, Incr(r) PROVE ReadBefore'
  BY <1>1 DEF Incr
<1>2. ASSUME NEW r \in Requests, IncrReplyLost(r) PROVE ReadBefore'
  BY <1>2 DEF IncrReplyLost
<1>3. ASSUME NEW r \in Requests, IncrFails(r) PROVE ReadBefore'
  BY <1>3 DEF IncrFails
<1>4. ASSUME NEW r \in Requests, Expire(r) PROVE ReadBefore'
  BY <1>4 DEF Expire, FirstVerdict
<1>5. ASSUME NEW r \in Requests, ExpireFails(r) PROVE ReadBefore'
  BY <1>5 DEF ExpireFails, FirstVerdict
<1>6. ASSUME NEW r \in Requests, AllowFailover(r) PROVE ReadBefore'
  BY <1>6 DEF AllowFailover
<1>7. ASSUME NEW r \in Requests, NEW c \in Clients, Begin(r, c) PROVE ReadBefore'
  BY <1>7 DEF Begin
<1>8. ASSUME NEW i \in Instances, Crash(i) PROVE ReadBefore'
  BY <1>8 DEF Crash
<1>9. CASE Tick
  BY <1>9 DEF Tick
<1>10. CASE UNCHANGED vars
  BY <1>10 DEF vars
<1> QED
  BY <1>1, <1>2, <1>3, <1>4, <1>5, <1>6, <1>7, <1>8, <1>9, <1>10 DEF Next, Step

\* A lifetime is set inside the window or after it.
LEMMA NextLongLived == LInv /\ [Next]_vars => LongLived'
<1> SUFFICES ASSUME LInv, [Next]_vars, NEW l \in LimitKeys, NEW w \in Windows, ttl'[l][w] # Forever
             PROVE  ttl'[l][w] >= w + Window + Slack
  BY DEF LongLived
<1>a. TypeOK /\ ClientKnown /\ ReadBefore /\ LongLived
  BY DEF LInv
<1>1. CASE \E r \in Requests : Expire(r)
  <2>1. PICK r \in Requests : Expire(r)
    BY <1>1
  <2>2. KeyOf(r) \in LimitKeys /\ WinOf(r) \in Windows /\ WinOf(r) \in Nat /\ read[r] >= WinOf(r)
    BY <1>a, <2>1, SlotFacts DEF Expire
  <2>3. CASE l = KeyOf(r) /\ w = WinOf(r) /\ counter[l][w] # 0
    <3>1. ttl'[l][w] = now + Window + Slack
      BY <1>a, <2>1, <2>3 DEF Expire, TypeOK
    <3>2. now \in Nat /\ read[r] \in Nat /\ read[r] <= now
      BY <1>a, LimiterAssumption DEF ReadBefore, TypeOK
    <3> QED
      BY <2>2, <2>3, <3>1, <3>2, LimiterAssumption
  <2>4. CASE ~(l = KeyOf(r) /\ w = WinOf(r) /\ counter[l][w] # 0)
    <3>1. ttl'[l][w] = ttl[l][w]
      BY <1>a, <2>1, <2>4 DEF Expire, TypeOK
    <3> QED
      BY <1>a, <3>1 DEF LongLived
  <2> QED
    BY <2>3, <2>4
<1>2. CASE Tick
  BY <1>a, <1>2 DEF Tick, LongLived
<1>3. CASE UNCHANGED ttl
  BY <1>a, <1>3 DEF LongLived
<1> QED
  BY <1>1, <1>2, <1>3 DEF Next, Step, vars, Incr, IncrReplyLost, IncrFails, ExpireFails,
                          AllowFailover, Begin, Crash

\* Only INCR and EXPIRE change what a request that counts has: its number never
\* changes again, nor do its client and its moment while it stays counted.
LEMMA CountedStep ==
    ASSUME LInv, [Next]_vars, NEW q \in Requests, q \in Counted', ~Incr(q)
    PROVE  /\ q \in Counted
           /\ count'[q] = count[q] /\ client'[q] = client[q] /\ read'[q] = read[q]
           /\ pc[q] = "admitted" \/ pc[q] = "rejected" => pc'[q] = pc[q]
<1> DEFINE Goal ==
      /\ q \in Counted
      /\ count'[q] = count[q] /\ client'[q] = client[q] /\ read'[q] = read[q]
      /\ pc[q] = "admitted" \/ pc[q] = "rejected" => pc'[q] = pc[q]
<1> USE DEF LInv, TypeOK, Counted
<1>1. ASSUME NEW r \in Requests, Incr(r) PROVE Goal
  BY <1>1 DEF Incr
<1>2. ASSUME NEW r \in Requests, IncrReplyLost(r) PROVE Goal
  BY <1>2 DEF IncrReplyLost
<1>3. ASSUME NEW r \in Requests, IncrFails(r) PROVE Goal
  BY <1>3 DEF IncrFails
<1>4. ASSUME NEW r \in Requests, Expire(r) PROVE Goal
  BY <1>4 DEF Expire, FirstVerdict
<1>5. ASSUME NEW r \in Requests, ExpireFails(r) PROVE Goal
  BY <1>5 DEF ExpireFails, FirstVerdict
<1>6. ASSUME NEW r \in Requests, AllowFailover(r) PROVE Goal
  BY <1>6 DEF AllowFailover
<1>7. ASSUME NEW r \in Requests, NEW c \in Clients, Begin(r, c) PROVE Goal
  BY <1>7 DEF Begin
<1>8. ASSUME NEW i \in Instances, Crash(i) PROVE Goal
  BY <1>8 DEF Crash
<1>9. CASE Tick
  BY <1>9 DEF Tick
<1>10. CASE UNCHANGED vars
  BY <1>10 DEF vars
<1> QED
  BY <1>1, <1>2, <1>3, <1>4, <1>5, <1>6, <1>7, <1>8, <1>9, <1>10 DEF Next, Step

\* A counter shrinks only when Redis drops it, and then its window is past use.
LEMMA CounterStep ==
    ASSUME LInv, [Next]_vars, NEW l \in LimitKeys, NEW w \in Windows
    PROVE  /\ counter'[l][w] >= counter[l][w] \/ PastUse(w)'
           /\ PastUse(w) => PastUse(w)'
<1>a. TypeOK /\ ClientKnown /\ LongLived
  BY DEF LInv
<1>b. w \in Nat /\ now \in Nat /\ now' \in Nat /\ counter[l][w] \in Nat
  BY <1>a, SlotFacts, NextTypeOK, LimiterAssumption DEF TypeOK
<1>1. CASE \E r \in Requests : Incr(r) \/ IncrReplyLost(r)
  <2>1. PICK r \in Requests : Incr(r) \/ IncrReplyLost(r)
    BY <1>1
  <2>2. counter'[l][w] = counter[l][w] \/ counter'[l][w] = counter[l][w] + 1
    <3>1. counter' = [counter EXCEPT ![KeyOf(r)][WinOf(r)] = counter[KeyOf(r)][WinOf(r)] + 1]
      BY <2>1 DEF Incr, IncrReplyLost
    <3>2. CASE l = KeyOf(r) /\ w = WinOf(r)
      BY <1>a, <3>1, <3>2 DEF TypeOK
    <3>3. CASE ~(l = KeyOf(r) /\ w = WinOf(r))
      BY <1>a, <3>1, <3>3 DEF TypeOK
    <3> QED
      BY <3>2, <3>3
  <2>3. now' = now
    BY <2>1 DEF Incr, IncrReplyLost
  <2> QED
    BY <1>b, <2>2, <2>3 DEF PastUse
<1>2. CASE Tick
  <2>1. now' = now + 1
    BY <1>2 DEF Tick
  <2>2. CASE Dropped(l, w, now + 1)
    <3>1. now + 1 >= w + Window + Slack
      <4>1. ttl[l][w] \in Int /\ now + 1 >= ttl[l][w] /\ ttl[l][w] >= w + Window + Slack
        BY <1>a, <2>2 DEF Dropped, LongLived, TypeOK
      <4> QED
        BY <1>b, <4>1, LimiterAssumption
    <3> QED
      BY <1>b, <2>1, <3>1, LimiterAssumption DEF PastUse
  <2>3. CASE ~Dropped(l, w, now + 1)
    <3>1. counter'[l][w] = counter[l][w]
      BY <1>2, <2>3 DEF Tick
    <3> QED
      BY <1>b, <2>1, <3>1, LimiterAssumption DEF PastUse
  <2> QED
    BY <2>2, <2>3
<1>3. CASE UNCHANGED <<counter, now>>
  BY <1>b, <1>3 DEF PastUse
<1> QED
  BY <1>1, <1>2, <1>3 DEF Next, Step, vars, IncrFails, Expire, ExpireFails, AllowFailover,
                          Begin, Crash

\* The number of a request is the counter's, and nobody else's unless the request is
\* late: every number given before is at most what the counter was.
LEMMA IncrStep ==
    ASSUME LInv, NEW r \in Requests, Incr(r)
    PROVE  /\ r \in Counted'
           /\ count'[r] = counter[KeyOf(r)][WinOf(r)] + 1
           /\ counter'[KeyOf(r)][WinOf(r)] = count'[r]
           /\ count'[r] \in Nat /\ count'[r] >= 1
           /\ pc'[r] = "admitted" => count'[r] <= LimitOf(client[r])
           /\ client' = client /\ read' = read
           /\ PastUse(WinOf(r)) \/ \A q \in Counted :
                 KeyOf(q) = KeyOf(r) /\ WinOf(q) = WinOf(r) => count[q] < count'[r]
<1>a. TypeOK /\ ClientKnown /\ ReadBefore /\ Covered
  BY DEF LInv
<1>1. /\ pc[r] = "incr"
      /\ client[r] \in Clients /\ KeyOf(r) \in LimitKeys
      /\ WinOf(r) \in Windows /\ WinOf(r) \in Nat
      /\ read[r] \in Nat /\ read[r] < WinOf(r) + Window
  BY <1>a, SlotFacts DEF Incr, ClientKnown
<1> DEFINE n == counter[KeyOf(r)][WinOf(r)] + 1
<1>2. n \in Nat /\ n >= 1 /\ counter[KeyOf(r)][WinOf(r)] \in Nat
  BY <1>a, <1>1 DEF TypeOK
<1>3. LimitOf(client[r]) \in Nat \ {0}
  BY <1>1, LimitFacts
<1>5. /\ count' = [count EXCEPT ![r] = n] /\ client' = client /\ read' = read
      /\ counter' = [counter EXCEPT ![KeyOf(r)][WinOf(r)] = n]
      /\ pc' = [pc EXCEPT ![r] = IF n = 1 THEN "expire"
                                 ELSE IF Over(r, n) THEN "rejected" ELSE "admitted"]
  BY DEF Incr
<1>6. count'[r] = n /\ counter'[KeyOf(r)][WinOf(r)] = n
  BY <1>a, <1>1, <1>5 DEF TypeOK
<1>7. r \in Counted' /\ (pc'[r] = "admitted" => n <= LimitOf(client[r]))
  BY <1>a, <1>2, <1>3, <1>5 DEF TypeOK, Counted, Over
<1>8. ASSUME NEW q \in Counted, KeyOf(q) = KeyOf(r), WinOf(q) = WinOf(r), ~PastUse(WinOf(r))
      PROVE  count[q] < n
  <2>1. count[q] <= counter[KeyOf(r)][WinOf(r)] /\ count[q] \in Nat
    BY <1>a, <1>8 DEF Covered, TypeOK, Counted
  <2> QED
    BY <1>2, <2>1
<1> HIDE DEF n
<1> QED
  BY <1>2, <1>5, <1>6, <1>7, <1>8 DEF n

LEMMA NextCovered == LInv /\ [Next]_vars => Covered'
<1> SUFFICES ASSUME LInv, [Next]_vars, NEW q \in Requests, q \in Counted'
             PROVE  count'[q] <= counter'[KeyOf(q)'][WinOf(q)'] \/ PastUse(WinOf(q))'
  BY DEF Covered, Counted
<1>a. TypeOK /\ ClientKnown /\ Covered /\ TypeOK'
  BY NextTypeOK DEF LInv
<1>1. CASE Incr(q)
  <2>1. KeyOf(q)' = KeyOf(q) /\ WinOf(q)' = WinOf(q)
    BY <1>1, IncrStep DEF KeyOf, WinOf
  <2> QED
    BY <1>1, <2>1, IncrStep
<1>2. CASE ~Incr(q)
  <2>1. q \in Counted /\ count'[q] = count[q] /\ client'[q] = client[q] /\ read'[q] = read[q]
    BY <1>2, CountedStep
  <2>2. KeyOf(q)' = KeyOf(q) /\ WinOf(q)' = WinOf(q)
    BY <2>1 DEF KeyOf, WinOf
  <2>3. KeyOf(q) \in LimitKeys /\ WinOf(q) \in Windows
    BY <1>a, <2>1, SlotFacts DEF Counted
  <2>l. PICK l \in LimitKeys, w \in Windows : l = KeyOf(q) /\ w = WinOf(q)
    BY <2>3
  <2>4. /\ counter'[l][w] >= counter[l][w] \/ PastUse(w)'
        /\ PastUse(w) => PastUse(w)'
    BY CounterStep
  <2>5. count[q] <= counter[l][w] \/ PastUse(w)
    BY <1>a, <2>1, <2>l DEF Covered
  <2>6. counter[l][w] \in Nat /\ counter'[l][w] \in Nat /\ count[q] \in Nat
    BY <1>a, <2>3 DEF TypeOK
  <2>7. PastUse(w)' => PastUse(WinOf(q))'
    BY <2>2, <2>l DEF PastUse
  <2>8. count'[q] = count[q] /\ counter'[KeyOf(q)'][WinOf(q)'] = counter'[l][w]
    BY <2>1, <2>2, <2>l
  <2> QED
    BY <2>4, <2>5, <2>6, <2>7, <2>8
<1> QED
  BY <1>1, <1>2

\* The requests that come late are remembered when they come.
Recorded == late' = late \cup {r \in Requests : Incr(r) /\ PastUse(WinOf(r))}

LEMMA NextDistinct == LInv /\ Distinct /\ [Next]_vars /\ Recorded => Distinct'
<1> SUFFICES ASSUME LInv, Distinct, [Next]_vars, Recorded,
                    NEW r \in Requests, NEW q \in Requests, r # q,
                    r \in Counted', q \in Counted', r \notin late', q \notin late',
                    KeyOf(r)' = KeyOf(q)', WinOf(r)' = WinOf(q)'
             PROVE  count'[r] # count'[q]
  BY DEF Distinct, Counted
<1>a. TypeOK /\ r \notin late /\ q \notin late
  BY DEF LInv, Recorded
<1>b. ASSUME NEW x \in Requests, NEW y \in Requests, x # y, Incr(x), y \in Counted',
             x \notin late', KeyOf(x)' = KeyOf(y)', WinOf(x)' = WinOf(y)'
      PROVE  count'[x] # count'[y]
  <2>1. ~Incr(y)
    BY <1>a, <1>b DEF Incr, TypeOK
  <2>2. y \in Counted /\ count'[y] = count[y] /\ client'[y] = client[y] /\ read'[y] = read[y]
    BY <1>b, <2>1, CountedStep
  <2>3. KeyOf(x) = KeyOf(y) /\ WinOf(x) = WinOf(y)
    BY <1>b, <2>2, IncrStep DEF KeyOf, WinOf
  <2>4. ~PastUse(WinOf(x))
    BY <1>b DEF Recorded
  <2>5. count[y] < count'[x] /\ count'[x] \in Nat /\ count[y] \in Nat
    BY <1>a, <1>b, <2>2, <2>3, <2>4, IncrStep DEF TypeOK
  <2> QED
    BY <2>2, <2>5
<1>1. CASE Incr(r)
  BY <1>b, <1>1
<1>2. CASE Incr(q)
  BY <1>b, <1>2
<1>3. CASE ~Incr(r) /\ ~Incr(q)
  <2>1. /\ r \in Counted /\ count'[r] = count[r] /\ client'[r] = client[r] /\ read'[r] = read[r]
        /\ q \in Counted /\ count'[q] = count[q] /\ client'[q] = client[q] /\ read'[q] = read[q]
    BY <1>3, CountedStep
  <2>2. KeyOf(r) = KeyOf(q) /\ WinOf(r) = WinOf(q)
    BY <2>1 DEF KeyOf, WinOf
  <2> QED
    BY <1>a, <2>1, <2>2 DEF Distinct
<1> QED
  BY <1>1, <1>2, <1>3

LEMMA NextRanked == LInv /\ [Next]_vars => Ranked'
<1> SUFFICES ASSUME LInv, [Next]_vars, NEW q \in Requests, q \in Counted'
             PROVE  /\ count'[q] >= 1
                    /\ pc'[q] = "admitted" => count'[q] <= LimitOf(client'[q])
  BY DEF Ranked, Counted
<1>a. TypeOK /\ Ranked
  BY DEF LInv
<1>1. CASE Incr(q)
  BY <1>1, IncrStep
<1>2. CASE ~Incr(q)
  <2>1. q \in Counted /\ count'[q] = count[q] /\ client'[q] = client[q]
    BY <1>2, CountedStep
  <2>2. CASE pc'[q] = pc[q]
    BY <1>a, <2>1, <2>2 DEF Ranked
  <2>3. CASE pc'[q] # pc[q]
    <3>1. pc[q] = "expire"
      BY <1>2, <2>1, <2>3, CountedStep DEF Counted
    <3>2. \/ \E i \in Instances : Crash(i)
          \/ Expire(q) \/ ExpireFails(q)
      <4>1. ASSUME NEW r \in Requests, Incr(r) \/ IncrReplyLost(r) \/ IncrFails(r)
            PROVE  FALSE
        BY <1>a, <2>3, <3>1, <4>1 DEF TypeOK, Incr, IncrReplyLost, IncrFails
      <4>2. ASSUME NEW r \in Requests, AllowFailover(r)
            PROVE  FALSE
        BY <1>a, <2>3, <3>1, <4>2 DEF TypeOK, AllowFailover
      <4>3. ASSUME NEW r \in Requests, NEW c \in Clients, Begin(r, c)
            PROVE  FALSE
        BY <1>a, <2>3, <3>1, <4>3 DEF TypeOK, Begin
      <4>4. ASSUME NEW r \in Requests, Expire(r) \/ ExpireFails(r)
            PROVE  r = q
        BY <1>a, <2>3, <4>4 DEF TypeOK, Expire, ExpireFails, FirstVerdict
      <4>5. ~Tick /\ ~UNCHANGED vars
        BY <2>3 DEF Tick, vars
      <4> QED
        BY <4>1, <4>2, <4>3, <4>4, <4>5 DEF Next, Step
    <3>3. pc'[q] = "admitted" => ~Over(q, count[q])
      BY <1>a, <3>1, <3>2 DEF Expire, ExpireFails, FirstVerdict, Crash, TypeOK
    <3>4. client[q] \in Clients /\ count[q] \in Nat
      BY <1>a, <2>1, <3>1 DEF LInv, ClientKnown, TypeOK
    <3>5. LimitOf(client[q]) \in Nat
      BY <3>4, LimitFacts
    <3> QED
      BY <1>a, <2>1, <3>3, <3>4, <3>5 DEF Ranked, Over
  <2> QED
    BY <2>2, <2>3
<1> QED
  BY <1>1, <1>2

----------------------------------------------------------------------------
\* The inductive invariant.
THEOREM Invariance == Spec => []LInv
<1>1. LInv /\ [Next]_vars => LInv'
  BY NextTypeOK, NextClientKnown, NextReadBefore, NextLongLived, NextCovered, NextRanked
     DEF LInv
<1> QED
  BY InitLInv, <1>1, PTL DEF Spec

\* Type correctness of the limiter's state.
THEOREM TypeCorrect == Spec => []TypeOK
<1>1. LInv => TypeOK
  BY DEF LInv
<1> QED
  BY <1>1, Invariance, PTL

\* The numbers that requests in time get stay different.
LEMMA HistorySteps == HSpec => [](LInv /\ Distinct)
<1>1. HInit => LInv /\ Distinct
  <2> SUFFICES ASSUME HInit
               PROVE  LInv /\ Distinct
    OBVIOUS
  <2>1. Counted = {}
    BY DEF HInit, Init, Counted
  <2> QED
    BY <2>1, InitLInv DEF HInit, Distinct
<1>2. LInv /\ Distinct /\ [HNext]_historyVars => LInv' /\ Distinct'
  <2> SUFFICES ASSUME LInv, Distinct, [HNext]_historyVars
               PROVE  LInv' /\ Distinct'
    OBVIOUS
  <2>1. [Next]_vars
    BY DEF HNext, historyVars
  <2>2. LInv'
    BY <2>1, NextTypeOK, NextClientKnown, NextReadBefore, NextLongLived, NextCovered, NextRanked
       DEF LInv
  <2>3. CASE HNext
    <3>1. Recorded
      BY <2>3, Zenon DEF HNext, Recorded
    <3> QED
      BY <2>1, <2>2, <3>1, NextDistinct
  <2>4. CASE UNCHANGED historyVars
    <3>1. UNCHANGED <<vars, late>>
      BY <2>4 DEF historyVars
    <3>2. UNCHANGED <<pc, client, read, count, late>>
      BY <3>1 DEF vars
    <3>3. UNCHANGED Counted /\ \A r \in Requests : UNCHANGED <<KeyOf(r), WinOf(r)>>
      BY <3>2 DEF Counted, KeyOf, WinOf
    <3> QED
      BY <2>2, <3>2, <3>3 DEF Distinct, Counted
  <2> QED
    BY <2>3, <2>4
<1> QED
  BY <1>1, <1>2, PTL DEF HSpec

\* Of the requests that do not come to Redis after the extra second of their counter's
\* lifetime, processes that share a Redis admit at most a caller's limit in one window,
\* however many others come later: the numbers of the admitted are different and lie
\* between 1 and the limit.
THEOREM LimitHolds == HSpec => []WithinLimit
<1>1. ASSUME LInv, Distinct, NEW c \in Clients, NEW w \in Windows
      PROVE  Cardinality(Admitted(LimitKey(c), w) \ late) <= LimitOf(c)
  <2> DEFINE S == Admitted(LimitKey(c), w) \ late
             T == 1..LimitOf(c)
             f == [r \in S |-> count[r]]
  <2>1. LimitOf(c) \in Nat \ {0}
    BY LimitFacts
  <2>2. ASSUME NEW r \in S
        PROVE  count[r] \in T
    <3>1. r \in Counted /\ pc[r] = "admitted" /\ LimitKey(client[r]) = LimitKey(c)
      BY DEF Admitted, Counted, KeyOf
    <3>2. client[r] \in Clients /\ count[r] \in Nat
      BY <1>1, <3>1 DEF LInv, ClientKnown, TypeOK, Counted
    <3>3. count[r] >= 1 /\ count[r] <= LimitOf(client[r])
      BY <1>1, <3>1 DEF LInv, Ranked
    <3>4. LimitOf(client[r]) = LimitOf(c)
      BY <3>1, <3>2, LimitFacts
    <3> QED
      BY <2>1, <3>2, <3>3, <3>4
  <2>3. ASSUME NEW r \in S, NEW q \in S, r # q
        PROVE  count[r] # count[q]
    BY <1>1, <2>3 DEF Admitted, Counted, Distinct
  <2>4. f \in Injection(S, T)
    BY <2>2, <2>3 DEF Injection, IsInjective
  <2>5. IsFiniteSet(T) /\ Cardinality(T) = LimitOf(c)
    BY <2>1, FS_Interval
  <2> QED
    BY <2>4, <2>5, FS_Injection
<1>2. LInv /\ Distinct => WithinLimit
  BY <1>1 DEF WithinLimit
<1> QED
  BY <1>2, HistorySteps, PTL

----------------------------------------------------------------------------
(* The in-memory fallback. *)

\* The requests of an address that a process let through without Redis; and those
\* of them that the present entry counts.
Degraded(i, a) ==
    {r \in Requests : pc[r] = "admitted_degraded" /\ Host[r] = i /\ IP[client[r]] = a}
Recent(i, a) == {r \in Degraded(i, a) : read[r] >= failover[i][a].resetAt - Window}

\* Who was let through was so before the entry's time is over; a later entry begins
\* after that, and its count is never below the number that it let through.
EntryCounts(i, a) ==
    /\ \A r \in Degraded(i, a) :
          failover[i][a] # NoEntry /\ read[r] <= failover[i][a].resetAt
    /\ IsFiniteSet(Recent(i, a))
    /\ Cardinality(Recent(i, a)) <= failover[i][a].count
    /\ Cardinality(Recent(i, a)) <= FailoverRPS

FInv == \A i \in up, a \in Addresses : EntryCounts(i, a)

\* Nothing that EntryCounts speaks of is changed.
LEMMA SameEntry ==
    ASSUME NEW i, NEW a, EntryCounts(i, a),
           failover'[i][a] = failover[i][a],
           \A r \in Requests :
              Host[r] = i =>
                  \/ pc'[r] = pc[r] /\ client'[r] = client[r] /\ read'[r] = read[r]
                  \/ pc[r] # "admitted_degraded" /\ pc'[r] # "admitted_degraded"
                  \/ IP[client[r]] # a /\ IP[client'[r]] # a
    PROVE  EntryCounts(i, a)'
<1>1. Degraded(i, a)' = Degraded(i, a)
  BY DEF Degraded
<1>2. \A r \in Degraded(i, a) : read'[r] = read[r]
  BY DEF Degraded
<1>3. Recent(i, a)' = Recent(i, a)
  BY <1>1, <1>2 DEF Recent
<1> QED
  BY <1>1, <1>2, <1>3 DEF EntryCounts

\* allowFailover, seen from the entry that it works on.
LEMMA FailoverStep ==
    ASSUME LInv, FInv, NEW r \in Requests, AllowFailover(r),
           NEW i \in up, NEW a \in Addresses, Host[r] = i, IP[client[r]] = a
    PROVE  EntryCounts(i, a)'
<1> DEFINE e == failover[i][a]
<1>1. /\ pc[r] = "failover" /\ client[r] \in Clients
      /\ i \in Instances /\ a \in Addresses
      /\ now \in Nat
      /\ e.count \in Nat /\ e.resetAt \in Int
      /\ Window \in Nat \ {0} /\ FailoverRPS \in Nat \ {0}
  <2>1. pc[r] = "failover"
    BY DEF AllowFailover
  <2>2. client[r] \in Clients /\ i \in Instances /\ a \in Addresses
    BY <2>1, LimiterAssumption DEF LInv, ClientKnown, Addresses
  <2>3. e \in [count : Nat, resetAt : Int]
    BY <2>2 DEF LInv, TypeOK
  <2>4. now \in Nat
    BY LimiterAssumption DEF LInv, TypeOK
  <2> QED
    BY <2>1, <2>2, <2>3, <2>4, LimiterAssumption
<1>2. EntryCounts(i, a)
  BY <1>1 DEF FInv
<1>3. \A q \in Requests : read[q] \in Nat
  BY LimiterAssumption DEF LInv, TypeOK
<1>4. client' = client /\ read' = [read EXCEPT ![r] = now] /\ read'[r] = now
  BY DEF AllowFailover, LInv, TypeOK
<1>5. \A q \in Requests \ {r} : pc'[q] = pc[q] /\ read'[q] = read[q]
  BY DEF AllowFailover, LInv, TypeOK
<1>6. r \notin Degraded(i, a) /\ r \notin Recent(i, a)
  BY <1>1 DEF Degraded, Recent
<1>7. Degraded(i, a) \subseteq Degraded(i, a)' /\ Degraded(i, a)' \subseteq Degraded(i, a) \cup {r}
  BY <1>1, <1>4, <1>5 DEF Degraded
<1>8. pc'[r] = "admitted_degraded" => r \in Degraded(i, a)'
  BY <1>4 DEF Degraded
<1>9. CASE e = NoEntry \/ now > e.resetAt
  <2>1. /\ failover'[i][a] = [count |-> 1, resetAt |-> now + Window]
        /\ pc'[r] = "admitted_degraded"
    BY <1>1, <1>9 DEF AllowFailover, LInv, TypeOK
  <2>2. failover'[i][a].count = 1 /\ failover'[i][a].resetAt = now + Window
    BY <2>1
  <2>3. \A q \in Degraded(i, a) : q \in Requests /\ q # r /\ read[q] < now
    BY <1>1, <1>2, <1>3, <1>6, <1>9 DEF EntryCounts, Degraded
  <2>4. \A q \in Degraded(i, a) : read'[q] < now
    BY <1>5, <2>3
  <2>5. now >= (now + Window) - Window
    BY <1>1
  <2>6. \A q \in Degraded(i, a) : ~(read'[q] >= (now + Window) - Window)
    BY <1>1, <1>3, <1>5, <2>3
  <2>7. Recent(i, a)' = {r}
    BY <1>4, <1>7, <1>8, <2>1, <2>2, <2>5, <2>6 DEF Recent
  <2>8. IsFiniteSet({r}) /\ Cardinality({r}) = 1
    BY FS_Singleton
  <2>9. failover'[i][a] # NoEntry
    BY <2>2 DEF NoEntry
  <2>10. \A q \in Degraded(i, a)' : read'[q] <= now + Window
    BY <1>1, <1>3, <1>4, <1>5, <1>7, <2>3
  <2> QED
    BY <1>1, <2>2, <2>7, <2>8, <2>9, <2>10 DEF EntryCounts
<1>10. CASE ~(e = NoEntry \/ now > e.resetAt)
  <2>1. /\ failover'[i][a] = [e EXCEPT !.count = @ + 1]
        /\ pc'[r] = IF e.count + 1 <= FailoverRPS THEN "admitted_degraded"
                    ELSE "rejected_degraded"
    BY <1>1, <1>10 DEF AllowFailover, LInv, TypeOK
  <2>2. e \in [count : Nat, resetAt : Int]
    BY <1>1 DEF LInv, TypeOK
  <2>3. failover'[i][a].count = e.count + 1 /\ failover'[i][a].resetAt = e.resetAt
    BY <2>1, <2>2
  <2>4. failover'[i][a] # NoEntry
    BY <1>1, <2>3 DEF NoEntry
  <2>5. now <= e.resetAt
    BY <1>1, <1>10
  <2>6. \A q \in Degraded(i, a)' : read'[q] <= e.resetAt
    BY <1>2, <1>4, <1>5, <1>7, <2>5 DEF EntryCounts, Degraded
  <2>7. IsFiniteSet(Recent(i, a)) /\ Cardinality(Recent(i, a)) \in Nat
    BY <1>2, FS_CardinalityType DEF EntryCounts
  <2>8. Cardinality(Recent(i, a)) <= e.count /\ Cardinality(Recent(i, a)) <= FailoverRPS
    BY <1>2 DEF EntryCounts
  <2>9. \A q \in Degraded(i, a) : q # r /\ q \in Requests /\ read'[q] = read[q]
    BY <1>5, <1>6 DEF Degraded
  <2>10. CASE pc'[r] = "admitted_degraded"
    <3>1. e.count + 1 <= FailoverRPS
      BY <2>1, <2>10
    <3>2. Recent(i, a)' = Recent(i, a) \/ Recent(i, a)' = Recent(i, a) \cup {r}
      BY <1>7, <2>3, <2>9 DEF Recent
    <3>3. /\ IsFiniteSet(Recent(i, a) \cup {r})
          /\ Cardinality(Recent(i, a) \cup {r}) = Cardinality(Recent(i, a)) + 1
      BY <1>6, <2>7, FS_AddElement
    <3>4. /\ IsFiniteSet(Recent(i, a)')
          /\ Cardinality(Recent(i, a)') \in Nat
          /\ Cardinality(Recent(i, a)') <= Cardinality(Recent(i, a)) + 1
      <4>1. \A n \in Nat : n + 1 \in Nat /\ n <= n + 1 /\ n + 1 <= n + 1
        OBVIOUS
      <4>2. CASE Recent(i, a)' = Recent(i, a)
        BY <2>7, <4>1, <4>2, Zenon
      <4>3. CASE Recent(i, a)' = Recent(i, a) \cup {r}
        BY <2>7, <3>3, <4>1, <4>3, Zenon
      <4> QED
        BY <3>2, <4>2, <4>3
    <3> QED
      BY <1>1, <2>3, <2>4, <2>6, <2>7, <2>8, <3>1, <3>4 DEF EntryCounts
  <2>11. CASE pc'[r] # "admitted_degraded"
    <3>1. Degraded(i, a)' = Degraded(i, a)
      BY <1>7, <2>11 DEF Degraded
    <3>2. Recent(i, a)' = Recent(i, a)
      BY <2>3, <2>9, <3>1 DEF Recent
    <3> QED
      BY <1>1, <2>3, <2>4, <2>6, <2>7, <2>8, <3>2 DEF EntryCounts
  <2> QED
    BY <2>10, <2>11
<1> QED
  BY <1>9, <1>10

\* Every step keeps what is said of the entries.
LEMMA NextFInv == LInv /\ FInv /\ [Next]_vars => FInv'
<1> SUFFICES ASSUME LInv, FInv, [Next]_vars, NEW i \in up', NEW a \in Addresses
             PROVE  EntryCounts(i, a)'
  BY DEF FInv
<1>1. i \in up
  BY DEF Next, Step, vars, Incr, IncrReplyLost, IncrFails, Expire, ExpireFails,
         AllowFailover, Begin, Crash, Tick
<1>2. EntryCounts(i, a)
  BY <1>1 DEF FInv
<1>3. ASSUME NEW r \in Requests, AllowFailover(r) PROVE EntryCounts(i, a)'
  <2>1. CASE Host[r] = i /\ IP[client[r]] = a
    BY <1>1, <1>3, <2>1, FailoverStep
  <2>2. CASE ~(Host[r] = i /\ IP[client[r]] = a)
    <3>1. failover'[i][a] = failover[i][a]
      BY <1>3, <2>2 DEF AllowFailover, LInv, TypeOK
    <3>2. \A q \in Requests \ {r} : /\ pc'[q] = pc[q] /\ client'[q] = client[q]
                                    /\ read'[q] = read[q]
      BY <1>3 DEF AllowFailover, LInv, TypeOK
    <3>3. pc[r] = "failover" /\ client'[r] = client[r]
      BY <1>3 DEF AllowFailover
    <3> QED
      BY <1>2, <2>2, <3>1, <3>2, <3>3, SameEntry
  <2> QED
    BY <2>1, <2>2
<1>4. ASSUME NEW r \in Requests,
             \/ \E c \in Clients : Begin(r, c)
             \/ Incr(r) \/ IncrReplyLost(r) \/ IncrFails(r) \/ Expire(r) \/ ExpireFails(r)
      PROVE  EntryCounts(i, a)'
  <2>1. failover' = failover
    BY <1>4 DEF Begin, Incr, IncrReplyLost, IncrFails, Expire, ExpireFails
  <2>2. \A q \in Requests \ {r} : /\ pc'[q] = pc[q] /\ client'[q] = client[q]
                                  /\ read'[q] = read[q]
    BY <1>4 DEF Begin, Incr, IncrReplyLost, IncrFails, Expire, ExpireFails, FirstVerdict,
                LInv, TypeOK
  <2>3. pc[r] # "admitted_degraded" /\ pc'[r] # "admitted_degraded"
    BY <1>4 DEF Begin, Incr, IncrReplyLost, IncrFails, Expire, ExpireFails, FirstVerdict,
                LInv, TypeOK
  <2> QED
    BY <1>2, <2>1, <2>2, <2>3, SameEntry
<1>5. ASSUME NEW j \in Instances, Crash(j) PROVE EntryCounts(i, a)'
  <2>1. i # j /\ failover'[i][a] = failover[i][a]
    BY <1>5 DEF Crash, LInv, TypeOK
  <2>2. \A q \in Requests : Host[q] = i => /\ pc'[q] = pc[q] /\ client'[q] = client[q]
                                           /\ read'[q] = read[q]
    BY <1>5, <2>1 DEF Crash
  <2> QED
    BY <1>2, <2>1, <2>2, SameEntry
<1>6. CASE Tick
  BY <1>2, <1>6, SameEntry DEF Tick
<1>7. CASE UNCHANGED vars
  BY <1>2, <1>7, SameEntry DEF vars
<1> QED
  BY <1>3, <1>4, <1>5, <1>6, <1>7 DEF Next, Step

\* During an outage of Redis a process lets an address have at most FailoverRPS
\* while one entry lives: an entry counts whom it lets through, and the next one
\* begins when nobody that the last let through is left in its window.
THEOREM FailoverHolds == Spec => []FailoverBounded
<1>1. Init => FInv
  <2> SUFFICES ASSUME Init, NEW i \in up, NEW a \in Addresses PROVE EntryCounts(i, a)
    BY DEF FInv
  <2>1. Degraded(i, a) = {} /\ Recent(i, a) = {}
    BY DEF Init, Degraded, Recent
  <2>2. failover[i][a].count = 0
    BY DEF Init, NoEntry
  <2> QED
    BY <2>1, <2>2, FS_EmptySet, LimiterAssumption DEF EntryCounts
<1>2. Spec => []FInv
  BY <1>1, NextFInv, Invariance, PTL DEF Spec
<1>3. FInv => FailoverBounded
  <2> SUFFICES ASSUME FInv, NEW i \in up, NEW a \in Addresses
               PROVE  Cardinality({r \in Requests :
                                     /\ pc[r] = "admitted_degraded"
                                     /\ Host[r] = i
                                     /\ IP[client[r]] = a
                                     /\ read[r] >= failover[i][a].resetAt - Window})
                        <= FailoverRPS
    BY DEF FailoverBounded
  <2>1. Recent(i, a) = {r \in Requests : /\ pc[r] = "admitted_degraded"
                                         /\ Host[r] = i
                                         /\ IP[client[r]] = a
                                         /\ read[r] >= failover[i][a].resetAt - Window}
    BY DEF Recent, Degraded
  <2> QED
    BY <2>1 DEF FInv, EntryCounts
<1> QED
  BY <1>2, <1>3, PTL

----------------------------------------------------------------------------
(* As long as nothing fails. *)

\* The requests that Redis has counted in one window with one counter.
CountedIn(l, w) == {r \in Counted : KeyOf(r) = l /\ WinOf(r) = w}

\* Only finitely many requests have been counted; those of one counter have the
\* numbers from one on, without a gap, up to the counter; who is turned away has a
\* number over the limit.
NoGaps ==
    /\ IsFiniteSet(Counted)
    /\ \A l \in LimitKeys, w \in Windows : \A n \in 1..counter[l][w] :
          \E q \in CountedIn(l, w) : count[q] = n
    /\ \A r \in Counted : \A n \in 1..count[r] :
          \E q \in CountedIn(KeyOf(r), WinOf(r)) : count[q] = n
    /\ \A r \in Counted : pc[r] = "rejected" => Over(r, count[r])

HInv == ~faulted => NoGaps /\ CountersExpire

\* Whoever has been counted keeps number and place as long as nothing fails.
LEMMA StayCounted ==
    ASSUME LInv, [Next]_vars, ~Fault, NEW q \in Counted
    PROVE  /\ q \in Counted' /\ count'[q] = count[q]
           /\ KeyOf(q)' = KeyOf(q) /\ WinOf(q)' = WinOf(q)
<1> DEFINE Goal == q \in Counted' /\ count'[q] = count[q]
                   /\ client'[q] = client[q] /\ read'[q] = read[q]
<1>a. TypeOK
  BY DEF LInv
<1>b. q \in Requests /\ pc[q] \in {"expire", "admitted", "rejected"}
  BY DEF Counted
<1>c. ASSUME pc'[q] \in {"expire", "admitted", "rejected"},
             count'[q] = count[q], client'[q] = client[q], read'[q] = read[q]
      PROVE  Goal
  BY <1>b, <1>c DEF Counted
<1>1. ASSUME NEW r \in Requests, Incr(r) PROVE Goal
  <2>1. q # r
    BY <1>b, <1>1 DEF Incr
  <2>2. pc'[q] = pc[q] /\ count'[q] = count[q] /\ client'[q] = client[q] /\ read'[q] = read[q]
    BY <1>a, <1>b, <1>1, <2>1 DEF Incr, TypeOK
  <2>3. QED
    BY <1>b, <1>c, <2>2
<1>2. ASSUME NEW r \in Requests, Expire(r) PROVE Goal
  <2>1. pc'[q] = pc[q] \/ pc'[q] \in {"rejected", "admitted"}
    BY <1>a, <1>b, <1>2 DEF Expire, FirstVerdict, TypeOK
  <2>2. count'[q] = count[q] /\ client'[q] = client[q] /\ read'[q] = read[q]
    BY <1>2 DEF Expire
  <2>3. QED
    BY <1>b, <1>c, <2>1, <2>2
<1>3. ASSUME NEW r \in Requests, AllowFailover(r) PROVE Goal
  <2>1. q # r
    BY <1>b, <1>3 DEF AllowFailover
  <2>2. pc'[q] = pc[q] /\ count'[q] = count[q] /\ client'[q] = client[q] /\ read'[q] = read[q]
    BY <1>a, <1>b, <1>3, <2>1 DEF AllowFailover, TypeOK
  <2>3. QED
    BY <1>b, <1>c, <2>2
<1>4. ASSUME NEW r \in Requests, NEW c \in Clients, Begin(r, c) PROVE Goal
  BY <1>a, <1>4 DEF Begin, Counted, TypeOK
<1>5. ASSUME Tick PROVE Goal
  BY <1>5 DEF Tick, Counted
<1>6. ASSUME UNCHANGED vars PROVE Goal
  BY <1>6 DEF vars, Counted
<1>7. Goal
  BY <1>1, <1>2, <1>3, <1>4, <1>5, <1>6 DEF Next, Step, Fault
<1> QED
  BY <1>7 DEF KeyOf, WinOf

\* A step counts one more request at most.
LEMMA CountedFinite ==
    ASSUME LInv, [Next]_vars, IsFiniteSet(Counted)
    PROVE  IsFiniteSet(Counted')
<1>a. TypeOK
  BY DEF LInv
<1>1. CASE \E r \in Requests : Incr(r)
  <2>1. PICK r \in Requests : Incr(r)
    BY <1>1
  <2>2. \A q \in Requests : Incr(q) => q = r
    BY <1>a, <2>1 DEF Incr, TypeOK
  <2>3. Counted' \subseteq Counted \cup {r}
    BY <2>2, CountedStep DEF Counted
  <2>4. IsFiniteSet(Counted \cup {r})
    BY FS_AddElement
  <2>5. QED
    BY <2>3, <2>4, FS_Subset
<1>2. CASE ~\E r \in Requests : Incr(r)
  <2>1. Counted' \subseteq Counted
    BY <1>2, CountedStep DEF Counted
  <2>2. QED
    BY <2>1, FS_Subset
<1>3. QED
  BY <1>1, <1>2

\* What INCR does to one counter: nothing, or the request's number.
LEMMA CounterFilled ==
    ASSUME LInv, [Next]_vars, ~Fault, NoGaps,
           NEW l \in LimitKeys, NEW w \in Windows, NEW n \in 1..counter'[l][w]
    PROVE  \E q \in CountedIn(l, w)' : count'[q] = n
<1>a. TypeOK /\ ClientKnown
  BY DEF LInv
<1>0. \A k \in 1..counter[l][w] : \E q \in CountedIn(l, w)' : count'[q] = k
  <2> TAKE k \in 1..counter[l][w]
  <2>1. PICK q \in CountedIn(l, w) : count[q] = k
    BY DEF NoGaps
  <2>2. q \in Counted /\ KeyOf(q) = l /\ WinOf(q) = w
    BY DEF CountedIn
  <2>3. q \in CountedIn(l, w)'
    BY <2>2, StayCounted DEF CountedIn
  <2>4. QED
    BY <2>1, <2>2, <2>3, StayCounted
<1>1. CASE counter'[l][w] = counter[l][w]
  BY <1>0, <1>1
<1>2. CASE counter'[l][w] # counter[l][w]
  <2>0. counter[l][w] \in Nat
    BY <1>a DEF TypeOK
  <2>1. CASE \E r \in Requests : Incr(r)
    <3>1. PICK r \in Requests : Incr(r)
      BY <2>1
    <3>2. KeyOf(r) \in LimitKeys /\ WinOf(r) \in Windows
      BY <1>a, <3>1, SlotFacts DEF Incr
    <3>3. counter' = [counter EXCEPT ![KeyOf(r)][WinOf(r)] = counter[KeyOf(r)][WinOf(r)] + 1]
      BY <3>1 DEF Incr
    <3>4. l = KeyOf(r) /\ w = WinOf(r)
      BY <1>a, <1>2, <3>2, <3>3 DEF TypeOK
    <3>5. r \in Counted' /\ count'[r] = counter[l][w] + 1 /\ counter'[l][w] = counter[l][w] + 1
      BY <3>1, <3>4, IncrStep
    <3>6. KeyOf(r)' = l /\ WinOf(r)' = w
      BY <3>1, <3>4, IncrStep DEF KeyOf, WinOf
    <3>7. r \in CountedIn(l, w)'
      BY <3>5, <3>6 DEF CountedIn
    <3>8. n \in 1..counter[l][w] \/ n = counter[l][w] + 1
      BY <2>0, <3>5
    <3>9. QED
      BY <1>0, <3>5, <3>7, <3>8
  <2>2. CASE Tick
    <3>1. counter'[l][w] = 0
      BY <1>2, <2>2 DEF Tick
    <3>2. QED
      BY <3>1
  <2>3. QED
    BY <1>2, <2>1, <2>2 DEF Next, Step, vars, Fault, Expire, AllowFailover, Begin
<1>3. QED
  BY <1>1, <1>2

LEMMA NextNoGaps == LInv /\ [Next]_vars /\ ~Fault /\ NoGaps => NoGaps'
<1> SUFFICES ASSUME LInv, [Next]_vars, ~Fault, NoGaps PROVE NoGaps'
  OBVIOUS
<1>a. TypeOK /\ ClientKnown /\ TypeOK'
  BY NextTypeOK DEF LInv
<1>1. IsFiniteSet(Counted)'
  BY CountedFinite DEF NoGaps
<1>2. \A l \in LimitKeys, w \in Windows : \A n \in 1..counter'[l][w] :
         \E q \in CountedIn(l, w)' : count'[q] = n
  BY CounterFilled
<1>3. ASSUME NEW r \in Requests, r \in Counted', NEW n \in 1..count'[r]
      PROVE  \E q \in CountedIn(KeyOf(r), WinOf(r))' : count'[q] = n
  <2>1. CASE Incr(r)
    <3>1. KeyOf(r) \in LimitKeys /\ WinOf(r) \in Windows
      BY <1>a, <2>1, SlotFacts DEF Incr
    <3>2. counter'[KeyOf(r)][WinOf(r)] = count'[r] /\ KeyOf(r)' = KeyOf(r) /\ WinOf(r)' = WinOf(r)
      BY <2>1, IncrStep DEF KeyOf, WinOf
    <3>3. PICK q \in CountedIn(KeyOf(r), WinOf(r))' : count'[q] = n
      <4>1. PICK l \in LimitKeys, w \in Windows : l = KeyOf(r) /\ w = WinOf(r)
        BY <3>1
      <4>2. n \in 1..counter'[l][w]
        BY <3>2, <4>1
      <4>3. PICK q \in CountedIn(l, w)' : count'[q] = n
        BY <1>2, <4>2
      <4>4. q \in Counted' /\ KeyOf(q)' = l /\ WinOf(q)' = w
        BY DEF CountedIn
      <4>5. q \in CountedIn(KeyOf(r), WinOf(r))'
        BY <3>2, <4>1, <4>4 DEF CountedIn
      <4>6. QED
        BY <4>3, <4>5
    <3>4. QED
      BY <3>3
  <2>2. CASE ~Incr(r)
    <3>1. r \in Counted /\ count'[r] = count[r]
      BY <1>3, <2>2, CountedStep
    <3>2. PICK q \in CountedIn(KeyOf(r), WinOf(r)) : count[q] = n
      BY <1>3, <3>1 DEF NoGaps
    <3>3. q \in Counted /\ KeyOf(q) = KeyOf(r) /\ WinOf(q) = WinOf(r)
      BY DEF CountedIn
    <3>4. /\ q \in Counted' /\ count'[q] = n
          /\ KeyOf(q)' = KeyOf(r)' /\ WinOf(q)' = WinOf(r)'
      BY <3>1, <3>2, <3>3, StayCounted
    <3>5. q \in CountedIn(KeyOf(r), WinOf(r))'
      BY <3>4 DEF CountedIn
    <3>6. QED
      BY <3>4, <3>5
  <2>3. QED
    BY <2>1, <2>2
<1>4. ASSUME NEW r \in Requests, r \in Counted', pc'[r] = "rejected"
      PROVE  Over(r, count[r])'
  <2>1. CASE Incr(r)
    BY <1>a, <1>4, <2>1 DEF Incr, Over, TypeOK
  <2>2. CASE ~Incr(r)
    <3>1. r \in Counted /\ count'[r] = count[r] /\ client'[r] = client[r]
      BY <1>4, <2>2, CountedStep
    <3>2. CASE pc[r] = "rejected"
      BY <3>1, <3>2 DEF NoGaps, Over
    <3>3. CASE pc[r] # "rejected"
      <4>1. pc[r] = "expire"
        BY <1>4, <2>2, <3>1, <3>3, CountedStep DEF Counted
      <4>2. Expire(r)
        <5>1. ASSUME NEW q \in Requests, Incr(q) PROVE FALSE
          BY <1>a, <1>4, <3>3, <4>1, <5>1 DEF Incr, TypeOK
        <5>2. ASSUME NEW q \in Requests, AllowFailover(q) PROVE FALSE
          BY <1>a, <1>4, <3>3, <4>1, <5>2 DEF AllowFailover, TypeOK
        <5>3. ASSUME NEW q \in Requests, NEW c \in Clients, Begin(q, c) PROVE FALSE
          BY <1>a, <1>4, <3>3, <4>1, <5>3 DEF Begin, TypeOK
        <5>4. ASSUME NEW q \in Requests, Expire(q) PROVE q = r
          BY <1>a, <1>4, <3>3, <5>4 DEF Expire, FirstVerdict, TypeOK
        <5>5. ~Tick /\ ~UNCHANGED vars
          BY <1>4, <3>3 DEF Tick, vars
        <5>6. QED
          BY <5>1, <5>2, <5>3, <5>4, <5>5 DEF Next, Step, Fault
      <4>3. Over(r, count[r])
        BY <1>a, <1>4, <4>2 DEF Expire, FirstVerdict, TypeOK
      <4>4. QED
        BY <3>1, <4>3 DEF Over
    <3>4. QED
      BY <3>2, <3>3
  <2>3. QED
    BY <2>1, <2>2
<1>5. Counted' = {r \in Requests : r \in Counted'}
  BY DEF Counted
<1>6. QED
  BY <1>1, <1>2, <1>3, <1>4, <1>5 DEF NoGaps

\* The request that makes a counter one is the one that gives it its lifetime.
LEMMA NextCountersExpire ==
    LInv /\ [Next]_vars /\ ~Fault /\ CountersExpire => CountersExpire'
<1> SUFFICES ASSUME LInv, [Next]_vars, ~Fault, CountersExpire,
                    NEW l \in LimitKeys, NEW w \in Windows,
                    counter'[l][w] > 0, ttl'[l][w] = Forever
             PROVE  \E r \in Requests : /\ pc'[r] = "expire"
                                        /\ KeyOf(r)' = l /\ WinOf(r)' = w
  BY DEF CountersExpire
<1>a. TypeOK /\ ClientKnown
  BY DEF LInv
<1>b. counter[l][w] \in Nat /\ ttl[l][w] \in Int /\ now \in Nat
  BY <1>a, LimiterAssumption DEF TypeOK
<1>c. ASSUME ttl[l][w] = Forever, counter[l][w] > 0,
             \A q \in Requests :
                pc[q] = "expire" /\ KeyOf(q) = l /\ WinOf(q) = w => pc'[q] = "expire"
      PROVE  \E r \in Requests : pc'[r] = "expire" /\ KeyOf(r)' = l /\ WinOf(r)' = w
  <2>1. PICK q \in Requests : pc[q] = "expire" /\ KeyOf(q) = l /\ WinOf(q) = w
    BY <1>c DEF CountersExpire
  <2>2. q \in Counted
    BY <2>1 DEF Counted
  <2>3. KeyOf(q)' = l /\ WinOf(q)' = w
    BY <2>1, <2>2, StayCounted
  <2>4. QED
    BY <1>c, <2>1, <2>3
<1>1. ASSUME NEW r \in Requests, Incr(r)
      PROVE  \E q \in Requests : pc'[q] = "expire" /\ KeyOf(q)' = l /\ WinOf(q)' = w
  <2>0. KeyOf(r) \in LimitKeys /\ WinOf(r) \in Windows /\ pc[r] = "incr" /\ ttl' = ttl
    BY <1>a, <1>1, SlotFacts DEF Incr
  <2>1. CASE counter[l][w] > 0
    <3>1. \A q \in Requests : pc[q] = "expire" => pc'[q] = "expire"
      BY <1>a, <1>1 DEF Incr, TypeOK
    <3>2. QED
      BY <1>c, <2>0, <2>1, <3>1
  <2>2. CASE counter[l][w] = 0
    <3>1. counter' = [counter EXCEPT ![KeyOf(r)][WinOf(r)] = counter[KeyOf(r)][WinOf(r)] + 1]
      BY <1>1 DEF Incr
    <3>2. l = KeyOf(r) /\ w = WinOf(r)
      BY <1>a, <2>0, <2>2, <3>1 DEF TypeOK
    <3>3. pc'[r] = "expire"
      BY <1>a, <1>1, <2>2, <3>2 DEF Incr, TypeOK
    <3>4. KeyOf(r)' = KeyOf(r) /\ WinOf(r)' = WinOf(r)
      BY <1>1, IncrStep DEF KeyOf, WinOf
    <3>5. QED
      BY <3>2, <3>3, <3>4
  <2>3. QED
    BY <1>b, <2>1, <2>2
<1>2. ASSUME NEW r \in Requests, Expire(r)
      PROVE  \E q \in Requests : pc'[q] = "expire" /\ KeyOf(q)' = l /\ WinOf(q)' = w
  <2>0. KeyOf(r) \in LimitKeys /\ WinOf(r) \in Windows /\ counter' = counter
    BY <1>a, <1>2, SlotFacts DEF Expire
  <2>1. CASE l = KeyOf(r) /\ w = WinOf(r)
    <3>1. ttl'[l][w] = now + Window + Slack
      BY <1>a, <1>2, <2>0, <2>1 DEF Expire, TypeOK
    <3>2. QED
      BY <1>b, <3>1, LimiterAssumption DEF Forever
  <2>2. CASE ~(l = KeyOf(r) /\ w = WinOf(r))
    <3>1. ttl'[l][w] = ttl[l][w]
      BY <1>a, <1>2, <2>2 DEF Expire, TypeOK
    <3>2. \A q \in Requests : q # r => pc'[q] = pc[q]
      BY <1>a, <1>2 DEF Expire, FirstVerdict, TypeOK
    <3>3. QED
      BY <1>c, <2>0, <2>2, <3>1, <3>2
  <2>3. QED
    BY <2>1, <2>2
<1>3. ASSUME NEW r \in Requests, AllowFailover(r)
      PROVE  \E q \in Requests : pc'[q] = "expire" /\ KeyOf(q)' = l /\ WinOf(q)' = w
  <2>1. counter' = counter /\ ttl' = ttl /\ \A q \in Requests : q # r => pc'[q] = pc[q]
    BY <1>a, <1>3 DEF AllowFailover, TypeOK
  <2>2. pc[r] = "failover"
    BY <1>3 DEF AllowFailover
  <2>3. QED
    BY <1>c, <2>1, <2>2
<1>4. ASSUME NEW r \in Requests, NEW c \in Clients, Begin(r, c)
      PROVE  \E q \in Requests : pc'[q] = "expire" /\ KeyOf(q)' = l /\ WinOf(q)' = w
  <2>1. /\ counter' = counter /\ ttl' = ttl /\ pc[r] = "new"
        /\ \A q \in Requests : q # r => pc'[q] = pc[q]
    BY <1>a, <1>4 DEF Begin, TypeOK
  <2>2. QED
    BY <1>c, <2>1
<1>5. CASE Tick
  <2>1. pc' = pc /\ counter'[l][w] = counter[l][w] /\ ttl'[l][w] = ttl[l][w]
    BY <1>5 DEF Tick
  <2>2. QED
    BY <1>c, <2>1
<1>6. CASE UNCHANGED vars
  <2>1. pc' = pc /\ counter' = counter /\ ttl' = ttl
    BY <1>6 DEF vars
  <2>2. QED
    BY <1>c, <2>1
<1>7. QED
  BY <1>1, <1>2, <1>3, <1>4, <1>5, <1>6 DEF Next, Step, Fault

\* The inductive invariant of the limiter with its history.
THEOREM HistoryInvariance == HSpec => [](LInv /\ HInv)
<1>1. HInit => LInv /\ HInv
  <2> SUFFICES ASSUME HInit PROVE LInv /\ HInv
    OBVIOUS
  <2>1. Init
    BY DEF HInit
  <2>2. Counted = {}
    BY <2>1 DEF Init, Counted
  <2>3. \A l \in LimitKeys, w \in Windows : counter[l][w] = 0
    BY <2>1 DEF Init
  <2>4. NoGaps
    BY <2>2, <2>3, FS_EmptySet DEF NoGaps
  <2>5. CountersExpire
    BY <2>3 DEF CountersExpire
  <2>6. QED
    BY <2>1, <2>4, <2>5, InitLInv DEF HInv
<1>2. LInv /\ HInv /\ [HNext]_historyVars => LInv' /\ HInv'
  <2> SUFFICES ASSUME LInv, HInv, [HNext]_historyVars PROVE LInv' /\ HInv'
    OBVIOUS
  <2>1. [Next]_vars
    BY DEF HNext, historyVars
  <2>2. LInv'
    BY <2>1, NextTypeOK, NextClientKnown, NextReadBefore, NextLongLived, NextCovered, NextRanked
       DEF LInv
  <2>3. CASE HNext
    <3>1. ~faulted' => ~faulted /\ ~Fault
      BY <2>3 DEF HNext
    <3>2. QED
      BY <2>1, <2>2, <3>1, NextNoGaps, NextCountersExpire DEF HInv
  <2>4. CASE UNCHANGED historyVars
    <3>1. ~faulted' => ~faulted
      BY <2>4 DEF historyVars
    <3>2. UNCHANGED vars
      BY <2>4 DEF historyVars
    <3>3. ~Fault \/ Fault
      OBVIOUS
    <3>4. NoGaps => NoGaps'
      BY <3>2 DEF vars, NoGaps, CountedIn, Counted, KeyOf, WinOf, Over
    <3>5. CountersExpire => CountersExpire'
      BY <3>2 DEF vars, CountersExpire, KeyOf, WinOf
    <3>6. QED
      BY <2>2, <3>1, <3>4, <3>5 DEF HInv
  <2>5. QED
    BY <2>3, <2>4
<1>3. QED
  BY <1>1, <1>2, PTL DEF HSpec

\* While Redis is reliable nobody is turned away before as many requests as its limit
\* have been counted in its window: they have the numbers from one to the limit.
THEOREM NobodyTurnedAwayEarly == HSpec => []NoUndueRejection
<1>1. ASSUME LInv, NoGaps, NEW r \in Requests, pc[r] = "rejected"
      PROVE  Cardinality({q \in Requests \ {r} :
                            /\ pc[q] \in {"expire", "admitted", "rejected"}
                            /\ KeyOf(q) = KeyOf(r) /\ WinOf(q) = WinOf(r)})
                >= LimitOf(client[r])
  <2> DEFINE S == {q \in Requests \ {r} :
                            /\ pc[q] \in {"expire", "admitted", "rejected"}
                            /\ KeyOf(q) = KeyOf(r) /\ WinOf(q) = WinOf(r)}
             L == LimitOf(client[r])
             T == 1..L
  <2>0. r \in Counted /\ client[r] \in Clients /\ L \in Nat
    BY <1>1, LimitFacts DEF Counted, LInv, ClientKnown
  <2>1. count[r] \in Nat /\ count[r] > L
    BY <1>1, <2>0 DEF NoGaps, Over, LInv, TypeOK
  <2>2. \A n \in T : \E q \in S : count[q] = n
    <3> TAKE n \in T
    <3>1. n \in 1..count[r]
      BY <2>0, <2>1
    <3>2. PICK q \in CountedIn(KeyOf(r), WinOf(r)) : count[q] = n
      BY <1>1, <2>0, <3>1 DEF NoGaps
    <3>3. q # r
      BY <2>0, <2>1, <3>2
    <3>4. q \in S
      BY <3>3 DEF CountedIn, Counted
    <3>5. QED
      BY <3>2, <3>4
  <2>3. S \subseteq Counted
    BY DEF Counted
  <2>4. IsFiniteSet(S)
    BY <1>1, <2>3, FS_Subset DEF NoGaps
  <2> DEFINE f == [n \in T |-> CHOOSE q \in S : count[q] = n]
  <2>5. \A n \in T : f[n] \in S /\ count[f[n]] = n
    BY <2>2
  <2> HIDE DEF S, f
  <2>6. f \in [T -> S]
    BY <2>5 DEF f
  <2>7. f \in Injection(T, S)
    BY <2>5, <2>6 DEF Injection, IsInjective
  <2>8. Cardinality(T) <= Cardinality(S)
    BY <2>4, <2>7, FS_Injection
  <2>9. Cardinality(T) = L
    BY <2>0, FS_Interval
  <2>10. Cardinality(S) \in Nat
    BY <2>4, FS_CardinalityType
  <2>11. QED
    BY <2>0, <2>8, <2>9, <2>10 DEF S
<1>2. LInv /\ HInv => NoUndueRejection
  BY <1>1 DEF HInv, NoUndueRejection, RejectsOnlyOverLimit
<1>3. QED
  BY <1>2, HistoryInvariance, PTL

\* While nothing fails every counter in Redis has a lifetime, or the request that made
\* it is about to give it one.
THEOREM CountersGo == HSpec => []NoEternalCounter
<1>1. HInv => NoEternalCounter
  BY DEF HInv, NoEternalCounter
<1>2. QED
  BY <1>1, HistoryInvariance, PTL
=============================================================================
