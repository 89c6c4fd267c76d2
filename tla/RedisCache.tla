----------------------------- MODULE RedisCache -----------------------------
(***************************************************************************)
(* The four caches with one level only: internal/cache/candles.go,         *)
(* trading_stats.go, coin_price.go and agent_leaderboard.go, whose Get is  *)
(* the same up to names. Inside one singleflight call: Redis GET, else the *)
(* loader and Redis SET. They differ in what their keys leave out of the   *)
(* question: trading statistics leave out the moment their period counts   *)
(* back from, candles leave out how many are wanted.                       *)
(*                                                                         *)
(* The unit of time is the second, as in since.Unix(). Rows are what tells *)
(* one load from another: the question they answer, the moment its window  *)
(* counts back from, and the moment the database was read.                 *)
(***************************************************************************)
EXTENDS Integers, FiniteSets

CONSTANTS Requests,      \* the goroutines that ask
          Instances,     \* the processes that share one Redis
          Host,          \* the process each goroutine runs in
          Caches,        \* which of the four
          Candles,       \* the one with a moment in its keys
          Subjects,      \* Subjects[c]: pairs and periods, pairs and intervals, or coins
          NoQuestion,    \* a goroutine that asks nothing
          Limits,        \* limits that clients ask for
          DefaultLimit,  \* 500
          MaxLimit,      \* 1000
          TTL,           \* lifetime of a Redis entry
          MaxFill,       \* the longest one execution of a flight takes
          MaxDelay,      \* the longest a handler takes from reading the clock to Get
          RedisFaults,   \* whether Redis calls may fail
          MaxTime        \* the clock's bound

ASSUME RedisCacheAssumption ==
    /\ Host \in [Requests -> Instances]
    /\ Candles \in Caches
    /\ DOMAIN Subjects = Caches
    /\ Limits \subseteq Int
    /\ DefaultLimit \in 1..MaxLimit
    /\ TTL \in Nat
    /\ MaxFill \in Nat
    /\ MaxDelay \in Nat
    /\ RedisFaults \in BOOLEAN
    /\ MaxTime \in Nat

VARIABLES now,        \* the clock
          l2,         \* what Redis holds: a set of entries, one for a key
          pc,         \* where each goroutine is
          question,   \* what it asks
          asked,      \* the moment its window counts back from
          rows,       \* the rows it has got
          deadline    \* when the flight it executes is over at the latest

vars == <<now, l2, pc, question, asked, rows, deadline>>

Moment == 0..MaxTime

\* Both the handler and GetCandles take a limit out of range for the default.
Normal(limit) == IF limit <= 0 \/ limit > MaxLimit THEN DefaultLimit ELSE limit

\* Candles alone know a limit here: the leaderboard's page is cut by its handler.
Questions ==
    UNION {[cache : {c}, subject : Subjects[c],
            limit : IF c = Candles THEN {Normal(n) : n \in Limits} ELSE {DefaultLimit}] :
              c \in Caches}

\* Mutant of KeyOf: the candles' key has no moment either.
KeyWithoutMoment(q, t) == [cache |-> q.cache, subject |-> q.subject, since |-> 0]

\* Mutant of KeyOf: all caches use one prefix.
KeyWithoutPrefix(q, t) ==
    [cache |-> Candles, subject |-> q.subject, since |-> IF q.cache = Candles THEN t ELSE 0]

\* Mutant of KeyOf: the candles' key holds the second before.
KeyOfSecondBefore(q, t) ==
    [cache |-> q.cache, subject |-> q.subject, since |-> IF q.cache = Candles THEN t - 1 ELSE 0]

\* candlesKey, tradingStatsKey, coinPriceKey, agentLeaderboardKey
KeyOf(q, t) ==
    [cache |-> q.cache, subject |-> q.subject, since |-> IF q.cache = Candles THEN t ELSE 0]

Keys == [cache : Caches, subject : UNION {Subjects[c] : c \in Caches}, since : Moment]

NoRows == [question |-> NoQuestion, since |-> 0, at |-> 0]

KeyFor(r) == KeyOf(question[r], asked[r])

\* A goroutine that executes a flight: before the GET, the query, the SET, the end.
Filling == {"get", "load", "set", "finish"}
Busy == {"asked", "waiting"} \cup Filling

Leading(i, k) == \E r \in Requests : Host[r] = i /\ pc[r] \in Filling /\ KeyFor(r) = k

\* The goroutines that get the result of the flight r executes.
Party(r) ==
    {r} \cup {w \in Requests : pc[w] = "waiting" /\ Host[w] = Host[r] /\ KeyFor(w) = KeyFor(r)}

\* GET of a key whose time to live has not elapsed: none or one entry. And SET.
Held(k) == {e \in l2 : e.key = k /\ now < e.expiresAt}
Put(k, r) == l2' = {e \in l2 : e.key # k} \cup {[key |-> k, rows |-> r, expiresAt |-> now + TTL]}

Init ==
    /\ now = 0
    /\ l2 = {}
    /\ pc = [r \in Requests |-> "idle"]
    /\ question = [r \in Requests |-> NoQuestion]
    /\ asked = [r \in Requests |-> 0]
    /\ rows = [r \in Requests |-> NoRows]
    /\ deadline = [r \in Requests |-> 0]

Goto(r, step) == pc' = [pc EXCEPT ![r] = step]

----------------------------------------------------------------------------
(* The handler asks, and takes the answer. *)

\* since is computed from the clock here; trading statistics ask for all their
\* periods with one reading of the clock, so that some time may pass before Get.
Ask(r, q) ==
    /\ pc[r] = "idle"
    /\ Goto(r, "asked")
    /\ question' = [question EXCEPT ![r] = q]
    /\ asked' = [asked EXCEPT ![r] = now]
    /\ UNCHANGED <<now, l2, rows, deadline>>

Return(r) ==
    /\ pc[r] \in {"done", "failed"}
    /\ Goto(r, "idle")
    /\ question' = [question EXCEPT ![r] = NoQuestion]
    /\ asked' = [asked EXCEPT ![r] = 0]
    /\ rows' = [rows EXCEPT ![r] = NoRows]
    /\ UNCHANGED <<now, l2, deadline>>

----------------------------------------------------------------------------
(* Get *)

\* sf.Do with no call for the key under way.
Lead(r) ==
    /\ pc[r] = "asked"
    /\ ~Leading(Host[r], KeyFor(r))
    /\ Goto(r, "get")
    /\ deadline' = [deadline EXCEPT ![r] = now + MaxFill]
    /\ UNCHANGED <<now, l2, question, asked, rows>>

Join(r) ==
    /\ pc[r] = "asked"
    /\ Leading(Host[r], KeyFor(r))
    /\ Goto(r, "waiting")
    /\ UNCHANGED <<now, l2, question, asked, rows, deadline>>

\* Mutant of RedisHit: a hit renews the entry's lease.
RedisHitRenews(r) ==
    /\ pc[r] = "get"
    /\ \E e \in Held(KeyFor(r)) :
          /\ rows' = [rows EXCEPT ![r] = e.rows]
          /\ Put(KeyFor(r), e.rows)
    /\ Goto(r, "finish")
    /\ UNCHANGED <<now, question, asked, deadline>>

RedisHit(r) ==
    /\ pc[r] = "get"
    /\ \E e \in Held(KeyFor(r)) : rows' = [rows EXCEPT ![r] = e.rows]
    /\ Goto(r, "finish")
    /\ UNCHANGED <<now, l2, question, asked, deadline>>

\* redis.Nil; or an error, or rows that do not parse: on to the database.
RedisMiss(r) ==
    /\ pc[r] = "get"
    /\ Held(KeyFor(r)) = {} \/ RedisFaults
    /\ Goto(r, "load")
    /\ UNCHANGED <<now, l2, question, asked, rows, deadline>>

\* The loader runs with the question of the goroutine that executes the flight.
LoadOk(r) ==
    /\ pc[r] = "load"
    /\ Goto(r, "set")
    /\ rows' = [rows EXCEPT ![r] =
                    [question |-> question[r], since |-> asked[r], at |-> now]]
    /\ UNCHANGED <<now, l2, question, asked, deadline>>

LoadFails(r) ==
    /\ pc[r] = "load"
    /\ pc' = [w \in Requests |-> IF w \in Party(r) THEN "failed" ELSE pc[w]]
    /\ deadline' = [deadline EXCEPT ![r] = 0]
    /\ UNCHANGED <<now, l2, question, asked, rows>>

RedisSet(r) ==
    /\ pc[r] = "set"
    /\ Put(KeyFor(r), rows[r])
    /\ Goto(r, "finish")
    /\ UNCHANGED <<now, question, asked, rows, deadline>>

\* Not fatal: the rows are used all the same.
RedisSetFails(r) ==
    /\ RedisFaults
    /\ pc[r] = "set"
    /\ Goto(r, "finish")
    /\ UNCHANGED <<now, l2, question, asked, rows, deadline>>

Finish(r) ==
    /\ pc[r] = "finish"
    /\ pc' = [w \in Requests |-> IF w \in Party(r) THEN "done" ELSE pc[w]]
    /\ rows' = [w \in Requests |-> IF w \in Party(r) THEN rows[r] ELSE rows[w]]
    /\ deadline' = [deadline EXCEPT ![r] = 0]
    /\ UNCHANGED <<now, l2, question, asked>>

----------------------------------------------------------------------------
\* A process dies with its goroutines, and a new one starts.
Restart(i) ==
    LET here == {r \in Requests : Host[r] = i}
    IN  /\ \E r \in here : pc[r] # "idle"
        /\ pc' = [r \in Requests |-> IF r \in here THEN "idle" ELSE pc[r]]
        /\ question' = [r \in Requests |-> IF r \in here THEN NoQuestion ELSE question[r]]
        /\ asked' = [r \in Requests |-> IF r \in here THEN 0 ELSE asked[r]]
        /\ rows' = [r \in Requests |-> IF r \in here THEN NoRows ELSE rows[r]]
        /\ deadline' = [r \in Requests |-> IF r \in here THEN 0 ELSE deadline[r]]
        /\ UNCHANGED <<now, l2>>

\* The context's deadline ends every call of a flight in time, and nothing depends
\* on how long a handler keeps an answer; Redis drops the entries whose time to live
\* has elapsed.
Tick ==
    /\ now < MaxTime
    /\ \A r \in Requests : /\ pc[r] \in Filling => now < deadline[r]
                           /\ pc[r] = "asked" => now < asked[r] + MaxDelay
                           /\ pc[r] \notin {"done", "failed"}
    /\ now' = now + 1
    /\ l2' = {e \in l2 : now + 1 < e.expiresAt}
    /\ UNCHANGED <<pc, question, asked, rows, deadline>>

Next ==
    \/ \E r \in Requests :
          \/ \E q \in Questions : Ask(r, q)
          \/ Lead(r) \/ Join(r)
          \/ RedisHit(r) \/ RedisMiss(r)
          \/ LoadOk(r) \/ LoadFails(r)
          \/ RedisSet(r) \/ RedisSetFails(r)
          \/ Finish(r) \/ Return(r)
    \/ \E i \in Instances : Restart(i)
    \/ Tick

Spec == Init /\ [][Next]_vars

----------------------------------------------------------------------------
(* Properties *)

Rows == [question : Questions \cup {NoQuestion}, since : Moment, at : Moment]

\* Type correctness: every variable keeps the shape the code gives it.
TypeOK ==
    /\ now \in Moment
    /\ \A e \in l2 : e.key \in Keys /\ e.rows \in Rows /\ e.expiresAt \in Nat
    /\ \A e, f \in l2 : e.key = f.key => e = f
    /\ pc \in [Requests -> Busy \cup {"idle", "done", "failed"}]
    /\ question \in [Requests -> Questions \cup {NoQuestion}]
    /\ asked \in [Requests -> Moment]
    /\ rows \in [Requests -> Rows]
    /\ deadline \in [Requests -> Nat]

Answered(r) == pc[r] = "done"

\* The type assertion on the result of sf.Do and the parsing of what Redis holds
\* rely on it: nobody gets the rows of another cache, or of another pair, period,
\* interval or coin, whoever led the flight and whichever process stored them.
OwnSubject ==
    \A r \in Requests :
        Answered(r) => /\ rows[r].question.cache = question[r].cache
                       /\ rows[r].question.subject = question[r].subject

\* The key of the candles holds the second that their window begins at: rows are
\* those of the very window asked for, and they were read after it was asked for,
\* although the entry may live much longer.
CandlesOfThisWindow ==
    \A r \in Requests :
        Answered(r) /\ question[r].cache = Candles
            => rows[r].since = asked[r] /\ rows[r].at >= asked[r]

\* A flight, an entry and another flight: so long may rows wait for a reader.
AgeBound == TTL + 2 * MaxFill

\* Rows are never older than AgeBound when Get hands them out; and statistics, whose
\* key holds the label of a period only, count back from a moment that lies no
\* further before the one asked for than that and the delay of whoever loaded them.
BoundedAge ==
    [][\A r \in Requests :
         ~Answered(r) /\ pc'[r] = "done" =>
             /\ now - rows'[r].at <= AgeBound
             /\ asked[r] - rows'[r].since <= AgeBound + MaxDelay]_vars

\* The documentation of /orders/candles says of limit: "Max candles". Rows that were
\* loaded for another limit must not be handed out in place of fewer.
MaxCandles ==
    \A r \in Requests :
        Answered(r) /\ question[r].cache = Candles => rows[r].question.limit <= question[r].limit
=============================================================================
