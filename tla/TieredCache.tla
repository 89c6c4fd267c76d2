---------------------------- MODULE TieredCache ----------------------------
(***************************************************************************)
(* The two-level read-through cache of internal/cache/orderbook.go, whose  *)
(* control internal/cache/batch_context.go repeats line for line: an       *)
(* in-memory level (L1) private to a process, a Redis level (L2) shared by *)
(* all processes, and a singleflight group per process that lets one       *)
(* goroutine per key fill the cache while the others wait.                 *)
(*                                                                         *)
(* What a cache holds is a snapshot of the database, and all that the      *)
(* properties ask of a snapshot is which key it answers and WHEN the       *)
(* database was read for it: a snapshot is that key and that moment.       *)
(*                                                                         *)
(* Requests are goroutines that call Get, one call after another; Host     *)
(* says in which process each runs.                                        *)
(***************************************************************************)
EXTENDS Integers, FiniteSets

CONSTANTS Requests,      \* the goroutines that call Get
          Instances,     \* the processes that share one Redis
          Host,          \* the process each goroutine runs in
          Keys,          \* cache keys: a pair and a filter, or wallets and a status
          NoRequest,     \* no flight is under way
          NoKey,         \* no key: of a goroutine that has not called Get yet
          L1TTL,         \* lifetime of an in-memory entry
          L2TTL,         \* lifetime of a Redis entry
          MaxFill,       \* the longest one execution of a flight takes
          Stoppable,     \* the processes that may be shut down
          RedisFaults,   \* whether Redis calls may fail
          MaxTime        \* the clock's bound

ASSUME CacheAssumption ==
    /\ Host \in [Requests -> Instances]
    /\ NoRequest \notin Requests
    /\ NoKey \notin Keys
    /\ L1TTL \in Nat
    /\ L2TTL \in Nat
    /\ MaxFill \in Nat
    /\ Stoppable \subseteq Instances
    /\ RedisFaults \in BOOLEAN
    /\ MaxTime \in Nat

VARIABLES now,        \* the clock
          l1,         \* l1[i][k]: the in-memory entry of process i
          l2,         \* l2[k]: the Redis entry
          flight,     \* flight[i][k]: the goroutine that executes the flight
          closed,     \* the processes whose cache has been closed
          pc,         \* where each goroutine is in Get
          key,        \* the key it asks for
          val,        \* when the snapshot it has got was read
          subject,    \* the key that snapshot answers
          deadline    \* when the flight it executes is over at the latest

vars == <<now, l1, l2, flight, closed, pc, key, val, subject, deadline>>

NoVal == -1

\* An absent entry is one that expired before the clock started.
Absent == [of |-> NoKey, readAt |-> NoVal, expiresAt |-> NoVal]

Moment == 0..MaxTime
Entry == [of : Keys \cup {NoKey}, readAt : Moment \cup {NoVal}, expiresAt : Int]

\* The program counter of a goroutine that executes a flight: before the
\* second look at L1, before the Redis GET, before the database query, before
\* the Redis SET, before the store into L1, before singleflight returns.
Filling == {"check", "get", "load", "set", "store", "finish"}
\* A goroutine inside Get: it missed L1, or executes a flight, or waits for one.
Busy == {"miss", "waiting"} \cup Filling

----------------------------------------------------------------------------
\* getL1: an entry is dead only strictly after its expiry (time.After).
FreshL1(i, k) == now <= l1[i][k].expiresAt

\* Redis answers no key whose time to live has elapsed.
FreshL2(k) == now < l2[k].expiresAt

Init ==
    /\ now = 0
    /\ l1 = [i \in Instances |-> [k \in Keys |-> Absent]]
    /\ l2 = [k \in Keys |-> Absent]
    /\ flight = [i \in Instances |-> [k \in Keys |-> NoRequest]]
    /\ closed = {}
    /\ pc = [r \in Requests |-> "idle"]
    /\ key = [r \in Requests |-> NoKey]
    /\ val = [r \in Requests |-> NoVal]
    /\ subject = [r \in Requests |-> NoKey]
    /\ deadline = [r \in Requests |-> 0]

----------------------------------------------------------------------------
(* Get, up to the singleflight group. *)

\* Mutant of GetHit: a hit renews the entry's lease.
GetHitRenews(r, k) ==
    /\ pc[r] = "idle"
    /\ FreshL1(Host[r], k)
    /\ pc' = [pc EXCEPT ![r] = "done"]
    /\ key' = [key EXCEPT ![r] = k]
    /\ val' = [val EXCEPT ![r] = l1[Host[r]][k].readAt]
    /\ subject' = [subject EXCEPT ![r] = l1[Host[r]][k].of]
    /\ l1' = [l1 EXCEPT ![Host[r]][k].expiresAt = now + L1TTL]
    /\ UNCHANGED <<now, l2, flight, closed, deadline>>

GetHit(r, k) ==
    /\ pc[r] = "idle"
    /\ FreshL1(Host[r], k)
    /\ pc' = [pc EXCEPT ![r] = "done"]
    /\ key' = [key EXCEPT ![r] = k]
    /\ val' = [val EXCEPT ![r] = l1[Host[r]][k].readAt]
    /\ subject' = [subject EXCEPT ![r] = l1[Host[r]][k].of]
    /\ UNCHANGED <<now, l1, l2, flight, closed, deadline>>

GetMiss(r, k) ==
    /\ pc[r] = "idle"
    /\ ~FreshL1(Host[r], k)
    /\ pc' = [pc EXCEPT ![r] = "miss"]
    /\ key' = [key EXCEPT ![r] = k]
    /\ UNCHANGED <<now, l1, l2, flight, closed, val, subject, deadline>>

\* Mutant of Lead: no singleflight, every goroutine executes its own fill.
LeadAlways(r) ==
    /\ pc[r] = "miss"
    /\ flight' = [flight EXCEPT ![Host[r]][key[r]] = r]
    /\ pc' = [pc EXCEPT ![r] = "check"]
    /\ deadline' = [deadline EXCEPT ![r] = now + MaxFill]
    /\ UNCHANGED <<now, l1, l2, closed, key, val, subject>>

\* sf.Do with no call for the key under way: this goroutine executes it.
Lead(r) ==
    /\ pc[r] = "miss"
    /\ flight[Host[r]][key[r]] = NoRequest
    /\ flight' = [flight EXCEPT ![Host[r]][key[r]] = r]
    /\ pc' = [pc EXCEPT ![r] = "check"]
    /\ deadline' = [deadline EXCEPT ![r] = now + MaxFill]
    /\ UNCHANGED <<now, l1, l2, closed, key, val, subject>>

\* sf.Do with a call for the key under way: wait for its result.
Join(r) ==
    /\ pc[r] = "miss"
    /\ flight[Host[r]][key[r]] # NoRequest
    /\ pc' = [pc EXCEPT ![r] = "waiting"]
    /\ UNCHANGED <<now, l1, l2, flight, closed, key, val, subject, deadline>>

----------------------------------------------------------------------------
(* The function that sf.Do executes. *)

CheckHit(r) ==
    /\ pc[r] = "check"
    /\ FreshL1(Host[r], key[r])
    /\ pc' = [pc EXCEPT ![r] = "finish"]
    /\ val' = [val EXCEPT ![r] = l1[Host[r]][key[r]].readAt]
    /\ subject' = [subject EXCEPT ![r] = l1[Host[r]][key[r]].of]
    /\ UNCHANGED <<now, l1, l2, flight, closed, key, deadline>>

\* Mutant of CheckMiss: no second look at L1 inside the flight.
CheckSkipped(r) ==
    /\ pc[r] = "check"
    /\ pc' = [pc EXCEPT ![r] = "get"]
    /\ UNCHANGED <<now, l1, l2, flight, closed, key, val, subject, deadline>>

CheckMiss(r) ==
    /\ pc[r] = "check"
    /\ ~FreshL1(Host[r], key[r])
    /\ pc' = [pc EXCEPT ![r] = "get"]
    /\ UNCHANGED <<now, l1, l2, flight, closed, key, val, subject, deadline>>

RedisHit(r) ==
    /\ pc[r] = "get"
    /\ Host[r] \notin closed
    /\ FreshL2(key[r])
    /\ pc' = [pc EXCEPT ![r] = "store"]
    /\ val' = [val EXCEPT ![r] = l2[key[r]].readAt]
    /\ subject' = [subject EXCEPT ![r] = l2[key[r]].of]
    /\ UNCHANGED <<now, l1, l2, flight, closed, key, deadline>>

\* redis.Nil; or an error, or an entry that does not parse: on to the database.
RedisMiss(r) ==
    /\ pc[r] = "get"
    /\ FreshL2(key[r]) => RedisFaults \/ Host[r] \in closed
    /\ pc' = [pc EXCEPT ![r] = "load"]
    /\ UNCHANGED <<now, l1, l2, flight, closed, key, val, subject, deadline>>

\* Mutant of LoadOk: the snapshot is stamped with its expiry.
LoadStampedLate(r) ==
    /\ pc[r] = "load"
    /\ pc' = [pc EXCEPT ![r] = "set"]
    /\ val' = [val EXCEPT ![r] = now + L1TTL]
    /\ subject' = [subject EXCEPT ![r] = key[r]]
    /\ UNCHANGED <<now, l1, l2, flight, closed, key, deadline>>

LoadOk(r) ==
    /\ pc[r] = "load"
    /\ pc' = [pc EXCEPT ![r] = "set"]
    /\ val' = [val EXCEPT ![r] = now]
    /\ subject' = [subject EXCEPT ![r] = key[r]]
    /\ UNCHANGED <<now, l1, l2, flight, closed, key, deadline>>

\* The goroutines that get the result of the flight r executes.
Party(r) ==
    {r} \cup {w \in Requests : /\ pc[w] = "waiting"
                               /\ Host[w] = Host[r]
                               /\ key[w] = key[r]}

\* Mutant of LoadFails: an error reaches the goroutine that met it, nobody else.
LoadFailsAlone(r) ==
    /\ pc[r] = "load"
    /\ pc' = [pc EXCEPT ![r] = "failed"]
    /\ flight' = [flight EXCEPT ![Host[r]][key[r]] = NoRequest]
    /\ deadline' = [deadline EXCEPT ![r] = 0]
    /\ UNCHANGED <<now, l1, l2, closed, key, val, subject>>

\* The query fails: the database is away, or the context of the goroutine that
\* executes the flight is cancelled or past its deadline. Everyone gets the error.
LoadFails(r) ==
    /\ pc[r] = "load"
    /\ pc' = [w \in Requests |-> IF w \in Party(r) THEN "failed" ELSE pc[w]]
    /\ flight' = [flight EXCEPT ![Host[r]][key[r]] = NoRequest]
    /\ deadline' = [deadline EXCEPT ![r] = 0]
    /\ UNCHANGED <<now, l1, l2, closed, key, val, subject>>

\* Mutant of RedisSet: the Redis key leaves out the filter, so one entry serves all.
RedisSetCoarse(r) ==
    /\ pc[r] = "set"
    /\ Host[r] \notin closed
    /\ l2' = [k \in Keys |->
                [of |-> subject[r], readAt |-> val[r], expiresAt |-> now + L2TTL]]
    /\ pc' = [pc EXCEPT ![r] = "store"]
    /\ UNCHANGED <<now, l1, flight, closed, key, val, subject, deadline>>

RedisSet(r) ==
    /\ pc[r] = "set"
    /\ Host[r] \notin closed
    /\ l2' = [l2 EXCEPT ![key[r]] =
                [of |-> subject[r], readAt |-> val[r], expiresAt |-> now + L2TTL]]
    /\ pc' = [pc EXCEPT ![r] = "store"]
    /\ UNCHANGED <<now, l1, flight, closed, key, val, subject, deadline>>

\* Not fatal: the snapshot is used all the same.
RedisSetFails(r) ==
    /\ pc[r] = "set"
    /\ RedisFaults \/ Host[r] \in closed
    /\ pc' = [pc EXCEPT ![r] = "store"]
    /\ UNCHANGED <<now, l1, l2, flight, closed, key, val, subject, deadline>>

SetL1(r) ==
    /\ pc[r] = "store"
    /\ l1' = [l1 EXCEPT ![Host[r]][key[r]] =
                [of |-> subject[r], readAt |-> val[r], expiresAt |-> now + L1TTL]]
    /\ pc' = [pc EXCEPT ![r] = "finish"]
    /\ UNCHANGED <<now, l2, flight, closed, key, val, subject, deadline>>

\* singleflight forgets the call and hands its result to everyone.
Finish(r) ==
    /\ pc[r] = "finish"
    /\ pc' = [w \in Requests |-> IF w \in Party(r) THEN "done" ELSE pc[w]]
    /\ val' = [w \in Requests |-> IF w \in Party(r) THEN val[r] ELSE val[w]]
    /\ subject' = [w \in Requests |-> IF w \in Party(r) THEN subject[r] ELSE subject[w]]
    /\ flight' = [flight EXCEPT ![Host[r]][key[r]] = NoRequest]
    /\ deadline' = [deadline EXCEPT ![r] = 0]
    /\ UNCHANGED <<now, l1, l2, closed, key>>

----------------------------------------------------------------------------
(* The handler takes the result; the sweeper, shutdown, and the clock. *)

Return(r) ==
    /\ pc[r] \in {"done", "failed"}
    /\ pc' = [pc EXCEPT ![r] = "idle"]
    /\ key' = [key EXCEPT ![r] = NoKey]
    /\ val' = [val EXCEPT ![r] = NoVal]
    /\ subject' = [subject EXCEPT ![r] = NoKey]
    /\ UNCHANGED <<now, l1, l2, flight, closed, deadline>>

\* Mutant of Cleanup: the comparison with the clock is the wrong way round.
CleanupInverted(i) ==
    /\ i \notin closed
    /\ \E k \in Keys : l1[i][k] # Absent /\ FreshL1(i, k)
    /\ l1' = [l1 EXCEPT ![i] = [k \in Keys |-> IF FreshL1(i, k) THEN Absent ELSE @[k]]]
    /\ UNCHANGED <<now, l2, flight, closed, pc, key, val, subject, deadline>>

\* The sweeper takes the lock once and deletes every dead entry.
Cleanup(i) ==
    /\ i \notin closed
    /\ \E k \in Keys : l1[i][k] # Absent /\ ~FreshL1(i, k)
    /\ l1' = [l1 EXCEPT ![i] = [k \in Keys |-> IF FreshL1(i, k) THEN @[k] ELSE Absent]]
    /\ UNCHANGED <<now, l2, flight, closed, pc, key, val, subject, deadline>>

\* The sweeper stops, and the process closes its Redis client next.
Close(i) ==
    /\ i \in Stoppable \ closed
    /\ closed' = closed \cup {i}
    /\ UNCHANGED <<now, l1, l2, flight, pc, key, val, subject, deadline>>

\* A process dies, with its memory and its goroutines, and a new one starts.
Restart(i) ==
    /\ l1' = [l1 EXCEPT ![i] = [k \in Keys |-> Absent]]
    /\ flight' = [flight EXCEPT ![i] = [k \in Keys |-> NoRequest]]
    /\ closed' = closed \ {i}
    /\ pc' = [r \in Requests |-> IF Host[r] = i THEN "idle" ELSE pc[r]]
    /\ key' = [r \in Requests |-> IF Host[r] = i THEN NoKey ELSE key[r]]
    /\ val' = [r \in Requests |-> IF Host[r] = i THEN NoVal ELSE val[r]]
    /\ subject' = [r \in Requests |-> IF Host[r] = i THEN NoKey ELSE subject[r]]
    /\ deadline' = [r \in Requests |-> IF Host[r] = i THEN 0 ELSE deadline[r]]
    /\ UNCHANGED <<now, l2>>

\* The context's deadline ends every call of a flight in time; Redis drops the
\* entries whose time to live has elapsed.
Tick ==
    /\ now < MaxTime
    /\ \A r \in Requests : pc[r] \in Filling => now < deadline[r]
    /\ now' = now + 1
    /\ l2' = [k \in Keys |-> IF now + 1 < l2[k].expiresAt THEN l2[k] ELSE Absent]
    /\ UNCHANGED <<l1, flight, closed, pc, key, val, subject, deadline>>

----------------------------------------------------------------------------
\* What a goroutine does inside Get.
Step(r) ==
    \/ Lead(r) \/ Join(r)
    \/ CheckHit(r) \/ CheckMiss(r)
    \/ RedisHit(r) \/ RedisMiss(r)
    \/ LoadOk(r) \/ LoadFails(r)
    \/ RedisSet(r) \/ RedisSetFails(r)
    \/ SetL1(r) \/ Finish(r)
    \/ Return(r)

Next ==
    \/ \E r \in Requests : Step(r) \/ \E k \in Keys : GetHit(r, k) \/ GetMiss(r, k)
    \/ \E i \in Instances : Cleanup(i) \/ Close(i) \/ Restart(i)
    \/ Tick

Spec == Init /\ [][Next]_vars

\* The scheduler runs every runnable goroutine, and no call outlasts the
\* deadline of its context; nothing obliges a client to ask again, a process to
\* stop or the clock to move on.
Fairness ==
    /\ \A r \in Requests : WF_vars(Step(r))
    /\ \A i \in Instances : WF_vars(Cleanup(i))

FairSpec == Spec /\ Fairness

----------------------------------------------------------------------------
(* Properties *)

\* Type correctness: every variable keeps the shape the code gives it.
TypeOK ==
    /\ now \in Moment
    /\ l1 \in [Instances -> [Keys -> Entry]]
    /\ l2 \in [Keys -> Entry]
    /\ flight \in [Instances -> [Keys -> Requests \cup {NoRequest}]]
    /\ closed \subseteq Instances
    /\ pc \in [Requests -> Busy \cup {"idle", "done", "failed"}]
    /\ key \in [Requests -> Keys \cup {NoKey}]
    /\ val \in [Requests -> Moment \cup {NoVal}]
    /\ subject \in [Requests -> Keys \cup {NoKey}]
    /\ deadline \in [Requests -> Nat]

\* How old a snapshot may be when Get hands it out: both lifetimes, and the
\* three places where a flight may dawdle: between the query and the SET of the
\* flight that read the database, between the GET and the store of the flight
\* that copied its entry, and between the second look at L1 and the end of a third.
StaleBound == L1TTL + L2TTL + 3 * MaxFill

\* What the caller of Get sees of the cache: whether its call is under way, and the
\* snapshot, once there is one.
Phase == [r \in Requests |->
             CASE pc[r] = "idle" -> "idle"
               [] pc[r] = "done" -> "answered"
               [] pc[r] = "failed" -> "refused"
               [] OTHER -> "calling"]
Nothing == [of |-> NoKey, at |-> NoVal]
Answer == [r \in Requests |->
              IF pc[r] = "done" THEN [of |-> subject[r], at |-> val[r]] ELSE Nothing]

Promise == INSTANCE BoundedReads
             WITH NoAnswer <- Nothing, Bound <- StaleBound, phase <- Phase, answer <- Answer

\* The two levels, the flights, Redis and the processes together keep the promise of
\* a single store that may lag behind the database by StaleBound: every step of theirs
\* is a step of BoundedReads, or none. Who asked for one pair and filter, or for one
\* batch of wallets, never gets the snapshot of another, be it through a flight that
\* several goroutines share, an entry of either level, or what a process that died or
\* failed halfway has left in Redis; and each call is answered, refused or lost once.
KeepsPromise == Promise!Spec

\* Get never hands out a snapshot older than StaleBound, whichever level it came
\* from, however the goroutines of all processes interleave and wherever one
\* died: copying an entry from Redis to memory does not renew its lease twice.
BoundedStaleness ==
    [][\A r \in Requests :
         pc[r] # "done" /\ pc'[r] = "done" => now - val'[r] <= StaleBound]_vars

\* A process never loads a key that its memory holds: the second look at L1,
\* taken inside the flight, is not outdated by the time the query runs, so one
\* process reads the database for one key at most once per L1TTL.
LoadsOnlyWhenCold ==
    \A r \in Requests :
        pc[r] \in {"get", "load", "set", "store"} => ~FreshL1(Host[r], key[r])

\* singleflight: of the goroutines of one process, one at a time fills a key, and
\* whoever waits for a result waits for a flight that is under way.
SingleFlight ==
    \A r \in Requests :
        /\ pc[r] \in Filling => flight[Host[r]][key[r]] = r
        /\ pc[r] = "waiting" => flight[Host[r]][key[r]] # NoRequest

\* Every Get comes back, with a snapshot or with an error.
GetReturns ==
    \A r \in Requests : pc[r] \in Busy ~> pc[r] \notin Busy

\* A dead entry does not stay in memory: it is swept or replaced, unless the
\* cache is closed. Otherwise every filter a client ever sent would stay there.
DeadEntriesGo ==
    \A i \in Instances, k \in Keys :
        (l1[i][k] # Absent /\ ~FreshL1(i, k)) ~>
            (l1[i][k] = Absent \/ FreshL1(i, k) \/ i \in closed)
=============================================================================
