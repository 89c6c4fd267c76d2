---------------------------- MODULE RateLimiter ----------------------------
(***************************************************************************)
(* The rate limiter of internal/middleware/rate_limiter.go: a counter per  *)
(* caller and per window kept in Redis and shared by all processes, and a  *)
(* counter per IP address kept in each process for when Redis is away.     *)
(*                                                                         *)
(* A request that Redis counts is decided by the number INCR gives it. The *)
(* Redis client repeats a command whose reply is lost, so that one request *)
(* may be counted more than once, and nothing bounds the time it takes:    *)
(* the limiter runs before any deadline is set. A process that restarts is *)
(* another member of Instances: it shares nothing with the one that died.  *)
(***************************************************************************)
EXTENDS Integers, FiniteSets

CONSTANTS Requests,       \* the requests, one pass through the limiter each
          Instances,      \* the processes
          Host,           \* the process that serves each request
          Clients,        \* who sends requests
          KeyHash,        \* the hash of a client's API key, or NoHash
          NoHash,
          Rate,           \* the rate_limit stored with that API key
          IP,             \* a client's address
          NoClient,       \* a request that has not come yet
          AnonymousRPS,   \* limit of clients without a limit of their own
          MaxAllowed,     \* maxAllowedRateLimit
          FailoverRPS,    \* failoverPerIPRPS
          Window,         \* length of a window
          Slack,          \* what a counter's lifetime has over a window (1s)
          MaxRetries,     \* repetitions of one command
          RedisFaults,    \* whether replies and calls may get lost
          MayCrash,       \* the processes that may die
          MaxTime         \* the clock's bound

HasOwnLimit(c) == KeyHash[c] # NoHash /\ Rate[c] > 0

ASSUME LimiterAssumption ==
    /\ Host \in [Requests -> Instances]
    /\ NoClient \notin Clients
    /\ Rate \in [Clients -> Int]
    /\ \A c, d \in Clients :
          HasOwnLimit(c) /\ HasOwnLimit(d) /\ KeyHash[c] = KeyHash[d] => Rate[c] = Rate[d]
    /\ AnonymousRPS \in Nat \ {0}
    /\ MaxAllowed \in Nat \ {0}
    /\ FailoverRPS \in Nat \ {0}
    /\ Window \in Nat \ {0}
    /\ Slack \in Nat
    /\ MaxRetries \in Nat
    /\ RedisFaults \in BOOLEAN
    /\ MayCrash \subseteq Instances
    /\ MaxTime \in Nat

VARIABLES now,        \* the clock
          up,         \* the processes that are alive
          counter,    \* counter[l][w]: the Redis counter, 0 when there is no key
          ttl,        \* ttl[l][w]: when Redis drops the key, or Forever
          failover,   \* failover[i][a]: the in-memory entry of process i
          pc,         \* where each request is
          client,     \* who sent it
          read,       \* what the limiter last read from the clock for it
          count,      \* the number INCR gave it
          tries       \* how often its INCR was repeated

vars == <<now, up, counter, ttl, failover, pc, client, read, count, tries>>

Forever == -1
NoEntry == [count |-> 0, resetAt |-> -1]

\* Redis keys: "rate_limit:api_key:<hash>" or "rate_limit:ip:<address>", and the
\* window's start. An API key whose rate_limit is 0 shares its address's counter.
LimitKey(c) == IF HasOwnLimit(c) THEN <<"api_key", KeyHash[c]>> ELSE <<"ip", IP[c]>>
LimitOf(c) ==
    IF ~HasOwnLimit(c) THEN AnonymousRPS
    ELSE IF Rate[c] > MaxAllowed THEN MaxAllowed ELSE Rate[c]

LimitKeys == {LimitKey(c) : c \in Clients}
Addresses == {IP[c] : c \in Clients}

\* now.Truncate(window): the start of the window that t falls in.
WindowOf(t) == t - (t % Window)
Windows == {WindowOf(t) : t \in 0..MaxTime}

KeyOf(r) == LimitKey(client[r])
WinOf(r) == WindowOf(read[r])

Init ==
    /\ now = 0
    /\ up = Instances
    /\ counter = [l \in LimitKeys |-> [w \in Windows |-> 0]]
    /\ ttl = [l \in LimitKeys |-> [w \in Windows |-> Forever]]
    /\ failover = [i \in Instances |-> [a \in Addresses |-> NoEntry]]
    /\ pc = [r \in Requests |-> "new"]
    /\ client = [r \in Requests |-> NoClient]
    /\ read = [r \in Requests |-> 0]
    /\ count = [r \in Requests |-> 0]
    /\ tries = [r \in Requests |-> 0]

----------------------------------------------------------------------------
(* One request. *)

\* The limiter picks the counter and the limit, and reads the clock.
Begin(r, c) ==
    /\ pc[r] = "new"
    /\ Host[r] \in up
    /\ pc' = [pc EXCEPT ![r] = "incr"]
    /\ client' = [client EXCEPT ![r] = c]
    /\ read' = [read EXCEPT ![r] = now]
    /\ UNCHANGED <<now, up, counter, ttl, failover, count, tries>>

\* Mutant of Over: the limit itself is over the limit.
OverOrEqual(r, n) == n >= LimitOf(client[r])

\* count > limit
Over(r, n) == n > LimitOf(client[r])

\* INCR, and the verdict unless the counter still needs its lifetime.
Incr(r) ==
    LET n == counter[KeyOf(r)][WinOf(r)] + 1
    IN  /\ pc[r] = "incr"
        /\ counter' = [counter EXCEPT ![KeyOf(r)][WinOf(r)] = n]
        /\ count' = [count EXCEPT ![r] = n]
        /\ tries' = [tries EXCEPT ![r] = 0]
        /\ pc' = [pc EXCEPT ![r] = IF n = 1 THEN "expire"
                                   ELSE IF Over(r, n) THEN "rejected" ELSE "admitted"]
        /\ UNCHANGED <<now, up, ttl, failover, client, read>>

\* Mutant of IncrReplyLost: one repetition too many.
IncrReplyLostOnceMore(r) ==
    /\ pc[r] = "incr"
    /\ RedisFaults
    /\ counter' = [counter EXCEPT ![KeyOf(r)][WinOf(r)] = @ + 1]
    /\ tries' = [tries EXCEPT ![r] = IF @ <= MaxRetries THEN @ + 1 ELSE 0]
    /\ pc' = [pc EXCEPT ![r] = IF tries[r] <= MaxRetries THEN "incr" ELSE "failover"]
    /\ UNCHANGED <<now, up, ttl, failover, client, read, count>>

\* Redis counts the request but its reply is lost: the client repeats the command
\* until it has done so MaxRetries times.
IncrReplyLost(r) ==
    /\ pc[r] = "incr"
    /\ RedisFaults
    /\ counter' = [counter EXCEPT ![KeyOf(r)][WinOf(r)] = @ + 1]
    /\ tries' = [tries EXCEPT ![r] = IF @ < MaxRetries THEN @ + 1 ELSE 0]
    /\ pc' = [pc EXCEPT ![r] = IF tries[r] < MaxRetries THEN "incr" ELSE "failover"]
    /\ UNCHANGED <<now, up, ttl, failover, client, read, count>>

\* Redis is unreachable.
IncrFails(r) ==
    /\ pc[r] = "incr"
    /\ RedisFaults
    /\ pc' = [pc EXCEPT ![r] = "failover"]
    /\ tries' = [tries EXCEPT ![r] = 0]
    /\ UNCHANGED <<now, up, counter, ttl, failover, client, read, count>>

\* The verdict on the first request of a counter.
FirstVerdict(r) ==
    pc' = [pc EXCEPT ![r] = IF Over(r, count[r]) THEN "rejected" ELSE "admitted"]

\* Mutant of Expire: the counter lives for a window, without the extra second.
ExpireWithoutSlack(r) ==
    /\ pc[r] = "expire"
    /\ ttl' = [ttl EXCEPT ![KeyOf(r)][WinOf(r)] =
                   IF counter[KeyOf(r)][WinOf(r)] = 0 THEN @ ELSE now + Window]
    /\ FirstVerdict(r)
    /\ UNCHANGED <<now, up, counter, failover, client, read, count, tries>>

\* Mutant of Expire: the key is made anew, from the present window.
ExpireOfPresentWindow(r) ==
    /\ pc[r] = "expire"
    /\ ttl' = [ttl EXCEPT ![KeyOf(r)][WindowOf(now)] =
                   IF counter[KeyOf(r)][WindowOf(now)] = 0 THEN @ ELSE now + Window + Slack]
    /\ FirstVerdict(r)
    /\ UNCHANGED <<now, up, counter, failover, client, read, count, tries>>

Expire(r) ==
    /\ pc[r] = "expire"
    /\ ttl' = [ttl EXCEPT ![KeyOf(r)][WinOf(r)] =
                   IF counter[KeyOf(r)][WinOf(r)] = 0 THEN @ ELSE now + Window + Slack]
    /\ FirstVerdict(r)
    /\ UNCHANGED <<now, up, counter, failover, client, read, count, tries>>

\* The limiter does not look at the result of EXPIRE.
ExpireFails(r) ==
    /\ pc[r] = "expire"
    /\ RedisFaults
    /\ FirstVerdict(r)
    /\ UNCHANGED <<now, up, counter, ttl, failover, client, read, count, tries>>

\* Mutant of AllowFailover: the comparison precedes the increment.
AllowFailoverOneMore(r) ==
    LET i == Host[r]
        a == IP[client[r]]
        e == failover[i][a]
    IN  /\ pc[r] = "failover"
        /\ IF e = NoEntry \/ now > e.resetAt
           THEN /\ failover' = [failover EXCEPT ![i][a] =
                                    [count |-> 1, resetAt |-> now + Window]]
                /\ pc' = [pc EXCEPT ![r] = "admitted_degraded"]
           ELSE /\ failover' = [failover EXCEPT ![i][a].count = @ + 1]
                /\ pc' = [pc EXCEPT ![r] = IF e.count <= FailoverRPS
                                           THEN "admitted_degraded" ELSE "rejected_degraded"]
        /\ read' = [read EXCEPT ![r] = now]
        /\ UNCHANGED <<now, up, counter, ttl, client, count, tries>>

\* allowFailover: a new entry when there is none or its time is over, else count
\* on and compare.
AllowFailover(r) ==
    LET i == Host[r]
        a == IP[client[r]]
        e == failover[i][a]
    IN  /\ pc[r] = "failover"
        /\ IF e = NoEntry \/ now > e.resetAt
           THEN /\ failover' = [failover EXCEPT ![i][a] =
                                    [count |-> 1, resetAt |-> now + Window]]
                /\ pc' = [pc EXCEPT ![r] = "admitted_degraded"]
           ELSE /\ failover' = [failover EXCEPT ![i][a].count = @ + 1]
                /\ pc' = [pc EXCEPT ![r] = IF e.count + 1 <= FailoverRPS
                                           THEN "admitted_degraded" ELSE "rejected_degraded"]
        /\ read' = [read EXCEPT ![r] = now]
        /\ UNCHANGED <<now, up, counter, ttl, client, count, tries>>

----------------------------------------------------------------------------
(* The process, Redis and the clock. *)

Crash(i) ==
    LET dead == {r \in Requests : Host[r] = i /\ pc[r] \in {"incr", "expire", "failover"}}
    IN  /\ i \in MayCrash \cap up
        /\ up' = up \ {i}
        /\ failover' = [failover EXCEPT ![i] = [a \in Addresses |-> NoEntry]]
        /\ pc' = [r \in Requests |-> IF r \in dead THEN "lost" ELSE pc[r]]
        /\ client' = [r \in Requests |-> IF r \in dead THEN NoClient ELSE client[r]]
        /\ read' = [r \in Requests |-> IF r \in dead THEN 0 ELSE read[r]]
        /\ count' = [r \in Requests |-> IF r \in dead THEN 0 ELSE count[r]]
        /\ tries' = [r \in Requests |-> IF r \in dead THEN 0 ELSE tries[r]]
        /\ UNCHANGED <<now, counter, ttl>>

\* Redis drops the counters whose lifetime is over.
Dropped(l, w, t) == ttl[l][w] # Forever /\ t >= ttl[l][w]

Tick ==
    /\ now < MaxTime
    /\ now' = now + 1
    /\ counter' = [l \in LimitKeys |-> [w \in Windows |->
                      IF Dropped(l, w, now + 1) THEN 0 ELSE counter[l][w]]]
    /\ ttl' = [l \in LimitKeys |-> [w \in Windows |->
                  IF Dropped(l, w, now + 1) THEN Forever ELSE ttl[l][w]]]
    /\ UNCHANGED <<up, failover, pc, client, read, count, tries>>

----------------------------------------------------------------------------
Step(r) ==
    \/ Incr(r) \/ IncrReplyLost(r) \/ IncrFails(r)
    \/ Expire(r) \/ ExpireFails(r)
    \/ AllowFailover(r)

Next ==
    \/ \E r \in Requests : Step(r) \/ \E c \in Clients : Begin(r, c)
    \/ \E i \in Instances : Crash(i)
    \/ Tick

Spec == Init /\ [][Next]_vars

\* A request that has come gets its verdict, and time passes.
FairSpec == Spec /\ (\A r \in Requests : WF_vars(Step(r))) /\ WF_vars(Tick)

----------------------------------------------------------------------------
(* Properties *)

TypeOK ==
    /\ now \in 0..MaxTime
    /\ up \subseteq Instances
    /\ counter \in [LimitKeys -> [Windows -> Nat]]
    /\ ttl \in [LimitKeys -> [Windows -> Int]]
    /\ failover \in [Instances -> [Addresses -> [count : Nat, resetAt : Int]]]
    /\ pc \in [Requests -> {"new", "incr", "expire", "failover", "admitted", "rejected",
                            "admitted_degraded", "rejected_degraded", "lost"}]
    /\ client \in [Requests -> Clients \cup {NoClient}]
    /\ read \in [Requests -> 0..MaxTime]
    /\ count \in [Requests -> Nat]
    /\ tries \in [Requests -> 0..MaxRetries]

\* The requests Redis let through with counter l in window w.
Admitted(l, w) == {r \in Requests : pc[r] = "admitted" /\ KeyOf(r) = l /\ WinOf(r) = w}

\* rate_limiter.go:43-44: "Authenticated requests use the per-key rate limit", "Anonymous
\* requests (no token) are limited to anonymousRPS per IP address". An INCR that reaches
\* Redis when the counter of its window is gone starts a new one, and is let through.
LimitPerWindow ==
    \A c \in Clients, w \in Windows :
        Cardinality(Admitted(LimitKey(c), w)) <= LimitOf(c)

\* During an outage a process lets an address have at most FailoverRPS while one
\* in-memory entry lives.
FailoverBounded ==
    \A i \in up, a \in Addresses :
        Cardinality({r \in Requests : /\ pc[r] = "admitted_degraded"
                                      /\ Host[r] = i
                                      /\ IP[client[r]] = a
                                      /\ read[r] >= failover[i][a].resetAt - Window})
            <= FailoverRPS

\* With a reliable Redis nobody is turned away before its limit is used up by
\* requests of the same window.
RejectsOnlyOverLimit ==
    \A r \in Requests :
        pc[r] = "rejected" =>
            Cardinality({q \in Requests \ {r} :
                            /\ pc[q] \in {"expire", "admitted", "rejected"}
                            /\ KeyOf(q) = KeyOf(r) /\ WinOf(q) = WinOf(r)})
                >= LimitOf(client[r])

\* With a reliable Redis a counter without a lifetime has one on its way: no key
\* stays in Redis for ever.
CountersExpire ==
    \A l \in LimitKeys, w \in Windows :
        counter[l][w] > 0 /\ ttl[l][w] = Forever =>
            \E r \in Requests : pc[r] = "expire" /\ KeyOf(r) = l /\ WinOf(r) = w

\* rate_limiter.go:33 says of the in-memory entries "Keys auto-expire via the
\* cleanup goroutine": then an entry whose time is over would go away. There is no
\* such goroutine, and the map keeps every address it ever met.
FailoverEntriesGo ==
    \A i \in Instances, a \in Addresses :
        (failover[i][a] # NoEntry /\ now > failover[i][a].resetAt) ~>
            (failover[i][a] = NoEntry \/ now <= failover[i][a].resetAt)
=============================================================================
