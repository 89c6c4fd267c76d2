------------------------ MODULE RateLimiterHistory ------------------------
(***************************************************************************)
(* RateLimiter with a memory of what has gone wrong, to say in one         *)
(* specification what holds always, what holds as long as Redis is         *)
(* reliable, and for whom. The history variables watch the steps of        *)
(* RateLimiter and constrain none of them.                                 *)
(***************************************************************************)
EXTENDS RateLimiter

VARIABLES faulted,   \* a call to Redis has failed, or a process has died
          late       \* the requests that came to Redis late

historyVars == <<vars, faulted, late>>

Fault ==
    \/ \E r \in Requests : IncrReplyLost(r) \/ IncrFails(r) \/ ExpireFails(r)
    \/ \E i \in Instances : Crash(i)

\* The lifetime of the counters of window w may be over: a counter lives for at least
\* the window and the slack.
PastUse(w) == now >= w + Window + Slack

HInit == Init /\ faulted = FALSE /\ late = {}
HNext ==
    /\ Next
    /\ faulted' = (faulted \/ Fault)
    /\ late' = late \cup {r \in Requests : Incr(r) /\ PastUse(WinOf(r))}
HSpec == HInit /\ [][HNext]_historyVars

\* Of the requests whose INCR reaches Redis while the counter of their window is sure
\* to be there, all processes together let a caller have at most its limit, whatever
\* replies are lost, calls repeated and processes killed, and however many others come
\* late: no two of them get the same number, because no counter is dropped before the
\* extra second after its window is over. Nothing keeps a request from coming later
\* than that; what happens then is LimitPerWindow's.
WithinLimit ==
    \A c \in Clients, w \in Windows :
        Cardinality(Admitted(LimitKey(c), w) \ late) <= LimitOf(c)

\* As long as Redis is reliable nobody is turned away before its limit is used
\* up by requests of the same window.
NoUndueRejection == ~faulted => RejectsOnlyOverLimit

\* As long as nothing fails, every counter has a lifetime, or a request that is
\* about to give it one: no key stays in Redis for ever.
NoEternalCounter == ~faulted => CountersExpire
=============================================================================
