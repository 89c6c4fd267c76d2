------------------------ MODULE TieredCacheHistory ------------------------
(***************************************************************************)
(* TieredCache with a memory of what it has handed out, to say that reads  *)
(* do not go back in time. The two history variables watch the steps of    *)
(* TieredCache and constrain none of them.                                 *)
(***************************************************************************)
EXTENDS TieredCache, FiniteSetsExt

VARIABLES newest,   \* newest[k]: the latest snapshot of k any Get has handed out
          floor     \* floor[r]: newest of its key when r called Get

historyVars == <<vars, newest, floor>>

HInit ==
    /\ Init
    /\ newest = [k \in Keys |-> NoVal]
    /\ floor = [r \in Requests |-> NoVal]

HNext ==
    /\ Next
    /\ newest' = [k \in Keys |->
           Max({newest[k]} \cup {val'[r] : r \in {q \in Requests : pc'[q] = "done" /\ key'[q] = k}})]
    /\ floor' = [r \in Requests |->
           CASE pc'[r] = "idle" -> NoVal
             [] pc[r] = "idle" /\ pc'[r] # "idle" -> newest[key'[r]]
             [] OTHER -> floor[r]]

HSpec == HInit /\ [][HNext]_historyVars

\* A Get that begins after another one has returned never hands out an older
\* snapshot: a client that polls does not see the book go back in time. One
\* process with a reliable Redis guarantees it, restarts included, because a fill
\* stores into Redis before it stores into memory and singleflight orders the
\* fills; the README says what breaks it.
MonotonicReads == \A r \in Requests : pc[r] = "done" => val[r] >= floor[r]
=============================================================================
