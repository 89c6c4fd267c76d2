----------------------- MODULE TieredCacheRefinement -----------------------
(***************************************************************************)
(* TieredCache implements BoundedReads: two levels, flights, Redis and     *)
(* processes that die look to their callers like one store that may lag    *)
(* behind the database by StaleBound.                                      *)
(***************************************************************************)
EXTENDS TieredCacheProofs

----------------------------------------------------------------------------
(* Keys *)

\* Every snapshot is filed under the key it answers, and whoever has one has that of
\* the key it asked for.
Filed ==
    /\ \A i \in Instances, k \in Keys : l1[i][k] # Absent => l1[i][k].of = k
    /\ \A k \in Keys : l2[k] # Absent => l2[k].of = k
    /\ \A r \in Requests : pc[r] \in {"set", "store", "finish", "done"} => subject[r] = key[r]

LEMMA InitFiled == Init => Filed
  BY DEF Init, Filed

\* A flight is shared by those who asked for its key, and an entry is found under it.
LEMMA NextFiled ==
    ASSUME TypeOK, KeyKnown, Filed, [Next]_vars
    PROVE  Filed'
<1> USE DEF Filed
<1>0. /\ \A r \in Requests : pc[r] # "idle" => key[r] \in Keys
      /\ \A r \in Requests : Host[r] \in Instances
      /\ pc \in [Requests -> Busy \cup {"idle", "done", "failed"}]
      /\ key \in [Requests -> Keys \cup {NoKey}]
      /\ subject \in [Requests -> Keys \cup {NoKey}]
      /\ l1 \in [Instances -> [Keys -> Entry]]
      /\ l2 \in [Keys -> Entry]
  BY CacheAssumption DEF TypeOK, KeyKnown
<1>1. ASSUME NEW r \in Requests, Lead(r) \/ Join(r) \/ CheckMiss(r) \/ RedisMiss(r)
      PROVE  Filed'
  BY <1>0, <1>1 DEF Lead, Join, CheckMiss, RedisMiss
<1>2. ASSUME NEW r \in Requests, CheckHit(r) PROVE Filed'
  BY <1>0, <1>2, FreshIsThere DEF CheckHit
<1>3. ASSUME NEW r \in Requests, RedisHit(r) PROVE Filed'
  BY <1>0, <1>3, FreshIsThere DEF RedisHit
<1>4. ASSUME NEW r \in Requests, LoadOk(r) PROVE Filed'
  BY <1>0, <1>4 DEF LoadOk
<1>5. ASSUME NEW r \in Requests, LoadFails(r) PROVE Filed'
  BY <1>0, <1>5 DEF LoadFails
<1>6. ASSUME NEW r \in Requests, RedisSet(r) PROVE Filed'
  BY <1>0, <1>6 DEF RedisSet
<1>7. ASSUME NEW r \in Requests, RedisSetFails(r) PROVE Filed'
  BY <1>0, <1>7 DEF RedisSetFails
<1>8. ASSUME NEW r \in Requests, SetL1(r) PROVE Filed'
  BY <1>0, <1>8 DEF SetL1
<1>9. ASSUME NEW r \in Requests, Finish(r) PROVE Filed'
  BY <1>0, <1>9 DEF Finish, Party
<1>10. ASSUME NEW r \in Requests, Return(r) PROVE Filed'
  BY <1>0, <1>10 DEF Return
<1>11. ASSUME NEW r \in Requests, NEW k \in Keys, GetHit(r, k) PROVE Filed'
  BY <1>0, <1>11, FreshIsThere DEF GetHit
<1>12. ASSUME NEW r \in Requests, NEW k \in Keys, GetMiss(r, k) PROVE Filed'
  BY <1>0, <1>12 DEF GetMiss
<1>13. ASSUME NEW i \in Instances, Cleanup(i) PROVE Filed'
  <2>1. ASSUME NEW j \in Instances, NEW k \in Keys
        PROVE  l1'[j][k] \in {l1[j][k], Absent}
    <3>1. CASE j = i
      BY <1>0, <1>13, <3>1 DEF Cleanup
    <3>2. CASE j # i
      BY <1>0, <1>13, <3>2 DEF Cleanup
    <3> QED
      BY <3>1, <3>2
  <2>2. UNCHANGED <<l2, pc, key, subject>>
    BY <1>13 DEF Cleanup
  <2> QED
    BY <2>1, <2>2
<1>14. ASSUME NEW i \in Instances, Close(i) PROVE Filed'
  BY <1>14 DEF Close
<1>15. ASSUME NEW i \in Instances, Restart(i) PROVE Filed'
  BY <1>0, <1>15 DEF Restart
<1>16. CASE Tick
  BY <1>0, <1>16 DEF Tick
<1>17. CASE UNCHANGED vars
  BY <1>17 DEF vars
<1> QED
  BY <1>1, <1>2, <1>3, <1>4, <1>5, <1>6, <1>7, <1>8, <1>9, <1>10, <1>11, <1>12, <1>13, <1>14,
     <1>15, <1>16, <1>17 DEF Next, Step

LEMMA FiledAlways == Spec => [](IInv /\ Dated /\ Filed)
<1>1. IInv /\ Filed /\ [Next]_vars => Filed'
  BY NextFiled DEF IInv
<1>2. Init => Filed
  BY InitFiled
<1> QED
  BY <1>1, <1>2, DatedAlways, PTL DEF Spec

----------------------------------------------------------------------------
(* Steps *)

\* What a step of BoundedReads lets one caller do.
Moves(r) ==
    \/ Promise!Stays(r) \/ Promise!Calls(r) \/ Promise!IsAnswered(r)
    \/ Promise!IsRefused(r) \/ Promise!IsForgotten(r)

\* The view of a caller, by where its goroutine is.
Views ==
    \A r \in Requests :
        /\ pc[r] = "idle" => Phase[r] = "idle" /\ Answer[r] = Nothing
        /\ pc[r] = "done" =>
              /\ Phase[r] = "answered"
              /\ Answer[r].of = subject[r] /\ Answer[r].at = val[r]
        /\ pc[r] = "failed" => Phase[r] = "refused" /\ Answer[r] = Nothing
        /\ pc[r] \in Busy => Phase[r] = "calling" /\ Answer[r] = Nothing

LEMMA ViewsHold == TypeOK => Views
  BY DEF Views, Phase, Answer, Busy, Filling, TypeOK

LEMMA ViewsHoldNext == TypeOK' => Views'
  BY ViewsHold, PTL

\* Everything but the clock stays within its types in the abstract state, too.
ViewsTyped ==
    /\ Phase \in [Requests -> Promise!Phases]
    /\ key \in [Requests -> Keys \cup {NoKey}]
    /\ Answer \in [Requests -> Promise!Snapshot \cup {Nothing}]

LEMMA ViewsKeepTypes == TypeOK /\ KeyKnown /\ Filed => ViewsTyped
<1> SUFFICES ASSUME TypeOK, KeyKnown, Filed
             PROVE  ViewsTyped
  OBVIOUS
<1>1. ASSUME NEW r \in Requests
      PROVE  Phase[r] \in Promise!Phases
  BY DEF Phase, Promise!Phases
<1>2. ASSUME NEW r \in Requests
      PROVE  Answer[r] \in Promise!Snapshot \cup {Nothing}
  <2>1. CASE pc[r] = "done"
    <3>1. subject[r] \in Keys /\ val[r] \in Int
      BY <2>1, CacheAssumption DEF TypeOK, KeyKnown, Filed, Moment, NoVal
    <3> QED
      BY <2>1, <3>1 DEF Answer, Promise!Snapshot
  <2>2. CASE pc[r] # "done"
    BY <2>2 DEF Answer
  <2> QED
    BY <2>1, <2>2
<1> QED
  BY <1>1, <1>2 DEF ViewsTyped, Phase, Answer, TypeOK

LEMMA ViewsKeepTypesNext == TypeOK' /\ KeyKnown' /\ Filed' => ViewsTyped'
  BY ViewsKeepTypes, PTL

\* Who neither gets a result nor is dropped is where it was, as far as its caller can see.
LEMMA NothingSeen ==
    ASSUME TypeOK, TypeOK', NEW r \in Requests,
           \/ UNCHANGED <<pc[r], key[r], val[r], subject[r]>>
           \/ pc[r] \in Busy /\ pc'[r] \in Busy /\ UNCHANGED key[r]
    PROVE  Promise!Stays(r)
<1>1. CASE UNCHANGED <<pc[r], key[r], val[r], subject[r]>>
  BY <1>1 DEF Promise!Stays, Phase, Answer
<1>2. CASE pc[r] \in Busy /\ pc'[r] \in Busy /\ UNCHANGED key[r]
  BY <1>2, ViewsHold, ViewsHoldNext DEF Promise!Stays, Views
<1> QED
  BY <1>1, <1>2

\* Every step but the clock's moves each caller in a way that BoundedReads allows.
LEMMA StepMoves ==
    ASSUME IInv, IInv', Dated, Dated', Filed, Filed', Next, ~Tick
    PROVE  UNCHANGED now /\ \A r \in Requests : Moves(r)
<1>0. /\ TypeOK /\ TypeOK' /\ Views /\ Views' /\ KeyKnown
      /\ pc \in [Requests -> Busy \cup {"idle", "done", "failed"}]
      /\ key \in [Requests -> Keys \cup {NoKey}]
      /\ val \in [Requests -> Moment \cup {NoVal}]
      /\ subject \in [Requests -> Keys \cup {NoKey}]
      /\ now \in Nat
  BY CacheAssumption, ViewsHold, ViewsHoldNext DEF IInv, TypeOK, Moment
<1>1. ASSUME NEW q \in Requests, NEW r \in Requests, pc[q] # "done", pc'[q] = "done",
             UNCHANGED now,
             \/ pc[q] \in Busy /\ key'[q] = key[q]
             \/ pc[q] = "idle" /\ key'[q] \in Keys
      PROVE  Moves(q)
  <2>1. val'[q] \in 0..now /\ now - val'[q] <= StaleBound
    BY <1>1, HandedOutYoung DEF Dated
  <2>2. StaleBound \in Int /\ val'[q] \in Int
    BY <2>1, CacheAssumption, <1>0 DEF StaleBound
  <2>3. val'[q] >= 0 /\ now - StaleBound <= val'[q] /\ val'[q] <= now
    BY <1>0, <2>1, <2>2
  <2>4. subject'[q] = key'[q]
    BY <1>1 DEF Filed
  <2>5. Promise!IsAnswered(q)
    BY <1>0, <1>1, <2>3, <2>4 DEF Promise!IsAnswered, Views
  <2> QED
    BY <2>5 DEF Moves
<1>2. ASSUME NEW q \in Requests,
             \/ UNCHANGED <<pc[q], key[q], val[q], subject[q]>>
             \/ pc[q] \in Busy /\ pc'[q] \in Busy /\ UNCHANGED key[q]
      PROVE  Moves(q)
  BY <1>0, <1>2, NothingSeen DEF Moves
<1>3. ASSUME NEW q \in Requests, pc'[q] = "idle", key'[q] = NoKey
      PROVE  Moves(q)
  BY <1>0, <1>3 DEF Moves, Promise!IsForgotten, Views
<1>4. ASSUME NEW r \in Requests,
             \/ Lead(r) \/ Join(r) \/ CheckHit(r) \/ CheckMiss(r) \/ RedisHit(r) \/ RedisMiss(r)
             \/ LoadOk(r) \/ RedisSet(r) \/ RedisSetFails(r) \/ SetL1(r)
      PROVE  UNCHANGED now /\ \A q \in Requests : Moves(q)
  <2>1. /\ UNCHANGED <<now, key>>
        /\ pc[r] \in Busy /\ pc'[r] \in Busy
        /\ \A q \in Requests \ {r} : UNCHANGED <<pc[q], val[q], subject[q]>>
    BY <1>0, <1>4 DEF Lead, Join, CheckHit, CheckMiss, RedisHit, RedisMiss, LoadOk, RedisSet,
       RedisSetFails, SetL1, Busy, Filling
  <2> QED
    BY <1>2, <2>1
<1>5. ASSUME NEW r \in Requests, LoadFails(r)
      PROVE  UNCHANGED now /\ \A q \in Requests : Moves(q)
  <2>1. /\ UNCHANGED <<now, key, val, subject>>
        /\ \A q \in Requests : pc'[q] = IF q \in Party(r) THEN "failed" ELSE pc[q]
        /\ \A q \in Party(r) : pc[q] \in Busy
    BY <1>0, <1>5 DEF LoadFails, Party, Busy, Filling
  <2>2. ASSUME NEW q \in Requests, q \in Party(r)
        PROVE  Moves(q)
    BY <1>0, <2>1, <2>2 DEF Moves, Promise!IsRefused, Views
  <2>3. ASSUME NEW q \in Requests, q \notin Party(r)
        PROVE  Moves(q)
    BY <1>2, <2>1, <2>3
  <2> QED
    BY <2>1, <2>2, <2>3
<1>6. ASSUME NEW r \in Requests, Finish(r)
      PROVE  UNCHANGED now /\ \A q \in Requests : Moves(q)
  <2>1. /\ UNCHANGED <<now, key>>
        /\ \A q \in Requests : pc'[q] = IF q \in Party(r) THEN "done" ELSE pc[q]
        /\ \A q \in Requests : q \notin Party(r) => UNCHANGED <<val[q], subject[q]>>
        /\ \A q \in Party(r) : pc[q] \in Busy /\ pc[q] # "done"
    BY <1>0, <1>6 DEF Finish, Party, Busy, Filling
  <2>2. ASSUME NEW q \in Requests, q \in Party(r)
        PROVE  Moves(q)
    BY <1>1, <2>1, <2>2
  <2>3. ASSUME NEW q \in Requests, q \notin Party(r)
        PROVE  Moves(q)
    BY <1>2, <2>1, <2>3
  <2> QED
    BY <2>1, <2>2, <2>3
<1>7. ASSUME NEW r \in Requests, Return(r)
      PROVE  UNCHANGED now /\ \A q \in Requests : Moves(q)
  <2>1. /\ UNCHANGED now /\ pc'[r] = "idle" /\ key'[r] = NoKey
        /\ \A q \in Requests \ {r} : UNCHANGED <<pc[q], key[q], val[q], subject[q]>>
    BY <1>0, <1>7 DEF Return
  <2> QED
    BY <1>2, <1>3, <2>1
<1>8. ASSUME NEW r \in Requests, NEW k \in Keys, GetHit(r, k)
      PROVE  UNCHANGED now /\ \A q \in Requests : Moves(q)
  <2>1. /\ UNCHANGED now /\ pc[r] = "idle" /\ pc'[r] = "done" /\ key'[r] \in Keys
        /\ \A q \in Requests \ {r} : UNCHANGED <<pc[q], key[q], val[q], subject[q]>>
    BY <1>0, <1>8 DEF GetHit
  <2> QED
    BY <1>1, <1>2, <2>1
<1>9. ASSUME NEW r \in Requests, NEW k \in Keys, GetMiss(r, k)
      PROVE  UNCHANGED now /\ \A q \in Requests : Moves(q)
  <2>1. /\ UNCHANGED <<now, val, subject>> /\ pc[r] = "idle" /\ pc'[r] \in Busy /\ key'[r] \in Keys
        /\ \A q \in Requests \ {r} : UNCHANGED <<pc[q], key[q]>>
    BY <1>0, <1>9 DEF GetMiss, Busy
  <2>2. Promise!Calls(r)
    BY <1>0, <2>1 DEF Promise!Calls, Views
  <2> QED
    BY <1>2, <2>1, <2>2 DEF Moves
<1>10. ASSUME NEW i \in Instances, Cleanup(i) \/ Close(i)
       PROVE  UNCHANGED now /\ \A q \in Requests : Moves(q)
  BY <1>2, <1>10 DEF Cleanup, Close
<1>11. ASSUME NEW i \in Instances, Restart(i)
       PROVE  UNCHANGED now /\ \A q \in Requests : Moves(q)
  <2>1. /\ UNCHANGED now
        /\ \A q \in Requests : Host[q] = i => pc'[q] = "idle" /\ key'[q] = NoKey
        /\ \A q \in Requests : Host[q] # i => UNCHANGED <<pc[q], key[q], val[q], subject[q]>>
    BY <1>11 DEF Restart
  <2> QED
    BY <1>2, <1>3, <2>1
<1> QED
  BY <1>4, <1>5, <1>6, <1>7, <1>8, <1>9, <1>10, <1>11 DEF Next, Step

LEMMA Simulates ==
    ASSUME IInv, IInv', Dated, Dated', Filed, Filed', [Next]_vars
    PROVE  [Promise!Serve \/ Promise!Tick]_(Promise!vars)
<1>1. TypeOK /\ TypeOK' /\ KeyKnown'
  BY DEF IInv
<1>2. CASE Next /\ ~Tick
  <2>1. UNCHANGED now /\ \A r \in Requests : Moves(r)
    BY <1>2, StepMoves
  <2>2. ViewsTyped'
    BY <1>1, ViewsKeepTypesNext
  <2>3. Promise!Serve
    BY <2>1, <2>2 DEF Moves, ViewsTyped, Promise!Serve
  <2> QED
    BY <2>3
<1>3. CASE Tick
  <2>1. now' = now + 1 /\ UNCHANGED <<pc, key, val, subject>>
    BY <1>3 DEF Tick
  <2>2. UNCHANGED <<Phase, key, Answer>>
    BY <2>1 DEF Phase, Answer
  <2>3. Promise!Tick
    BY <2>1, <2>2 DEF Promise!Tick
  <2> QED
    BY <2>3
<1>4. CASE UNCHANGED vars
  <2>1. UNCHANGED <<now, pc, key, val, subject>>
    BY <1>4 DEF vars
  <2>2. UNCHANGED <<now, Phase, key, Answer>>
    BY <2>1 DEF Phase, Answer
  <2> QED
    BY <2>2 DEF Promise!vars
<1> QED
  BY <1>2, <1>3, <1>4

LEMMA StartsRight == Init => Promise!Init
<1> SUFFICES ASSUME Init
             PROVE  Promise!Init
  OBVIOUS
<1>1. now = 0 /\ key = [r \in Requests |-> NoKey]
  BY DEF Init
<1>2. Phase = [r \in Requests |-> "idle"] /\ Answer = [r \in Requests |-> Nothing]
  BY DEF Init, Phase, Answer
<1> QED
  BY <1>1, <1>2 DEF Promise!Init

\* The detailed cache implements the abstract one: whatever levels, flights, Redis and
\* dying processes do, a caller gets its own key's snapshot, one that the database really
\* gave at most StaleBound ago, or an error, or nothing.
THEOREM Implements == Spec => KeepsPromise
<1>1. Init => Promise!Init
  BY StartsRight
<1>2. (IInv /\ IInv' /\ Dated /\ Dated' /\ Filed /\ Filed') /\ [Next]_vars
         => [Promise!Serve \/ Promise!Tick]_(Promise!vars)
  BY Simulates
<1> QED
  BY <1>1, <1>2, FiledAlways, PTL DEF Spec, KeepsPromise, Promise!Spec
=============================================================================
