------------------------- MODULE TieredCacheProofs -------------------------
(***************************************************************************)
(* Theorems about TieredCache, for every number of goroutines, processes   *)
(* and keys and for every lifetime.                                        *)
(***************************************************************************)
EXTENDS TieredCacheHistory, TLAPS

\* A goroutine in Get knows its key.
KeyKnown == \A r \in Requests : pc[r] # "idle" => key[r] \in Keys

\* Whoever a flight is registered for is executing it.
FlightHeld ==
    \A i \in Instances, k \in Keys :
        flight[i][k] # NoRequest =>
            /\ Host[flight[i][k]] = i
            /\ key[flight[i][k]] = k
            /\ pc[flight[i][k]] \in Filling

\* A flight in progress is within its deadline.
Timely ==
    \A r \in Requests :
        pc[r] \in Filling => now <= deadline[r] /\ deadline[r] <= now + MaxFill

\* The age of a snapshot, by where it is: in Redis, in memory, in a flight.
YoungL2 == \A k \in Keys : l2[k].readAt >= l2[k].expiresAt - L2TTL - MaxFill
YoungL1 ==
    \A i \in Instances, k \in Keys :
        l1[i][k].readAt >= l1[i][k].expiresAt - L1TTL - L2TTL - 2 * MaxFill
YoungVal ==
    \A r \in Requests :
        /\ pc[r] = "set" => val[r] >= deadline[r] - MaxFill
        /\ pc[r] = "store" => val[r] >= deadline[r] - L2TTL - 2 * MaxFill
        /\ pc[r] = "finish" => val[r] >= deadline[r] - StaleBound

IInv ==
    /\ TypeOK
    /\ KeyKnown
    /\ SingleFlight
    /\ FlightHeld
    /\ Timely
    /\ YoungL2 /\ YoungL1 /\ YoungVal
    /\ LoadsOnlyWhenCold

----------------------------------------------------------------------------
LEMMA InitIInv == Init => IInv
BY CacheAssumption
DEF Init, IInv, TypeOK, KeyKnown, SingleFlight, FlightHeld, Timely, YoungL2,
    YoungL1, YoungVal, LoadsOnlyWhenCold, Absent, NoVal, Moment, Entry, Busy,
    Filling

LEMMA NextTypeOK == TypeOK /\ KeyKnown /\ [Next]_vars => TypeOK'
<1> SUFFICES ASSUME TypeOK, KeyKnown, [Next]_vars PROVE TypeOK'
  OBVIOUS
<1> USE CacheAssumption DEF TypeOK, KeyKnown, Moment, Entry, Busy, Filling, NoVal, Absent
<1>1. ASSUME NEW r \in Requests, Lead(r) PROVE TypeOK'
  BY <1>1 DEF Lead
<1>2. ASSUME NEW r \in Requests, Join(r) PROVE TypeOK'
  BY <1>2 DEF Join
<1>3. ASSUME NEW r \in Requests, CheckHit(r) PROVE TypeOK'
  BY <1>3 DEF CheckHit
<1>4. ASSUME NEW r \in Requests, CheckMiss(r) PROVE TypeOK'
  BY <1>4 DEF CheckMiss
<1>5. ASSUME NEW r \in Requests, RedisHit(r) PROVE TypeOK'
  BY <1>5 DEF RedisHit
<1>6. ASSUME NEW r \in Requests, RedisMiss(r) PROVE TypeOK'
  BY <1>6 DEF RedisMiss
<1>7. ASSUME NEW r \in Requests, LoadOk(r) PROVE TypeOK'
  BY <1>7 DEF LoadOk
<1>8. ASSUME NEW r \in Requests, LoadFails(r) PROVE TypeOK'
  BY <1>8 DEF LoadFails, Party
<1>9. ASSUME NEW r \in Requests, RedisSet(r) PROVE TypeOK'
  BY <1>9 DEF RedisSet
<1>10. ASSUME NEW r \in Requests, RedisSetFails(r) PROVE TypeOK'
  BY <1>10 DEF RedisSetFails
<1>11. ASSUME NEW r \in Requests, SetL1(r) PROVE TypeOK'
  BY <1>11 DEF SetL1
<1>12. ASSUME NEW r \in Requests, Finish(r) PROVE TypeOK'
  BY <1>12 DEF Finish, Party
<1>13. ASSUME NEW r \in Requests, Return(r) PROVE TypeOK'
  BY <1>13 DEF Return
<1>14. ASSUME NEW r \in Requests, NEW k \in Keys, GetHit(r, k) PROVE TypeOK'
  BY <1>14 DEF GetHit
<1>15. ASSUME NEW r \in Requests, NEW k \in Keys, GetMiss(r, k) PROVE TypeOK'
  BY <1>15 DEF GetMiss
<1>16. ASSUME NEW i \in Instances, Cleanup(i) PROVE TypeOK'
  BY <1>16 DEF Cleanup
<1>17. ASSUME NEW i \in Instances, Close(i) PROVE TypeOK'
  BY <1>17 DEF Close
<1>18. ASSUME NEW i \in Instances, Restart(i) PROVE TypeOK'
  BY <1>18 DEF Restart
<1>19. CASE Tick
  BY <1>19 DEF Tick
<1>20. CASE UNCHANGED vars
  BY <1>20 DEF vars
<1> QED
  BY <1>1, <1>2, <1>3, <1>4, <1>5, <1>6, <1>7, <1>8, <1>9, <1>10, <1>11, <1>12, <1>13, <1>14, <1>15, <1>16, <1>17, <1>18, <1>19, <1>20 DEF Next, Step

\* Only Get chooses a key, and only Return and a restart forget it.
LEMMA NextKeyKnown ==
  TypeOK /\ KeyKnown /\ [Next]_vars => KeyKnown'
<1> SUFFICES ASSUME TypeOK, KeyKnown, [Next]_vars PROVE KeyKnown'
  OBVIOUS
<1> USE CacheAssumption DEF TypeOK, KeyKnown, Busy, Filling
<1>1. ASSUME NEW r \in Requests, Lead(r) PROVE KeyKnown'
  BY <1>1 DEF Lead
<1>2. ASSUME NEW r \in Requests, Join(r) PROVE KeyKnown'
  BY <1>2 DEF Join
<1>3. ASSUME NEW r \in Requests, CheckHit(r) PROVE KeyKnown'
  BY <1>3 DEF CheckHit
<1>4. ASSUME NEW r \in Requests, CheckMiss(r) PROVE KeyKnown'
  BY <1>4 DEF CheckMiss
<1>5. ASSUME NEW r \in Requests, RedisHit(r) PROVE KeyKnown'
  BY <1>5 DEF RedisHit
<1>6. ASSUME NEW r \in Requests, RedisMiss(r) PROVE KeyKnown'
  BY <1>6 DEF RedisMiss
<1>7. ASSUME NEW r \in Requests, LoadOk(r) PROVE KeyKnown'
  BY <1>7 DEF LoadOk
<1>8. ASSUME NEW r \in Requests, LoadFails(r) PROVE KeyKnown'
  BY <1>8 DEF LoadFails, Party
<1>9. ASSUME NEW r \in Requests, RedisSet(r) PROVE KeyKnown'
  BY <1>9 DEF RedisSet
<1>10. ASSUME NEW r \in Requests, RedisSetFails(r) PROVE KeyKnown'
  BY <1>10 DEF RedisSetFails
<1>11. ASSUME NEW r \in Requests, SetL1(r) PROVE KeyKnown'
  BY <1>11 DEF SetL1
<1>12. ASSUME NEW r \in Requests, Finish(r) PROVE KeyKnown'
  BY <1>12 DEF Finish, Party
<1>13. ASSUME NEW r \in Requests, Return(r) PROVE KeyKnown'
  BY <1>13 DEF Return
<1>14. ASSUME NEW r \in Requests, NEW k \in Keys, GetHit(r, k) PROVE KeyKnown'
  BY <1>14 DEF GetHit
<1>15. ASSUME NEW r \in Requests, NEW k \in Keys, GetMiss(r, k) PROVE KeyKnown'
  BY <1>15 DEF GetMiss
<1>16. ASSUME NEW i \in Instances, Cleanup(i) PROVE KeyKnown'
  BY <1>16 DEF Cleanup
<1>17. ASSUME NEW i \in Instances, Close(i) PROVE KeyKnown'
  BY <1>17 DEF Close
<1>18. ASSUME NEW i \in Instances, Restart(i) PROVE KeyKnown'
  BY <1>18 DEF Restart
<1>19. CASE Tick
  BY <1>19 DEF Tick
<1>20. CASE UNCHANGED vars
  BY <1>20 DEF vars
<1> QED
  BY <1>1, <1>2, <1>3, <1>4, <1>5, <1>6, <1>7, <1>8, <1>9, <1>10, <1>11, <1>12, <1>13, <1>14, <1>15, <1>16, <1>17, <1>18, <1>19, <1>20 DEF Next, Step

\* A flight is registered exactly while one goroutine executes it.
LEMMA NextFlights ==
  TypeOK /\ KeyKnown /\ SingleFlight /\ FlightHeld /\ [Next]_vars => (SingleFlight /\ FlightHeld)'
<1> SUFFICES ASSUME TypeOK, KeyKnown, SingleFlight, FlightHeld, [Next]_vars PROVE (SingleFlight /\ FlightHeld)'
  OBVIOUS
<1> USE CacheAssumption DEF TypeOK, KeyKnown, SingleFlight, FlightHeld, Busy, Filling
<1>1. ASSUME NEW r \in Requests, Lead(r) PROVE (SingleFlight /\ FlightHeld)'
  BY <1>1 DEF Lead
<1>2. ASSUME NEW r \in Requests, Join(r) PROVE (SingleFlight /\ FlightHeld)'
  BY <1>2 DEF Join
<1>3. ASSUME NEW r \in Requests, CheckHit(r) PROVE (SingleFlight /\ FlightHeld)'
  BY <1>3 DEF CheckHit
<1>4. ASSUME NEW r \in Requests, CheckMiss(r) PROVE (SingleFlight /\ FlightHeld)'
  BY <1>4 DEF CheckMiss
<1>5. ASSUME NEW r \in Requests, RedisHit(r) PROVE (SingleFlight /\ FlightHeld)'
  BY <1>5 DEF RedisHit
<1>6. ASSUME NEW r \in Requests, RedisMiss(r) PROVE (SingleFlight /\ FlightHeld)'
  BY <1>6 DEF RedisMiss
<1>7. ASSUME NEW r \in Requests, LoadOk(r) PROVE (SingleFlight /\ FlightHeld)'
  BY <1>7 DEF LoadOk
<1>8. ASSUME NEW r \in Requests, LoadFails(r) PROVE (SingleFlight /\ FlightHeld)'
  BY <1>8 DEF LoadFails, Party
<1>9. ASSUME NEW r \in Requests, RedisSet(r) PROVE (SingleFlight /\ FlightHeld)'
  BY <1>9 DEF RedisSet
<1>10. ASSUME NEW r \in Requests, RedisSetFails(r) PROVE (SingleFlight /\ FlightHeld)'
  BY <1>10 DEF RedisSetFails
<1>11. ASSUME NEW r \in Requests, SetL1(r) PROVE (SingleFlight /\ FlightHeld)'
  BY <1>11 DEF SetL1
<1>12. ASSUME NEW r \in Requests, Finish(r) PROVE (SingleFlight /\ FlightHeld)'
  BY <1>12 DEF Finish, Party
<1>13. ASSUME NEW r \in Requests, Return(r) PROVE (SingleFlight /\ FlightHeld)'
  BY <1>13 DEF Return
<1>14. ASSUME NEW r \in Requests, NEW k \in Keys, GetHit(r, k) PROVE (SingleFlight /\ FlightHeld)'
  BY <1>14 DEF GetHit
<1>15. ASSUME NEW r \in Requests, NEW k \in Keys, GetMiss(r, k) PROVE (SingleFlight /\ FlightHeld)'
  BY <1>15 DEF GetMiss
<1>16. ASSUME NEW i \in Instances, Cleanup(i) PROVE (SingleFlight /\ FlightHeld)'
  BY <1>16 DEF Cleanup
<1>17. ASSUME NEW i \in Instances, Close(i) PROVE (SingleFlight /\ FlightHeld)'
  BY <1>17 DEF Close
<1>18. ASSUME NEW i \in Instances, Restart(i) PROVE (SingleFlight /\ FlightHeld)'
  BY <1>18 DEF Restart
<1>19. CASE Tick
  BY <1>19 DEF Tick
<1>20. CASE UNCHANGED vars
  BY <1>20 DEF vars
<1> QED
  BY <1>1, <1>2, <1>3, <1>4, <1>5, <1>6, <1>7, <1>8, <1>9, <1>10, <1>11, <1>12, <1>13, <1>14, <1>15, <1>16, <1>17, <1>18, <1>19, <1>20 DEF Next, Step

\* The clock waits for flights at their deadline.
LEMMA NextTimely ==
  TypeOK /\ KeyKnown /\ Timely /\ [Next]_vars => Timely'
<1> SUFFICES ASSUME TypeOK, KeyKnown, Timely, [Next]_vars PROVE Timely'
  OBVIOUS
<1> USE CacheAssumption DEF TypeOK, KeyKnown, Timely, Busy, Filling, Moment
<1>1. ASSUME NEW r \in Requests, Lead(r) PROVE Timely'
  BY <1>1 DEF Lead
<1>2. ASSUME NEW r \in Requests, Join(r) PROVE Timely'
  BY <1>2 DEF Join
<1>3. ASSUME NEW r \in Requests, CheckHit(r) PROVE Timely'
  BY <1>3 DEF CheckHit
<1>4. ASSUME NEW r \in Requests, CheckMiss(r) PROVE Timely'
  BY <1>4 DEF CheckMiss
<1>5. ASSUME NEW r \in Requests, RedisHit(r) PROVE Timely'
  BY <1>5 DEF RedisHit
<1>6. ASSUME NEW r \in Requests, RedisMiss(r) PROVE Timely'
  BY <1>6 DEF RedisMiss
<1>7. ASSUME NEW r \in Requests, LoadOk(r) PROVE Timely'
  BY <1>7 DEF LoadOk
<1>8. ASSUME NEW r \in Requests, LoadFails(r) PROVE Timely'
  BY <1>8 DEF LoadFails, Party
<1>9. ASSUME NEW r \in Requests, RedisSet(r) PROVE Timely'
  BY <1>9 DEF RedisSet
<1>10. ASSUME NEW r \in Requests, RedisSetFails(r) PROVE Timely'
  BY <1>10 DEF RedisSetFails
<1>11. ASSUME NEW r \in Requests, SetL1(r) PROVE Timely'
  BY <1>11 DEF SetL1
<1>12. ASSUME NEW r \in Requests, Finish(r) PROVE Timely'
  BY <1>12 DEF Finish, Party
<1>13. ASSUME NEW r \in Requests, Return(r) PROVE Timely'
  BY <1>13 DEF Return
<1>14. ASSUME NEW r \in Requests, NEW k \in Keys, GetHit(r, k) PROVE Timely'
  BY <1>14 DEF GetHit
<1>15. ASSUME NEW r \in Requests, NEW k \in Keys, GetMiss(r, k) PROVE Timely'
  BY <1>15 DEF GetMiss
<1>16. ASSUME NEW i \in Instances, Cleanup(i) PROVE Timely'
  BY <1>16 DEF Cleanup
<1>17. ASSUME NEW i \in Instances, Close(i) PROVE Timely'
  BY <1>17 DEF Close
<1>18. ASSUME NEW i \in Instances, Restart(i) PROVE Timely'
  BY <1>18 DEF Restart
<1>19. CASE Tick
  BY <1>19 DEF Tick
<1>20. CASE UNCHANGED vars
  BY <1>20 DEF vars
<1> QED
  BY <1>1, <1>2, <1>3, <1>4, <1>5, <1>6, <1>7, <1>8, <1>9, <1>10, <1>11, <1>12, <1>13, <1>14, <1>15, <1>16, <1>17, <1>18, <1>19, <1>20 DEF Next, Step

\* A snapshot is older than its lease tells by the time spent in flights only.
LEMMA NextYoung ==
  TypeOK /\ KeyKnown /\ Timely /\ YoungL2 /\ YoungL1 /\ YoungVal /\ [Next]_vars => (YoungL2 /\ YoungL1 /\ YoungVal)'
<1> SUFFICES ASSUME TypeOK, KeyKnown, Timely, YoungL2, YoungL1, YoungVal, [Next]_vars PROVE (YoungL2 /\ YoungL1 /\ YoungVal)'
  OBVIOUS
<1>a. /\ now \in Int /\ L1TTL \in Int /\ L2TTL \in Int /\ MaxFill \in Int
      /\ 0 <= L1TTL /\ 0 <= L2TTL /\ 0 <= MaxFill
      /\ \A r \in Requests : val[r] \in Int /\ deadline[r] \in Int
      /\ \A k \in Keys : l2[k].readAt \in Int /\ l2[k].expiresAt \in Int
      /\ \A i \in Instances, k \in Keys :
            l1[i][k].readAt \in Int /\ l1[i][k].expiresAt \in Int
  BY CacheAssumption DEF TypeOK, Moment, Entry, NoVal
<1>b. \A r \in Requests : pc[r] # "idle" => key[r] \in Keys /\ Host[r] \in Instances
  BY CacheAssumption DEF KeyKnown
<1> USE CacheAssumption DEF TypeOK, Timely, YoungL2, YoungL1, YoungVal, Filling, NoVal, Absent, StaleBound
<1>1. ASSUME NEW r \in Requests, Lead(r) PROVE (YoungL2 /\ YoungL1 /\ YoungVal)'
  BY <1>1 DEF Lead
<1>2. ASSUME NEW r \in Requests, Join(r) PROVE (YoungL2 /\ YoungL1 /\ YoungVal)'
  BY <1>2 DEF Join
<1>3. ASSUME NEW r \in Requests, CheckHit(r) PROVE (YoungL2 /\ YoungL1 /\ YoungVal)'
  <2>1. YoungL2' /\ YoungL1'
    BY <1>3 DEF CheckHit
  <2>2. l1[Host[r]][key[r]].readAt >= deadline[r] - StaleBound
    BY <1>a, <1>b, <1>3 DEF CheckHit, FreshL1
  <2>3. YoungVal'
    BY <1>3, <2>2 DEF CheckHit
  <2> QED
    BY <2>1, <2>3
<1>4. ASSUME NEW r \in Requests, CheckMiss(r) PROVE (YoungL2 /\ YoungL1 /\ YoungVal)'
  BY <1>4 DEF CheckMiss
<1>5. ASSUME NEW r \in Requests, RedisHit(r) PROVE (YoungL2 /\ YoungL1 /\ YoungVal)'
  <2>1. YoungL2' /\ YoungL1'
    BY <1>5 DEF RedisHit
  <2>2. l2[key[r]].readAt >= deadline[r] - L2TTL - 2 * MaxFill
    BY <1>a, <1>b, <1>5 DEF RedisHit, FreshL2
  <2>3. YoungVal'
    BY <1>5, <2>2 DEF RedisHit
  <2> QED
    BY <2>1, <2>3
<1>6. ASSUME NEW r \in Requests, RedisMiss(r) PROVE (YoungL2 /\ YoungL1 /\ YoungVal)'
  BY <1>6 DEF RedisMiss
<1>7. ASSUME NEW r \in Requests, LoadOk(r) PROVE (YoungL2 /\ YoungL1 /\ YoungVal)'
  BY <1>a, <1>7 DEF LoadOk
<1>8. ASSUME NEW r \in Requests, LoadFails(r) PROVE (YoungL2 /\ YoungL1 /\ YoungVal)'
  BY <1>8 DEF LoadFails, Party
<1>9. ASSUME NEW r \in Requests, RedisSet(r) PROVE (YoungL2 /\ YoungL1 /\ YoungVal)'
  <2>1. val[r] >= now + L2TTL - L2TTL - MaxFill
    BY <1>a, <1>9 DEF RedisSet
  <2>2. ASSUME NEW k \in Keys
        PROVE l2'[k].readAt >= l2'[k].expiresAt - L2TTL - MaxFill
    <3>1. CASE k = key[r]
      <4>1. l2'[k].readAt = val[r] /\ l2'[k].expiresAt = now + L2TTL
        BY <1>9, <3>1 DEF RedisSet
      <4> QED
        BY <1>a, <4>1, <2>1
    <3>2. CASE k # key[r]
      BY <1>9, <3>2 DEF RedisSet
    <3> QED
      BY <3>1, <3>2
  <2>3. val[r] >= deadline[r] - L2TTL - 2 * MaxFill
    BY <1>a, <1>9 DEF RedisSet
  <2>4. YoungVal'
    BY <1>9, <2>3 DEF RedisSet
  <2>5. YoungL1'
    BY <1>9 DEF RedisSet
  <2> QED
    BY <2>2, <2>4, <2>5
<1>10. ASSUME NEW r \in Requests, RedisSetFails(r) PROVE (YoungL2 /\ YoungL1 /\ YoungVal)'
  <2>1. val[r] >= deadline[r] - L2TTL - 2 * MaxFill
    BY <1>a, <1>10 DEF RedisSetFails
  <2>2. YoungVal'
    BY <1>10, <2>1 DEF RedisSetFails
  <2>3. YoungL2' /\ YoungL1'
    BY <1>10 DEF RedisSetFails
  <2> QED
    BY <2>2, <2>3
<1>11. ASSUME NEW r \in Requests, SetL1(r) PROVE (YoungL2 /\ YoungL1 /\ YoungVal)'
  <2>1. val[r] >= now + L1TTL - L1TTL - L2TTL - 2 * MaxFill
    BY <1>a, <1>11 DEF SetL1
  <2>2. ASSUME NEW i \in Instances, NEW k \in Keys
        PROVE l1'[i][k].readAt >= l1'[i][k].expiresAt - L1TTL - L2TTL - 2 * MaxFill
    <3>1. CASE i = Host[r] /\ k = key[r]
      <4>1. l1'[i][k].readAt = val[r] /\ l1'[i][k].expiresAt = now + L1TTL
        BY <1>11, <3>1 DEF SetL1
      <4> QED
        BY <1>a, <4>1, <2>1
    <3>2. CASE i # Host[r] \/ k # key[r]
      <4>1. l1'[i][k] = l1[i][k]
        BY <1>11, <3>2 DEF SetL1
      <4> QED
        BY <4>1
    <3> QED
      BY <3>1, <3>2
  <2>3. val[r] >= deadline[r] - StaleBound
    BY <1>a, <1>11 DEF SetL1
  <2>4. YoungVal'
    BY <1>11, <2>3 DEF SetL1
  <2>5. YoungL2'
    BY <1>11 DEF SetL1
  <2> QED
    BY <2>2, <2>4, <2>5
<1>12. ASSUME NEW r \in Requests, Finish(r) PROVE (YoungL2 /\ YoungL1 /\ YoungVal)'
  BY <1>12 DEF Finish, Party
<1>13. ASSUME NEW r \in Requests, Return(r) PROVE (YoungL2 /\ YoungL1 /\ YoungVal)'
  BY <1>13 DEF Return
<1>14. ASSUME NEW r \in Requests, NEW k \in Keys, GetHit(r, k) PROVE (YoungL2 /\ YoungL1 /\ YoungVal)'
  BY <1>14 DEF GetHit
<1>15. ASSUME NEW r \in Requests, NEW k \in Keys, GetMiss(r, k) PROVE (YoungL2 /\ YoungL1 /\ YoungVal)'
  BY <1>15 DEF GetMiss
<1>16. ASSUME NEW i \in Instances, Cleanup(i) PROVE (YoungL2 /\ YoungL1 /\ YoungVal)'
  BY <1>16 DEF Cleanup
<1>17. ASSUME NEW i \in Instances, Close(i) PROVE (YoungL2 /\ YoungL1 /\ YoungVal)'
  BY <1>17 DEF Close
<1>18. ASSUME NEW i \in Instances, Restart(i) PROVE (YoungL2 /\ YoungL1 /\ YoungVal)'
  BY <1>18 DEF Restart
<1>19. CASE Tick
  BY <1>19 DEF Tick
<1>20. CASE UNCHANGED vars
  BY <1>20 DEF vars
<1> QED
  BY <1>1, <1>2, <1>3, <1>4, <1>5, <1>6, <1>7, <1>8, <1>9, <1>10, <1>11, <1>12, <1>13, <1>14, <1>15, <1>16, <1>17, <1>18, <1>19, <1>20 DEF Next, Step

\* Nobody but the goroutine that executes a key's flight stores into L1.
LEMMA NextCold ==
  TypeOK /\ KeyKnown /\ SingleFlight /\ LoadsOnlyWhenCold /\ [Next]_vars => LoadsOnlyWhenCold'
<1> SUFFICES ASSUME TypeOK, KeyKnown, SingleFlight, LoadsOnlyWhenCold, [Next]_vars PROVE LoadsOnlyWhenCold'
  OBVIOUS
<1> USE CacheAssumption DEF TypeOK, KeyKnown, SingleFlight, LoadsOnlyWhenCold, FreshL1, Busy, Filling, Moment, Entry, NoVal, Absent
<1>1. ASSUME NEW r \in Requests, Lead(r) PROVE LoadsOnlyWhenCold'
  BY <1>1 DEF Lead
<1>2. ASSUME NEW r \in Requests, Join(r) PROVE LoadsOnlyWhenCold'
  BY <1>2 DEF Join
<1>3. ASSUME NEW r \in Requests, CheckHit(r) PROVE LoadsOnlyWhenCold'
  BY <1>3 DEF CheckHit
<1>4. ASSUME NEW r \in Requests, CheckMiss(r) PROVE LoadsOnlyWhenCold'
  BY <1>4 DEF CheckMiss
<1>5. ASSUME NEW r \in Requests, RedisHit(r) PROVE LoadsOnlyWhenCold'
  BY <1>5 DEF RedisHit
<1>6. ASSUME NEW r \in Requests, RedisMiss(r) PROVE LoadsOnlyWhenCold'
  BY <1>6 DEF RedisMiss
<1>7. ASSUME NEW r \in Requests, LoadOk(r) PROVE LoadsOnlyWhenCold'
  BY <1>7 DEF LoadOk
<1>8. ASSUME NEW r \in Requests, LoadFails(r) PROVE LoadsOnlyWhenCold'
  BY <1>8 DEF LoadFails, Party
<1>9. ASSUME NEW r \in Requests, RedisSet(r) PROVE LoadsOnlyWhenCold'
  BY <1>9 DEF RedisSet
<1>10. ASSUME NEW r \in Requests, RedisSetFails(r) PROVE LoadsOnlyWhenCold'
  BY <1>10 DEF RedisSetFails
<1>11. ASSUME NEW r \in Requests, SetL1(r) PROVE LoadsOnlyWhenCold'
  BY <1>11 DEF SetL1
<1>12. ASSUME NEW r \in Requests, Finish(r) PROVE LoadsOnlyWhenCold'
  BY <1>12 DEF Finish, Party
<1>13. ASSUME NEW r \in Requests, Return(r) PROVE LoadsOnlyWhenCold'
  BY <1>13 DEF Return
<1>14. ASSUME NEW r \in Requests, NEW k \in Keys, GetHit(r, k) PROVE LoadsOnlyWhenCold'
  BY <1>14 DEF GetHit
<1>15. ASSUME NEW r \in Requests, NEW k \in Keys, GetMiss(r, k) PROVE LoadsOnlyWhenCold'
  BY <1>15 DEF GetMiss
<1>16. ASSUME NEW i \in Instances, Cleanup(i) PROVE LoadsOnlyWhenCold'
  BY <1>16 DEF Cleanup
<1>17. ASSUME NEW i \in Instances, Close(i) PROVE LoadsOnlyWhenCold'
  BY <1>17 DEF Close
<1>18. ASSUME NEW i \in Instances, Restart(i) PROVE LoadsOnlyWhenCold'
  BY <1>18 DEF Restart
<1>19. CASE Tick
  BY <1>19 DEF Tick
<1>20. CASE UNCHANGED vars
  BY <1>20 DEF vars
<1> QED
  BY <1>1, <1>2, <1>3, <1>4, <1>5, <1>6, <1>7, <1>8, <1>9, <1>10, <1>11, <1>12, <1>13, <1>14, <1>15, <1>16, <1>17, <1>18, <1>19, <1>20 DEF Next, Step

\* The inductive invariant holds in every reachable state.
THEOREM Invariance == Spec => []IInv
<1>1. Init => IInv
  BY InitIInv
<1>2. IInv /\ [Next]_vars => IInv'
  BY NextTypeOK, NextKeyKnown, NextFlights, NextTimely, NextYoung, NextCold DEF IInv
<1> QED
  BY <1>1, <1>2, PTL DEF Spec

\* Type correctness of the cache's state.
THEOREM TypeCorrect == Spec => []TypeOK
<1>1. IInv => TypeOK
  BY DEF IInv
<1> QED
  BY <1>1, Invariance, PTL

\* No process queries the database, or stores a snapshot, for a key whose entry
\* in its own memory is live: at most one load per key and process per L1TTL.
THEOREM ColdLoads == Spec => []LoadsOnlyWhenCold
<1>1. IInv => LoadsOnlyWhenCold
  BY DEF IInv
<1> QED
  BY <1>1, Invariance, PTL

\* One goroutine per process fills a key; who waits, waits for a live flight.
THEOREM OneFlight == Spec => []SingleFlight
<1>1. IInv => SingleFlight
  BY DEF IInv
<1> QED
  BY <1>1, Invariance, PTL

\* Whoever hands a snapshot out has it from a live entry, or from a flight within its
\* deadline.
LEMMA HandedOutYoung ==
    ASSUME IInv, Next, NEW r \in Requests, pc[r] # "done", pc'[r] = "done"
    PROVE  now - val'[r] <= StaleBound
<1>a. /\ now \in Int /\ L1TTL \in Nat /\ L2TTL \in Nat /\ MaxFill \in Nat
      /\ \A q \in Requests : val[q] \in Int /\ deadline[q] \in Int
      /\ \A i \in Instances, k \in Keys :
            l1[i][k].readAt \in Int /\ l1[i][k].expiresAt \in Int
  BY CacheAssumption DEF IInv, TypeOK, Moment, Entry, NoVal
<1>b. PICK q \in Requests : (\E k \in Keys : GetHit(q, k)) \/ Finish(q)
  <2> USE DEF IInv, TypeOK
  <2>1. ~\E q \in Requests, k \in Keys : GetMiss(q, k)
    BY DEF GetMiss
  <2>2. ~\E q \in Requests :
            \/ Lead(q) \/ Join(q) \/ CheckHit(q) \/ CheckMiss(q) \/ RedisHit(q) \/ RedisMiss(q)
    BY DEF Lead, Join, CheckHit, CheckMiss, RedisHit, RedisMiss
  <2>3. ~\E q \in Requests :
            \/ LoadOk(q) \/ LoadFails(q) \/ RedisSet(q) \/ RedisSetFails(q) \/ SetL1(q)
            \/ Return(q)
    BY DEF LoadOk, LoadFails, RedisSet, RedisSetFails, SetL1, Return
  <2>4. ~(Tick \/ \E i \in Instances : Cleanup(i) \/ Close(i) \/ Restart(i))
    BY DEF Tick, Cleanup, Close, Restart
  <2> QED
    BY <2>1, <2>2, <2>3, <2>4 DEF Next, Step
<1>1. CASE \E k \in Keys : GetHit(q, k)
  <2>1. PICK k \in Keys : GetHit(q, k)
    BY <1>1
  <2>2. q = r /\ val'[r] = l1[Host[r]][k].readAt /\ now <= l1[Host[r]][k].expiresAt
    BY <2>1 DEF GetHit, FreshL1, IInv, TypeOK
  <2>3. l1[Host[r]][k].readAt >= l1[Host[r]][k].expiresAt - L1TTL - L2TTL - 2 * MaxFill
    BY CacheAssumption DEF IInv, YoungL1
  <2> QED
    BY <1>a, <2>2, <2>3, CacheAssumption DEF StaleBound
<1>2. CASE Finish(q)
  <2>1. val'[r] = val[q] /\ pc[q] = "finish"
    BY <1>2 DEF Finish, IInv, TypeOK
  <2>2. now <= deadline[q] /\ val[q] >= deadline[q] - StaleBound
    BY <2>1 DEF IInv, Timely, YoungVal, Filling
  <2> QED
    BY <1>a, <2>1, <2>2 DEF StaleBound
<1> QED
  BY <1>b, <1>1, <1>2

\* Every snapshot that Get hands out is at most StaleBound old. Only GetHit and
\* Finish hand one out.
THEOREM Fresh == Spec => BoundedStaleness
<1> DEFINE Handout == \A r \in Requests :
              pc[r] # "done" /\ pc'[r] = "done" => now - val'[r] <= StaleBound
<1>1. IInv /\ [Next]_vars => [Handout]_vars
  BY HandedOutYoung DEF vars
<1> QED
  BY <1>1, Invariance, PTL DEF Spec, BoundedStaleness

----------------------------------------------------------------------------
(* Time *)

\* Every snapshot in the cache has been read from the database by now.
Dated ==
    /\ \A i \in Instances, k \in Keys : l1[i][k] # Absent => l1[i][k].readAt \in 0..now
    /\ \A k \in Keys : l2[k] # Absent => l2[k].readAt \in 0..now
    /\ \A r \in Requests : pc[r] \in {"set", "store", "finish", "done"} => val[r] \in 0..now

LEMMA InitDated == Init => Dated
  BY DEF Init, Dated

\* An absent entry is not fresh.
LEMMA FreshIsThere ==
    ASSUME TypeOK, NEW i \in Instances, NEW k \in Keys
    PROVE  /\ FreshL1(i, k) => l1[i][k] # Absent
           /\ FreshL2(k) => l2[k] # Absent
<1>1. now \in Nat
  BY CacheAssumption DEF TypeOK, Moment
<1>2. Absent.expiresAt = -1
  BY DEF Absent, NoVal
<1> QED
  BY <1>1, <1>2 DEF FreshL1, FreshL2

LEMMA NextDated ==
    ASSUME TypeOK, KeyKnown, Dated, [Next]_vars
    PROVE  Dated'
<1> USE DEF Dated
<1>0. /\ now \in Nat /\ now \in 0..now
      /\ \A r \in Requests : pc[r] # "idle" => key[r] \in Keys
      /\ \A r \in Requests : Host[r] \in Instances
      /\ pc \in [Requests -> Busy \cup {"idle", "done", "failed"}]
      /\ val \in [Requests -> Moment \cup {NoVal}]
      /\ l1 \in [Instances -> [Keys -> Entry]]
      /\ l2 \in [Keys -> Entry]
  BY CacheAssumption DEF TypeOK, Moment, KeyKnown
<1>1. ASSUME NEW r \in Requests, Lead(r) \/ Join(r) \/ CheckMiss(r) \/ RedisMiss(r)
      PROVE  Dated'
  BY <1>0, <1>1 DEF Lead, Join, CheckMiss, RedisMiss
<1>2. ASSUME NEW r \in Requests, CheckHit(r) PROVE Dated'
  BY <1>0, <1>2, FreshIsThere DEF CheckHit
<1>3. ASSUME NEW r \in Requests, RedisHit(r) PROVE Dated'
  BY <1>0, <1>3, FreshIsThere DEF RedisHit
<1>4. ASSUME NEW r \in Requests, LoadOk(r) PROVE Dated'
  BY <1>0, <1>4 DEF LoadOk
<1>5. ASSUME NEW r \in Requests, LoadFails(r) PROVE Dated'
  BY <1>0, <1>5 DEF LoadFails
<1>6. ASSUME NEW r \in Requests, RedisSet(r) PROVE Dated'
  BY <1>0, <1>6 DEF RedisSet
<1>7. ASSUME NEW r \in Requests, RedisSetFails(r) PROVE Dated'
  BY <1>0, <1>7 DEF RedisSetFails
<1>8. ASSUME NEW r \in Requests, SetL1(r) PROVE Dated'
  BY <1>0, <1>8 DEF SetL1
<1>9. ASSUME NEW r \in Requests, Finish(r) PROVE Dated'
  BY <1>0, <1>9 DEF Finish
<1>10. ASSUME NEW r \in Requests, Return(r) PROVE Dated'
  BY <1>0, <1>10 DEF Return
<1>11. ASSUME NEW r \in Requests, NEW k \in Keys, GetHit(r, k) PROVE Dated'
  BY <1>0, <1>11, FreshIsThere DEF GetHit
<1>12. ASSUME NEW r \in Requests, NEW k \in Keys, GetMiss(r, k) PROVE Dated'
  BY <1>0, <1>12 DEF GetMiss
<1>13. ASSUME NEW i \in Instances, Cleanup(i) \/ Close(i) PROVE Dated'
  <2>1. ASSUME NEW j \in Instances, NEW k \in Keys
        PROVE  l1'[j][k] \in {l1[j][k], Absent}
    <3>1. CASE Close(i)
      BY <3>1 DEF Close
    <3>2. CASE Cleanup(i)
      <4>1. CASE j = i
        BY <1>0, <3>2, <4>1 DEF Cleanup
      <4>2. CASE j # i
        BY <1>0, <3>2, <4>2 DEF Cleanup
      <4> QED
        BY <4>1, <4>2
    <3> QED
      BY <1>13, <3>1, <3>2
  <2>2. UNCHANGED <<now, l2, pc, val>>
    BY <1>13 DEF Cleanup, Close
  <2> QED
    BY <2>1, <2>2
<1>14. ASSUME NEW i \in Instances, Restart(i) PROVE Dated'
  BY <1>0, <1>14 DEF Restart
<1>15. CASE Tick
  <2>1. \A v \in 0..now : v \in 0..now'
    BY <1>0, <1>15 DEF Tick
  <2> QED
    BY <1>0, <1>15, <2>1 DEF Tick
<1>16. CASE UNCHANGED vars
  BY <1>16 DEF vars
<1> QED
  BY <1>1, <1>2, <1>3, <1>4, <1>5, <1>6, <1>7, <1>8, <1>9, <1>10, <1>11, <1>12, <1>13, <1>14,
     <1>15, <1>16 DEF Next, Step

LEMMA DatedAlways == Spec => [](IInv /\ Dated)
<1>1. IInv /\ Dated /\ [Next]_vars => Dated'
  BY NextDated DEF IInv
<1>2. Init => Dated
  BY InitDated
<1> QED
  BY <1>1, <1>2, Invariance, PTL DEF Spec

----------------------------------------------------------------------------
(* Reads do not go back in time *)

\* What has been handed out, and what a Get under way has been promised.
Remembered ==
    /\ newest \in [Keys -> Int]
    /\ floor \in [Requests -> Int]
    /\ \A k \in Keys : newest[k] <= now
    /\ \A r \in Requests : pc[r] # "idle" => floor[r] <= newest[key[r]]
    /\ \A r \in Requests :
          pc[r] = "done" => floor[r] <= val[r] /\ val[r] <= newest[key[r]]

\* What can still be handed out of a level is as new as what has been, and
\* memory is not ahead of Redis.
InStock ==
    /\ \A k \in Keys : FreshL2(k) => newest[k] <= l2[k].readAt
    /\ \A i \in Instances, k \in Keys :
          FreshL1(i, k) =>
             /\ newest[k] <= l1[i][k].readAt
             /\ FreshL2(k) => l1[i][k].readAt <= l2[k].readAt

\* So is what a flight brings.
InFlight ==
    \A r \in Requests :
        /\ pc[r] \in {"set", "store", "finish"} => newest[key[r]] <= val[r]
        /\ pc[r] \in {"store", "finish"} /\ FreshL2(key[r]) => val[r] <= l2[key[r]].readAt
        /\ pc[r] = "finish" /\ FreshL1(Host[r], key[r]) => val[r] = l1[Host[r]][key[r]].readAt

\* One process with a Redis that does not fail and a client that is not closed.
Alone ==
    /\ \A i, j \in Instances : i = j
    /\ RedisFaults = FALSE
    /\ Stoppable = {}

HInv ==
    /\ IInv /\ Dated
    /\ closed = {}
    /\ Remembered /\ InStock /\ InFlight

LEMMA MaxIs ==
    ASSUME NEW S \in SUBSET Int, NEW m \in S, \A n \in S : n <= m
    PROVE  Max(S) = m
<1>1. \A x \in S : (\A y \in S : x >= y) => x = m
  OBVIOUS
<1>2. \A y \in S : m >= y
  OBVIOUS
<1> QED
  BY <1>1, <1>2 DEF Max

\* A step in which nobody is answered leaves the memory of the answers alone.
LEMMA NobodyAnswered ==
    ASSUME TypeOK, Remembered, HNext,
           \A r \in Requests :
              pc'[r] = "done" => pc[r] = "done" /\ key'[r] = key[r] /\ val'[r] = val[r]
    PROVE  newest' = newest
<1>1. ASSUME NEW k \in Keys PROVE newest'[k] = newest[k]
  <2> DEFINE S == {newest[k]} \cup {val'[r] : r \in {q \in Requests : pc'[q] = "done" /\ key'[q] = k}}
  <2>1. \A n \in S : n \in Int /\ n <= newest[k]
    BY DEF TypeOK, Moment, NoVal, Remembered
  <2>2. Max(S) = newest[k]
    BY <2>1, MaxIs DEF Remembered
  <2> QED
    BY <2>2 DEF HNext
<1> QED
  BY <1>1 DEF HNext, Remembered

\* An answer that is as new as the newest one becomes the newest one.
LEMMA Answered ==
    ASSUME TypeOK, Remembered, HNext, NEW k \in Keys, NEW v \in Int, newest[k] <= v,
           NEW q \in Requests, pc'[q] = "done", key'[q] = k, val'[q] = v,
           \A r \in Requests :
              pc'[r] = "done" =>
                 \/ key'[r] = k /\ val'[r] = v
                 \/ pc[r] = "done" /\ key'[r] = key[r] /\ val'[r] = val[r]
    PROVE  newest' = [newest EXCEPT ![k] = v]
<1>1. ASSUME NEW l \in Keys PROVE newest'[l] = IF l = k THEN v ELSE newest[l]
  <2> DEFINE S == {newest[l]} \cup {val'[r] : r \in {p \in Requests : pc'[p] = "done" /\ key'[p] = l}}
  <2>0. newest'[l] = Max(S)
    BY DEF HNext
  <2>1. CASE l = k
    <3>1. v \in S
      BY <2>1
    <3>2. \A n \in S : n \in Int /\ n <= v
      BY <2>1 DEF TypeOK, Moment, NoVal, Remembered
    <3> QED
      BY <2>0, <2>1, <3>1, <3>2, MaxIs
  <2>2. CASE l # k
    <3>1. \A n \in S : n \in Int /\ n <= newest[l]
      BY <2>2 DEF TypeOK, Moment, NoVal, Remembered
    <3> QED
      BY <2>0, <2>2, <3>1, MaxIs DEF Remembered
  <2> QED
    BY <2>1, <2>2
<1> QED
  BY <1>1 DEF HNext, Remembered

\* What a Get under way has been promised stays within what has been handed out.
LEMMA FloorsKept ==
    ASSUME TypeOK, Remembered, HNext, KeyKnown', newest' \in [Keys -> Int],
           \A k \in Keys : newest[k] <= newest'[k],
           \A r \in Requests : pc[r] # "idle" /\ pc'[r] # "idle" => key'[r] = key[r]
    PROVE  /\ floor' \in [Requests -> Int]
           /\ \A r \in Requests : pc'[r] # "idle" => floor'[r] <= newest'[key'[r]]
           /\ \A r \in Requests : pc[r] # "idle" /\ pc'[r] # "idle" => floor'[r] = floor[r]
           /\ \A r \in Requests : pc[r] = "idle" /\ pc'[r] # "idle" => floor'[r] = newest[key'[r]]
<1>1. ASSUME NEW r \in Requests
      PROVE  floor'[r] = CASE pc'[r] = "idle" -> NoVal
                           [] pc[r] = "idle" /\ pc'[r] # "idle" -> newest[key'[r]]
                           [] OTHER -> floor[r]
  BY DEF HNext
<1>2. ASSUME NEW r \in Requests, pc'[r] = "idle" PROVE floor'[r] = -1
  BY <1>1, <1>2 DEF NoVal
<1>3. ASSUME NEW r \in Requests, pc[r] = "idle", pc'[r] # "idle"
      PROVE  floor'[r] = newest[key'[r]] /\ key'[r] \in Keys
  BY <1>1, <1>3 DEF KeyKnown
<1>4. ASSUME NEW r \in Requests, pc[r] # "idle", pc'[r] # "idle"
      PROVE  floor'[r] = floor[r] /\ key'[r] = key[r] /\ key[r] \in Keys
  BY <1>1, <1>4 DEF KeyKnown
<1>5. ASSUME NEW r \in Requests PROVE floor'[r] \in Int
  BY <1>2, <1>3, <1>4 DEF Remembered
<1>6. floor' \in [Requests -> Int]
  BY <1>5 DEF HNext
<1>7. ASSUME NEW r \in Requests, pc'[r] # "idle" PROVE floor'[r] <= newest'[key'[r]]
  <2>1. CASE pc[r] = "idle"
    BY <1>3, <1>7, <2>1 DEF Remembered
  <2>2. CASE pc[r] # "idle"
    <3>1. floor[r] <= newest[key[r]] /\ newest[key[r]] <= newest'[key[r]]
      BY <1>4, <1>7, <2>2 DEF Remembered
    <3> QED
      BY <1>4, <1>5, <1>7, <2>2, <3>1 DEF Remembered
  <2> QED
    BY <2>1, <2>2
<1> QED
  BY <1>3, <1>4, <1>6, <1>7

\* Nobody hands out, stores or keeps for later what is older than an answer given.
LEMMA NextInOrder ==
    ASSUME Alone, HInv, HNext, (IInv /\ Dated)'
    PROVE  (closed = {} /\ Remembered /\ InStock /\ InFlight)'
<1> DEFINE Goal == (closed = {} /\ Remembered /\ InStock /\ InFlight)'
           Kept == \A r \in Requests :
                      pc'[r] = "done" => pc[r] = "done" /\ key'[r] = key[r] /\ val'[r] = val[r]
           Stays == \A r \in Requests : pc[r] # "idle" /\ pc'[r] # "idle" => key'[r] = key[r]
<1>a. /\ TypeOK /\ KeyKnown /\ SingleFlight /\ FlightHeld /\ LoadsOnlyWhenCold /\ Dated
      /\ Remembered /\ InStock /\ InFlight /\ closed = {}
      /\ TypeOK' /\ KeyKnown' /\ LoadsOnlyWhenCold' /\ Dated'
  BY DEF HInv, IInv
<1>b. /\ now \in Int /\ newest \in [Keys -> Int] /\ floor \in [Requests -> Int]
      /\ \A r \in Requests : val[r] \in Int /\ Host[r] \in Instances
      /\ \A r \in Requests : pc[r] # "idle" => key[r] \in Keys
      /\ \A k \in Keys : l2[k].readAt \in Int /\ l2[k].expiresAt \in Int
      /\ \A i \in Instances, k \in Keys : l1[i][k].readAt \in Int /\ l1[i][k].expiresAt \in Int
  BY <1>a, CacheAssumption DEF TypeOK, Moment, Entry, NoVal, KeyKnown, Remembered
<1>c. ASSUME Kept, Stays
      PROVE  newest' = newest /\ (now <= now' => Remembered')
  <2>1. newest' = newest
    BY <1>a, <1>c, NobodyAnswered
  <2>2. /\ floor' \in [Requests -> Int]
        /\ \A r \in Requests : pc'[r] # "idle" => floor'[r] <= newest'[key'[r]]
        /\ \A r \in Requests : pc[r] # "idle" /\ pc'[r] # "idle" => floor'[r] = floor[r]
    BY <1>a, <1>b, <1>c, <2>1, FloorsKept
  <2>3. \A r \in Requests :
           pc'[r] = "done" => floor'[r] <= val'[r] /\ val'[r] <= newest'[key'[r]]
    BY <1>a, <1>c, <2>1, <2>2 DEF Remembered
  <2>4. now <= now' => \A k \in Keys : newest'[k] <= now'
    BY <1>a, <1>b, <2>1 DEF Remembered, TypeOK, Moment
  <2> QED
    BY <1>b, <2>1, <2>2, <2>3, <2>4 DEF Remembered
\* One goroutine at a time executes the flight of a key.
<1>d. ASSUME NEW q \in Requests, NEW r \in Requests, pc[q] \in Filling, pc[r] \in Filling,
             key[q] = key[r]
      PROVE  q = r
  <2>1. Host[q] = Host[r]
    BY <1>b DEF Alone
  <2> QED
    BY <1>a, <1>d, <2>1 DEF SingleFlight
<1>1. ASSUME NEW r \in Requests, Lead(r) \/ Join(r) \/ CheckMiss(r) \/ RedisMiss(r) PROVE Goal
  <2>1. /\ UNCHANGED <<now, l1, l2, closed, key, val>>
        /\ \A q \in Requests : pc'[q] # pc[q] => pc[q] # "idle" /\ pc'[q] \in {"check", "waiting", "get", "load"}
    BY <1>a, <1>1 DEF Lead, Join, CheckMiss, RedisMiss, TypeOK
  <2>2. Kept /\ Stays
    BY <2>1
  <2> QED
    BY <1>a, <1>b, <1>c, <2>1, <2>2 DEF InStock, InFlight, FreshL1, FreshL2
<1>2. ASSUME NEW r \in Requests, CheckHit(r) PROVE Goal
  <2>1. Kept /\ Stays
    BY <1>a, <1>2 DEF CheckHit, TypeOK
  <2>2. newest' = newest /\ Remembered' /\ InStock' /\ closed' = {}
    BY <1>a, <1>b, <1>c, <1>2, <2>1 DEF CheckHit, InStock, FreshL1, FreshL2
  <2> QED
    BY <1>a, <1>b, <1>2, <2>2 DEF CheckHit, InStock, InFlight, FreshL1, FreshL2, TypeOK
<1>3. ASSUME NEW r \in Requests, RedisHit(r) PROVE Goal
  <2>1. Kept /\ Stays
    BY <1>a, <1>3 DEF RedisHit, TypeOK
  <2>2. newest' = newest /\ Remembered' /\ InStock' /\ closed' = {}
    BY <1>a, <1>b, <1>c, <1>3, <2>1 DEF RedisHit, InStock, FreshL1, FreshL2
  <2> QED
    BY <1>a, <1>b, <1>3, <2>2 DEF RedisHit, InStock, InFlight, FreshL1, FreshL2, TypeOK
<1>4. ASSUME NEW r \in Requests, LoadOk(r) PROVE Goal
  <2>1. Kept /\ Stays
    BY <1>a, <1>4 DEF LoadOk, TypeOK
  <2>2. newest' = newest /\ Remembered' /\ InStock' /\ closed' = {}
    BY <1>a, <1>b, <1>c, <1>4, <2>1 DEF LoadOk, InStock, FreshL1, FreshL2
  <2> QED
    BY <1>a, <1>b, <1>4, <2>2 DEF LoadOk, Remembered, InFlight, FreshL1, FreshL2, TypeOK
<1>5. ASSUME NEW r \in Requests, LoadFails(r) PROVE Goal
  <2>1. Kept /\ Stays
    BY <1>a, <1>5 DEF LoadFails, TypeOK
  <2>2. newest' = newest /\ Remembered' /\ InStock' /\ closed' = {}
    BY <1>a, <1>b, <1>c, <1>5, <2>1 DEF LoadFails, InStock, FreshL1, FreshL2
  <2> QED
    BY <1>a, <1>b, <1>5, <2>2 DEF LoadFails, InFlight, FreshL1, FreshL2, TypeOK
<1>6. ASSUME NEW r \in Requests, RedisSet(r) PROVE Goal
  <2>1. Kept /\ Stays
    BY <1>a, <1>6 DEF RedisSet, TypeOK
  <2>2. newest' = newest /\ Remembered' /\ closed' = {}
    BY <1>a, <1>b, <1>c, <1>6, <2>1 DEF RedisSet
  <2>3. key[r] \in Keys /\ newest[key[r]] <= val[r] /\ ~FreshL1(Host[r], key[r])
    BY <1>a, <1>b, <1>6 DEF RedisSet, InFlight, LoadsOnlyWhenCold
  <2>4. \A i \in Instances : i = Host[r]
    BY <1>b DEF Alone
  <2>5. l2'[key[r]].readAt = val[r] /\ \A k \in Keys : k # key[r] => l2'[k] = l2[k]
    BY <1>a, <1>6, <2>3 DEF RedisSet, TypeOK
  <2>6. /\ \A i \in Instances, k \in Keys : FreshL1(i, k)' <=> FreshL1(i, k)
        /\ \A k \in Keys : k # key[r] => (FreshL2(k)' <=> FreshL2(k))
        /\ UNCHANGED <<l1, key, val>>
    BY <1>6, <2>5 DEF RedisSet, FreshL1, FreshL2
  <2>7. InStock'
    BY <1>a, <2>2, <2>3, <2>4, <2>5, <2>6 DEF InStock
  <2>8. \A q \in Requests : q # r => pc'[q] = pc[q]
    BY <1>a, <1>6 DEF RedisSet, TypeOK
  <2>9. \A q \in Requests : q # r /\ pc[q] \in Filling => key[q] # key[r]
    BY <1>d, <1>6 DEF RedisSet, Filling
  <2>10. InFlight'
    <3> SUFFICES ASSUME NEW q \in Requests PROVE InFlight!(q)'
      BY DEF InFlight
    <3>1. CASE q = r
      BY <1>a, <1>b, <1>6, <2>2, <2>3, <2>5, <2>6, <3>1 DEF RedisSet, InFlight, TypeOK
    <3>2. CASE q # r
      <4>1. pc[q] \in Filling => key[q] \in Keys
        BY <1>b DEF Filling
      <4> QED
        BY <1>a, <1>b, <2>2, <2>5, <2>6, <2>8, <2>9, <3>2, <4>1 DEF InFlight, Filling
    <3> QED
      BY <3>1, <3>2
  <2> QED
    BY <2>2, <2>7, <2>10
<1>7. ASSUME NEW r \in Requests, RedisSetFails(r) PROVE Goal
  BY <1>a, <1>7 DEF RedisSetFails, Alone
<1>8. ASSUME NEW r \in Requests, SetL1(r) PROVE Goal
  <2>1. Kept /\ Stays
    BY <1>a, <1>8 DEF SetL1, TypeOK
  <2>2. newest' = newest /\ Remembered' /\ closed' = {}
    BY <1>a, <1>b, <1>c, <1>8, <2>1 DEF SetL1
  <2>3. /\ key[r] \in Keys /\ newest[key[r]] <= val[r]
        /\ FreshL2(key[r]) => val[r] <= l2[key[r]].readAt
    BY <1>a, <1>b, <1>8 DEF SetL1, InFlight
  <2>4. \A i \in Instances : i = Host[r]
    BY <1>b DEF Alone
  <2>5. /\ l1'[Host[r]][key[r]].readAt = val[r]
        /\ \A k \in Keys : k # key[r] => l1'[Host[r]][k] = l1[Host[r]][k]
    BY <1>a, <1>b, <1>8, <2>3 DEF SetL1, TypeOK
  <2>6. /\ \A k \in Keys : FreshL2(k)' <=> FreshL2(k)
        /\ \A k \in Keys : k # key[r] => (FreshL1(Host[r], k)' <=> FreshL1(Host[r], k))
        /\ UNCHANGED <<l2, key, val>>
    BY <1>8, <2>5 DEF SetL1, FreshL1, FreshL2
  <2>7. InStock'
    BY <1>a, <2>2, <2>3, <2>4, <2>5, <2>6 DEF InStock
  <2>8. \A q \in Requests : q # r => pc'[q] = pc[q]
    BY <1>a, <1>8 DEF SetL1, TypeOK
  <2>9. \A q \in Requests : q # r /\ pc[q] \in Filling => key[q] # key[r]
    BY <1>d, <1>8 DEF SetL1, Filling
  <2>10. InFlight'
    <3> SUFFICES ASSUME NEW q \in Requests PROVE InFlight!(q)'
      BY DEF InFlight
    <3>1. CASE q = r
      BY <1>a, <1>b, <1>8, <2>2, <2>3, <2>5, <2>6, <3>1 DEF SetL1, InFlight, TypeOK
    <3>2. CASE q # r
      <4>1. (pc[q] \in Filling => key[q] \in Keys) /\ Host[q] = Host[r]
        BY <1>b, <2>4 DEF Filling
      <4> QED
        BY <1>a, <1>b, <2>2, <2>5, <2>6, <2>8, <2>9, <3>2, <4>1 DEF InFlight, Filling
    <3> QED
      BY <3>1, <3>2
  <2> QED
    BY <2>2, <2>7, <2>10
<1>9. ASSUME NEW r \in Requests, Finish(r) PROVE Goal
  <2>0. pc[r] = "finish" /\ key[r] \in Keys /\ val[r] \in Int /\ newest[key[r]] <= val[r]
    BY <1>a, <1>b, <1>9 DEF Finish, InFlight
  <2>1. /\ UNCHANGED <<now, l1, l2, closed, key>>
        /\ \A q \in Requests :
              \/ key[q] = key[r] /\ pc[q] # "idle" /\ pc'[q] = "done" /\ val'[q] = val[r]
              \/ pc'[q] = pc[q] /\ val'[q] = val[q]
        /\ pc'[r] = "done" /\ val'[r] = val[r]
    BY <1>a, <1>9 DEF Finish, Party, TypeOK
  <2>2. newest' = [newest EXCEPT ![key[r]] = val[r]]
    BY <1>a, <2>0, <2>1, Answered
  <2>3. newest' \in [Keys -> Int] /\ \A k \in Keys : newest[k] <= newest'[k]
    BY <1>b, <2>0, <2>2
  <2>4. /\ floor' \in [Requests -> Int]
        /\ \A q \in Requests : pc'[q] # "idle" => floor'[q] <= newest'[key'[q]]
        /\ \A q \in Requests : pc[q] # "idle" /\ pc'[q] # "idle" => floor'[q] = floor[q]
    BY <1>a, <2>1, <2>3, FloorsKept
  <2>5. val[r] <= now /\ now' = now
    BY <1>a, <1>b, <2>0, <2>1 DEF Dated
  <2>6. Remembered'
    <3>1. \A k \in Keys : newest'[k] <= now'
      BY <1>a, <1>b, <2>2, <2>5 DEF Remembered
    <3>2. ASSUME NEW q \in Requests, pc'[q] = "done"
          PROVE  floor'[q] <= val'[q] /\ val'[q] <= newest'[key'[q]]
      <4>1. CASE key[q] = key[r] /\ pc[q] # "idle" /\ val'[q] = val[r]
        <5>1. floor'[q] = floor[q] /\ floor[q] <= newest[key[r]]
          BY <1>a, <2>4, <3>2, <4>1 DEF Remembered
        <5>2. newest'[key'[q]] = val[r]
          BY <1>b, <2>0, <2>1, <2>2, <4>1
        <5> QED
          BY <1>b, <2>0, <4>1, <5>1, <5>2
      <4>2. CASE pc[q] = "done" /\ val'[q] = val[q]
        <5>1. floor'[q] = floor[q] /\ floor[q] <= val[q] /\ val[q] <= newest[key[q]]
          BY <1>a, <2>4, <3>2, <4>2 DEF Remembered
        <5>2. key[q] \in Keys /\ key'[q] = key[q]
          BY <1>b, <2>1, <4>2
        <5> QED
          BY <1>b, <2>3, <4>2, <5>1, <5>2
      <4> QED
        BY <2>1, <3>2, <4>1, <4>2
    <3> QED
      BY <2>3, <2>4, <3>1, <3>2 DEF Remembered
  <2>7. \A i \in Instances : i = Host[r]
    BY <1>b DEF Alone
  <2>8. /\ \A i \in Instances, k \in Keys : FreshL1(i, k)' <=> FreshL1(i, k)
        /\ \A k \in Keys : FreshL2(k)' <=> FreshL2(k)
    BY <2>1 DEF FreshL1, FreshL2
  <2>9. /\ FreshL1(Host[r], key[r]) => val[r] = l1[Host[r]][key[r]].readAt
        /\ FreshL2(key[r]) => val[r] <= l2[key[r]].readAt
    BY <1>a, <2>0 DEF InFlight
  <2>10. InStock'
    <3>1. ASSUME NEW k \in Keys, FreshL2(k)' PROVE newest'[k] <= l2'[k].readAt
      BY <1>a, <1>b, <2>0, <2>1, <2>2, <2>8, <2>9, <3>1 DEF InStock
    <3>2. ASSUME NEW i \in Instances, NEW k \in Keys, FreshL1(i, k)'
          PROVE  newest'[k] <= l1'[i][k].readAt
      BY <1>a, <1>b, <2>0, <2>1, <2>2, <2>7, <2>8, <2>9, <3>2 DEF InStock
    <3>3. ASSUME NEW i \in Instances, NEW k \in Keys, FreshL1(i, k)', FreshL2(k)'
          PROVE  l1'[i][k].readAt <= l2'[k].readAt
      BY <1>a, <2>1, <2>8, <3>3 DEF InStock
    <3> QED
      BY <3>1, <3>2, <3>3 DEF InStock
  <2>11. InFlight'
    <3> SUFFICES ASSUME NEW q \in Requests, pc'[q] \in {"set", "store", "finish"}
                 PROVE  InFlight!(q)'
      BY DEF InFlight
    <3>1. pc'[q] = pc[q] /\ val'[q] = val[q] /\ key'[q] = key[q]
      BY <2>1
    <3>2. q # r
      BY <2>1
    <3>3. key[q] # key[r] /\ key[q] \in Keys
      BY <1>b, <1>d, <2>0, <3>1, <3>2 DEF Filling
    <3>4. newest'[key[q]] = newest[key[q]]
      BY <1>b, <2>2, <3>3
    <3>5. Host[q] \in Instances
      BY <1>b
    <3> QED
      BY <1>a, <2>1, <2>8, <3>1, <3>3, <3>4, <3>5 DEF InFlight
  <2> QED
    BY <1>a, <2>1, <2>6, <2>10, <2>11
<1>10. ASSUME NEW r \in Requests, Return(r) PROVE Goal
  <2>1. /\ UNCHANGED <<now, l1, l2, closed>>
        /\ \A q \in Requests : q # r => pc'[q] = pc[q] /\ key'[q] = key[q] /\ val'[q] = val[q]
        /\ pc'[r] = "idle"
    BY <1>a, <1>10 DEF Return, TypeOK
  <2>2. Kept /\ Stays
    BY <2>1
  <2> QED
    BY <1>a, <1>b, <1>c, <2>1, <2>2 DEF InStock, InFlight, FreshL1, FreshL2
<1>11. ASSUME NEW r \in Requests, NEW k \in Keys, GetHit(r, k) PROVE Goal
  <2> DEFINE v == l1[Host[r]][k].readAt
  <2>0. /\ FreshL1(Host[r], k) /\ v \in Int /\ newest[k] <= v /\ v <= now
        /\ FreshL2(k) => v <= l2[k].readAt
    <3>1. l1[Host[r]][k] # Absent
      BY <1>a, <1>b, <1>11, FreshIsThere DEF GetHit
    <3> QED
      BY <1>a, <1>b, <1>11, <3>1 DEF GetHit, InStock, Dated
  <2>1. /\ UNCHANGED <<now, l1, l2, closed>>
        /\ pc[r] = "idle" /\ pc'[r] = "done" /\ key'[r] = k /\ val'[r] = v
        /\ \A q \in Requests : q # r => pc'[q] = pc[q] /\ key'[q] = key[q] /\ val'[q] = val[q]
    BY <1>a, <1>11 DEF GetHit, TypeOK
  <2>2. newest' = [newest EXCEPT ![k] = v]
    BY <1>a, <2>0, <2>1, Answered
  <2>3. newest' \in [Keys -> Int] /\ \A l \in Keys : newest[l] <= newest'[l]
    BY <1>b, <2>0, <2>2
  <2>4. /\ floor' \in [Requests -> Int]
        /\ \A q \in Requests : pc'[q] # "idle" => floor'[q] <= newest'[key'[q]]
        /\ \A q \in Requests : pc[q] # "idle" /\ pc'[q] # "idle" => floor'[q] = floor[q]
        /\ floor'[r] = newest[k]
    BY <1>a, <2>1, <2>3, FloorsKept
  <2>6. Remembered'
    <3>1. \A l \in Keys : newest'[l] <= now'
      BY <1>a, <1>b, <2>0, <2>1, <2>2 DEF Remembered
    <3>2. ASSUME NEW q \in Requests, pc'[q] = "done"
          PROVE  floor'[q] <= val'[q] /\ val'[q] <= newest'[key'[q]]
      <4>1. CASE q = r
        BY <1>b, <2>0, <2>1, <2>2, <2>4, <4>1
      <4>2. CASE q # r
        <5>1. floor'[q] = floor[q] /\ floor[q] <= val[q] /\ val[q] <= newest[key[q]]
          BY <1>a, <2>1, <2>4, <3>2, <4>2 DEF Remembered
        <5>2. key[q] \in Keys /\ key'[q] = key[q] /\ val'[q] = val[q]
          BY <1>b, <2>1, <3>2, <4>2
        <5> QED
          BY <1>b, <2>3, <5>1, <5>2
      <4> QED
        BY <4>1, <4>2
    <3> QED
      BY <2>3, <2>4, <3>1, <3>2 DEF Remembered
  <2>7. \A i \in Instances : i = Host[r]
    BY <1>b DEF Alone
  <2>8. /\ \A i \in Instances, l \in Keys : FreshL1(i, l)' <=> FreshL1(i, l)
        /\ \A l \in Keys : FreshL2(l)' <=> FreshL2(l)
    BY <2>1 DEF FreshL1, FreshL2
  <2>10. InStock'
    <3>1. ASSUME NEW l \in Keys, FreshL2(l)' PROVE newest'[l] <= l2'[l].readAt
      BY <1>a, <1>b, <2>0, <2>1, <2>2, <2>8, <3>1 DEF InStock
    <3>2. ASSUME NEW i \in Instances, NEW l \in Keys, FreshL1(i, l)'
          PROVE  newest'[l] <= l1'[i][l].readAt
      BY <1>a, <1>b, <2>0, <2>1, <2>2, <2>7, <2>8, <3>2 DEF InStock
    <3>3. ASSUME NEW i \in Instances, NEW l \in Keys, FreshL1(i, l)', FreshL2(l)'
          PROVE  l1'[i][l].readAt <= l2'[l].readAt
      BY <1>a, <2>1, <2>8, <3>3 DEF InStock
    <3> QED
      BY <3>1, <3>2, <3>3 DEF InStock
  <2>11. InFlight'
    <3> SUFFICES ASSUME NEW q \in Requests, pc'[q] \in {"set", "store", "finish"}
                 PROVE  InFlight!(q)'
      BY DEF InFlight
    <3>1. pc'[q] = pc[q] /\ val'[q] = val[q] /\ key'[q] = key[q] /\ key[q] \in Keys
      BY <1>b, <2>1
    <3>2. Host[q] = Host[r] /\ Host[q] \in Instances
      BY <1>b, <2>7
    <3>3. newest'[key[q]] <= val[q]
      <4>1. CASE key[q] # k
        BY <1>a, <1>b, <2>2, <3>1, <4>1 DEF InFlight
      <4>2. CASE key[q] = k
        <5>1. pc[q] = "finish"
          BY <1>a, <2>0, <3>1, <3>2, <4>2 DEF LoadsOnlyWhenCold
        <5>2. val[q] = v
          BY <1>a, <2>0, <3>1, <3>2, <4>2, <5>1 DEF InFlight
        <5> QED
          BY <1>b, <2>0, <2>2, <4>2, <5>2
      <4> QED
        BY <4>1, <4>2
    <3> QED
      BY <1>a, <2>1, <2>8, <3>1, <3>2, <3>3 DEF InFlight
  <2> QED
    BY <1>a, <2>1, <2>6, <2>10, <2>11
<1>12. ASSUME NEW r \in Requests, NEW k \in Keys, GetMiss(r, k) PROVE Goal
  <2>1. /\ UNCHANGED <<now, l1, l2, closed>>
        /\ \A q \in Requests : q # r => pc'[q] = pc[q] /\ key'[q] = key[q] /\ val'[q] = val[q]
        /\ pc[r] = "idle" /\ pc'[r] = "miss"
    BY <1>a, <1>12 DEF GetMiss, TypeOK
  <2>2. Kept /\ Stays
    BY <2>1
  <2> QED
    BY <1>a, <1>b, <1>c, <2>1, <2>2 DEF InStock, InFlight, FreshL1, FreshL2
<1>13. ASSUME NEW i \in Instances, Cleanup(i) PROVE Goal
  <2>1. /\ UNCHANGED <<now, l2, closed, pc, key, val>>
        /\ \A j \in Instances, k \in Keys : l1'[j][k] \in {l1[j][k], Absent}
    <3>1. ASSUME NEW j \in Instances, NEW k \in Keys PROVE l1'[j][k] \in {l1[j][k], Absent}
      <4>1. CASE j = i
        BY <1>a, <1>13, <4>1 DEF Cleanup, TypeOK
      <4>2. CASE j # i
        BY <1>a, <1>13, <4>2 DEF Cleanup, TypeOK
      <4> QED
        BY <4>1, <4>2
    <3> QED
      BY <1>13, <3>1 DEF Cleanup
  <2>2. Kept /\ Stays
    BY <2>1
  <2>3. \A j \in Instances, k \in Keys : FreshL1(j, k)' => FreshL1(j, k) /\ l1'[j][k] = l1[j][k]
    BY <1>a, <2>1 DEF FreshL1, Absent, NoVal, TypeOK, Moment
  <2>4. \A k \in Keys : FreshL2(k)' <=> FreshL2(k)
    BY <2>1 DEF FreshL2
  <2>5. newest' = newest /\ Remembered'
    BY <1>b, <1>c, <2>1, <2>2
  <2>6. InStock'
    BY <1>a, <2>1, <2>3, <2>4, <2>5 DEF InStock
  <2>7. InFlight'
    BY <1>a, <1>b, <2>1, <2>3, <2>4, <2>5 DEF InFlight
  <2> QED
    BY <1>a, <2>1, <2>5, <2>6, <2>7
<1>14. ASSUME NEW i \in Instances, Close(i) PROVE Goal
  BY <1>14 DEF Close, Alone
<1>15. ASSUME NEW i \in Instances, Restart(i) PROVE Goal
  <2>1. \A r \in Requests : Host[r] = i
    BY <1>b DEF Alone
  <2>2. \A j \in Instances : j = i
    BY DEF Alone
  <2>3. /\ UNCHANGED <<now, l2>> /\ closed' = {}
        /\ \A r \in Requests : pc'[r] = "idle"
        /\ \A j \in Instances, k \in Keys : l1'[j][k] = Absent
    BY <1>a, <1>15, <2>1, <2>2 DEF Restart, TypeOK
  <2>4. Kept /\ Stays
    BY <2>3
  <2>5. newest' = newest /\ Remembered'
    BY <1>b, <1>c, <2>3, <2>4
  <2>6. \A j \in Instances, k \in Keys : ~FreshL1(j, k)'
    BY <1>a, <2>3 DEF FreshL1, Absent, NoVal, TypeOK, Moment
  <2>7. \A k \in Keys : FreshL2(k)' <=> FreshL2(k)
    BY <2>3 DEF FreshL2
  <2>8. InStock'
    BY <1>a, <2>3, <2>5, <2>6, <2>7 DEF InStock
  <2> QED
    BY <2>3, <2>5, <2>8 DEF InFlight
<1>16. CASE Tick
  <2>1. UNCHANGED <<l1, closed, pc, key, val>> /\ now' = now + 1
    BY <1>16 DEF Tick
  <2>2. Kept /\ Stays
    BY <2>1
  <2>3. newest' = newest /\ Remembered'
    BY <1>b, <1>c, <2>1, <2>2
  <2>4. \A j \in Instances, k \in Keys : FreshL1(j, k)' => FreshL1(j, k)
    BY <1>b, <2>1 DEF FreshL1
  <2>5. ASSUME NEW k \in Keys, FreshL2(k)' PROVE FreshL2(k) /\ l2'[k] = l2[k]
    <3>1. l2'[k] = IF now + 1 < l2[k].expiresAt THEN l2[k] ELSE Absent
      BY <1>16 DEF Tick
    <3>2. l2'[k] # Absent
      BY <1>a, <2>5 DEF FreshL2, Absent, NoVal, TypeOK, Moment
    <3> QED
      BY <1>b, <3>1, <3>2 DEF FreshL2
  <2>6. InStock'
    BY <1>a, <2>1, <2>3, <2>4, <2>5 DEF InStock
  <2>7. InFlight'
    BY <1>a, <1>b, <2>1, <2>3, <2>4, <2>5 DEF InFlight
  <2> QED
    BY <1>a, <2>1, <2>3, <2>6, <2>7
<1> QED
  BY <1>1, <1>2, <1>3, <1>4, <1>5, <1>6, <1>7, <1>8, <1>9, <1>10, <1>11, <1>12, <1>13, <1>14,
     <1>15, <1>16 DEF HNext, Next, Step

\* The inductive invariant of the cache with its memory of answers.
THEOREM OrderInvariance == ASSUME Alone PROVE HSpec => []HInv
<1>1. HInit => HInv
  BY InitIInv, InitDated, CacheAssumption
  DEF HInit, Init, HInv, Remembered, InStock, InFlight, FreshL1, FreshL2, Absent, NoVal
<1>2. HInv /\ [HNext]_historyVars => HInv'
  <2> SUFFICES ASSUME HInv, [HNext]_historyVars PROVE HInv'
    OBVIOUS
  <2>1. [Next]_vars
    BY DEF HNext, historyVars
  <2>2. (IInv /\ Dated)'
    BY <2>1, NextTypeOK, NextKeyKnown, NextFlights, NextTimely, NextYoung, NextCold, NextDated
    DEF HInv, IInv
  <2>3. CASE HNext
    BY <2>2, <2>3, NextInOrder DEF HInv
  <2>4. CASE UNCHANGED historyVars
    BY <2>2, <2>4 DEF HInv, Remembered, InStock, InFlight, FreshL1, FreshL2, historyVars, vars
  <2> QED
    BY <2>3, <2>4
<1> QED
  BY <1>1, <1>2, PTL DEF HSpec

\* In one process with a reliable Redis a Get that begins after another one has
\* returned hands out no older snapshot, whoever executed the fills, whichever level
\* answered, and however often the process died.
THEOREM NoTimeTravel == ASSUME Alone PROVE HSpec => []MonotonicReads
<1>1. HInv => MonotonicReads
  BY DEF HInv, Remembered, MonotonicReads
<1> QED
  BY <1>1, OrderInvariance, PTL
=============================================================================
