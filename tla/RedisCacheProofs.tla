-------------------------- MODULE RedisCacheProofs --------------------------
(***************************************************************************)
(* Safety of the Redis-only caches, for any number of goroutines, processes*)
(* and caches, any lifetimes and delays, and with or without Redis faults. *)
(*                                                                         *)
(* The invariant says of rows, wherever they lie, which key they fit, and  *)
(* bounds what is in flight or in Redis by the flight's deadline or by the *)
(* entry's expiry, so that the clock does not have to be mentioned.        *)
(***************************************************************************)
EXTENDS RedisCache, TLAPS

\* Rows that a key may hold: of its cache and its subject, and for candles of the
\* very window, read after it was asked for.
Fits(rw, k) ==
    /\ rw.question.cache = k.cache
    /\ rw.question.subject = k.subject
    /\ k.cache = Candles => rw.since = k.since /\ rw.at >= k.since

\* A goroutine that asks has a question, from the past; before Get it is not late.
Asking(r) ==
    /\ pc[r] # "idle" => question[r] \in Questions /\ asked[r] <= now
    /\ pc[r] = "asked" => now <= asked[r] + MaxDelay

\* A flight is within its deadline, and its deadline is near.
Timely(r) ==
    pc[r] \in Filling => /\ now <= deadline[r]
                         /\ deadline[r] <= now + MaxFill
                         /\ deadline[r] <= asked[r] + MaxDelay + MaxFill

\* The rows that a goroutine has: they answer its question, and they were young
\* enough when it got them.
Holding(r) ==
    /\ pc[r] \in {"set", "finish", "done"} => Fits(rows[r], KeyFor(r))
    /\ pc[r] = "set" => /\ deadline[r] <= rows[r].at + MaxFill
                        /\ deadline[r] <= rows[r].since + MaxFill + MaxDelay
    /\ pc[r] = "finish" => /\ deadline[r] <= rows[r].at + AgeBound
                           /\ deadline[r] <= rows[r].since + AgeBound + MaxDelay

RInv(r) == Asking(r) /\ Timely(r) /\ Holding(r)

\* The entries in Redis.
Stored(e) ==
    /\ Fits(e.rows, e.key)
    /\ e.expiresAt <= e.rows.at + TTL + MaxFill
    /\ e.expiresAt <= e.rows.since + TTL + MaxFill + MaxDelay

IInv ==
    /\ TypeOK
    /\ \A r \in Requests : RInv(r)
    /\ \A e \in l2 : Stored(e)

----------------------------------------------------------------------------
(* Constants, questions, keys. *)

\* The constants are numbers.
LEMMA Numbers ==
    /\ TTL \in Nat /\ MaxFill \in Nat /\ MaxDelay \in Nat /\ MaxTime \in Nat
    /\ AgeBound \in Nat
    /\ \A t \in Moment : t \in Nat
    /\ 0 \in Moment
  BY RedisCacheAssumption DEF AgeBound, Moment

\* What a question names.
LEMMA QuestionFields ==
    ASSUME NEW q \in Questions
    PROVE  q.cache \in Caches /\ q.subject \in UNION {Subjects[c] : c \in Caches}
<1>1. PICK c \in Caches :
          q \in [cache : {c}, subject : Subjects[c],
                 limit : IF c = Candles THEN {Normal(n) : n \in Limits} ELSE {DefaultLimit}]
  BY DEF Questions
<1>2. q.cache = c /\ q.subject \in Subjects[c]
  BY <1>1
<1>3. QED
  BY <1>2

\* A key is what the question names and, for candles, the moment.
LEMMA KeyFields ==
    ASSUME NEW q, NEW t
    PROVE  /\ KeyOf(q, t).cache = q.cache
           /\ KeyOf(q, t).subject = q.subject
           /\ q.cache = Candles => KeyOf(q, t).since = t
  BY DEF KeyOf

\* A question has a key.
LEMMA KeyTyped ==
    ASSUME NEW q \in Questions, NEW t \in Moment
    PROVE  KeyOf(q, t) \in Keys
<1>1. q.cache \in Caches /\ q.subject \in UNION {Subjects[c] : c \in Caches}
  BY QuestionFields
<1>2. (IF q.cache = Candles THEN t ELSE 0) \in Moment
  BY Numbers
<1>3. QED
  BY <1>1, <1>2 DEF KeyOf, Keys

\* What rows are made of.
LEMMA RowsFields ==
    /\ NoRows \in Rows
    /\ \A rw \in Rows : rw.since \in Nat /\ rw.at \in Nat /\ rw.since \in Moment
    /\ \A q \in Questions, s \in Moment, t \in Moment :
          LET rw == [question |-> q, since |-> s, at |-> t]
          IN  rw \in Rows /\ rw.question = q /\ rw.since = s /\ rw.at = t
  BY Numbers DEF Rows, NoRows

----------------------------------------------------------------------------
(* Types. *)

\* A step keeps the types.
LEMMA TypeStep == IInv /\ [Next]_vars => TypeOK'
<1> SUFFICES ASSUME IInv, [Next]_vars PROVE TypeOK'
  OBVIOUS
<1> TypeOK /\ \A r \in Requests : RInv(r)
  BY DEF IInv
<1>1. ASSUME NEW r \in Requests, NEW q \in Questions, Ask(r, q) PROVE TypeOK'
  BY <1>1 DEF Ask, Goto, TypeOK, Busy
<1>2. ASSUME NEW r \in Requests, Lead(r) PROVE TypeOK'
  <2>1. now + MaxFill \in Nat
    BY Numbers DEF TypeOK
  <2>2. QED
    BY <1>2, <2>1 DEF Lead, Goto, TypeOK, Busy, Filling
<1>3. ASSUME NEW r \in Requests, Join(r) \/ RedisMiss(r) \/ RedisSetFails(r) PROVE TypeOK'
  BY <1>3 DEF Join, RedisMiss, RedisSetFails, Goto, TypeOK, Busy, Filling
<1>4. ASSUME NEW r \in Requests, RedisHit(r) PROVE TypeOK'
  <2>1. PICK e \in Held(KeyFor(r)) : rows' = [rows EXCEPT ![r] = e.rows]
    BY <1>4 DEF RedisHit
  <2>2. e.rows \in Rows
    BY <2>1 DEF Held, TypeOK
  <2>3. QED
    BY <1>4, <2>1, <2>2 DEF RedisHit, Goto, TypeOK, Busy, Filling
<1>5. ASSUME NEW r \in Requests, LoadOk(r) PROVE TypeOK'
  <2>1. question[r] \in Questions
    BY <1>5 DEF LoadOk, RInv, Asking
  <2>2. [question |-> question[r], since |-> asked[r], at |-> now] \in Rows
    BY <2>1, RowsFields DEF TypeOK
  <2>3. QED
    BY <1>5, <2>2 DEF LoadOk, Goto, TypeOK, Busy, Filling
<1>6. ASSUME NEW r \in Requests, LoadFails(r) PROVE TypeOK'
  BY <1>6 DEF LoadFails, TypeOK, Busy, Filling
<1>7. ASSUME NEW r \in Requests, RedisSet(r) PROVE TypeOK'
  <2>1. question[r] \in Questions
    BY <1>7 DEF RedisSet, RInv, Asking
  <2>2. KeyFor(r) \in Keys /\ rows[r] \in Rows /\ now + TTL \in Nat
    BY <2>1, KeyTyped, Numbers DEF KeyFor, TypeOK
  <2>3. l2' = {e \in l2 : e.key # KeyFor(r)}
                \cup {[key |-> KeyFor(r), rows |-> rows[r], expiresAt |-> now + TTL]}
    BY <1>7 DEF RedisSet, Put
  <2>4. \A e \in l2' : e.key \in Keys /\ e.rows \in Rows /\ e.expiresAt \in Nat
    BY <2>2, <2>3 DEF TypeOK
  <2>5. \A e, f \in l2' : e.key = f.key => e = f
    BY <2>3 DEF TypeOK
  <2>6. QED
    BY <1>7, <2>4, <2>5 DEF RedisSet, Goto, TypeOK, Busy, Filling
<1>8. ASSUME NEW r \in Requests, Finish(r) PROVE TypeOK'
  BY <1>8 DEF Finish, TypeOK
<1>9. ASSUME NEW r \in Requests, Return(r) PROVE TypeOK'
  BY <1>9, Numbers, RowsFields DEF Return, Goto, TypeOK
<1>10. ASSUME NEW i \in Instances, Restart(i) PROVE TypeOK'
  BY <1>10, Numbers, RowsFields DEF Restart, TypeOK
<1>11. ASSUME Tick PROVE TypeOK'
  BY <1>11, Numbers DEF Tick, TypeOK, Moment
<1>12. ASSUME UNCHANGED vars PROVE TypeOK'
  BY <1>12 DEF vars, TypeOK
<1>13. QED
  BY <1>1, <1>2, <1>3, <1>4, <1>5, <1>6, <1>7, <1>8, <1>9, <1>10, <1>11, <1>12 DEF Next

----------------------------------------------------------------------------
(* Entries. *)

\* A step keeps what is said of the entries in Redis: they are the old ones, or the
\* one that a flight has just stored.
LEMMA EntriesStep == IInv /\ [Next]_vars => \A e \in l2' : Stored(e)
<1> SUFFICES ASSUME IInv, [Next]_vars PROVE \A e \in l2' : Stored(e)
  OBVIOUS
<1> TypeOK /\ (\A r \in Requests : RInv(r)) /\ (\A e \in l2 : Stored(e))
  BY DEF IInv
<1>1. ASSUME l2' \subseteq l2 PROVE \A e \in l2' : Stored(e)
  BY <1>1
<1>2. ASSUME NEW r \in Requests, RedisSet(r) PROVE \A e \in l2' : Stored(e)
  <2> DEFINE new == [key |-> KeyFor(r), rows |-> rows[r], expiresAt |-> now + TTL]
  <2>1. l2' \subseteq l2 \cup {new}
    BY <1>2 DEF RedisSet, Put
  <2>2. /\ pc[r] = "set"
        /\ Fits(rows[r], KeyFor(r))
        /\ now <= deadline[r]
        /\ deadline[r] <= rows[r].at + MaxFill
        /\ deadline[r] <= rows[r].since + MaxFill + MaxDelay
    BY <1>2 DEF RedisSet, RInv, Timely, Holding, Filling
  <2>3. /\ now \in Nat /\ deadline[r] \in Nat
        /\ rows[r].at \in Nat /\ rows[r].since \in Nat
    BY Numbers, RowsFields DEF TypeOK
  <2>4. /\ now + TTL <= rows[r].at + TTL + MaxFill
        /\ now + TTL <= rows[r].since + TTL + MaxFill + MaxDelay
    BY <2>2, <2>3, Numbers
  <2>5. Stored(new)
    BY <2>2, <2>4 DEF Stored
  <2>6. QED
    BY <2>1, <2>5
<1>3. ASSUME ~(\E r \in Requests : RedisSet(r)) PROVE l2' \subseteq l2
  BY <1>3 DEF Next, vars, Ask, Lead, Join, RedisHit, RedisMiss, LoadOk, LoadFails,
              RedisSetFails, Finish, Return, Restart, Tick
<1>4. QED
  BY <1>1, <1>2, <1>3

----------------------------------------------------------------------------
(* Goroutines. *)

\* A step that does not touch a goroutine, nor the clock, keeps what is said of it.
Untouched(q) ==
    /\ pc'[q] = pc[q] /\ question'[q] = question[q] /\ asked'[q] = asked[q]
    /\ rows'[q] = rows[q] /\ deadline'[q] = deadline[q] /\ now' = now

\* Its invariant.
LEMMA UntouchedKeeps ==
    ASSUME NEW q \in Requests, RInv(q), Untouched(q)
    PROVE  RInv(q)'
<1>1. Asking(q)'
  BY DEF RInv, Asking, Untouched
<1>2. Timely(q)'
  BY DEF RInv, Timely, Untouched
<1>3. KeyFor(q)' = KeyFor(q)
  BY DEF KeyFor, Untouched
<1>4. Fits(rows'[q], KeyFor(q)') <=> Fits(rows[q], KeyFor(q))
  BY <1>3 DEF Untouched
<1>5. Holding(q)'
  BY <1>4 DEF RInv, Holding, Untouched, Fits
<1>6. QED
  BY <1>1, <1>2, <1>5 DEF RInv

\* A goroutine at rest: nothing is said of it.
LEMMA AtRest ==
    ASSUME NEW q \in Requests, pc'[q] = "idle"
    PROVE  RInv(q)'
  BY DEF RInv, Asking, Timely, Holding, Filling

\* The step of one goroutine leaves the others untouched.
LEMMA OthersUntouched ==
    ASSUME TypeOK, NEW r \in Requests, NEW q \in Requests \ {r},
           \/ \E u \in Questions : Ask(r, u)
           \/ Lead(r) \/ Join(r) \/ RedisHit(r) \/ RedisMiss(r) \/ LoadOk(r)
           \/ RedisSet(r) \/ RedisSetFails(r) \/ Return(r)
    PROVE  Untouched(q)
<1>1. CASE \E u \in Questions : Ask(r, u)
  BY <1>1 DEF Ask, Goto, TypeOK, Untouched
<1>2. CASE Lead(r) \/ Join(r) \/ RedisMiss(r) \/ RedisSet(r) \/ RedisSetFails(r)
  BY <1>2 DEF Lead, Join, RedisMiss, RedisSet, RedisSetFails, Goto, TypeOK, Untouched
<1>3. CASE RedisHit(r)
  BY <1>3 DEF RedisHit, Goto, TypeOK, Untouched
<1>4. CASE LoadOk(r)
  BY <1>4 DEF LoadOk, Goto, TypeOK, Untouched
<1>5. CASE Return(r)
  BY <1>5 DEF Return, Goto, TypeOK, Untouched
<1>6. QED
  BY <1>1, <1>2, <1>3, <1>4, <1>5

\* Up to the GET: the question is new, and the flight's deadline is the longest fill away.
LEMMA Beginnings ==
    ASSUME IInv, NEW r \in Requests,
           (\E u \in Questions : Ask(r, u)) \/ Lead(r) \/ Join(r) \/ RedisMiss(r)
    PROVE  RInv(r)'
<1> TypeOK /\ RInv(r)
  BY DEF IInv
<1> now \in Nat /\ asked[r] \in Nat /\ deadline[r] \in Nat
  BY Numbers DEF TypeOK
<1>1. CASE \E u \in Questions : Ask(r, u)
  <2>1. /\ pc'[r] = "asked" /\ question'[r] \in Questions /\ asked'[r] = now /\ now' = now
    BY <1>1 DEF Ask, Goto, TypeOK
  <2>2. QED
    BY <2>1, Numbers DEF RInv, Asking, Timely, Holding, Filling
<1>2. CASE Lead(r)
  <2>1. /\ pc[r] = "asked" /\ pc'[r] = "get" /\ deadline'[r] = now + MaxFill
        /\ UNCHANGED <<now, question, asked, rows>>
    BY <1>2 DEF Lead, Goto, TypeOK
  <2>2. Asking(r)' /\ Holding(r)'
    BY <2>1 DEF RInv, Asking, Holding
  <2>3. now <= asked[r] + MaxDelay
    BY <2>1 DEF RInv, Asking
  <2>4. /\ now <= now + MaxFill
        /\ now + MaxFill <= asked[r] + MaxDelay + MaxFill
    BY <2>3, Numbers
  <2>5. Timely(r)'
    BY <2>1, <2>4, Numbers DEF Timely
  <2>6. QED
    BY <2>2, <2>5 DEF RInv
<1>3. CASE Join(r) \/ RedisMiss(r)
  <2>1. /\ \/ pc[r] = "asked" /\ pc'[r] = "waiting"
           \/ pc[r] = "get" /\ pc'[r] = "load"
        /\ UNCHANGED <<now, question, asked, rows, deadline>>
    BY <1>3 DEF Join, RedisMiss, Goto, TypeOK
  <2>2. QED
    BY <2>1 DEF RInv, Asking, Timely, Holding, Filling
<1>4. QED
  BY <1>1, <1>2, <1>3

\* The rows come from Redis, where they were young enough until the entry's expiry,
\* or from the database, where they are as young as can be.
LEMMA Obtained ==
    ASSUME IInv, NEW r \in Requests, RedisHit(r) \/ LoadOk(r)
    PROVE  RInv(r)'
<1> TypeOK /\ RInv(r) /\ \A e \in l2 : Stored(e)
  BY DEF IInv
<1> now \in Nat /\ asked[r] \in Nat /\ deadline[r] \in Nat
  BY Numbers DEF TypeOK
<1>1. CASE RedisHit(r)
  <2>1. PICK e \in Held(KeyFor(r)) : rows' = [rows EXCEPT ![r] = e.rows]
    BY <1>1 DEF RedisHit
  <2>2. /\ e \in l2 /\ e.key = KeyFor(r) /\ now < e.expiresAt
        /\ e.expiresAt \in Nat /\ e.rows \in Rows
        /\ Stored(e)
    BY <2>1 DEF Held, TypeOK
  <2>3. /\ pc[r] = "get" /\ pc'[r] = "finish" /\ rows'[r] = e.rows
        /\ UNCHANGED <<now, question, asked, deadline>>
    BY <1>1, <2>1 DEF RedisHit, Goto, TypeOK
  <2>4. Asking(r)' /\ Timely(r)'
    BY <2>3 DEF RInv, Asking, Timely, Filling
  <2>5. e.rows.at \in Nat /\ e.rows.since \in Nat
    BY <2>2, RowsFields
  <2>6. /\ e.expiresAt <= e.rows.at + TTL + MaxFill
        /\ e.expiresAt <= e.rows.since + TTL + MaxFill + MaxDelay
        /\ deadline[r] <= now + MaxFill
    BY <2>2, <2>3 DEF Stored, RInv, Timely, Filling
  <2>7. /\ deadline[r] <= e.rows.at + AgeBound
        /\ deadline[r] <= e.rows.since + AgeBound + MaxDelay
    BY <2>2, <2>5, <2>6, Numbers DEF AgeBound
  <2>8. KeyFor(r)' = KeyFor(r)
    BY <2>3 DEF KeyFor
  <2>9. Fits(e.rows, KeyFor(r))
    BY <2>2 DEF Stored
  <2>10. Holding(r)'
    BY <2>3, <2>7, <2>8, <2>9 DEF Holding, Fits
  <2>11. QED
    BY <2>4, <2>10 DEF RInv
<1>2. CASE LoadOk(r)
  <2> DEFINE new == [question |-> question[r], since |-> asked[r], at |-> now]
  <2>1. /\ pc[r] = "load" /\ pc'[r] = "set" /\ rows'[r] = new
        /\ UNCHANGED <<now, question, asked, deadline>>
    BY <1>2 DEF LoadOk, Goto, TypeOK
  <2>2. Asking(r)' /\ Timely(r)'
    BY <2>1 DEF RInv, Asking, Timely, Filling
  <2>3. /\ asked[r] <= now
        /\ deadline[r] <= now + MaxFill
        /\ deadline[r] <= asked[r] + MaxFill + MaxDelay
    BY <2>1, Numbers DEF RInv, Asking, Timely, Filling
  <2>4. Fits(new, KeyFor(r))
    BY <2>3, KeyFields DEF Fits, KeyFor
  <2>5. KeyFor(r)' = KeyFor(r)
    BY <2>1 DEF KeyFor
  <2>6. Holding(r)'
    BY <2>1, <2>3, <2>4, <2>5 DEF Holding, Fits
  <2>7. QED
    BY <2>2, <2>6 DEF RInv
<1>3. QED
  BY <1>1, <1>2

\* The SET, whatever becomes of it, and the end of it all.
LEMMA Endings ==
    ASSUME IInv, NEW r \in Requests, RedisSet(r) \/ RedisSetFails(r) \/ Return(r)
    PROVE  RInv(r)'
<1> TypeOK /\ RInv(r)
  BY DEF IInv
<1>1. CASE RedisSet(r) \/ RedisSetFails(r)
  <2>1. /\ pc[r] = "set" /\ pc'[r] = "finish"
        /\ UNCHANGED <<now, question, asked, rows, deadline>>
    BY <1>1 DEF RedisSet, RedisSetFails, Goto, TypeOK
  <2>2. Asking(r)' /\ Timely(r)'
    BY <2>1 DEF RInv, Asking, Timely, Filling
  <2>3. /\ deadline[r] \in Nat /\ rows[r].at \in Nat /\ rows[r].since \in Nat
        /\ deadline[r] <= rows[r].at + MaxFill
        /\ deadline[r] <= rows[r].since + MaxFill + MaxDelay
    BY <2>1, RowsFields DEF TypeOK, RInv, Holding
  <2>4. /\ deadline[r] <= rows[r].at + AgeBound
        /\ deadline[r] <= rows[r].since + AgeBound + MaxDelay
    BY <2>3, Numbers DEF AgeBound
  <2>5. KeyFor(r)' = KeyFor(r) /\ Fits(rows[r], KeyFor(r))
    BY <2>1 DEF KeyFor, RInv, Holding
  <2>6. Holding(r)'
    BY <2>1, <2>4, <2>5 DEF Holding, Fits
  <2>7. QED
    BY <2>2, <2>6 DEF RInv
<1>2. CASE Return(r)
  <2>1. pc'[r] = "idle"
    BY <1>2 DEF Return, Goto, TypeOK
  <2>2. QED
    BY <2>1, AtRest
<1>3. QED
  BY <1>1, <1>2

\* singleflight hands the error, or the rows, to everyone who asked for the same key:
\* rows that fit one's key fit theirs.
LEMMA Shared ==
    ASSUME IInv, NEW r \in Requests, LoadFails(r) \/ Finish(r), NEW q \in Requests
    PROVE  RInv(q)'
<1> TypeOK /\ RInv(r) /\ RInv(q)
  BY DEF IInv
<1>1. q \in Party(r) => pc[q] # "idle" /\ KeyFor(q) = KeyFor(r)
  BY DEF Party, LoadFails, Finish
<1>2. q \notin Party(r) => q # r
  BY DEF Party
<1>3. CASE LoadFails(r)
  <2>1. /\ pc'[q] = IF q \in Party(r) THEN "failed" ELSE pc[q]
        /\ q # r => deadline'[q] = deadline[q]
        /\ UNCHANGED <<now, question, asked, rows>>
    BY <1>3 DEF LoadFails, TypeOK
  <2>2. CASE q \in Party(r)
    BY <1>1, <2>1, <2>2 DEF RInv, Asking, Timely, Holding, Filling
  <2>3. CASE q \notin Party(r)
    BY <1>2, <2>1, <2>3, UntouchedKeeps DEF Untouched
  <2>4. QED
    BY <2>2, <2>3
<1>4. CASE Finish(r)
  <2>1. /\ pc[r] = "finish"
        /\ pc'[q] = IF q \in Party(r) THEN "done" ELSE pc[q]
        /\ rows'[q] = IF q \in Party(r) THEN rows[r] ELSE rows[q]
        /\ q # r => deadline'[q] = deadline[q]
        /\ UNCHANGED <<now, question, asked>>
    BY <1>4 DEF Finish, TypeOK
  <2>2. CASE q \in Party(r)
    <3>1. Fits(rows[r], KeyFor(q))
      BY <1>1, <2>1, <2>2 DEF RInv, Holding
    <3>2. KeyFor(q)' = KeyFor(q)
      BY <2>1 DEF KeyFor
    <3>3. Holding(q)'
      BY <2>1, <2>2, <3>1, <3>2 DEF Holding, Fits
    <3>4. Asking(q)' /\ Timely(q)'
      BY <1>1, <2>1, <2>2 DEF RInv, Asking, Timely, Filling
    <3>5. QED
      BY <3>3, <3>4 DEF RInv
  <2>3. CASE q \notin Party(r)
    BY <1>2, <2>1, <2>3, UntouchedKeeps DEF Untouched
  <2>4. QED
    BY <2>2, <2>3
<1>5. QED
  BY <1>3, <1>4

\* A process dies: its goroutines are gone, the others do not notice.
LEMMA Deaths ==
    ASSUME IInv, NEW i \in Instances, Restart(i), NEW q \in Requests
    PROVE  RInv(q)'
<1> TypeOK /\ RInv(q)
  BY DEF IInv
<1>1. CASE Host[q] = i
  <2>1. pc'[q] = "idle"
    BY <1>1 DEF Restart
  <2>2. QED
    BY <2>1, AtRest
<1>2. CASE Host[q] # i
  <2>1. Untouched(q)
    BY <1>2 DEF Restart, Untouched
  <2>2. QED
    BY <2>1, UntouchedKeeps
<1>3. QED
  BY <1>1, <1>2

\* Time passes only where no deadline and no delay stands against it.
LEMMA Later ==
    ASSUME IInv, Tick, NEW q \in Requests
    PROVE  RInv(q)'
<1> TypeOK /\ RInv(q)
  BY DEF IInv
<1>1. /\ pc[q] \in Filling => now < deadline[q]
      /\ pc[q] = "asked" => now < asked[q] + MaxDelay
      /\ now' = now + 1
      /\ UNCHANGED <<pc, question, asked, rows, deadline>>
  BY DEF Tick
<1>2. now \in Nat /\ asked[q] \in Nat /\ deadline[q] \in Nat
  BY Numbers DEF TypeOK
<1>3. Asking(q)'
  BY <1>1, <1>2, Numbers DEF RInv, Asking
<1>4. Timely(q)'
  BY <1>1, <1>2, Numbers DEF RInv, Timely
<1>5. KeyFor(q)' = KeyFor(q)
  BY <1>1 DEF KeyFor
<1>6. Holding(q)'
  BY <1>1, <1>5 DEF RInv, Holding, Fits
<1>7. QED
  BY <1>3, <1>4, <1>6 DEF RInv

----------------------------------------------------------------------------
(* The invariant, and what it implies. *)

\* It holds at the start.
LEMMA Starts == Init => IInv
  BY Numbers, RowsFields DEF Init, IInv, TypeOK, RInv, Asking, Timely, Holding, Filling

\* Every step keeps it.
LEMMA Steps == IInv /\ [Next]_vars => IInv'
<1> SUFFICES ASSUME IInv, [Next]_vars PROVE IInv'
  OBVIOUS
<1>1. TypeOK /\ \A q \in Requests : RInv(q)
  BY DEF IInv
<1>2. TypeOK' /\ \A e \in l2' : Stored(e)
  BY TypeStep, EntriesStep
<1>3. ASSUME NEW q \in Requests PROVE RInv(q)'
  <2>1. ASSUME NEW r \in Requests,
               \/ \E u \in Questions : Ask(r, u)
               \/ Lead(r) \/ Join(r) \/ RedisHit(r) \/ RedisMiss(r) \/ LoadOk(r)
               \/ RedisSet(r) \/ RedisSetFails(r) \/ Return(r)
        PROVE  RInv(q)'
    <3>1. CASE q = r
      BY <2>1, <3>1, Beginnings, Obtained, Endings
    <3>2. CASE q # r
      BY <1>1, <2>1, <3>2, OthersUntouched, UntouchedKeeps
    <3>3. QED
      BY <3>1, <3>2
  <2>2. ASSUME NEW r \in Requests, LoadFails(r) \/ Finish(r) PROVE RInv(q)'
    BY <2>2, Shared
  <2>3. ASSUME NEW i \in Instances, Restart(i) PROVE RInv(q)'
    BY <2>3, Deaths
  <2>4. ASSUME Tick PROVE RInv(q)'
    BY <2>4, Later
  <2>5. ASSUME UNCHANGED vars PROVE RInv(q)'
    BY <1>1, <2>5, UntouchedKeeps DEF vars, Untouched
  <2>6. QED
    BY <2>1, <2>2, <2>3, <2>4, <2>5 DEF Next
<1>4. (\A e \in l2 : Stored(e))'
  BY <1>2 DEF Stored, Fits
<1>5. QED
  BY <1>2, <1>3, <1>4 DEF IInv

\* The invariant of the specification.
LEMMA Always == Spec => []IInv
  BY Starts, Steps, PTL DEF Spec

\* Every variable keeps the shape the code gives it.
THEOREM TypeCorrect == Spec => []TypeOK
<1>1. IInv => TypeOK
  BY DEF IInv
<1>2. QED
  BY <1>1, Always, PTL

\* Nobody gets the rows of another cache, pair, period, interval or coin, although
\* the goroutine that loaded them need not be the one that asked.
THEOREM Subject == Spec => []OwnSubject
<1>1. IInv => OwnSubject
  BY KeyFields DEF IInv, RInv, Holding, Fits, KeyFor, OwnSubject, Answered
<1>2. QED
  BY <1>1, Always, PTL

\* Candles are those of the window asked for, read after it was asked for.
THEOREM Window == Spec => []CandlesOfThisWindow
<1>1. IInv => CandlesOfThisWindow
  BY KeyFields DEF IInv, RInv, Holding, Fits, KeyFor, CandlesOfThisWindow, Answered
<1>2. QED
  BY <1>1, Always, PTL

\* What a flight hands out is no older than an entry and two fills allow for, and
\* its window is late by no more than a handler's delay on top of that.
THEOREM Aging == Spec => BoundedAge
<1>1. ASSUME IInv, Next, NEW q \in Requests, ~Answered(q), pc'[q] = "done"
      PROVE  /\ now - rows'[q].at <= AgeBound
             /\ asked[q] - rows'[q].since <= AgeBound + MaxDelay
  <2> TypeOK /\ \A r \in Requests : RInv(r)
    BY <1>1 DEF IInv
  <2>1. PICK r \in Requests : Finish(r)
    <3>1. pc[q] # "done"
      BY <1>1 DEF Answered
    <3>2. ASSUME NEW r \in Requests,
                 \/ \E u \in Questions : Ask(r, u)
                 \/ Lead(r) \/ Join(r) \/ RedisHit(r) \/ RedisMiss(r) \/ LoadOk(r)
                 \/ LoadFails(r) \/ RedisSet(r) \/ RedisSetFails(r) \/ Return(r)
          PROVE  FALSE
      BY <1>1, <3>1, <3>2 DEF Ask, Lead, Join, RedisHit, RedisMiss, LoadOk, LoadFails,
                              RedisSet, RedisSetFails, Return, Goto, TypeOK
    <3>3. ~Tick /\ ~(\E i \in Instances : Restart(i))
      BY <1>1, <3>1 DEF Tick, Restart
    <3>4. QED
      BY <1>1, <3>2, <3>3 DEF Next
  <2>2. /\ q \in Party(r) /\ pc[r] = "finish" /\ rows'[q] = rows[r]
    BY <1>1, <2>1 DEF Finish, Answered
  <2>3. /\ now <= deadline[r]
        /\ deadline[r] <= rows[r].at + AgeBound
        /\ deadline[r] <= rows[r].since + AgeBound + MaxDelay
    BY <2>2 DEF RInv, Timely, Holding, Filling
  <2>4. asked[q] <= now
    BY <2>2 DEF RInv, Asking, Party
  <2>5. /\ now \in Nat /\ asked[q] \in Nat /\ deadline[r] \in Nat
        /\ rows[r].at \in Nat /\ rows[r].since \in Nat
    BY Numbers, RowsFields DEF TypeOK
  <2>6. QED
    BY <2>2, <2>3, <2>4, <2>5, Numbers
<1>2. IInv /\ [Next]_vars =>
          [\A r \in Requests :
              ~Answered(r) /\ pc'[r] = "done" =>
                  /\ now - rows'[r].at <= AgeBound
                  /\ asked[r] - rows'[r].since <= AgeBound + MaxDelay]_vars
  BY <1>1
<1>3. QED
  BY <1>2, Always, PTL DEF BoundedAge, Spec
=============================================================================
