---------------------------- MODULE MCRedisCache ----------------------------
(***************************************************************************)
(* Two goroutines of a process that may die and start again; one pair's    *)
(* candles and its statistics.                                             *)
(***************************************************************************)
EXTENDS RedisCache, TLC

CONSTANTS r1, r2, i1, candles, stats, s1

Pair == {r1, r2}
OneHost == [r \in Pair |-> i1]
OnePair == (candles :> {s1} @@ stats :> {s1})
Symmetric == Permutations(Pair)

\* Nothing depends on what time it is, only on how long ago things were: a state is
\* seen as from now. All that is held is young, so that there are finitely many such
\* states, and the clock's bound lies beyond the time in which they are all reached.
Ago(rs) == IF rs = NoRows THEN rs
           ELSE [rs EXCEPT !.since = now - @, !.at = now - @]
Relative ==
    <<{[cache |-> e.key.cache, subject |-> e.key.subject,
        since |-> IF e.key.cache = Candles THEN now - e.key.since ELSE 0,
        rows |-> Ago(e.rows), left |-> e.expiresAt - now] : e \in l2},
      pc, question,
      [r \in Requests |-> IF pc[r] = "idle" THEN 0 ELSE now - asked[r]],
      [r \in Requests |-> Ago(rows[r])],
      [r \in Requests |-> IF pc[r] \in Filling THEN deadline[r] - now ELSE 0]>>
=============================================================================
