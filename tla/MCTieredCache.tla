--------------------------- MODULE MCTieredCache ---------------------------
(* TLC instances of TieredCache: where the goroutines run, and symmetry. *)
EXTENDS TieredCache, TLC

CONSTANTS r1, r2, r3, p1, p2

\* Two goroutines in one process and one in another, over the same Redis.
TwoHosts == (r1 :> p1 @@ r2 :> p1 @@ r3 :> p2)

\* Every goroutine in one process.
OneHost == [r \in Requests |-> p1]

\* Goroutines of one process are interchangeable, and so are keys.
Interchangeable ==
    Permutations(Keys) \cup
    {f \in Permutations(Requests) : \A r \in Requests : Host[f[r]] = Host[r]}
=============================================================================
