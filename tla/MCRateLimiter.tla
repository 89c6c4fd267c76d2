--------------------------- MODULE MCRateLimiter ---------------------------
(* TLC instances of RateLimiter. *)
EXTENDS RateLimiter, TLC

CONSTANTS q1, q2, q3, q4, p1, p2, anon, capped, zero, h1, h2, ip1, ip2

\* Two processes.
TwoHosts == [r \in Requests |-> IF r \in {q1, q2} THEN p1 ELSE p2]
OneHost == [r \in Requests |-> p1]

\* An anonymous client; one whose stored limit exceeds the cap; and, at the address
\* of the first, one whose stored limit is zero.
AllHashes == (anon :> NoHash @@ capped :> h1 @@ zero :> h2)
AllRates == (anon :> 0 @@ capped :> 300 @@ zero :> 0)
AllIPs == (anon :> ip1 @@ capped :> ip2 @@ zero :> ip1)
ClientHash == [c \in Clients |-> AllHashes[c]]
ClientRate == [c \in Clients |-> AllRates[c]]
ClientIP == [c \in Clients |-> AllIPs[c]]

\* Requests served by one process are interchangeable.
Interchangeable ==
    {f \in Permutations(Requests) : \A r \in Requests : Host[f[r]] = Host[r]}
=============================================================================
