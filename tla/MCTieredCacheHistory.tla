------------------------ MODULE MCTieredCacheHistory ------------------------
(* TLC instances of TieredCache with the memory of what it has handed out. *)
EXTENDS MCTieredCache, TieredCacheHistory
=============================================================================
