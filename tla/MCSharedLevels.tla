--------------------------- MODULE MCSharedLevels ---------------------------
(* TLC instance of SharedLevels. *)
EXTENDS SharedLevels, TLC

\* Two prices: reversed in place; three: reversed in filterOutliers' new slice or, as
\* the median may be 0, in place, too; one exchange each.
SmallBooks == {<<1, 2>>, <<0, 1, 2>>}

\* What an array nobody refers to still holds is never read again.
Live == <<[s \in Slices |-> IF Free(s) THEN <<>> ELSE heap[s]], memory, pc, held, next, read>>

\* The requests of one side are interchangeable.
Symmetric == Permutations(Bidders)
=============================================================================
