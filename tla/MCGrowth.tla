------------------------------- MODULE MCGrowth -------------------------------
(***************************************************************************)
(* A small instance of Growth: two memories, four buckets of one or two    *)
(* pages, and requests up to the width of a page count.                    *)
(***************************************************************************)
EXTENDS Growth, TLC

CONSTANTS x, y

MCId == {x, y}

MCBucketSizes == {1, 2}

MCRequests == {0, 1, 3, 18, 19}

MCSymmetry == Permutations(MCId)
=============================================================================
