----------------------------- MODULE MCFatChain -----------------------------
(***************************************************************************)
(* FatChain on a table of eight cells, six of them of clusters.  Five      *)
(* clusters have data, the last of them out of ReadUsingFatTable's reach.  *)
(* Three cells take every value that is told apart: free, another cluster, *)
(* beyond the data, the bad mark, an end mark the code does not know, and  *)
(* the one it does with the reserved bits set.  Five clusters are 2^32     *)
(* bytes: the last three tables have chains whose size wraps, where the    *)
(* buffer is overrun, a run is cut short, and one comes to nothing.        *)
(***************************************************************************)
EXTENDS FatChain

Values == {0, 2, 3, 4, 5, 7, bad_cluster_fat32, Mask - 2, Mask + end_cluster_fat32}

TableOf(f) == [c \in 0 .. 7 |-> IF c \in DOMAIN f THEN f[c]
                               ELSE IF c = 0 THEN Mask - 8 ELSE end_cluster_fat32]

MCTables ==
  {TableOf(f) : f \in [2 .. 4 -> Values]} \cup
  {TableOf(0 :> 2 @@ 2 :> 0), TableOf(7 :> 0 @@ [c \in 2 .. 5 |-> c + 1])} \cup
  {TableOf(2 :> 4 @@ 3 :> 5 @@ 4 :> 3 @@ 5 :> 6 @@ 6 :> 7),
   TableOf([c \in 0 .. 4 |-> c + 1]), TableOf(4 :> 6 @@ [c \in 0 .. 3 |-> c + 1])}

MCFirstClusters == {0, 2, 4, 30}
MCBadSets == {{}, {5, -3}}
=============================================================================
