---------------------------- MODULE MCFatFolder ----------------------------
(***************************************************************************)
(* FatFolder on disks that differ in one part each: every partition table  *)
(* with a volume, an extended partition and a foreign one; every folder of *)
(* up to three entries, and longer ones with long names, as the root and    *)
(* as a folder in it; bad sectors.                                         *)
(***************************************************************************)
EXTENDS FatFolder

E(mark, attr, name, order, cluster) ==
  [mark |-> mark, attr |-> attr, name |-> name, order |-> order, cluster |-> cluster]

File(n)   == E("live", "archive", <<n>>, 0, 9)
Hidden    == E("live", "other", <<"h">>, 0, 9)
Folder    == E("live", "directory", <<"d">>, 0, 3)
Gone(a)   == E("deleted", a, <<"g">>, 229, 9)
PartOf(o) == E("live", "long name", <<IF o = 1 THEN "q" ELSE "p">>, o, 0)
Dot       == E("live", "directory", <<".">>, 0, 3)
DotDot    == E("live", "directory", <<"..">>, 0, 0)

Alphabet == {File("a"), Folder, Hidden, Gone("archive"), Gone("long name"), Zero,
             PartOf(65), PartOf(66), PartOf(1)}
Contents == UNION {[1 .. n -> Alphabet] : n \in 1 .. 3}
            \cup [1 .. 4 -> {File("a"), Folder, Zero, PartOf(66), PartOf(1)}]
            \cup [1 .. 5 -> {File("a"), PartOf(66), PartOf(1)}]

Fat   == [sec_per_clus |-> 1, data_sectors |-> 2, cells |-> 8, root_cluster |-> 2]
Other == [sec_per_clus |-> 1, data_sectors |-> 0, cells |-> 0, root_cluster |-> 0]
Plain == [signed |-> TRUE, types |-> [i \in 1 .. 4 |-> IF i = 1 THEN "fat32_lba" ELSE "free"],
          start_LBA |-> [i \in 1 .. 4 |-> CASE i = 1 -> 1 [] i = 2 -> 2 [] i = 3 -> 9 [] OTHER -> 1],
          boot |-> (1 :> Fat @@ 2 :> Other),
          folder |-> (3 :> <<File("a"), Folder>> @@ 4 :> <<Dot, DotDot, File("a")>>),
          bad |-> {}]

\* Entry 1 and 4 name the volume, 2 one of another kind, 3 a sector of zeros.
Tables   == {[Plain EXCEPT !.types = t, !.signed = s] : t \in [1 .. 4 -> PartitionType], s \in BOOLEAN}
Volumes  == {[Plain EXCEPT !.types = t, !.start_LBA = s] :
               t \in [1 .. 4 -> {"free", "fat32_lba"}], s \in [1 .. 4 -> {1, 2, 9}]}
Unread   == {[Plain EXCEPT !.bad = {s}] : s \in {0, 1, 3, 4}}
Roots    == {[Plain EXCEPT !.folder[3] = f] : f \in Contents}
Children == {[Plain EXCEPT !.folder[4] = f] :
               f \in {<<Dot, DotDot>> \o g : g \in Contents} \cup {<<Dot>>, <<File("a"), DotDot>>}}
Far      == {[Plain EXCEPT !.folder[3] = <<[Folder EXCEPT !.cluster = c]>>] : c \in {0, 2, 8, 9}}

MCDisks == Tables \cup Volumes \cup Unread \cup Roots \cup Children \cup Far
MCBehinds == {<<Zero>>, <<PartOf(1), File("b")>>, <<Gone("archive")>>}
=============================================================================
