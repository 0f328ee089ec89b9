------------------------------ MODULE FatChain ------------------------------
(***************************************************************************)
(* libfs: how FatFileSystem follows cluster chains.  Next_Cluster reads    *)
(* the table sector by sector as it is asked for; ReadListClusters packs   *)
(* the chain of a file into runs; ReadUsingFatTable reads the runs that    *)
(* lie in the partition into one buffer, which FSViewer's                  *)
(* recoverWITH_FAT_table sized from the runs and writes to the target;     *)
(* read_folder follows the chain of a folder with a loop of its own.       *)
(*                                                                         *)
(* The table is whatever the damaged disk holds: chains may leave it,      *)
(* cross, end in a free or a bad cell, or run in circles.  The content of  *)
(* the disk is abstracted to sector numbers.                               *)
(***************************************************************************)
EXTENDS FatDevice, SequencesExt

CONSTANTS
  Mask,             \* 2^28: the bits of a cell that count
  Cells,            \* cells of the table, size() / 4
  CellsPerSector,   \* BPS_ / 4
  SectorsPerCluster,
  SectorSize,       \* 512
  DWordSectors,     \* sectors of 2^32 bytes
  DataStart,        \* data_sectors(): first sector of cluster 2
  PartStart,        \* start_sector() of the partition
  PartSectors,      \* sectors() of the boot sector
  CopyLimit,        \* cluster_size(): bytes, used as a number of clusters
  MaxWalk,          \* clusters a walk may take before memory is exhausted
  Tables,           \* contents of the table
  FirstClusters,    \* first clusters a directory entry may name
  BadSets           \* sets of unreadable sectors, FAT sectors negative

ASSUME GeometryAssumption ==
  /\ {Mask, DWord, Cells, CellsPerSector, SectorsPerCluster, PartSectors} \subseteq Nat \ {0}
  /\ {SectorSize, DWordSectors} \subseteq Nat \ {0}
  /\ DWord = DWordSectors * SectorSize
  /\ {DataStart, PartStart, DeviceSectors, CopyLimit, MaxWalk} \subseteq Nat
  /\ Cells % CellsPerSector = 0
  /\ Cells < Mask - 9 /\ Mask <= DWord
  /\ MaxWalk > Cells + 1
ASSUME TablesAssumption == Tables \subseteq [0 .. Cells - 1 -> 0 .. DWord - 1]
ASSUME FirstAssumption  == FirstClusters \subseteq 0 .. DWord - 1
ASSUME BadAssumption    == BadSets \subseteq SUBSET Int

VARIABLES
  table,    \* the table on disk
  bad,      \* unreadable sectors: s of the data, -1 - s of the table
  loaded,   \* Sector_Array_: table sectors read so far
  pc,
  first,    \* first cluster of the file or folder at work
  cluster,  \* the walk's current cluster
  run,      \* clusterEntry of ReadListClusters
  runs,     \* list of runs of the file handle
  iRun,     \* the run ReadUsingFatTable is at
  mem,      \* sectors read into the buffer: mem_offset, and bytes_read, long
  target,   \* sectors of the recovered file
  folder    \* folderData: the clusters of the folder

walkVars == <<first, cluster, run, runs>>
readVars == <<iRun, mem, target>>
vars == <<table, bad, loaded, pc, walkVars, readVars, folder>>

bad_cluster_fat32 == Mask - 9
end_cluster_fat32 == Mask - 1
EndMarks == Mask - 8 .. Mask - 1
max_cluster == Cells
count_cluster == (PartSectors - DataStart) \div SectorsPerCluster

clusterSector(c) == (c - 2) * SectorsPerCluster + DataStart

ReadThrows(sector, n) ==
  \/ sector < 0 \/ sector + n > DeviceSectors
  \/ \E s \in bad : sector <= s /\ s < sector + n

Init ==
  /\ table \in Tables
  /\ bad \in BadSets
  /\ loaded = {}
  /\ pc = "idle"
  /\ first = 0 /\ cluster = 0
  /\ run = [number |-> 0, count |-> 0]
  /\ runs = <<>>
  /\ iRun = 1 /\ mem = <<>> /\ target = <<>>
  /\ folder = <<>>

-----------------------------------------------------------------------------
(* Next_Cluster                                                            *)

TableSector(c) == c \div CellsPerSector
InTable(c) == c < Cells

RawCell(c) == table[c]
Masked(c) == table[c] % Mask
Follow(c) == IF InTable(c) THEN Masked(c) ELSE bad_cluster_fat32

\* Read_Sector throws when the sector cannot be read: the branch that would
\* return a bad cluster then is never taken.
TableThrows(c) == InTable(c) /\ TableSector(c) \notin loaded /\ -1 - TableSector(c) \in bad
Load(c) == loaded' = IF InTable(c) THEN loaded \cup {TableSector(c)} ELSE loaded

-----------------------------------------------------------------------------
(* recoverWITH_FAT_table: readSizeUsingTable                               *)

Contiguous(r, c) == r.number + r.count = c
Inc(r) == [r EXCEPT !.count = @ + 1]

\* FSViewer comes here for entries of 4096, 8192, 16384 and 32768 bytes only.
\* A new handle has no runs, and gets none when the first cluster is not below
\* count_cluster (although clusters are numbered from 2).
StartFile(c) ==
  /\ pc \in {"idle", "recovered", "listed"}
  /\ first' = c
  /\ cluster' = c
  /\ run' = [number |-> c, count |-> 0]
  /\ runs' = <<>>
  /\ pc' = IF c < count_cluster THEN "walk" ELSE "recovered"
  /\ iRun' = 1 /\ mem' = <<>> /\ target' = <<>> /\ folder' = <<>>
  /\ UNCHANGED <<table, bad, loaded>>

Spelled(rs) == FlattenSeq([i \in DOMAIN rs |-> [j \in 1 .. rs[i].count |-> rs[i].number + j - 1]])

\* readSizeUsingTable, in sectors: a DWORD product of bytes.
SizeOf(rs) == (Len(Spelled(rs)) * SectorsPerCluster) % DWordSectors

\* Adding the last run ends ReadListClusters; of size 0 nothing is recovered.
ForgetsLastRun(r, rs) == rs
WithLastRun(r, rs) == IF r.count > 0 THEN Append(rs, r) ELSE rs
EndWalk(r, rs) ==
  /\ runs' = WithLastRun(r, rs)
  /\ run' = [number |-> 0, count |-> 0]
  /\ pc' = IF SizeOf(WithLastRun(r, rs)) > 0 THEN "read" ELSE "recovered"

\* Dropping the test for the bad mark.
NeverStops(c) == FALSE
StopsWalk(c) == c = bad_cluster_fat32

\* The clusters taken so far.
walked == Spelled(Append(runs, run))

\* One turn of ReadListClusters, the call of Next_Cluster in it included.  Of
\* the end marks it knows only the last.
Walk ==
  /\ pc = "walk"
  /\ Len(walked) < MaxWalk
  /\ IF cluster = end_cluster_fat32
     THEN EndWalk(run, runs) /\ UNCHANGED <<loaded, cluster>>
     ELSE IF TableThrows(cluster)
     THEN pc' = "thrown" /\ UNCHANGED <<loaded, cluster, run, runs>>
     ELSE LET r  == IF Contiguous(run, cluster) THEN Inc(run)
                    ELSE [number |-> cluster, count |-> 1]
              rs == IF Contiguous(run, cluster) THEN runs ELSE Append(runs, run)
          IN /\ Load(cluster)
             /\ cluster' = Follow(cluster)
             /\ IF StopsWalk(Follow(cluster))
                THEN EndWalk(r, rs)
                ELSE run' = r /\ runs' = rs /\ UNCHANGED pc
  /\ UNCHANGED <<table, bad, first, readVars, folder>>

Exhausted ==
  /\ \/ pc = "walk" /\ Len(walked) >= MaxWalk
     \/ pc = "folder" /\ Len(folder) >= MaxWalk
  /\ pc' = "exhausted"
  /\ UNCHANGED <<table, bad, loaded, walkVars, readVars, folder>>

-----------------------------------------------------------------------------
(* ReadUsingFatTable, and writing the target                               *)

RunInPartition(logical_sector, n) == logical_sector + n < PartSectors

\* sectorsToRead is a DWORD, and so is the number of bytes ReadSectors makes of
\* it.  The buffer has the size readSizeUsingTable computed: a read that goes on
\* behind its end is the end of what is said here of the program.
sectorsToRead(r) == (r.count * SectorsPerCluster) % DWord
readSize(r) == sectorsToRead(r) % DWordSectors

ReadRun ==
  /\ pc = "read"
  /\ iRun \in DOMAIN runs
  /\ LET size == readSize(runs[iRun])
         logical_sector == PartStart + clusterSector(runs[iRun].number)
         fails == size = 0 \/ ReadThrows(logical_sector, size)
         overruns == Len(mem) + size > SizeOf(runs)
     IN IF ~RunInPartition(logical_sector, sectorsToRead(runs[iRun]))
        THEN UNCHANGED <<pc, mem>>
        ELSE IF fails \/ overruns
        THEN /\ pc' \in {p \in {"thrown", "overrun"} :
                          (p = "thrown" => fails) /\ (p = "overrun" => overruns)}
             /\ UNCHANGED mem
        ELSE mem' = mem \o [i \in 1 .. size |-> logical_sector + i - 1] /\ UNCHANGED pc
  /\ iRun' = iRun + 1
  /\ UNCHANGED <<table, bad, loaded, walkVars, target, folder>>

\* The file is created; an empty write throws, and any on a full volume.
WriteTarget ==
  /\ pc = "read"
  /\ iRun \notin DOMAIN runs
  /\ pc' \in {"thrown"} \cup (IF mem = <<>> THEN {} ELSE {"recovered"})
  /\ target' = mem
  /\ UNCHANGED <<table, bad, loaded, walkVars, iRun, mem, folder>>

-----------------------------------------------------------------------------
(* read_folder                                                             *)

\* ReadCluster computes the sector in a DWORD.
FolderSector(c) == (PartStart + clusterSector(c)) % DWord
ClusterThrows(c) == ReadThrows(FolderSector(c), SectorsPerCluster)

\* What ends the do-while loop, before and after a cluster.
NoCluster(c) == c >= count_cluster
BeyondTable(c) == c > max_cluster
StopsFolder(c) == c \in {0, end_cluster_fat32}

\* The root, or a folder whose first cluster begins with "." and ".." (dots).
StartFolder(c, dots) ==
  /\ pc \in {"idle", "recovered", "listed"}
  /\ first' = c
  /\ IF BeyondTable(c)
     THEN pc' = "listed" /\ folder' = <<>> /\ cluster' = c /\ UNCHANGED loaded
     ELSE IF ClusterThrows(c) \/ (dots /\ TableThrows(c))
     THEN pc' = "thrown" /\ folder' = <<>> /\ cluster' = c /\ UNCHANGED loaded
     ELSE IF ~dots
     THEN pc' = "listed" /\ folder' = <<>> /\ cluster' = c /\ UNCHANGED loaded
     ELSE /\ folder' = <<c>>
          /\ Load(c)
          /\ cluster' = Follow(c)
          /\ pc' = IF Follow(c) = end_cluster_fat32 THEN "copy" ELSE "folder"
  /\ run' = [number |-> 0, count |-> 0] /\ runs' = <<>>
  /\ iRun' = 1 /\ mem' = <<>> /\ target' = <<>>
  /\ UNCHANGED <<table, bad>>

ReadFolderCluster ==
  /\ pc = "folder"
  /\ Len(folder) < MaxWalk
  /\ IF BeyondTable(cluster)
     THEN pc' = "copy" /\ UNCHANGED <<loaded, cluster, folder>>
     ELSE IF ClusterThrows(cluster) \/ TableThrows(cluster)
     THEN pc' = "thrown" /\ UNCHANGED <<loaded, cluster, folder>>
     ELSE /\ folder' = Append(folder, cluster)
          /\ Load(cluster)
          /\ cluster' = Follow(cluster)
          /\ pc' = IF StopsFolder(Follow(cluster)) THEN "copy" ELSE "folder"
  /\ UNCHANGED <<table, bad, first, run, runs, readVars>>

\* The clusters are copied into one block before its entries are read.  The
\* loop counts them up to cluster_size(); what is behind stays uninitialised.
NotCopied == -1
CopyFolder ==
  /\ pc = "copy"
  /\ folder' = [i \in DOMAIN folder |-> IF i <= CopyLimit THEN folder[i] ELSE NotCopied]
  /\ pc' = "listed"
  /\ UNCHANGED <<table, bad, loaded, walkVars, readVars>>

Next ==
  \/ \E c \in FirstClusters : StartFile(c) \/ StartFolder(c, TRUE) \/ StartFolder(c, FALSE)
  \/ Walk \/ Exhausted \/ ReadRun \/ WriteTarget
  \/ ReadFolderCluster \/ CopyFolder

Spec == Init /\ [][Next]_vars

-----------------------------------------------------------------------------
(* Properties                                                              *)

\* What the disk says follows c, and the n-th cluster of the chain of c: the
\* reference the two loops are compared with.
OnDisk(c) == IF c \in DOMAIN table THEN table[c] % Mask ELSE bad_cluster_fat32
Chain(c) ==
  LET nth[n \in 0 .. MaxWalk] == IF n = 0 THEN c ELSE OnDisk(nth[n - 1])
  IN nth

DataClusters == 2 .. count_cluster + 1

\* The chain of c is n data clusters and then an end mark.
Intact(c, n) ==
  /\ \A i \in 0 .. n - 1 : Chain(c)[i] \in DataClusters
  /\ Chain(c)[n] \in EndMarks

\* Types of the file system's state.
TypeOK ==
  /\ loaded \subseteq 0 .. (Cells \div CellsPerSector) - 1
  /\ pc \in {"idle", "walk", "read", "recovered", "folder", "copy", "listed",
             "exhausted", "thrown", "overrun"}
  /\ first \in FirstClusters \cup {0}
  /\ cluster \in 0 .. DWord - 1
  /\ run \in [number : Nat, count : Nat]
  /\ runs \in Seq([number : Nat, count : Nat \ {0}])
  /\ {mem[i] : i \in DOMAIN mem} \cup {target[i] : i \in DOMAIN target}
       \subseteq 0 .. DeviceSectors - 1
  /\ \A i \in DOMAIN folder : folder[i] \in {NotCopied} \cup 0 .. max_cluster

\* However the chain jumps, breaks or circles, the runs packed so far spell
\* exactly the clusters of the chain, in order, none twice and none left out
\* (fat_fs.cpp:743-769), and the walk is at the cluster that follows them.
RunsSpellChain ==
  pc = "walk" =>
    /\ \A i \in DOMAIN walked : walked[i] = Chain(first)[i - 1]
    /\ cluster = Chain(first)[Len(walked)]

\* An undamaged file of n clusters whose first cluster is below count_cluster,
\* each of whose clusters ends before sector sectors() of the disk, and which with
\* a cluster more is below 2^32 bytes; no data cluster has the number of a mark.  (FSViewer compares
\* disk sectors with the length of the partition, and both tests are too strict:
\* the last clusters of a partition are lost.)
Recoverable(n) ==
  /\ Intact(first, n)
  /\ first < count_cluster
  /\ count_cluster + 1 < bad_cluster_fat32
  /\ \A i \in 0 .. n - 1 :
       PartStart + clusterSector(Chain(first)[i]) + SectorsPerCluster < PartSectors
  /\ n * SectorsPerCluster < DWordSectors - SectorsPerCluster

\* Such a file is recovered whole and in order, whichever end mark its chain
\* has: one the walk does not know is taken for a cluster, which is left out
\* because it does not lie in the partition.
RecoveredIsChain ==
  pc = "recovered" =>
    \A n \in 1 .. Cells : Recoverable(n) =>
      target = FlattenSeq([i \in 1 .. n |->
                 [j \in 1 .. SectorsPerCluster |->
                    PartStart + clusterSector(Chain(first)[i - 1]) + j - 1]])

\* The buffer is made for the size readSizeUsingTable computes and filled by
\* ReadUsingFatTable, run by run: it is overrun only by a chain of 2^32 bytes or
\* more, whose size wrapped (fat_fs.cpp:683, :711-715).
BufferFits ==
  pc = "overrun" => Len(Spelled(runs)) * SectorsPerCluster >= DWordSectors

\* A walk that does not end (no loop bounds it) follows a chain that really
\* runs in a circle inside the table: marks, free cells and numbers beyond the
\* table always end it.
EndlessOnlyInCircle ==
  pc = "exhausted" =>
    /\ \A i \in 0 .. MaxWalk - 1 : InTable(Chain(first)[i])
    /\ \E i, j \in 0 .. MaxWalk - 1 : i < j /\ Chain(first)[i] = Chain(first)[j]

\* The cell of the first cluster is free, as after a deletion.  The loop looks
\* for 0 only behind the second cluster, so it takes "cluster 0" for one, and
\* ends when it is led to 0 again: just behind the first cluster taken twice.
FreeCellInCircle(i, j) == i = 1 /\ j = Len(folder) /\ Chain(first)[1] = 0

\* The folder that is listed is its chain, each cluster once and in order, as
\* far as the copy goes; it is complete when the chain is undamaged.
FolderIsChain ==
  pc = "listed" /\ folder # <<>> =>
    /\ \A i \in DOMAIN folder : i <= CopyLimit => folder[i] = Chain(first)[i - 1]
    /\ \A i, j \in DOMAIN folder : i < j /\ j <= CopyLimit =>
         folder[i] # folder[j] \/ FreeCellInCircle(i, j)
    /\ \A n \in 1 .. Cells : Intact(first, n) => Len(folder) = n

\* What a walk packs is the chain, and what is read of it fits the buffer that
\* was made for it (ReadListClusters, readSizeUsingTable, ReadUsingFatTable).
WalkIsRight == TypeOK /\ RunsSpellChain /\ BufferFits
=============================================================================
