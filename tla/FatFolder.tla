----------------------------- MODULE FatFolder -----------------------------
(***************************************************************************)
(* libfs: from the partition table to the listing of a folder.  FSViewer   *)
(* opens the partition table, mounts the first partition it lists and asks *)
(* for its root folder; a folder of a listing can be asked for next.       *)
(* read_folder turns the 32-byte entries of a folder into nodes, which a   *)
(* DirectoryNode keeps by name.                                            *)
(*                                                                         *)
(* The disk is what a damaged disk may hold: any types in the partition    *)
(* table, any sector where a boot sector is expected, and any order of     *)
(* entries.  How the clusters of a folder are collected is FatChain's: here *)
(* a folder is the entries of its clusters, one behind the other.  A name  *)
(* is the sequence of its 13-letter pieces; a short name has one.          *)
(***************************************************************************)
EXTENDS FatDevice, SequencesExt

CONSTANTS
  Disks,    \* what the source may hold, see disk
  Behinds   \* what may follow the block of a folder in memory

\* partition_types: what the table says of an entry.
PartitionType == {"free", "fat32_lba", "extended_chs", "extended_lba"}

\* The attributes read_folder tells apart; "other" is every combination that
\* is none of these (a hidden or read-only file, a volume label).
Attr == {"directory", "file", "archive", "none", "long name", "other"}
Mark == {"live", "deleted", "zero"}
Zero == [mark |-> "zero", attr |-> "none", name |-> <<>>, order |-> 0, cluster |-> 0]
Entry == {e \in [mark : Mark, attr : Attr, name : Seq(STRING), order : 0 .. 255, cluster : Nat] :
            e.mark = "zero" => e = Zero}

ASSUME DisksAssumption ==
  \A d \in Disks :
    /\ d.signed \in BOOLEAN
    /\ d.types \in [1 .. 4 -> PartitionType] /\ d.start_LBA \in [1 .. 4 -> Nat]
    /\ \A s \in DOMAIN d.boot : d.boot[s] \in
         [sec_per_clus : Nat, data_sectors : Nat, cells : Nat, root_cluster : Nat]
    /\ \A s \in DOMAIN d.folder : d.folder[s] \in Seq(Entry)
    /\ d.bad \subseteq Nat
ASSUME BehindsAssumption ==
  \A b \in Behinds : b \in Seq(Entry) /\ b # <<>> /\ Last(b).attr # "long name"

VARIABLES
  disk,            \* partition table, boot sectors, folders by first sector
  phase,
  PartitionArray,  \* the partitions that are listed, by the number in the table
  start,           \* start_sector() of the mounted partition
  head,            \* head_folder: its cluster, and whether it has a parent
  data,            \* pFolderData
  current_entry,   \* counted from 0
  DirectoryMap     \* the nodes of the folder: the entry each was made from

folderVars == <<disk, phase, PartitionArray, start, head, data, current_entry, DirectoryMap>>

NoNodes == [n \in {} |-> 0]
Root == [cluster |-> 0, parent |-> FALSE]

FolderInit ==
  /\ disk \in Disks
  /\ phase = "closed"
  /\ PartitionArray = <<>>
  /\ start = 0
  /\ head = Root
  /\ data = <<>>
  /\ current_entry = 0
  /\ DirectoryMap = NoNodes

SectorThrows(sector) == sector >= DeviceSectors \/ sector \in disk.bad

-----------------------------------------------------------------------------
(* MasterBootRecord, and mounting its first partition                      *)

\* The loop counts from 1 while it is below partition_count, which is 4.
FirstTwo == 2
LookedAt == 3
Listed(i) == disk.types[i] \notin {"free", "extended_lba"}
Partitions ==
  LET list[n \in 0 .. LookedAt] ==
        IF n = 0 THEN <<>>
        ELSE IF Listed(n) THEN Append(list[n - 1], n) ELSE list[n - 1]
  IN list[LookedAt]

OpenTable ==
  /\ phase = "closed"
  /\ IF SectorThrows(0)
     THEN phase' = "thrown" /\ UNCHANGED PartitionArray
     ELSE LET listed == IF disk.signed THEN Partitions ELSE <<>>
          IN /\ PartitionArray' = listed
             /\ phase' = IF listed = <<>> THEN "refused" ELSE "opened"
  /\ UNCHANGED <<disk, start, head, data, current_entry, DirectoryMap>>

BlankSector == [sec_per_clus |-> 0, data_sectors |-> 0, cells |-> 0, root_cluster |-> 0]
BootAt(sector) == IF sector \in DOMAIN disk.boot THEN disk.boot[sector] ELSE BlankSector
BootSector == BootAt(start)

\* InitBoot divides by the sectors of a cluster, whatever was read.
Mount ==
  /\ phase = "opened"
  /\ start' = disk.start_LBA[Head(PartitionArray)]
  /\ phase' = IF SectorThrows(start') THEN "thrown"
           ELSE IF BootAt(start').sec_per_clus = 0 THEN "crashed"
           ELSE "mounted"
  /\ UNCHANGED <<disk, PartitionArray, head, data, current_entry, DirectoryMap>>

-----------------------------------------------------------------------------
(* read_folder: the clusters                                               *)

table_cells == BootSector.cells
sectorOfCluster(c) == (c - 2) * BootSector.sec_per_clus + BootSector.data_sectors

FolderAt(sector) == IF sector \in DOMAIN disk.folder THEN disk.folder[sector] ELSE <<Zero, Zero>>
BeginsWithDots(entries) ==
  Len(entries) >= 2 /\ entries[1].name = <<".">> /\ entries[2].name = <<"..">>

\* getFirst of a folder without nodes.  A folder that is not one is left empty.
ReadFolder(folder) ==
  LET c      == IF folder.parent THEN folder.cluster ELSE BootSector.root_cluster
      sector == (start + sectorOfCluster(c)) % DWord
      first  == IF folder.parent THEN 2 ELSE 0
  IN /\ head' = folder
     /\ DirectoryMap' = NoNodes
     /\ IF c > table_cells
        THEN phase' = "listed" /\ data' = <<>> /\ current_entry' = 0
        ELSE IF SectorThrows(sector)
        THEN phase' = "thrown" /\ data' = <<>> /\ current_entry' = 0
        ELSE IF folder.parent /\ ~ BeginsWithDots(FolderAt(sector))
        THEN phase' = "listed" /\ data' = <<>> /\ current_entry' = 0
        ELSE phase' = "reading" /\ data' = FolderAt(sector) /\ current_entry' = first
     /\ UNCHANGED <<disk, PartitionArray, start>>

ReadRoot == phase = "mounted" /\ ReadFolder(Root)

ReadChild(name) ==
  /\ phase = "listed"
  /\ DirectoryMap[name].attr = "directory"
  /\ ReadFolder([cluster |-> DirectoryMap[name].cluster, parent |-> TRUE])

-----------------------------------------------------------------------------
(* read_folder: the entries                                                *)

\* addEntry, and add_folder or add_file: insert() keeps the first of a name.
\* A node remembers its entry, for the properties.
Shown == {"directory", "file", "archive", "none"}
addEntry(name, entry, position) ==
  IF entry.attr \notin Shown \/ name \in DOMAIN DirectoryMap
  THEN DirectoryMap
  ELSE [n \in DOMAIN DirectoryMap \cup {name} |->
          IF n = name THEN [attr |-> entry.attr, cluster |-> entry.cluster, at |-> position]
          ELSE DirectoryMap[n]]

Reading == phase = "reading" /\ current_entry < Len(data)
entryAt == data[current_entry + 1]
Skip(n) == current_entry' = current_entry + n
Kept == UNCHANGED <<disk, phase, PartitionArray, start, head, data>>

Deleted ==
  /\ Reading
  /\ entryAt.mark = "deleted"
  /\ Skip(1)
  /\ UNCHANGED DirectoryMap
  /\ Kept

\* An entry of zeros is no end: its name is empty.
ShortName ==
  /\ Reading
  /\ entryAt.mark # "deleted" /\ entryAt.attr # "long name"
  /\ DirectoryMap' = addEntry(entryAt.name, entryAt, current_entry)
  /\ Skip(1)
  /\ Kept

\* order_number ^ attr_last_log_entry: only the last part of a name has the bit.
CountOf(order) == IF (order \div 64) % 2 = 1 THEN order - 64 ELSE order + 64

\* How many more parts the loop takes, from memory that begins with the first.
MoreParts(memory) ==
  LET part(i) == i \in DOMAIN memory /\ memory[i].attr = "long name"
      taken   == {n \in 0 .. CountOf(memory[1].order) - 1 : \A i \in 2 .. n + 1 : part(i)}
  IN IF taken = {} THEN 0 ELSE Max(taken)

\* appendString puts each part before those it has.
InOrder(memory, n) == FlattenSeq([i \in 1 .. n |-> memory[i].name])
Prepended(memory, n) == FlattenSeq([i \in 1 .. n |-> memory[n + 1 - i].name])

\* The entry behind the parts is added whatever it is; neither it nor the
\* parts are looked for before the end of the block.
LongName ==
  /\ Reading
  /\ entryAt.mark # "deleted" /\ entryAt.attr = "long name"
  /\ \E behind \in Behinds :
       LET memory == SubSeq(data, current_entry + 1, Len(data)) \o behind
           parts  == 1 + MoreParts(memory)
       IN /\ DirectoryMap' = addEntry(Prepended(memory, parts), memory[parts + 1],
                                      current_entry + parts)
          /\ Skip(parts + 1)
  /\ Kept

EntriesEnd ==
  /\ phase = "reading" /\ current_entry >= Len(data)
  /\ phase' = "listed"
  /\ UNCHANGED <<disk, PartitionArray, start, head, data, current_entry, DirectoryMap>>

FolderNext ==
  \/ OpenTable \/ Mount \/ ReadRoot
  \/ \E name \in DOMAIN DirectoryMap : ReadChild(name)
  \/ Deleted \/ ShortName \/ LongName \/ EntriesEnd

FolderSpec == FolderInit /\ [][FolderNext]_folderVars

-----------------------------------------------------------------------------
(* Properties                                                              *)

Volume(i) ==
  /\ disk.types[i] = "fat32_lba"
  /\ disk.start_LBA[i] \in DOMAIN disk.boot
  /\ disk.boot[disk.start_LBA[i]].sec_per_clus > 0

\* A volume of a readable disk is mounted unless its entry is the fourth, or
\* an entry before it is in use; and when the first entry in use is no volume
\* at all the program may end by a division by zero (fat_fs.cpp:45, its
\* caller FSViewer.cpp:55, BootSector.cpp:90).
InUseBefore(i) == \E j \in 1 .. i - 1 : disk.types[j] \notin {"free", "extended_lba"}
VolumeIsMounted ==
  /\ phase \notin {"closed", "opened", "thrown"} /\ disk.signed =>
       \A i \in 1 .. 3 : Volume(i) /\ ~ InUseBefore(i) =>
         start = disk.start_LBA[i] /\ phase \notin {"refused", "crashed"}
  /\ phase = "refused" /\ disk.signed => \A i \in 1 .. 4 : Volume(i) => i = 4
  /\ phase = "crashed" => ~ Volume(Head(PartitionArray))

Smaller(m, n) == IF m <= n THEN m ELSE n
Live(i) == data[i].mark = "live"
Part(i) == i \in DOMAIN data /\ data[i].attr = "long name"
Dots == IF head.parent THEN 2 ELSE 0
Own  == Dots + 1 .. Len(data)

\* A name entry i can have got: its own, or one spelled by the parts directly
\* above it.
SpelledName(k, i) == FlattenSeq([n \in 1 .. i - k |-> data[i - n].name])
NamesOf(i) == {data[i].name} \cup
  {SpelledName(k, i) : k \in {k \in Own : k < i /\ \A n \in k .. i - 1 : Part(n)}}

\* The parts j .. i - 1 are the whole name of entry i, as it is written.
NameBegins(j, i) ==
  /\ data[j].order = 64 + (i - j)
  /\ \A n \in j .. i - 1 : Part(n) /\ Live(n) /\ (n > j => data[n].order = i - n)
BeginOf(i) == {j \in Own : j < i /\ NameBegins(j, i)}
NameOf(i) == IF BeginOf(i) = {} THEN data[i].name ELSE SpelledName(CHOOSE j \in BeginOf(i) : TRUE, i)

\* An undamaged folder: every part belongs to the name of a live entry,
\* entries of zeros come last, each entry has a name, and no two the same.
ToList == {i \in Own : Live(i) /\ data[i].attr \in Shown}
Undamaged ==
  /\ \A n \in Own : Part(n) /\ Live(n) =>
       \E i \in Own : ~ Part(i) /\ Live(i) /\ n < i /\ \E j \in BeginOf(i) : j <= n
  /\ \A i, k \in Own : i < k /\ data[i].mark = "zero" => data[k].mark = "zero"
  /\ \A i, k \in ToList : NameOf(i) # <<>> /\ (NameOf(i) = NameOf(k) => i = k)

\* However damaged the folder is, no live file or folder with listed attributes
\* is lost, unless an entry before it took its name; a deleted one, or
\* whatever lies behind the block, is listed only directly behind a part of a
\* long name (fat_fs.cpp:471 adds it unseen).  An undamaged folder is listed
\* exactly, each name with its own entry, and one nameless file more when it
\* has unused entries (line 426: the test for zero is commented out).
ListsTheFolder ==
  phase = "listed" /\ data # <<>> =>
    LET nodes == {DirectoryMap[n].at + 1 : n \in DOMAIN DirectoryMap}
        zeros == {i \in Own : data[i].mark = "zero"}
    IN /\ \A i \in ToList :
            \/ i \in nodes
            \/ \E n \in NamesOf(i) \cap DOMAIN DirectoryMap : DirectoryMap[n].at + 1 < i
       /\ \A i \in nodes : i \in ToList \cup zeros \/ Part(Smaller(i - 1, Len(data)))
       /\ Undamaged =>
            /\ DOMAIN DirectoryMap \ {<<>>} = {NameOf(i) : i \in ToList}
            /\ \A i \in ToList : DirectoryMap[NameOf(i)].at + 1 = i
            /\ <<>> \in DOMAIN DirectoryMap <=> zeros # {}
=============================================================================
