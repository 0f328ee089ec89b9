------------------------------- MODULE GoPro --------------------------------
(***************************************************************************)
(* libraw: GoProRaw, by its GP_Analyzer, and the tool GoProRawNew.  The    *)
(* camera writes a video (MP4) and a small copy of it (LRV) at the same    *)
(* time, clusters of the one between those of the other.  GP_Analyzer      *)
(* looks for the header and the index (moov) of both, marks the clusters   *)
(* that seem to be the LRV's and writes the others to the target.          *)
(* GoProRawNew takes for each cluster of the video the next one of the     *)
(* device that has markers where the index says.                           *)
(***************************************************************************)
EXTENDS QuickTime

CONSTANTS
  Cluster,         \* cluster_size_, 32768
  MarkerCluster,   \* clusterSize_ of GoProRawNew, 256 kB
  Together,        \* default_number_together, 16
  IdAt,            \* GP_ID_OFFSET
  DWord            \* 2^32

ASSUME GoProAssumption ==
  /\ {Cluster, MarkerCluster, Together, DWord} \subseteq Nat \ {0}
  /\ Cluster % SectorSize = 0
  /\ IdAt \in Nat
  /\ \A image \in Images :
       /\ DOMAIN image.stco \subseteq Cell
       /\ \A a \in DOMAIN image.stco : image.stco[a] \in Seq(0 .. DWord - 1)
       /\ {image.gp, image.quiet, image.mp4, image.longer} \subseteq SUBSET Cell

VARIABLES
  firstPartSize,   \* of the MP4's ftyp and mdat
  lrv_offset,      \* header of the LRV
  moov,            \* the indices found, each with its offset, size and table
  cluster_map,     \* the clusters that are the LRV's, from 0
  taken,           \* history: the clusters taken for the LRV's, before it was spread
  cluster,         \* index of the loops over clusters
  curElement,      \* how many chunks of the LRV's table have been met
  tempFile,        \* whether the temporary file is there
  tables           \* tableListMarkers_: the table's offsets by cluster, from 0

gpVars == <<firstPartSize, lrv_offset, moov, cluster_map, taken, cluster, curElement, tempFile, tables>>
vars   == <<qtVars, gpVars>>

NoClusters == [i \in {} |-> FALSE]

Init ==
  /\ QtInit
  /\ firstPartSize = 0 /\ lrv_offset = 0
  /\ moov = <<>>
  /\ cluster_map = NoClusters /\ taken = {} /\ cluster = 0 /\ curElement = 0
  /\ tempFile = FALSE
  /\ tables = <<>>

-----------------------------------------------------------------------------
(* GP_Analyzer::AnalyzeGP                                                  *)

\* read_FTYP_MDAT and readGoProData of the MP4.  The sum is of 32 bits.
ReadMp4 ==
  /\ pc = "specify" /\ algorithm = "go_pro"
  /\ LET ftyp == Atom(source.start)
         isFtyp == ftyp.size # 0 /\ Type(source.start) = "ftyp"
         mdat == Atom(Behind(ftyp))
     IN IF \/ ReadAtomThrows(source.start)
           \/ isFtyp /\ ReadAtomThrows(mdat.offset)
           \/ ~Readable(source.start + IdAt, 1, source.bad)
        THEN Throws /\ UNCHANGED <<firstPartSize, offset>>
        ELSE /\ firstPartSize' =
                  (IF ~isFtyp THEN 0
                   ELSE ftyp.size + (IF Type(mdat.offset) = "mdat" THEN mdat.size ELSE 0)) % DWord
             /\ offset' = source.start + Cluster
             /\ pc' = "find LRV"
  /\ UNCHANGED <<source, algorithm, list, target, result>>
  /\ UNCHANGED <<lrv_offset, moov, cluster_map, taken, cluster, curElement, tempFile, tables>>

\* findNextQtHeader, one cluster of it: a whole one, or none.
headers ==
  {a \in offset .. offset + Cluster - 1 : (a - offset) % SectorSize = 0 /\ Type(a) = "ftyp"}
id(a) == IF a + IdAt \in DOMAIN source.ids THEN source.ids[a + IdAt] ELSE 0

\* An MP4 without a valid header has its index looked for from the beginning
\* of the device.
mp4Handle == IF readQtAtom(source.start) # 0 THEN source.start ELSE 0

FindLrv ==
  /\ pc = "find LRV"
  /\ IF offset >= Size THEN Return(0) /\ UNCHANGED <<offset, lrv_offset>>
     ELSE IF ~Readable(offset, Cluster, source.bad)
     THEN Throws /\ UNCHANGED <<offset, lrv_offset, result>>
     ELSE IF headers = {}
     THEN offset' = offset + Cluster /\ UNCHANGED <<pc, lrv_offset, result>>
     ELSE LET found == CHOOSE a \in headers : \A b \in headers : a <= b
          IN /\ lrv_offset' = found
             /\ IF ReadAtomThrows(found) \/ ~Readable(found + IdAt, 1, source.bad)
                THEN Throws /\ UNCHANGED <<offset, result>>
                ELSE IF id(source.start) # id(found)
                THEN Return(0) /\ UNCHANGED offset
                ELSE pc' = "find moov" /\ offset' = mp4Handle /\ UNCHANGED result
  /\ UNCHANGED <<source, algorithm, list, target>>
  /\ UNCHANGED <<firstPartSize, moov, cluster_map, taken, cluster, curElement, tempFile, tables>>

\* findMOOVData, one cluster: the first signature in it, which must be that of
\* an index with a table of chunks.  The end of the cluster is not searched.
signatures ==
  {a \in offset .. Smaller(offset + Cluster - 2, Size - 1) : Type(a) = "moov"}
signature == CHOOSE a \in signatures : \A b \in signatures : a <= b
Index(a) == [offset |-> a, size |-> readQtAtom(a), table |-> source.stco[a]]

\* What of an index is read: a DataArray's size is of 32 bits.
Held(n) == n % DWord

MoovUnreadable ==
  \/ ~Readable(offset, Smaller(Cluster, Size - offset), source.bad)
  \/ /\ signatures # {}
     /\ \/ ReadAtomThrows(signature)
        \/ /\ readQtAtom(signature) # 0
           /\ ~Readable(signature, Held(readQtAtom(signature)), source.bad)
MoovFound ==
  /\ signatures # {}
  /\ readQtAtom(signature) # 0
  /\ signature \in DOMAIN source.stco

\* The number of a table's entries is not compared with what was read of the
\* index.  A longer one ends with what lies behind the index in memory, unless
\* there is not memory enough, to hold it or to read it.
CopyTable ==
  /\ pc \in {"find moov", "find table"} /\ offset < Size
  /\ ~MoovUnreadable /\ MoovFound /\ signature \in source.longer
  /\ Throws \/ pc' = "undefined"
  /\ UNCHANGED <<source, algorithm, offset, list, target, result>>
  /\ UNCHANGED gpVars

\* The first one is the MP4's, the next behind it the LRV's.
FindMoov ==
  /\ pc = "find moov"
  /\ IF offset >= Size THEN Return(0) /\ UNCHANGED <<offset, moov>>
     ELSE IF MoovUnreadable THEN Throws /\ UNCHANGED <<offset, moov, result>>
     ELSE IF MoovFound
     THEN /\ moov' = Append(moov, Index(signature))
          /\ offset' = Behind(Atom(signature))
          /\ pc' = IF moov = <<>> THEN "find moov" ELSE "temp"
          /\ UNCHANGED result
     ELSE /\ offset' = offset + Cluster
          /\ UNCHANGED <<pc, moov, result>>
  /\ UNCHANGED <<source, algorithm, list, target>>
  /\ UNCHANGED <<firstPartSize, lrv_offset, cluster_map, taken, cluster, curElement, tempFile, tables>>

\* The temporary file gets all from the MP4's header to the end of the cluster
\* in which the LRV's index ends.  Nothing is read back from it.
end_offset == (Behind(moov[2]) \div Cluster + 1) * Cluster
temp_file_size == (end_offset - source.start) % Wide
MakeTemp ==
  /\ pc = "temp"
  /\ tempFile' = TRUE
  /\ IF Copied(source.start, temp_file_size, BlockSize, source.bad).throws
     THEN Throws /\ UNCHANGED <<cluster_map, cluster, offset>>
     ELSE /\ cluster_map' = [i \in 0 .. ((temp_file_size \div Cluster) % DWord) - 1 |-> FALSE]
          /\ cluster' = (lrv_offset - source.start) \div Cluster
          /\ offset' = lrv_offset
          /\ pc' = "classify"
  /\ UNCHANGED <<source, algorithm, list, target, result>>
  /\ UNCHANGED <<firstPartSize, lrv_offset, moov, taken, curElement, tables>>

\* cmpWithTableOffset: how many of the next chunks of the LRV begin with "GP"
\* where the table says they do in a cluster.
InPlace(n) ==
  \A k \in 1 .. n :
    offset + (moov[2].table[curElement + k] % Cluster) \in source.gp
matched ==
  CHOOSE n \in 0 .. Len(moov[2].table) - curElement :
    InPlace(n) /\ \A m \in n + 1 .. Len(moov[2].table) - curElement : ~InPlace(m)

ClassifyEnds == cluster \notin DOMAIN cluster_map \/ offset + Cluster > Size
Classify ==
  /\ pc = "classify" /\ ~ClassifyEnds
  /\ IF ~Readable(offset, Cluster, source.bad)
     THEN Throws /\ UNCHANGED <<cluster_map, cluster, curElement, offset>>
     ELSE /\ cluster_map' =
               [cluster_map EXCEPT ![cluster] = matched > 0 \/ offset \in source.quiet]
          /\ curElement' = curElement + matched
          /\ cluster' = cluster + 1
          /\ offset' = offset + Cluster
          /\ UNCHANGED pc
  /\ UNCHANGED <<source, algorithm, list, target, result>>
  /\ UNCHANGED <<firstPartSize, lrv_offset, moov, taken, tempFile, tables>>

\* From a marked cluster on Together are marked.  The loop then skips as many
\* and counts itself once more, over the cluster behind them.
SkipsTwoGroups(i) == i + 2 * Together
BehindGroup(i) == i + Together + 1
SpreadFrom(state, i) ==
  IF i < state.next \/ ~state.map[i] THEN state
  ELSE [next |-> BehindGroup(i),
        map  |-> [k \in DOMAIN state.map |-> state.map[k] \/ (i <= k /\ k < i + Together)]]
Spread(map) ==
  LET upto[n \in 0 .. Cardinality(DOMAIN map)] ==
        IF n = 0 THEN [next |-> 0, map |-> map] ELSE SpreadFrom(upto[n - 1], n - 1)
  IN upto[Cardinality(DOMAIN map)].map

SpreadGroups ==
  /\ pc = "classify" /\ ClassifyEnds
  /\ cluster_map' = Spread(cluster_map)
  /\ cluster' = 0
  /\ taken' = {i \in DOMAIN cluster_map : cluster_map[i]}
  /\ pc' = "write"
  /\ UNCHANGED <<source, algorithm, offset, list, target, result>>
  /\ UNCHANGED <<firstPartSize, lrv_offset, moov, curElement, tempFile, tables>>

\* The product of index and cluster size is of 32 bits.
read_pos(i) == source.start + ((i * Cluster) % DWord)
WriteCluster ==
  /\ pc = "write" /\ cluster \in DOMAIN cluster_map
  /\ IF cluster_map[cluster] THEN UNCHANGED <<pc, target>>
     ELSE IF ~Readable(read_pos(cluster), Cluster, source.bad)
     THEN Throws /\ UNCHANGED target
     ELSE target' = target \o Cells(read_pos(cluster), Cluster) /\ UNCHANGED pc
  /\ cluster' = cluster + 1
  /\ UNCHANGED <<source, algorithm, offset, list, result>>
  /\ UNCHANGED <<firstPartSize, lrv_offset, moov, cluster_map, taken, curElement, tempFile, tables>>

\* The index goes where the MP4's header says the media data ends, and ends the
\* file.  Its size passes through an int.
full_file_size == (firstPartSize + moov[1].size) % Wide
FromInt(n) == LET low == n % DWord IN IF 2 * low < DWord THEN low ELSE (low - DWord) % Wide
SetSize(cells, n) == [i \in 1 .. n |-> IF i <= Len(cells) THEN cells[i] ELSE Blank]

NotRemoved == tempFile
Removed == FALSE
WriteMoov ==
  /\ pc = "write" /\ cluster \notin DOMAIN cluster_map
  /\ IF ~Readable(moov[1].offset, Held(moov[1].size), source.bad)
     THEN Throws /\ UNCHANGED <<target, result, tempFile>>
     ELSE /\ LET written == WriteAt(target, firstPartSize,
                                   Cells(moov[1].offset, Held(moov[1].size)))
            IN target' = IF full_file_size = 0 THEN written ELSE SetSize(written, full_file_size)
          /\ tempFile' = Removed
          /\ Return(FromInt(full_file_size))
  /\ UNCHANGED <<source, algorithm, offset, list>>
  /\ UNCHANGED <<firstPartSize, lrv_offset, moov, cluster_map, taken, cluster, curElement, tables>>

-----------------------------------------------------------------------------
(* GoProRawNew::SaveByMarkers, for one header of its list                  *)

ReadHeader ==
  /\ pc = "specify" /\ algorithm = "go_pro_new"
  /\ IF ~Readable(offset, MarkerCluster, source.bad) THEN Throws /\ UNCHANGED result
     ELSE IF offset \notin source.mp4 THEN Return(0)
     ELSE pc' = "find table" /\ UNCHANGED result
  /\ UNCHANGED <<source, algorithm, offset, list, target>>
  /\ UNCHANGED gpVars

\* toArrayListMarkers: the table's offsets, those of each cluster in a list of
\* its own.  There are as many lists as the last offset calls for.
AddOffset(state, v) ==
  LET n == v \div MarkerCluster
  IN IF n = state.prev THEN [state EXCEPT !.markers = Append(@, v)]
     ELSE [prev |-> n, markers |-> <<v>>,
           lists |-> [k \in DOMAIN state.lists |->
                        IF k = state.prev THEN state.markers ELSE state.lists[k]],
           throws |-> state.throws \/ state.prev \notin DOMAIN state.lists]
toArrayListMarkers(table) ==
  LET nCount == table[Len(table)] \div MarkerCluster
      upto[n \in 0 .. Len(table)] ==
        IF n = 0 THEN [prev |-> 0, markers |-> <<>>, throws |-> FALSE,
                       lists |-> [k \in 0 .. nCount - 1 |-> <<>>]]
        ELSE AddOffset(upto[n - 1], table[n])
      all == upto[Len(table)]
  IN [throws |-> all.throws,
      lists |-> [k \in 0 .. nCount |-> IF k = nCount THEN all.markers ELSE all.lists[k]]]

\* cmpWithFirstCluster: the markers of a list are in the cluster at a, which
\* stands for cluster `level' of the video.
MarkerAt(v, a, level) == a + v - level * MarkerCluster \in source.gp
Compare(markers, a, level) ==
  IF markers = <<>> THEN "no"
  ELSE IF ~Readable(a, markers[Len(markers)] - level * MarkerCluster + 1, source.bad)
  THEN "throws"
  ELSE IF \A k \in DOMAIN markers : MarkerAt(markers[k], a, level) THEN "yes" ELSE "no"

\* findMoovAddToListMarkers, one cluster: the next index whose first markers
\* are in the first cluster.  Behind the last index there is an empty table,
\* whose last element is read all the same.
FindTable ==
  /\ pc = "find table"
  /\ IF offset >= Size THEN pc' = "undefined" /\ UNCHANGED <<offset, moov, tables>>
     ELSE IF MoovUnreadable THEN Throws /\ UNCHANGED <<offset, moov, tables>>
     ELSE IF ~MoovFound
     THEN offset' = offset + Cluster /\ UNCHANGED <<pc, moov, tables>>
     ELSE IF source.stco[signature] = <<>>
     THEN pc' = "undefined" /\ UNCHANGED <<offset, moov, tables>>
     ELSE LET lists == toArrayListMarkers(source.stco[signature])
              first == Compare(lists.lists[0], source.start, 0)
          IN IF lists.throws \/ first = "throws"
             THEN Throws /\ UNCHANGED <<offset, moov, tables>>
             ELSE /\ moov' = <<Index(signature)>>
                  /\ tables' = lists.lists
                  /\ IF first = "yes"
                     THEN pc' = "save" /\ offset' = source.start
                     ELSE offset' = BehindMedia(signature) /\ UNCHANGED pc
  /\ UNCHANGED <<source, algorithm, list, target, result>>
  /\ UNCHANGED <<firstPartSize, lrv_offset, cluster_map, taken, cluster, curElement, tempFile>>

\* One cluster of the device: it is the next one of the video, or passed over.
\* Without markers to compare any will do.
TakeCluster ==
  /\ pc = "save" /\ algorithm = "go_pro_new" /\ cluster \in DOMAIN tables
  /\ LET same == Compare(tables[cluster], offset, cluster)
     IN IF same = "throws" THEN Throws /\ UNCHANGED <<offset, target, cluster>>
        ELSE IF same = "no" /\ tables[cluster] # <<>>
        THEN offset' = offset + MarkerCluster /\ UNCHANGED <<pc, target, cluster>>
        ELSE IF ~Readable(offset, MarkerCluster, source.bad)
        THEN Throws /\ UNCHANGED <<offset, target, cluster>>
        ELSE /\ target' = WriteAt(target, cluster * MarkerCluster, Cells(offset, MarkerCluster))
             /\ offset' = offset + MarkerCluster
             /\ cluster' = cluster + 1
             /\ UNCHANGED pc
  /\ UNCHANGED <<source, algorithm, list, result>>
  /\ UNCHANGED <<firstPartSize, lrv_offset, moov, cluster_map, taken, curElement, tempFile, tables>>

\* One more cluster, and the index behind the three atoms at the header.
three == LET ftyp == Atom(source.start) free == Atom(Behind(ftyp))
         IN <<ftyp, free, Atom(Behind(free))>>
ThreeThrow ==
  \/ ReadAtomThrows(source.start)
  \/ three[1].size # 0 /\ ReadAtomThrows(three[2].offset)
  \/ three[1].size # 0 /\ three[2].size # 0 /\ ReadAtomThrows(three[3].offset)
FinishByMarkers ==
  /\ pc = "save" /\ algorithm = "go_pro_new" /\ cluster \notin DOMAIN tables
  /\ LET more == target \o Cells(offset, MarkerCluster)
         valid == \A k \in 1 .. 3 : three[k].size # 0
     IN IF ~Readable(offset, MarkerCluster, source.bad) THEN Throws /\ UNCHANGED <<target, result>>
        ELSE IF ThreeThrow \/ (valid /\ ~Readable(moov[1].offset, Held(moov[1].size), source.bad))
        THEN Throws /\ target' = more /\ UNCHANGED result
        ELSE /\ target' = IF valid
                          THEN WriteAt(more, Total(three), Cells(moov[1].offset, Held(moov[1].size)))
                          ELSE more
             /\ Return(Len(target'))
  /\ UNCHANGED <<source, algorithm, offset, list>>
  /\ UNCHANGED gpVars

-----------------------------------------------------------------------------

Next ==
  \/ QtNext /\ UNCHANGED gpVars
  \/ ReadMp4 \/ FindLrv \/ FindMoov \/ CopyTable \/ MakeTemp \/ Classify \/ SpreadGroups
  \/ WriteCluster \/ WriteMoov
  \/ ReadHeader \/ FindTable \/ TakeCluster \/ FinishByMarkers

Spec == Init /\ [][Next]_vars

-----------------------------------------------------------------------------
(* Properties                                                              *)

\* A cluster taken for the LRV's begins a group of Together clusters that are
\* left out, if the one before it is not left out, too.  So the cluster behind a
\* group, which the loop passes over (gopro.h:626), is the only one left out
\* alone.  No cluster is left out that has none taken in the Together before
\* it.  What is not left out is in the target in the order it has on the
\* device, as long as 32 bits can count the bytes.
LeftOut(i, k) == \A m \in i .. k : m \in DOMAIN cluster_map => cluster_map[m]
LrvLeftOut ==
  pc = "write" =>
    /\ \A i \in taken :
         LeftOut(i, i + Together - 1) \/ (i > 0 /\ LeftOut(i - 1, i))
    /\ \A i \in DOMAIN cluster_map :
         cluster_map[i] => \E k \in taken : k <= i /\ i < k + Together
    /\ Cardinality(DOMAIN cluster_map) * Cluster <= DWord =>
         \A i, k \in DOMAIN target : i < k => target[i] < target[k]

\* The temporary file is removed by every call that returns; an exception
\* behind its creation leaves it beside the target.
TempFileRemoved ==
  /\ pc = "returned" => ~tempFile
  /\ pc = "read" /\ Len(moov) = 2 => tempFile

\* Each chunk of an index that GoProRawNew followed begins with a marker in the
\* target, where the index says, for a table in ascending order: the clusters
\* are taken in order, and each at its place.  Only the index itself may have
\* been written over it.
Ascending(table) == \A i, k \in DOMAIN table : i < k => table[i] < table[k]
ChunksInPlace ==
  pc = "returned" /\ algorithm = "go_pro_new" /\ result # 0 /\ Ascending(moov[1].table) =>
    \A k \in DOMAIN moov[1].table :
      LET cell == target[moov[1].table[k] + 1]
      IN cell \in source.gp \/ (moov[1].offset <= cell /\ cell < moov[1].offset + Held(moov[1].size))

\* What GoPro recovery takes is the video: the interleaved clusters of the
\* low-resolution file are left out, and those taken by an index are each at
\* their place (the marking at gopro.h:616, and the table of gopronew.h:31).
OnlyTheVideo == LrvLeftOut /\ ChunksInPlace
=============================================================================
