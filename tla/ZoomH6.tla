------------------------------- MODULE ZoomH6 -------------------------------
(***************************************************************************)
(* libraw: class ZoomH6Raw, the special algorithm of rawrecoveryconsole    *)
(* for recordings of the ZOOM H6.  Behind the cluster of the project file  *)
(* the recorder wrote up to four tracks at once, cluster by cluster in     *)
(* turn; Execute makes a file for each RIFF header it finds there and      *)
(* deals the following clusters out to them.                               *)
(*                                                                         *)
(* A cell of a track is the address of the source cell it is a copy of.    *)
(* This is what module Carver calls Special: Execute returns 0, returns    *)
(* the bytes it wrote, or throws, which ends the program.                  *)
(***************************************************************************)
EXTENDS Integers, SequencesExt

CONSTANTS
  Size,          \* device_->Size()
  SectorSize,    \* default_sector_size
  BlockSize,     \* block_size(): the recorder's cluster, 32768
  RiffHeader,    \* riff_header_struct_size
  DWord,         \* 2^32
  MAXZOOMFILES,
  NoRiff,        \* a cluster that does not begin with "RIFF"
  Sources        \* devices

ASSUME SizesAssumption ==
  /\ {SectorSize, BlockSize, DWord, MAXZOOMFILES} \subseteq Nat \ {0}
  /\ {Size, RiffHeader} \subseteq Nat
  /\ DWord % BlockSize = 0 /\ BlockSize < DWord
  /\ NoRiff \notin Nat

Cell == 0 .. Size - 1

\* header: where Execute is told to start, `zoom' says whether the project
\* file's header is there; later: where further ones begin; riff: the size
\* field of each cluster that begins with "RIFF".
ASSUME SourcesAssumption ==
  Sources \subseteq [header : Cell, zoom : BOOLEAN, later : SUBSET Cell,
                     riff : [Cell -> {NoRiff} \cup 0 .. DWord - 1], bad : SUBSET Cell]

VARIABLES
  source,
  pc,           \* "execute", "measure", "create", "save"; or how it ended
  position,     \* where the next cluster is read
  numFiles,     \* RIFF headers counted before the files are made
  full_size,    \* distance to the next recording
  files,        \* a track each: its size_, its bReady_, the cells written to it
  fileCounter   \* the track whose turn it is, from 1

vars == <<source, pc, position, numFiles, full_size, files, fileCounter>>

start == source.header + BlockSize

\* How Execute ends.
Ended == {"returned 0", "returned", "read", "create file", "empty write", "full"}
Throws(why) == pc' = why

CannotRead(a, n) == a + n > Size \/ \E b \in source.bad : a <= b /\ b < a + n

Init ==
  /\ source \in Sources
  /\ pc = "execute"
  /\ position = source.header
  /\ numFiles = 0
  /\ full_size = 0
  /\ files = <<>>
  /\ fileCounter = 1

-----------------------------------------------------------------------------

\* The project file: its header, and a folder named after it, which may fail.
ReadZoomHeader ==
  /\ pc = "execute"
  /\ IF CannotRead(position, BlockSize)
     THEN Throws("read") /\ UNCHANGED position
     ELSE \/ /\ pc' = "returned 0"
             /\ UNCHANGED position
          \/ /\ source.zoom
             /\ pc' = "measure"
             /\ position' = start
  /\ UNCHANGED <<source, numFiles, full_size, files, fileCounter>>

\* The first loop of createZoomFiles: headers in consecutive clusters, as far
\* as the device goes.
IsHeader(k) == start + k * BlockSize < Size /\ source.riff[start + k * BlockSize] # NoRiff
headers ==
  CHOOSE n \in 0 .. MAXZOOMFILES :
    /\ \A k \in 0 .. n - 1 : IsHeader(k)
    /\ n < MAXZOOMFILES => ~IsHeader(n)

\* findAllFilesSize: the next recording at a sector behind start.  0 is taken
\* for none.
found == {a \in source.later : a >= start /\ (a - start) % SectorSize = 0}
next_zoom == CHOOSE a \in found : \A b \in found : a <= b
Distance(a) == a - start
findAllFilesSize == IF found = {} THEN 0 ELSE Distance(next_zoom)

\* Every cluster these two loops look at, the last one clipped, is read.
Smaller(m, n) == IF m <= n THEN m ELSE n
looked_at ==
  LET last == IF found = {} THEN Size
              ELSE start + (Distance(next_zoom) \div BlockSize + 1) * BlockSize
      upTo == start + (headers + 1) * BlockSize
  IN Smaller(Size, IF last >= upTo THEN last ELSE upTo)

Measure ==
  /\ pc = "measure"
  /\ numFiles' = headers
  /\ full_size' = IF findAllFilesSize # 0 THEN findAllFilesSize
                  ELSE (Size - start) % (DWord * DWord)
  /\ IF \E b \in source.bad : start <= b /\ b < looked_at
     THEN Throws("read") ELSE pc' = "create"
  /\ UNCHANGED <<source, position, files, fileCounter>>

-----------------------------------------------------------------------------
(* ZoomFiles and RiffFile                                                  *)

\* A size field of 0 is replaced by a guess: half of what is there for the
\* first track, half of that for the others.
firstFileSize == full_size \div 2
file_size == IF numFiles > 0 THEN firstFileSize \div 2 ELSE full_size
SizeField(k, n) ==
  IF n # 0 THEN n ELSE (IF k = 1 THEN firstFileSize ELSE file_size) % DWord

\* RiffFile::size_, of 32 bits.
TrackSize(n) == (n + RiffHeader) % DWord

\* RiffFile::WriteBlock of the cluster at p: the whole of it, or what the track
\* lacks.  A full track gets a write of 0 bytes, which throws.  currentSize_ has 32
\* bits, and so has the sum it is tested with: a track whose size is within a
\* cluster of 2^32 goes on past it, and past 2^32.
currentSize_(track) == Len(track.content) % DWord
ToWrite(track) ==
  IF (currentSize_(track) + BlockSize) % DWord > track.size
  THEN track.size - currentSize_(track) ELSE BlockSize
Written(track, p) ==
  [track EXCEPT !.content = @ \o [i \in 1 .. ToWrite(track) |-> p + i - 1]]
WriteBlock(track, p) ==
  LET w == Written(track, p)
  IN [w EXCEPT !.bReady_ = @ \/ currentSize_(w) = track.size]

isReady(track) == track.bReady_

\* The second loop of createZoomFiles, one turn: a file for each header, with
\* its first cluster.  It is not bounded by what the first loop counted.
StayAtHeader == position
NextCluster == position + BlockSize
CreateTrack ==
  /\ pc = "create" /\ Len(files) < MAXZOOMFILES
  /\ IF CannotRead(position, BlockSize)
     THEN Throws("read") /\ UNCHANGED <<files, position>>
     ELSE IF source.riff[position] = NoRiff
     THEN pc' = "save" /\ UNCHANGED <<files, position>>
     ELSE \/ Throws("create file") /\ UNCHANGED <<files, position>>
          \/ LET k == Len(files) + 1
                 track == [size |-> TrackSize(SizeField(k, source.riff[position])),
                           bReady_ |-> FALSE, content |-> <<>>]
             IN IF ToWrite(track) = 0
                THEN Throws("empty write") /\ files' = Append(files, track) /\ UNCHANGED position
                ELSE \/ /\ files' = Append(files, WriteBlock(track, position))
                        /\ position' = NextCluster
                        /\ UNCHANGED pc
                     \/ Throws("full") /\ files' = Append(files, track) /\ UNCHANGED position
  /\ UNCHANGED <<source, numFiles, full_size, fileCounter>>

EndCreate ==
  /\ pc = "create" /\ Len(files) = MAXZOOMFILES
  /\ pc' = "save"
  /\ UNCHANGED <<source, position, numFiles, full_size, files, fileCounter>>

\* Execute returns 0 for no track, else the bytes written.
NoTrack ==
  /\ pc = "save" /\ files = <<>>
  /\ pc' = "returned 0"
  /\ UNCHANGED <<source, position, numFiles, full_size, files, fileCounter>>

isAllReady == \A k \in DOMAIN files : isReady(files[k])

AllReady ==
  /\ pc = "save" /\ files # <<>>
  /\ isAllReady
  /\ pc' = "returned"
  /\ UNCHANGED <<source, position, numFiles, full_size, files, fileCounter>>

SkipsFirst == IF fileCounter = Len(files) THEN Smaller(2, Len(files)) ELSE fileCounter + 1
NextTrack == IF fileCounter = Len(files) THEN 1 ELSE fileCounter + 1

\* saveZoomFiles, one turn: the next cluster goes to the track whose turn it is.
DealCluster ==
  /\ pc = "save" /\ files # <<>>
  /\ ~isAllReady
  /\ IF CannotRead(position, BlockSize)
     THEN Throws("read") /\ UNCHANGED <<files, position, fileCounter>>
     ELSE IF ToWrite(files[fileCounter]) = 0
     THEN Throws("empty write") /\ UNCHANGED <<files, position, fileCounter>>
     ELSE \/ /\ files' = [files EXCEPT ![fileCounter] = WriteBlock(@, position)]
             /\ position' = NextCluster
             /\ fileCounter' = NextTrack
             /\ UNCHANGED pc
          \/ Throws("full") /\ UNCHANGED <<files, position, fileCounter>>
  /\ UNCHANGED <<source, numFiles, full_size>>

Next ==
  \/ ReadZoomHeader \/ Measure
  \/ CreateTrack \/ EndCreate
  \/ NoTrack \/ AllReady \/ DealCluster

Spec == Init /\ [][Next]_vars

-----------------------------------------------------------------------------
(* Properties                                                              *)

\* A track whose size is so near to 2^32 that it is written past it, and of these
\* one that is larger is never ready.
Limit == DWord - BlockSize
NeverReady(track) == track.size > Limit

\* Types; and no other track is longer than the size it was made with.
TypeOK ==
  /\ pc \in {"execute", "measure", "create", "save"} \cup Ended
  /\ {position, numFiles, full_size} \subseteq Nat
  /\ Len(files) <= MAXZOOMFILES
  /\ fileCounter \in 1 .. Smaller(MAXZOOMFILES, Len(files) + 1)
  /\ files \in Seq([size : 0 .. DWord - 1, bReady_ : BOOLEAN, content : Seq(Cell)])
  /\ \A k \in DOMAIN files : files[k].size < Limit => Len(files[k].content) <= files[k].size

\* Clusters are dealt out in turn, each to one track and none left out: the
\* n-th cluster of track k of N is the (N * (n - 1) + k)-th behind the project
\* file.
TracksAreDealt ==
  \A k \in DOMAIN files : \A i \in DOMAIN files[k].content :
    LET n == (i - 1) \div BlockSize
    IN files[k].content[i] =
         start + (Len(files) * n + k - 1) * BlockSize + ((i - 1) % BlockSize)

\* When Execute returns a number of bytes every track is complete, and it
\* returns 0, at which main() ends the whole scan, only when nothing was saved.
ReturnsComplete ==
  /\ pc = "returned" => \A k \in DOMAIN files : Len(files[k].content) = files[k].size
  /\ pc = "returned 0" => files = <<>>

\* Clusters a track needs, and the tracks that come out even in turn: none
\* needs none or is never ready, and only the first ones may need one cluster more.
need(k) == (files[k].size + BlockSize - 1) \div BlockSize
Even ==
  /\ \A k \in DOMAIN files : need(k) > 0 /\ ~NeverReady(files[k])
  /\ \A j, k \in DOMAIN files : j <= k => need(j) \in {need(k), need(k) + 1}

\* Dealing in turn ends well exactly for tracks that come out even: of uneven
\* ones a shorter track has its turn when it is full, the write of 0 bytes
\* throws, and the scan of the device is over.
UnevenTracksThrow ==
  /\ pc = "returned" => Even
  /\ pc = "empty write" => ~Even

\* A save that no device stops ends in one of two ways: all tracks are complete, or
\* the write of 0 bytes of a track that was full too early.  With a track that is
\* never ready it goes on to the end of the source, unless another track is full
\* (ZoomH6Raw::Execute, saveZoomFiles).
WholeOrThrown == TypeOK /\ ReturnsComplete /\ UnevenTracksThrow

\* What the signature file says of the recorder: the first file takes two
\* clusters each time round, the others one (zoomH6_copy.json:8, and
\* zoomh6raw.h:301).  saveZoomFiles takes one for the first, too.
FirstFileTakesTwo ==
  pc = "returned" /\ Len(files) > 1 /\ need(1) > 2 =>
    files[1].content[2 * BlockSize + 1] = files[1].content[BlockSize + 1] + BlockSize
=============================================================================
