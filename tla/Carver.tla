------------------------------- MODULE Carver -------------------------------
(***************************************************************************)
(* rawrecoveryconsole: the loop of main() that carves files out of a       *)
(* device, with the classes of libraw it drives: SignatureFinder finds the *)
(* next header, a RawAlgorithm saves the file that starts there            *)
(* (StandartRaw, by its footer or its maximum size through                 *)
(* DefaultRaw::appendToFile), and the search goes on one sector further.   *)
(*                                                                         *)
(* The device is a row of cells.  Data is abstracted to where it came      *)
(* from: a cell of the buffer or of the target holds the address of the    *)
(* source cell it is a copy of, or Blank (the buffer is zeroed when made). *)
(***************************************************************************)
EXTENDS Integers, Sequences, FiniteSets

CONSTANTS
  Size,            \* src_device->Size()
  SectorSize,      \* default_sector_size
  BlockSize,       \* default_block_size
  OffsetMod,       \* 2^64: uint64_t arithmetic wraps
  FilesPerFolder,  \* 2500
  Formats,         \* the file formats, in a record each
  NoFormat,
  SigLength,       \* cells a signature covers from the start of its sector
  FooterLength,    \* <<cells of footer 1, of footer 2, ..>>
  Sources,         \* devices: where signatures, footers and bad cells are
  StartSectors     \* start offsets (in sectors) the user may give

\* How a format is carved.  "special": ZoomH6; "factory": the algorithm comes
\* from RawFactoryManager; "standard": StandartRaw with these parameters, of
\* which `footers' says that footers 1 .. footers end such a file.
ASSUME FormatsAssumption ==
  Formats \subseteq [how : {"special", "factory", "standard"},
                     footers : 0 .. Len(FooterLength), maxSize : Nat, tail : Nat]
ASSUME NoFormatAssumption == NoFormat \notin Formats
ASSUME SizesAssumption ==
  /\ {SectorSize, BlockSize, FilesPerFolder, OffsetMod} \subseteq Nat \ {0}
  /\ {Size, SigLength} \subseteq Nat
  /\ BlockSize % SectorSize = 0
  /\ 0 < SigLength /\ SigLength <= SectorSize
  /\ FooterLength \in Seq(1 .. BlockSize)
ASSUME StartAssumption == StartSectors \subseteq Nat

Cell    == 0 .. Size - 1
Sectors == {a \in Cell : a % SectorSize = 0}
Blank   == -1
NoBlock == [i \in 0 .. BlockSize - 1 |-> Blank]

ASSUME SourcesAssumption ==
  Sources \subseteq [sig : [Sectors -> Formats \cup {NoFormat}],
                     foot : [DOMAIN FooterLength -> SUBSET Cell],
                     bad : SUBSET Cell]

VARIABLES
  source,        \* the device: signatures, footers, bad cells
  first,         \* the start offset the user gave
  pc,            \* where main() is
  start_offset,  \* where the next search starts
  offset,        \* source position of the running search or save
  header_offset, \* header being carved
  format,        \* its format
  fileCounter, folderCounter, folder,   \* target folder bookkeeping
  buffer,        \* block buffer of SaveRawFile
  read_end,      \* source address up to which the save has read
  target,        \* content of the target file
  created,       \* history: <<folder, header_offset>> of each file created
  seen,          \* history: headers found, in order
  cause          \* why the program died, when it did

scanVars   == <<start_offset, offset, header_offset, format>>
folderVars == <<fileCounter, folderCounter, folder, created>>
saveVars   == <<buffer, read_end, target>>
vars == <<source, first, pc, scanVars, folderVars, saveVars, seen, cause>>

calcBlockSize(current, size, block) ==
  IF current > size THEN 0
  ELSE IF current + block <= size THEN block ELSE size - current

\* IODevice::ReadData(n bytes at a): throws for an empty request, beyond the
\* end and on a bad cell; otherwise it delivers all n bytes.
ReadThrows(a, n) ==
  n = 0 \/ a + n > Size \/ \E b \in source.bad : a <= b /\ b < a + n

\* No caller of main() catches: the process ends.
Die(why) == pc' = "dead" /\ cause' = why

Init ==
  /\ source \in Sources
  /\ pc = "loop"
  /\ \E s \in StartSectors : first = s * SectorSize
  /\ start_offset = first
  /\ offset = 0 /\ header_offset = 0 /\ format = NoFormat
  /\ fileCounter = 0 /\ folderCounter = 0 /\ folder = 0
  /\ buffer = NoBlock
  /\ read_end = 0
  /\ target = <<>>
  /\ created = <<>>
  /\ seen = <<>>
  /\ cause = "none"

-----------------------------------------------------------------------------
(* The search: while (start_offset < Size), SignatureFinder::findHeader    *)

LoopHead ==
  /\ pc = "loop"
  /\ pc' = IF start_offset < Size THEN "search" ELSE "finished"
  /\ offset' = start_offset
  /\ UNCHANGED <<source, first, start_offset, header_offset, format, folderVars, saveVars, seen, cause>>

\* HeaderBase::find at a of a block that ends at e.  It is told the size of
\* the buffer, not of what is left of it, and so compares with what an
\* earlier block left there when the signature does not fit any more.
Matches(a, e) ==
  IF a + SigLength <= e THEN {source.sig[a]} ELSE Formats \cup {NoFormat}

\* cmpHeader: the first sector of the block at which a format matches.
HitsIn(e) == {a \in offset .. e - 1 : (a - offset) % SectorSize = 0}

NoProgress(e) == offset
NextBlock(e) == e

SearchBlock ==
  /\ pc = "search"
  /\ offset < Size
  /\ LET n == calcBlockSize(offset, Size, BlockSize)
         e == offset + n
     IN IF ReadThrows(offset, n)
        THEN Die("read") /\ UNCHANGED <<scanVars, seen>>
        ELSE \E found \in [HitsIn(e) -> Formats \cup {NoFormat}] :
               /\ \A a \in HitsIn(e) : found[a] \in Matches(a, e)
               /\ LET hits == {a \in HitsIn(e) : found[a] # NoFormat}
                  IN IF hits = {}
                     THEN offset' = NextBlock(e)
                          /\ UNCHANGED <<pc, start_offset, header_offset, format, seen>>
                     ELSE \E a \in hits :
                            /\ \A b \in hits : a <= b
                            /\ header_offset' = a
                            /\ format' = found[a]
                            /\ start_offset' = a
                            /\ seen' = Append(seen, a)
                            /\ pc' = "dispatch"
                            /\ UNCHANGED offset
               /\ UNCHANGED cause
  /\ UNCHANGED <<source, first, folderVars, saveVars>>

\* "No more signatures found."
SearchFails ==
  /\ pc = "search"
  /\ offset >= Size
  /\ pc' = "finished"
  /\ UNCHANGED <<source, first, scanVars, folderVars, saveVars, seen, cause>>

-----------------------------------------------------------------------------
(* Dispatch on the format, target folder and target file                   *)

\* The end of one turn of the loop.
SameHeaderAgain == header_offset
PastTheFile == header_offset + SectorSize + (Len(target) \div SectorSize) * SectorSize
NextSearch == header_offset + SectorSize

\* ZoomH6Raw::Execute (module ZoomH6): 0 bytes end the program, else the search
\* goes on.
Special ==
  /\ pc = "dispatch" /\ format.how = "special"
  /\ \/ pc' = "stopped" /\ UNCHANGED <<start_offset, cause>>
     \/ pc' = "loop" /\ start_offset' = NextSearch /\ UNCHANGED cause
     \/ Die("special") /\ UNCHANGED start_offset
  /\ UNCHANGED <<source, first, offset, header_offset, format, folderVars, saveVars, seen>>

\* Specify: always true for StandartRaw; a factory's algorithm reads the
\* source and may refuse or throw.
NotSpecified ==
  /\ pc = "dispatch" /\ format.how = "factory"
  /\ \/ pc' = "loop" /\ start_offset' = NextSearch /\ UNCHANGED cause
     \/ Die("factory") /\ UNCHANGED start_offset
  /\ UNCHANGED <<source, first, offset, header_offset, format, folderVars, saveVars, seen>>

\* A new folder whenever fileCounter is a multiple of 2500, then the file,
\* named by folder and header offset.  File::Open throws when it fails, so
\* the "Error to create target file" branch of main() is never taken.
Rotates == fileCounter % FilesPerFolder = 0

CreateTarget ==
  /\ pc = "dispatch" /\ format.how # "special"
  /\ LET newFolder == IF Rotates THEN folderCounter ELSE folder
     IN /\ folder' = newFolder
        /\ folderCounter' = IF Rotates THEN folderCounter + 1 ELSE folderCounter
        /\ \/ /\ created' = Append(created, <<newFolder, header_offset>>)
              /\ pc' = IF format.how = "factory" THEN "factory"
                       ELSE IF format.footers > 0 THEN "footer" ELSE "append"
              /\ UNCHANGED cause
           \/ Die("create") /\ UNCHANGED created
  /\ offset' = header_offset
  /\ read_end' = header_offset
  /\ buffer' = NoBlock
  /\ target' = <<>>
  /\ UNCHANGED <<source, first, start_offset, header_offset, format, fileCounter, seen>>

\* SaveRawFile has returned: close, verify or rename, and on by one sector
\* (jump_size, computed from the saved size, is overwritten).
FinishFile ==
  /\ pc = "saved"
  /\ start_offset' = NextSearch
  /\ fileCounter' = fileCounter + 1
  /\ pc' = "loop"
  /\ buffer' = NoBlock /\ read_end' = 0 /\ target' = <<>>
  /\ UNCHANGED <<source, first, offset, header_offset, format, folderCounter, folder,
                 created, seen, cause>>

-----------------------------------------------------------------------------
(* SaveRawFile                                                             *)

\* An algorithm of a factory saves what it finds and verifies it (main()
\* renames a bad file, and counts it all the same), or throws.
SaveByFactory ==
  /\ pc = "factory"
  /\ \/ pc' = "saved" /\ UNCHANGED cause
     \/ Die("factory")
  /\ UNCHANGED <<source, first, scanVars, folderVars, saveVars, seen>>

\* The cells [a, a + n) of the source, read into the buffer.
Filled(a, n) == [i \in DOMAIN buffer |-> IF i < n THEN a + i ELSE buffer[i]]

\* The first n cells of a buffer, as WriteData takes them.  Beyond the buffer
\* the memory is whatever the heap holds there.
FirstOf(b, n) == [i \in 1 .. n |-> IF i - 1 \in DOMAIN b THEN b[i - 1] ELSE Blank]

\* The target after the first n cells of b were written behind its last one.
WrittenOver(b, n) == FirstOf(b, n)
Written(b, n) == target \o FirstOf(b, n)

\* appendToFile: how much it decides to copy.  Too large a request is cut to
\* getSize() - write_size, an unsigned difference.
ToWrite ==
  IF header_offset + format.maxSize > Size
  THEN (Size - format.maxSize) % OffsetMod
  ELSE format.maxSize

AppendBlock ==
  /\ pc = "append"
  /\ Len(target) < ToWrite
  /\ LET n == calcBlockSize(Len(target), format.maxSize, BlockSize)
     IN IF ReadThrows(offset, n)
        THEN Die("read") /\ UNCHANGED <<offset, saveVars>>
        ELSE /\ buffer' = Filled(offset, n)
             /\ target' = Written(buffer', n)
             /\ offset' = offset + n
             /\ read_end' = offset + n
             /\ UNCHANGED <<pc, cause>>
  /\ UNCHANGED <<source, first, start_offset, header_offset, format, folderVars, seen>>

AppendDone ==
  /\ pc = "append"
  /\ Len(target) >= ToWrite
  /\ pc' = "saved"
  /\ UNCHANGED <<source, first, scanVars, folderVars, saveVars, seen, cause>>

\* findFooter: where in the n cells read footer k may start.  It stops one
\* short of a footer that ends with the block, and cannot see one that the
\* next block completes.
FooterStart == IF offset = header_offset THEN SectorSize ELSE 0
FootersIn(k, n) ==
  {i \in FooterStart .. n - FooterLength[k] - 1 : offset + i \in source.foot[k]}

\* data_size - footer_data.size() is unsigned: of a block shorter than the
\* footer the search runs on over the rest of the buffer, where an earlier
\* block may have left one, and leaves the buffer.
RunsOn(k, n) == n < FooterLength[k]

\* Writing up to position i of footer k, and the tail, ends the file.
EndWithFooter(k, i) ==
  /\ target' = Written(buffer', i + FooterLength[k] + format.tail)
  /\ pc' = "saved"
  /\ UNCHANGED <<offset, cause>>

\* bytes_to_write: a block, and what was read of the last one.
ToAppend(n) == IF n < BlockSize THEN n ELSE BlockSize

\* Without a footer the block is appended; the loop ends when that makes the
\* file exactly maxFileSize_ long.
AfterWritten(n) == Len(target) + ToAppend(n)
AppendFooterless(n) ==
  /\ target' = Written(buffer', ToAppend(n))
  /\ IF AfterWritten(n) = format.maxSize
     THEN pc' = "saved" /\ UNCHANGED offset
     ELSE offset' = offset + ToAppend(n) /\ UNCHANGED pc
  /\ UNCHANGED cause

FooterBlock ==
  /\ pc = "footer"
  /\ offset < Size
  /\ LET n     == calcBlockSize(offset, Size, BlockSize)
         tried == 1 .. format.footers
         Stops(k) == RunsOn(k, n) \/ FootersIn(k, n) # {}
     IN IF ReadThrows(offset, n)
        THEN Die("read") /\ UNCHANGED <<offset, saveVars>>
        ELSE /\ buffer' = Filled(offset, n)
             /\ read_end' = offset + n
             /\ \/ /\ \A k \in tried : ~Stops(k)
                   /\ AppendFooterless(n)
                \/ \E k \in tried :
                     /\ Stops(k)
                     /\ \A m \in 1 .. k - 1 : ~Stops(m)
                     /\ IF RunsOn(k, n)
                        THEN \/ Die("footer search leaves the buffer") /\ UNCHANGED <<offset, target>>
                             \/ \E i \in FooterStart .. BlockSize - FooterLength[k] : EndWithFooter(k, i)
                        ELSE \E i \in FootersIn(k, n) :
                               /\ \A j \in FootersIn(k, n) : i <= j
                               /\ EndWithFooter(k, i)
  /\ UNCHANGED <<source, first, start_offset, header_offset, format, folderVars, seen>>

FooterDone ==
  /\ pc = "footer"
  /\ offset >= Size
  /\ pc' = "saved"
  /\ UNCHANGED <<source, first, scanVars, folderVars, saveVars, seen, cause>>

\* Any WriteData to the target may throw: the target volume is full.
WriteThrows ==
  /\ (pc = "append" /\ Len(target) < ToWrite) \/ (pc = "footer" /\ offset < Size)
  /\ Die("write")
  /\ UNCHANGED <<source, first, scanVars, folderVars, saveVars, seen>>

Next ==
  \/ LoopHead \/ SearchBlock \/ SearchFails
  \/ Special \/ NotSpecified \/ CreateTarget \/ FinishFile
  \/ SaveByFactory \/ AppendBlock \/ AppendDone
  \/ FooterBlock \/ FooterDone \/ WriteThrows

\* One thread that never waits.
Spec == Init /\ [][Next]_vars /\ WF_vars(Next)
-----------------------------------------------------------------------------
(* Properties                                                              *)

Terminal == {"finished", "stopped", "dead"}

\* Types of the program's state.
TypeOK ==
  /\ pc \in {"loop", "search", "dispatch", "factory", "append", "footer", "saved"} \cup Terminal
  /\ {first, start_offset, offset, header_offset, fileCounter, folderCounter,
      folder, read_end} \subseteq Nat
  /\ pc \in {"search", "append", "footer"} => offset <= Size
  /\ format \in Formats \cup {NoFormat}
  /\ pc \in {"dispatch", "factory", "append", "footer", "saved"} => format # NoFormat
  /\ buffer \in [0 .. BlockSize - 1 -> Cell \cup {Blank}]
  /\ target \in Seq(Cell \cup {Blank})
  /\ created \in Seq(Nat \X Sectors)
  /\ seen \in Seq(Sectors)

\* A scan that runs to its end has carved at every signature behind the start
\* offset, also at those inside a file carved before (main.cpp overwrites the
\* jump over the saved file), once each and in order.
EveryHeaderSeen ==
  /\ \A i, j \in DOMAIN seen : i < j => seen[i] < seen[j]
  /\ pc = "finished" =>
       \A a \in Sectors :
         a >= first /\ a + SigLength <= Size /\ source.sig[a] # NoFormat
           => \E i \in DOMAIN seen : seen[i] = a

\* No target is opened twice: Create empties an existing file, and the file
\* of an earlier header would be lost.
NoTargetTwice == \A i, j \in DOMAIN created : i < j => created[i] # created[j]

\* No folder gets more than FilesPerFolder files, and none but the last fewer.
FolderBound ==
  \A d \in 0 .. folderCounter - 1 :
    LET files == Cardinality({i \in DOMAIN created : created[i][1] = d})
    IN /\ files <= FilesPerFolder
       /\ d < folderCounter - 1 => files = FilesPerFolder

\* The saved file is the source from the header on: what was read reaches the
\* target once, in order and at its place, and while blocks are copied nothing
\* else does.
TargetIsSource ==
  /\ \A i \in DOMAIN target :
       header_offset + i - 1 < read_end => target[i] = header_offset + i - 1
  /\ pc \in {"append", "footer"} => Len(target) = read_end - header_offset

\* Footer k at a can be found: behind the first sector of the file, and ending
\* before the block does.  Blocks are counted from the header.
BlockOf(a) == (a - header_offset) \div BlockSize
CanBeFound(k, a) ==
  /\ a >= header_offset + SectorSize
  /\ a + FooterLength[k] < read_end
  /\ BlockOf(a) = BlockOf(a + FooterLength[k])

\* The search of footer m ran on behind the last block, which is shorter.
RanOn(m, a) == read_end - (header_offset + BlockOf(a) * BlockSize) < FooterLength[m]

\* A footer is passed over only where the search of SaveRawFile is blind: in
\* the first sector of the file, touching the end of a block, or in front of a
\* footer in the same block that comes earlier in the list (the list is tried
\* footer by footer, not position by position), one whose search runs on
\* included.  Any other ends the file, and each that can be found ends it in
\* its block.
FooterEndsFile ==
  pc = "saved" /\ format.how = "standard" =>
    \A k \in 1 .. format.footers : \A a \in source.foot[k] :
      CanBeFound(k, a) =>
        /\ Len(target) <= (BlockOf(a) + 1) * BlockSize + format.tail
        /\ \/ Len(target) <= a - header_offset + FooterLength[k] + format.tail
           \/ \E m \in 1 .. k - 1 :
                \/ RanOn(m, a)
                \/ \E b \in source.foot[m] : CanBeFound(m, b) /\ BlockOf(b) = BlockOf(a)

\* A file with footers grows beyond maxFileSize_ only by the tail of the footer
\* that ends it, when maxFileSize_ is a multiple of the block size.
SizeLimit ==
  pc \in {"footer", "saved"} /\ format.how = "standard" /\ format.footers > 0
    /\ format.maxSize > 0 /\ format.maxSize % BlockSize = 0
    => Len(target) <= format.maxSize + format.tail

\* A save runs into the end of the source only for a format without footers
\* whose maxFileSize_ does not fit behind its header; any other read that
\* throws met a bad cell.
ReadsStayInside ==
  cause = "read" /\ source.bad = {} =>
    format.how = "standard" /\ format.footers = 0 /\ header_offset + format.maxSize > Size

\* The targets are kept: none is emptied by a later one, and each folder holds
\* as many as it should (main.cpp:252-260).
TargetsAreKept == NoTargetTwice /\ FolderBound

\* A saved file is its source up to where its format says it ends (DefaultRaw,
\* StandartRaw::SaveRawFile).
SavedIsSource == TypeOK /\ TargetIsSource /\ FooterEndsFile /\ SizeLimit /\ ReadsStayInside

\* Whatever the source holds, the program ends: every turn of main's loop, of
\* the search and of a save makes progress.
Termination == <>(pc \in Terminal)

=============================================================================
