----------------------------- MODULE ChunkWalks -----------------------------
(***************************************************************************)
(* libraw: the algorithms that follow sizes, for the header Signatures has *)
(* found.  RawRIFF, RawMXF, RawWebm and DjvuRAW read one size field;       *)
(* PLN_BL goes from chunk to chunk; RawAdobePremire looks for nulls;       *)
(* ZOOMHandyRecorderRaw takes clusters of two tracks in turn; OleRAW and   *)
(* PLNRaw have no size of their own.  Specify is called first, and         *)
(* SaveRawFile when that agrees; an exception ends the program.            *)
(***************************************************************************)
EXTENDS Signatures

CONSTANTS
  DWord,          \* 2^32
  SectorSize, BlockSize,
  HeaderLength,   \* what is read of each format at the header
  Addition,       \* what each format adds to the size field
  RiffHeader,     \* riff_header_struct_size
  WebmShift,      \* 2^8
  PlnHeader,      \* PLN_BL_header_size
  BlHeader,       \* BL_struct_size
  BlUnit,         \* 16, the unit of a chunk's size
  NullLength,     \* four_nulls_size
  Cluster         \* cluster_size_ of the recorder

BySize == {"riff", "mxf", "webm", "djvu"}

ASSUME ChunkWalksAssumption ==
  /\ {DWord, SectorSize, BlockSize, WebmShift, BlUnit, NullLength, Cluster,
      PlnHeader, BlHeader} \subseteq Nat \ {0}
  /\ RiffHeader \in Nat \ {0} /\ DWord > RiffHeader + 1
  /\ HeaderLength \in [BySize -> Nat \ {0}] /\ Addition \in [BySize -> Nat]
  /\ \A image \in Images :
       /\ image.field \in 0 .. Wide - 1 /\ image.mono \in 0 .. DWord - 1
       /\ image.bad \subseteq Cell /\ image.nulls \subseteq Cell
       /\ \A a \in DOMAIN image.chunks : image.chunks[a] \in 0 .. DWord - 1

VARIABLES
  offset,      \* where the algorithm is
  size,        \* what it has added up, or file_size_
  target,      \* content of the target file
  monoFile,    \* content of the second track's file
  result       \* what SaveRawFile returned

walkVars == <<offset, size, target, monoFile, result>>
vars == <<sigVars, walkVars>>

Init ==
  /\ SigInit
  /\ offset = 0 /\ size = 0
  /\ target = <<>> /\ monoFile = <<>>
  /\ result = 0

start == source.start
At(here) == pc = here /\ UNCHANGED <<source, next, headers, base, algorithm>>
Becomes(there) == pc' = there
Throws == Becomes("read") /\ UNCHANGED <<target, monoFile, result>>
Return(n) == Becomes("returned") /\ result' = n

\* appendToFile of n cells to the end of a file, which returns or throws.
Appended(file, a, n) ==
  LET copy == Copied(a, n, BlockSize, source.bad)
  IN [file |-> file \o Cells(a, copy.count), throws |-> copy.throws]

-----------------------------------------------------------------------------
(* One size field                                                          *)

\* The field as the format reads it, and the file's size in the width that is
\* calculated in.  mxf reads its field only when it saves.
Width == IF algorithm \in {"riff", "djvu"} THEN DWord ELSE Wide
content == IF algorithm = "webm" THEN source.field \div WebmShift ELSE source.field % Width
WithoutHeader == content
file_size == (content + Addition[algorithm]) % Width

Rejected ==
  \/ algorithm \in {"riff", "webm"} /\ content = 0
  \/ algorithm = "riff" /\ content >= DWord - 1 - RiffHeader

HeaderRead == Readable(start, HeaderLength[algorithm], source.bad)

SpecifyBySize ==
  /\ At("specify") /\ algorithm \in BySize
  /\ IF algorithm # "mxf" /\ ~HeaderRead THEN Throws /\ UNCHANGED <<offset, size>>
     ELSE /\ Becomes(IF Rejected THEN "not specified" ELSE "save")
          /\ size' = file_size
          /\ UNCHANGED <<offset, target, monoFile, result>>

SaveBySize ==
  /\ At("save") /\ algorithm \in BySize
  /\ LET save == Appended(<<>>, start, size)
         none == size = 0 \/ (algorithm = "mxf" /\ content = 0)
     IN IF algorithm = "mxf" /\ ~HeaderRead THEN Throws
        ELSE IF none THEN Return(0) /\ UNCHANGED <<target, monoFile>>
        ELSE /\ target' = save.file
             /\ IF save.throws THEN Becomes("read") /\ UNCHANGED result
                ELSE Return(Len(save.file))
             /\ UNCHANGED monoFile
  /\ UNCHANGED <<offset, size>>

-----------------------------------------------------------------------------
(* PLN_BL, RawAdobePremire, PLNRaw, OleRAW                                 *)

\* PLN_BL::SaveRawFile up to its loop, and one turn of the loop.
PlnBegin ==
  /\ At("specify") /\ algorithm = "pln_bl"
  /\ IF ~Readable(start, PlnHeader, source.bad) THEN Throws /\ UNCHANGED <<offset, size>>
     ELSE /\ Becomes("walk")
          /\ offset' = start + PlnHeader
          /\ size' = PlnHeader
          /\ UNCHANGED <<target, monoFile, result>>

Stuck(a) == a
BehindChunk(a) == a + ((source.chunks[a] * BlUnit) % DWord)
WalkChunk ==
  /\ At("walk") /\ algorithm = "pln_bl"
  /\ IF ~Readable(offset, BlHeader, source.bad) THEN Throws /\ UNCHANGED <<offset, size>>
     ELSE IF offset \notin DOMAIN source.chunks
     THEN Becomes("save") /\ UNCHANGED walkVars
     ELSE /\ offset' = BehindChunk(offset)
          /\ size' = size + (offset' - offset)
          /\ UNCHANGED <<pc, target, monoFile, result>>

SaveChunks ==
  /\ At("save") /\ algorithm = "pln_bl"
  /\ LET save == Appended(<<>>, start, size)
     IN /\ target' = save.file
        /\ IF save.throws THEN Becomes("read") /\ UNCHANGED result
           ELSE Return(Len(save.file))
  /\ UNCHANGED <<offset, size, monoFile>>

\* RawAdobePremire::Specify, one block.  At the end of the buffer the comparison
\* goes beyond it.
nulls_at ==
  {a \in offset .. offset + BlockSize - 1 :
     \A b \in a .. Smaller(a + NullLength, offset + BlockSize) - 1 : b \in source.nulls}
overrun == {a \in nulls_at : a + NullLength > offset + BlockSize}
First(set) == CHOOSE a \in set : \A b \in set : a <= b

PrprojBegin ==
  /\ At("specify") /\ algorithm = "prproj"
  /\ Becomes("walk")
  /\ offset' = start + SectorSize
  /\ UNCHANGED <<size, target, monoFile, result>>

FindNulls ==
  /\ At("walk") /\ algorithm = "prproj"
  /\ IF offset >= Size THEN Becomes("not specified") /\ UNCHANGED walkVars
     ELSE IF ~Readable(offset, BlockSize, source.bad) THEN Throws /\ UNCHANGED <<offset, size>>
     ELSE \E equal \in SUBSET overrun :
            LET found == (nulls_at \ overrun) \cup equal
            IN IF found = {}
               THEN offset' = offset + BlockSize /\ UNCHANGED <<pc, size, target, monoFile, result>>
               ELSE /\ size' = First(found) + 1 - start
                    /\ Becomes("save") /\ UNCHANGED <<offset, target, monoFile, result>>

SaveProject ==
  /\ At("save") /\ algorithm = "prproj"
  /\ LET save == Appended(<<>>, start, size)
     IN /\ target' = save.file
        /\ IF save.throws THEN Becomes("read") /\ UNCHANGED result
           ELSE Return(Len(save.file))
  /\ UNCHANGED <<offset, size, monoFile>>

\* PLNRaw takes the first bytes of the header for the footer; OleRAW, whose
\* sizeToWrite nobody sets, saves nothing.
SpecifyOther ==
  /\ At("specify") /\ algorithm \in {"pln", "ole", "zip"}
  /\ IF algorithm = "ole" THEN Return(0) /\ UNCHANGED <<target, monoFile>>
     ELSE IF algorithm = "pln" /\ ~Readable(start, SectorSize, source.bad) THEN Throws
     ELSE Becomes("standard") /\ UNCHANGED <<target, monoFile, result>>
  /\ UNCHANGED <<offset, size>>

-----------------------------------------------------------------------------
(* ZOOMHandyRecorderRaw::SaveRawFile                                       *)

\* Two appendToFiles, of which the second is not reached when the first throws.
\* The position of the next stereo clusters is that behind the mono cluster.
BothTracks(a, n) ==
  LET stereo == Appended(target, a, n)
      mono   == Appended(monoFile, a + n, Cluster)
  IN /\ target' = stereo.file
     /\ monoFile' = IF stereo.throws THEN monoFile ELSE mono.file
     /\ IF stereo.throws \/ mono.throws THEN Becomes("read")
        ELSE Becomes("walk")

\* Both headers are read, and then the mono file is created: File::Open throws
\* when it cannot be.
ZoomBegin ==
  /\ At("specify") /\ algorithm = "ZOOMHandyRecorder"
  /\ \/ Throws /\ UNCHANGED offset
     \/ /\ Readable(start, RiffHeader, source.bad)
        /\ Readable(start + Cluster, RiffHeader, source.bad)
        /\ BothTracks(start, Cluster) /\ offset' = start + 2 * Cluster /\ UNCHANGED result
  /\ UNCHANGED size

AfterStereo(a) == a + 2 * Cluster
AfterMono(a) == a + 3 * Cluster
stereo_size == Len(target) % DWord
ZoomTurn ==
  /\ At("walk") /\ algorithm = "ZOOMHandyRecorder"
  /\ stereo_size < source.field % DWord
  /\ IF offset >= Size THEN Return(0) /\ UNCHANGED <<offset, target, monoFile>>
     ELSE BothTracks(offset, 2 * Cluster) /\ offset' = AfterMono(offset) /\ UNCHANGED result
  /\ UNCHANGED size

WithHeader(n) == (n + RiffHeader) % DWord
SetSize(file, n) == [i \in 1 .. n |-> IF i <= Len(file) THEN file[i] ELSE Blank]
ZoomEnd ==
  /\ At("walk") /\ algorithm = "ZOOMHandyRecorder"
  /\ LET stereo == source.field % DWord
     IN /\ stereo_size >= stereo
        /\ target' = SetSize(target, WithHeader(stereo))
        /\ monoFile' = IF source.mono < stereo
                       THEN SetSize(monoFile, WithHeader(source.mono))
                       ELSE monoFile
        /\ Return(stereo_size)
  /\ UNCHANGED <<offset, size>>

-----------------------------------------------------------------------------

Next ==
  \/ SigNext /\ UNCHANGED walkVars
  \/ SpecifyBySize \/ SaveBySize
  \/ PlnBegin \/ WalkChunk \/ SaveChunks
  \/ PrprojBegin \/ FindNulls \/ SaveProject
  \/ SpecifyOther
  \/ ZoomBegin \/ ZoomTurn \/ ZoomEnd

Spec == Init /\ [][Next]_vars /\ WF_vars(Next)

-----------------------------------------------------------------------------
(* Properties                                                              *)

\* Every header is done with in the end, unless PLN_BL meets a chunk whose size
\* is 0 in 32 bits (rawpln.h:102): it reads that chunk for ever.
Ended ==
  pc \in {"returned", "read", "not specified", "standard", "no header"}
ReadsForever ==
  /\ pc = "walk" /\ algorithm = "pln_bl"
  /\ \E a \in DOMAIN source.chunks : a = offset /\ (source.chunks[a] * BlUnit) % DWord = 0
Done == <>(Ended \/ ReadsForever)

\* A size field is taken at its word: a file that lies on the device, and whose
\* size can be counted, is saved from its header to its end, and so is one of
\* chunks.  A file that runs beyond the device, or beyond the width of the sum,
\* is never saved with the size it should have.
WantedSize ==
  IF algorithm \in BySize THEN content + Addition[algorithm] ELSE size
SavedBySize ==
  pc = "returned" /\ result # 0 /\ algorithm \in BySize \cup {"pln_bl", "prproj"} =>
    /\ target = Cells(start, result)
    /\ (start + WantedSize <= Size /\ WantedSize < Width) <=> (result = WantedSize)

\* The tracks are taken apart without loss: together their files are all that
\* was passed on the device, and no cell is in both.
Copies(file) == {file[i] : i \in DOMAIN file} \ {Blank}
TracksApart ==
  algorithm = "ZOOMHandyRecorder" =>
    /\ Copies(target) \cap Copies(monoFile) = {}
    /\ pc = "walk" => Copies(target) \cup Copies(monoFile) = start .. Smaller(offset, Size) - 1
    /\ \A i, k \in DOMAIN target :
         i < k /\ target[k] # Blank => target[i] < target[k]

\* The stereo file is whole when the loop ends, but for its last bytes: the loop
\* compares with the size field and the file is longer by a header (rawriff.h:152).
\* That is so as long as 32 bits can count what was passed on the device.
StereoIsWhole ==
  pc = "returned" /\ algorithm = "ZOOMHandyRecorder" /\ result # 0 =>
    LET stereo == source.field % DWord
    IN /\ result >= stereo
       /\ offset - start <= DWord =>
            ((\A i \in DOMAIN target : target[i] # Blank)
               <=> (stereo + RiffHeader <= result \/ stereo + RiffHeader >= DWord))

\* The recorder's file comes apart into its tracks and nothing else
\* (RawRiff, ZOOMHandyRecorder).
TakenApart == TracksApart /\ StereoIsWhole
=============================================================================
