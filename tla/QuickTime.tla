----------------------------- MODULE QuickTime ------------------------------
(***************************************************************************)
(* libraw: QuickTimeRaw, and the two algorithms for videos whose parts lie *)
(* apart, QTFragmentRaw (media data first, its index later) and            *)
(* CanonStartFragment (the index first).  rawrecoveryconsole calls         *)
(* Specify, and SaveRawFile when that agrees; an exception ends it.        *)
(*                                                                         *)
(* A cell is as long as the header of an atom (8 bytes), and atoms begin   *)
(* at cells.  A 32-bit size of 1 stands for a 64-bit size in the cell      *)
(* behind the header; that is the size Extended here.                      *)
(***************************************************************************)
EXTENDS BlockCopy, SequencesExt

CONSTANTS
  SectorSize,       \* default_sector_size
  BlockSize,        \* default_block_size
  FragmentBlock,    \* 131072, the block of QTFragmentRaw
  FullSizeAt,       \* Offset_29CA
  Extended,         \* the size field 1
  Images            \* devices with the header the search found

NoAtom == [type |-> "data", size |-> 0, ext |-> 0]
AtomTypes == {"ftyp", "moov", "mdat", "free"}   \* qt_array

ASSUME QuickTimeAssumption ==
  /\ {SectorSize, BlockSize, FragmentBlock} \subseteq Nat \ {0}
  /\ FullSizeAt \in Nat
  /\ Extended \notin Nat
  /\ \A image \in Images :
       /\ image.start \in Cell
       /\ DOMAIN image.atoms \subseteq Cell /\ image.bad \subseteq Cell
       /\ \A a \in DOMAIN image.atoms :
            /\ image.atoms[a].type \in AtomTypes
            /\ image.atoms[a].size \in 0 .. Size + 2 \cup {Extended}
            /\ image.atoms[a].ext \in 0 .. Wide - 1
       /\ image.fullSize \in Nat

VARIABLES
  source,      \* the device
  algorithm,   \* the algorithm the header's format names
  pc,          \* where it is, or how it ended
  offset,
  list,        \* keywordsList_, or the atoms to be joined: [offset, size] each
  target,      \* content of the target file
  result       \* what SaveRawFile returned

qtVars == <<source, algorithm, pc, offset, list, target, result>>

Return(n) == pc' = "returned" /\ result' = n
Throws == pc' = "read"

QtInit ==
  /\ source \in Images
  /\ algorithm = source.algorithm
  /\ pc = "specify"
  /\ offset = source.start
  /\ list = <<>>
  /\ target = <<>>
  /\ result = 0

-----------------------------------------------------------------------------
(* Atoms                                                                   *)

Field(a) == IF a \in DOMAIN source.atoms THEN source.atoms[a] ELSE NoAtom
Type(a) == Field(a).type

\* readQtAtom: the size of the atom at a, 0 when there is none.  The header of
\* an atom whose offset wraps around is not where it is looked for.
NoHeaderFits(a) == (a + 1) % Wide > Size
readQtAtom(a) ==
  IF NoHeaderFits(a) \/ Field(a).type \notin AtomTypes THEN 0
  ELSE IF Field(a).size # Extended THEN Field(a).size
  ELSE IF a + 2 >= Size THEN 0 ELSE Field(a).ext

\* ... or throws.  The second header is read only for a size of Extended.
ReadAtomThrows(a) ==
  /\ ~NoHeaderFits(a)
  /\ ~Readable(a, IF Field(a).size = Extended /\ a + 2 < Size THEN 2 ELSE 1, source.bad)

Atom(a) == [offset |-> a, size |-> readQtAtom(a)]
Behind(atom) == (atom.offset + atom.size) % Wide
Total(atoms) ==
  LET sum[k \in 0 .. Len(atoms)] ==
        IF k = 0 THEN 0 ELSE (sum[k - 1] + atoms[k].size) % Wide
  IN sum[Len(atoms)]

-----------------------------------------------------------------------------
(* QuickTimeRaw                                                            *)

isPresentMainKeywords ==
  {"mdat", "moov"} \subseteq {Type(list[k].offset) : k \in DOMAIN list}

\* Specify, one turn of readAllQtAtoms: the next atom is added to the list.
StaysAtKeyword(a) == a
NextKeyword(a) == Behind(Atom(a))
ReadKeyword ==
  /\ pc = "specify" /\ algorithm = "quicktime"
  /\ ~ReadAtomThrows(offset)
  /\ readQtAtom(offset) # 0
  /\ \A k \in DOMAIN list : list[k].offset # offset
  /\ list' = Append(list, Atom(offset))
  /\ offset' = NextKeyword(offset)
  /\ UNCHANGED <<source, algorithm, pc, target, result>>

\* Back at an atom it has read the loop never ends, and the list fills memory.
Endless ==
  /\ pc = "specify" /\ algorithm = "quicktime"
  /\ \E k \in DOMAIN list : list[k].offset = offset
  /\ pc' = "endless"
  /\ UNCHANGED <<source, algorithm, offset, list, target, result>>

SpecifyThrows ==
  /\ pc = "specify" /\ algorithm = "quicktime"
  /\ ReadAtomThrows(offset)
  /\ Throws
  /\ UNCHANGED <<source, algorithm, offset, list, target, result>>

Specified ==
  /\ pc = "specify" /\ algorithm = "quicktime"
  /\ ~ReadAtomThrows(offset)
  /\ readQtAtom(offset) = 0
  /\ pc' = IF isPresentMainKeywords THEN "save" ELSE "not specified"
  /\ UNCHANGED <<source, algorithm, offset, list, target, result>>

\* appendToFile of a part, and of one and then, unless it threw, another.
AppendToFile(part, block) ==
  LET one == Copied(part.offset, part.size, block, source.bad)
  IN /\ target' = Cells(part.offset, one.count)
     /\ IF one.throws THEN Throws /\ UNCHANGED result ELSE Return(one.count)

AppendBoth(first, second, block) ==
  LET one == Copied(first.offset, first.size, block, source.bad)
      two == Copied(second.offset, second.size, block, source.bad)
  IN IF one.throws THEN AppendToFile(first, block)
     ELSE /\ target' = Cells(first.offset, one.count) \o Cells(second.offset, two.count)
          /\ IF two.throws THEN Throws /\ UNCHANGED result ELSE Return(one.count + two.count)

Part(a, n) == [offset |-> a, size |-> n]
WithoutLast == Total(Front(list))
sizeKeywords == Total(list)

SaveRawFile ==
  /\ pc = "save" /\ algorithm = "quicktime"
  /\ IF sizeKeywords > 0
     THEN AppendToFile(Part(source.start, sizeKeywords), BlockSize)
     ELSE Return(0) /\ UNCHANGED target
  /\ UNCHANGED <<source, algorithm, offset, list>>

-----------------------------------------------------------------------------
(* QTFragmentRaw::SaveRawFile: the header is that of the media data.       *)

alingToSector(a) == (a \div SectorSize) * SectorSize
BehindMedia(a) == alingToSector(a) + SectorSize

ReadMedia ==
  /\ pc = "specify" /\ algorithm = "canonfragment"
  /\ IF ReadAtomThrows(offset) THEN Throws /\ UNCHANGED <<offset, list, result>>
     ELSE IF readQtAtom(offset) = 0 THEN Return(0) /\ UNCHANGED <<offset, list>>
     ELSE /\ list' = <<Atom(offset)>>
          /\ offset' = BehindMedia((offset + readQtAtom(offset)) % Wide) % Wide
          /\ pc' = "find ftyp"
          /\ UNCHANGED result
  /\ UNCHANGED <<source, algorithm, target>>

\* findQtKeyword, one block of it: the first keyword in the block that is an atom.
block_end == Smaller(offset + FragmentBlock, Size)
candidates == {a \in offset .. block_end - 1 : Type(a) = "ftyp"}
TriedFirst(a) == \A b \in candidates : b < a => readQtAtom(b) = 0

FindFtyp ==
  /\ pc = "find ftyp"
  /\ \/ /\ offset >= Size
        /\ Return(0) /\ UNCHANGED <<offset, list>>
     \/ /\ offset < Size
        /\ \/ ~Readable(offset, block_end - offset, source.bad)
           \/ \E a \in candidates : TriedFirst(a) /\ ReadAtomThrows(a)
        /\ Throws /\ UNCHANGED <<offset, list, result>>
     \/ /\ offset < Size
        /\ Readable(offset, block_end - offset, source.bad)
        /\ \E a \in candidates :
             /\ TriedFirst(a) /\ ~ReadAtomThrows(a) /\ readQtAtom(a) # 0
             /\ list' = Append(list, Atom(a))
             /\ offset' = Behind(Atom(a))
        /\ pc' = "join" /\ UNCHANGED result
     \/ /\ offset < Size
        /\ Readable(offset, block_end - offset, source.bad)
        /\ \A a \in candidates : readQtAtom(a) = 0 /\ ~ReadAtomThrows(a)
        /\ offset' = block_end
        /\ UNCHANGED <<pc, list, result>>
  /\ UNCHANGED <<source, algorithm, target>>

\* ftyp, moov and, if there is one, free; then the media data.
first_part ==
  LET moov == Atom(offset)
      free == Behind(moov)
  IN IF readQtAtom(free) # 0 /\ Type(free) = "free"
     THEN <<list[2], moov, Atom(free)>> ELSE <<list[2], moov>>

JoinFragments ==
  /\ pc = "join"
  /\ IF ReadAtomThrows(offset) THEN Throws /\ UNCHANGED <<list, target, result>>
     ELSE IF readQtAtom(offset) = 0 \/ Type(offset) # "moov"
     THEN Return(0) /\ UNCHANGED <<list, target>>
     ELSE IF ReadAtomThrows(Behind(Atom(offset)))
     THEN Throws /\ UNCHANGED <<list, target, result>>
     ELSE /\ list' = first_part \o <<list[1]>>
          /\ AppendBoth(Part(list[2].offset, Total(first_part)),
                        Part(source.start, list[1].size), FragmentBlock)
  /\ UNCHANGED <<source, algorithm, offset>>

-----------------------------------------------------------------------------
(* CanonStartFragment::SaveRawFile: the header is that of the index, and   *)
(* the size of the whole file is told there.                               *)

ReadIndex ==
  /\ pc = "specify" /\ algorithm = "canonstartfragment"
  /\ LET ftyp == Atom(source.start)
         moov == Atom(Behind(ftyp))
     IN IF \/ ~Readable(source.start + FullSizeAt, 1, source.bad)
           \/ ReadAtomThrows(source.start)
           \/ ftyp.size # 0 /\ ReadAtomThrows(moov.offset)
        THEN Throws /\ UNCHANGED <<list, result, offset>>
        ELSE IF ftyp.size = 0 \/ moov.size = 0 \/ source.fullSize <= Total(<<ftyp, moov>>)
        THEN Return(0) /\ UNCHANGED <<list, offset>>
        ELSE /\ list' = <<ftyp, moov>>
             /\ offset' = 0
             /\ pc' = "find mdat"
             /\ UNCHANGED result
  /\ UNCHANGED <<source, algorithm, target>>

\* findSecondPart, one block of it, from the beginning of the device: an mdat
\* with a 64-bit size, at a sector, of just the size that is missing.
Expected(a) ==
  /\ Type(a) = "mdat" /\ Field(a).size = Extended
  /\ readQtAtom(a) = source.fullSize - Total(list)
second_parts ==
  {a \in offset .. offset + BlockSize - 1 : (a - offset) % SectorSize = 0 /\ Expected(a)}

FindSecondPart ==
  /\ pc = "find mdat"
  /\ IF offset >= Size THEN Return(0) /\ UNCHANGED <<list, target, offset>>
     ELSE IF ~Readable(offset, BlockSize, source.bad)
     THEN Throws /\ UNCHANGED <<list, target, result, offset>>
     ELSE IF second_parts = {}
     THEN /\ offset' = offset + BlockSize
          /\ UNCHANGED <<pc, list, target, result>>
     ELSE LET mdat == CHOOSE a \in second_parts : \A b \in second_parts : a <= b
          IN /\ list' = Append(list, Atom(mdat))
             /\ AppendBoth(Part(source.start, Total(list)), Atom(mdat), BlockSize)
             /\ UNCHANGED offset
  /\ UNCHANGED <<source, algorithm>>

QtNext ==
  \/ ReadKeyword \/ Endless \/ SpecifyThrows \/ Specified \/ SaveRawFile
  \/ ReadMedia \/ FindFtyp \/ JoinFragments
  \/ ReadIndex \/ FindSecondPart

-----------------------------------------------------------------------------
(* Properties                                                              *)

\* Sizes are added to the offset without a test (quicktime.h:298), but the walk
\* of readAllQtAtoms comes back to an atom only by an offset that wraps around:
\* without one each atom lies behind the one before.
EndlessOnlyByWrap ==
  pc = "endless" => \E k \in DOMAIN list : list[k].offset + list[k].size >= Wide

\* The atoms that were found are what a player will find in the target: each
\* atom of the list follows in the target where the sizes of those before it
\* say, index before media whatever their order on the device, and the file
\* ends with the last one.  This is so for every save that returns other than
\* 0, unless a part of it ran beyond the device; then less was written than
\* the atoms are long together, as Total is not when it wraps around.
Length(atoms) ==
  LET sum[k \in 0 .. Len(atoms)] == IF k = 0 THEN 0 ELSE sum[k - 1] + atoms[k].size
  IN sum[Len(atoms)]
InsideDevice == \A k \in DOMAIN list : list[k].offset + list[k].size <= Size
SavedFileParses ==
  pc = "returned" /\ result # 0 /\
  algorithm \in {"quicktime", "canonfragment", "canonstartfragment"} =>
    /\ result = Len(target)
    /\ IF InsideDevice
       THEN /\ Len(target) = Length(list)
            /\ \A k \in DOMAIN list :
                 \A i \in 0 .. list[k].size - 1 :
                   target[Length(SubSeq(list, 1, k - 1)) + 1 + i] = list[k].offset + i
       ELSE Len(target) < Length(list)
=============================================================================
