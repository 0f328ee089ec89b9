---------------------------- MODULE ConsoleProofs ---------------------------
(***************************************************************************)
(* Proofs about the two console programs: Carver, for every device, sector *)
(* and block size, and every list of formats: each header is carved once   *)
(* and in order, no target is emptied by a later one, and a saved file is  *)
(* its source up to where its format says it ends; BlockTools, for every   *)
(* job, block and target size: each page comes to the target it belongs    *)
(* to, the last claim to a place stands, and a repaired image or table is  *)
(* right; Searches, for every image and list: what a search notes is there *)
(* and none is missing, what follows is found, and a verdict counts all    *)
(* there is to see.                                                        *)
(*                                                                         *)
(* Each property of Carver has an invariant of its own (SeenInv,           *)
(* FolderInv, SaveInv) over the types (TypeInv), each of BlockTools one    *)
(* (DealInv, ClaimInv, RepairInv) over that of its loops (LoopInv), and    *)
(* each of Searches is put together from one per search (NotedInv,         *)
(* FollowInv, VerdictInv) over which tool it is that runs (KindInv), in    *)
(* ToolInvariants.                                                         *)
(***************************************************************************)
EXTENDS Carver, ToolInvariants, TLAPS, FiniteSetTheorems, WellFoundedInduction

Saving  == {"factory", "append", "footer", "saved"}
Carving == {"dispatch"} \cup Saving

\* Searches and saves start at sectors, and the branch of SaveRawFile is the
\* format's.
TypeInv ==
  /\ TypeOK
  /\ source \in Sources
  /\ first % SectorSize = 0 /\ start_offset % SectorSize = 0
  /\ pc \in Carving => header_offset \in Sectors
  /\ pc = "search" => offset % SectorSize = 0 \/ offset = Size
  /\ pc = "factory" => format.how = "factory"
  /\ pc = "append" => format.how = "standard" /\ format.footers = 0
  /\ pc = "footer" => format.how = "standard" /\ format.footers > 0

\* Every header in front of x is carved, and all of them lie in front of it.
SeenUpTo(x) ==
  \A a \in Sectors :
    a >= first /\ a + SigLength <= Size /\ source.sig[a] # NoFormat /\ a < x
      => \E i \in DOMAIN seen : seen[i] = a
SeenInv ==
  /\ \A i, j \in DOMAIN seen : i < j => seen[i] < seen[j]
  /\ pc = "loop" => SeenUpTo(start_offset) /\ \A i \in DOMAIN seen : seen[i] < start_offset
  /\ pc = "search" => SeenUpTo(offset) /\ \A i \in DOMAIN seen : seen[i] < offset
  /\ pc \in Carving =>
       SeenUpTo(NextSearch) /\ \A i \in DOMAIN seen : seen[i] < NextSearch
  /\ pc = "finished" => SeenUpTo(Size)

\* n files fill the folders one after the other, and the newest is the one in
\* use.
Current(n) ==
  /\ n = 0 => folderCounter = 0
  /\ n > 0 => folder = folderCounter - 1 /\ (folderCounter - 1) * FilesPerFolder < n
FolderInv ==
  /\ \A i \in DOMAIN created : created[i][1] = (i - 1) \div FilesPerFolder
  /\ \A i, j \in DOMAIN created : i < j => created[i][2] < created[j][2]
  /\ (folderCounter - 1) * FilesPerFolder <= Len(created)
  /\ Len(created) <= folderCounter * FilesPerFolder
  /\ pc \in {"loop", "search", "dispatch"} => Len(created) = fileCounter /\ Current(fileCounter)
  /\ pc \in Saving => Len(created) = fileCounter + 1 /\ Current(fileCounter + 1)
  /\ pc = "loop" => \A i \in DOMAIN created : created[i][2] < start_offset
  /\ pc = "search" => \A i \in DOMAIN created : created[i][2] < offset
  /\ pc = "dispatch" => \A i \in DOMAIN created : created[i][2] < header_offset
  /\ pc \in Saving => \A i \in DOMAIN created : created[i][2] < NextSearch

\* The target is what was read; none of the footers of the format can be found
\* in it while the save goes on, and whole blocks were read.
BlockLimit == format.maxSize > 0 /\ format.maxSize % BlockSize = 0
SaveInv ==
  /\ pc \in {"loop", "search", "dispatch", "factory"} => target = <<>>
  /\ pc \in {"append", "footer"} => offset = read_end
  /\ pc = "footer" =>
       /\ \A w \in 1 .. format.footers : \A a \in source.foot[w] : ~CanBeFound(w, a)
       /\ Len(target) % BlockSize = 0 \/ offset = Size
       /\ BlockLimit => Len(target) < format.maxSize
  /\ pc = "saved" => format.how \in {"factory", "standard"}
  /\ pc # "dead" => cause = "none"

-----------------------------------------------------------------------------
(* Arithmetic                                                              *)

\* What the quotient and the remainder of natural numbers are.
LEMMA Division ==
  ASSUME NEW a \in Nat, NEW b \in Nat \ {0}
  PROVE  a \div b \in Nat /\ a % b \in 0 .. b - 1 /\ a = b * (a \div b) + (a % b)
OBVIOUS

\* The smaller of two multiples of b is at least b less.
LEMMA OneLess ==
  ASSUME NEW m \in Int, NEW n \in Int, NEW b \in Nat \ {0}, m < n
  PROVE  m * b + b <= n * b
OBVIOUS

\* A number written as a multiple of b and a rest has them as its quotient
\* and remainder.
LEMMA Quotient ==
  ASSUME NEW b \in Nat \ {0}, NEW q \in Nat, NEW j \in 0 .. b - 1
  PROVE  (q * b + j) \div b = q /\ (q * b + j) % b = j
<1> DEFINE a == q * b + j
           d == a \div b
           m == a % b
<1>1. a \in Nat
  OBVIOUS
<1>2. d \in Nat /\ m \in 0 .. b - 1 /\ a = b * d + m
  BY <1>1, Division
<1>3. d * b = b * d
  BY <1>2
<1>4. a = q * b + j
  OBVIOUS
<1> HIDE DEF a, d, m
<1>5. CASE d < q
  BY <1>2, <1>3, <1>4, <1>5, OneLess
<1>6. CASE q < d
  BY <1>2, <1>3, <1>4, <1>6, OneLess
<1> QED
  BY <1>2, <1>3, <1>4, <1>5, <1>6 DEF a, d, m

\* A number without remainder is a multiple.
LEMMA Multiple ==
  ASSUME NEW a \in Nat, NEW b \in Nat \ {0}
  PROVE  /\ a % b = 0 => a \div b \in Nat /\ a = (a \div b) * b
         /\ \A q \in Nat : a = q * b => a % b = 0
<1>1. ASSUME a % b = 0 PROVE a \div b \in Nat /\ a = (a \div b) * b
  <2>1. a \div b \in Nat /\ a = b * (a \div b) + 0
    BY <1>1, Division
  <2> HIDE DEF Division
  <2> QED
    BY <2>1
<1>2. ASSUME NEW q \in Nat, a = q * b PROVE a % b = 0
  <2>1. 0 \in 0 .. b - 1 /\ a = q * b + 0
    BY <1>2
  <2> QED
    BY <2>1, Quotient
<1> QED
  BY <1>1, <1>2

\* Multiples of b add up to one.
LEMMA SumOfMultiples ==
  ASSUME NEW a \in Nat, NEW c \in Nat, NEW b \in Nat \ {0}, a % b = 0, c % b = 0
  PROVE  (a + c) % b = 0
<1>1. PICK p \in Nat : a = p * b
  BY Multiple
<1>2. PICK q \in Nat : c = q * b
  BY Multiple
<1>3. a + c = (p + q) * b /\ a + c \in Nat /\ p + q \in Nat
  BY <1>1, <1>2
<1> QED
  BY <1>3, Multiple

\* Multiples of b that differ are b apart; so are a multiple and a sum of two.
LEMMA MultiplesApart ==
  ASSUME NEW a \in Nat, NEW c \in Nat, NEW b \in Nat \ {0}, a % b = 0, c % b = 0, a < c
  PROVE  a + b <= c /\ (c - a) % b = 0
<1>1. PICK p \in Nat : a = p * b
  BY Multiple
<1>2. PICK q \in Nat : c = q * b
  BY Multiple
<1>3. p < q
  <2>1. CASE q < p
    BY <1>1, <1>2, <2>1, OneLess
  <2>2. CASE q = p
    BY <1>1, <1>2, <2>2
  <2> QED
    BY <2>1, <2>2
<1>4. a + b <= c
  BY <1>1, <1>2, <1>3, OneLess
<1>5. c - a = (q - p) * b /\ q - p \in Nat
  BY <1>1, <1>2, <1>3
<1> QED
  BY <1>4, <1>5, Multiple

-----------------------------------------------------------------------------
(* Types                                                                   *)

\* The constants, one fact each.
LEMMA Sizes ==
  /\ Size \in Nat
  /\ SectorSize \in Nat \ {0} /\ BlockSize \in Nat \ {0}
  /\ FilesPerFolder \in Nat \ {0} /\ OffsetMod \in Nat \ {0}
  /\ SigLength \in Nat /\ 0 < SigLength /\ SigLength <= SectorSize
  /\ BlockSize % SectorSize = 0
  /\ SectorSize <= BlockSize
<1>1. /\ {SectorSize, BlockSize, FilesPerFolder, OffsetMod} \subseteq Nat \ {0}
      /\ {Size, SigLength} \subseteq Nat
      /\ BlockSize % SectorSize = 0
      /\ 0 < SigLength /\ SigLength <= SectorSize
  BY SizesAssumption
<1>2. /\ Size \in Nat
      /\ SectorSize \in Nat \ {0} /\ BlockSize \in Nat \ {0}
      /\ FilesPerFolder \in Nat \ {0} /\ OffsetMod \in Nat \ {0}
      /\ SigLength \in Nat
  BY <1>1
<1>3. 0 % SectorSize = 0
  BY <1>2
<1>4. SectorSize <= BlockSize
  <2>1. 0 \in Nat /\ 0 < BlockSize
    BY <1>2
  <2> QED
    BY <1>1, <1>2, <1>3, <2>1, MultiplesApart
<1> QED
  BY <1>1, <1>2, <1>4

\* The elements of a sequence over a set are of the set.
LEMMA ElementTyped ==
  ASSUME NEW S, NEW s \in Seq(S), NEW w \in 1 .. Len(s)
  PROVE  w \in DOMAIN s /\ s[w] \in S
OBVIOUS

\* The limits of a format are numbers, the lengths of its footers positive ones.
LEMMA FormatTyped ==
  ASSUME NEW f \in Formats
  PROVE  /\ f.how \in {"special", "factory", "standard"}
         /\ f.footers \in Nat /\ f.maxSize \in Nat /\ f.tail \in Nat
         /\ \A w \in 1 .. f.footers : w \in DOMAIN FooterLength /\ FooterLength[w] \in 1 .. BlockSize
<1>1. f \in [how : {"special", "factory", "standard"},
             footers : 0 .. Len(FooterLength), maxSize : Nat, tail : Nat]
  BY FormatsAssumption
<1>2. FooterLength \in Seq(1 .. BlockSize)
  BY SizesAssumption
<1>3. f.footers \in 0 .. Len(FooterLength) /\ Len(FooterLength) \in Nat
  BY <1>1, <1>2
<1>4. ASSUME NEW w \in 1 .. f.footers
      PROVE  w \in DOMAIN FooterLength /\ FooterLength[w] \in 1 .. BlockSize
  <2>2. w \in 1 .. Len(FooterLength)
    BY <1>3
  <2> QED
    BY <1>2, <2>2, ElementTyped
<1> QED
  BY <1>1, <1>3, <1>4

\* The state, one fact each.
LEMMA Typed ==
  ASSUME TypeInv
  PROVE  /\ first \in Nat /\ start_offset \in Nat /\ offset \in Nat /\ header_offset \in Nat
         /\ fileCounter \in Nat /\ folderCounter \in Nat /\ folder \in Nat /\ read_end \in Nat
         /\ buffer \in [0 .. BlockSize - 1 -> Cell \cup {Blank}]
         /\ target \in Seq(Cell \cup {Blank}) /\ Len(target) \in Nat
         /\ created \in Seq(Nat \X Sectors) /\ Len(created) \in Nat
         /\ seen \in Seq(Sectors) /\ Len(seen) \in Nat
         /\ pc \in Carving => format \in Formats
         /\ source.sig \in [Sectors -> Formats \cup {NoFormat}]
         /\ source.foot \in [DOMAIN FooterLength -> SUBSET Cell]
         /\ source.bad \in SUBSET Cell
<1>1. TypeOK /\ source \in Sources
  BY DEF TypeInv
<1>2. {first, start_offset, offset, header_offset, fileCounter, folderCounter,
       folder, read_end} \subseteq Nat
  BY <1>1 DEF TypeOK
<1>3. pc \in Carving => format \in Formats
  BY <1>1 DEF TypeOK, Carving, Saving
<1>4. source \in [sig : [Sectors -> Formats \cup {NoFormat}],
                  foot : [DOMAIN FooterLength -> SUBSET Cell],
                  bad : SUBSET Cell]
  BY <1>1, SourcesAssumption
<1>5. target \in Seq(Cell \cup {Blank}) /\ created \in Seq(Nat \X Sectors) /\ seen \in Seq(Sectors)
  BY <1>1 DEF TypeOK
<1>6. Len(target) \in Nat /\ Len(created) \in Nat /\ Len(seen) \in Nat
  BY <1>5
<1> QED
  BY <1>1, <1>2, <1>3, <1>4, <1>5, <1>6 DEF TypeOK

\* A block that is read behind a sector lies in the source, and ends there or
\* is whole.
LEMMA Blocks ==
  ASSUME NEW a \in Nat, NEW s \in Nat, NEW n, a < s, n = calcBlockSize(a, s, BlockSize)
  PROVE  /\ n \in 1 .. BlockSize
         /\ a + n <= s
         /\ n = BlockSize \/ a + n = s
<1> USE Sizes
<1>1. CASE a + BlockSize <= s
  BY <1>1 DEF calcBlockSize
<1>2. CASE ~(a + BlockSize <= s)
  BY <1>2 DEF calcBlockSize
<1> QED
  BY <1>1, <1>2

\* A cell at a multiple of the sector size is the first of its sector.
LEMMA SectorOf ==
  ASSUME NEW a \in Nat, a < Size, a % SectorSize = 0
  PROVE  a \in Sectors
BY Sizes DEF Sectors, Cell

\* And the other way round.
LEMMA SectorTyped ==
  ASSUME NEW a \in Sectors
  PROVE  a \in Nat /\ a < Size /\ a % SectorSize = 0
BY Sizes DEF Sectors, Cell

\* What follows a sector's first cell by whole sectors is one, and ends in front
\* of the next.
LEMMA NextSector ==
  ASSUME NEW a \in Sectors
  PROVE  a + SectorSize \in Nat /\ (a + SectorSize) % SectorSize = 0
<1>1. a \in Nat /\ a % SectorSize = 0 /\ SectorSize \in Nat \ {0}
  BY SectorTyped, Sizes
<1>2. SectorSize % SectorSize = 0
  <2>1. 1 * SectorSize = SectorSize
    BY <1>1
  <2> QED
    BY <1>1, <2>1, Multiple
<1>3. SectorSize \in Nat /\ a + SectorSize \in Nat
  BY <1>1
<1>4. (a + SectorSize) % SectorSize = 0
  BY <1>1, <1>2, <1>3, SumOfMultiples
<1> QED
  BY <1>3, <1>4

\* A block of the search ends at a sector, or with the source.
LEMMA BlockEnds ==
  ASSUME NEW a \in Nat, a < Size, a % SectorSize = 0,
         NEW n, n = calcBlockSize(a, Size, BlockSize)
  PROVE  a + n \in Nat /\ ((a + n) % SectorSize = 0 \/ a + n = Size)
<1>1. n \in 1 .. BlockSize /\ (n = BlockSize \/ a + n = Size)
  BY Blocks, Sizes
<1>2. CASE n = BlockSize
  <2>1. BlockSize \in Nat /\ SectorSize \in Nat \ {0} /\ BlockSize % SectorSize = 0
    BY Sizes
  <2>2. (a + BlockSize) % SectorSize = 0
    BY <2>1, SumOfMultiples
  <2> QED
    BY <1>2, <2>1, <2>2
<1> QED
  BY <1>1, <1>2, Sizes

\* What a sequence is with one element more.
LEMMA Appended ==
  ASSUME NEW S, NEW s \in Seq(S), NEW e \in S
  PROVE  /\ Append(s, e) \in Seq(S) /\ Len(Append(s, e)) = Len(s) + 1
         /\ \A i \in 1 .. Len(s) : Append(s, e)[i] = s[i]
         /\ Append(s, e)[Len(s) + 1] = e
OBVIOUS

\* A block is read into the buffer ..
LEMMA FilledTyped ==
  ASSUME TypeInv, NEW n \in 0 .. BlockSize, offset + n <= Size
  PROVE  /\ Filled(offset, n) \in [0 .. BlockSize - 1 -> Cell \cup {Blank}]
         /\ \A i \in 0 .. n - 1 : Filled(offset, n)[i] = offset + i
<1>1. offset \in Nat /\ buffer \in [0 .. BlockSize - 1 -> Cell \cup {Blank}]
  BY Typed
<1>2. Size \in Nat /\ BlockSize \in Nat \ {0}
  BY Sizes
<1>3. ASSUME NEW i \in 0 .. BlockSize - 1, i < n PROVE offset + i \in Cell
  BY <1>1, <1>2, <1>3 DEF Cell
<1> QED
  BY <1>1, <1>2, <1>3 DEF Filled

\* .. and written behind the target's last cell.
LEMMA WrittenTyped ==
  ASSUME TypeInv, NEW b \in [0 .. BlockSize - 1 -> Cell \cup {Blank}], NEW n \in Nat
  PROVE  /\ Written(b, n) \in Seq(Cell \cup {Blank})
         /\ Len(Written(b, n)) = Len(target) + n
         /\ \A i \in 1 .. Len(target) : Written(b, n)[i] = target[i]
         /\ \A j \in 1 .. n :
              Written(b, n)[Len(target) + j] = IF j - 1 < BlockSize THEN b[j - 1] ELSE Blank
<1> DEFINE t == FirstOf(b, n)
           S == Cell \cup {Blank}
<1>1. BlockSize \in Nat /\ target \in Seq(S)
  BY Typed, Sizes
<1>2. \A j \in 1 .. n : t[j] = IF j - 1 < BlockSize THEN b[j - 1] ELSE Blank
  BY <1>1 DEF FirstOf
<1>3. t \in Seq(S) /\ Len(t) = n
  <2>1. t = [i \in 1 .. n |-> IF i - 1 \in 0 .. BlockSize - 1 THEN b[i - 1] ELSE Blank]
    BY DEF FirstOf
  <2>2. \A i \in 1 .. n : (IF i - 1 \in 0 .. BlockSize - 1 THEN b[i - 1] ELSE Blank) \in S
    OBVIOUS
  <2>3. t \in [1 .. n -> S]
    BY <2>1, <2>2
  <2> HIDE DEF t, S
  <2> QED
    BY <2>3
<1> HIDE DEF t, S
<1>4. Written(b, n) = target \o t
  BY DEF Written, t
<1>5. /\ target \o t \in Seq(S) /\ Len(target \o t) = Len(target) + Len(t)
      /\ \A i \in 1 .. Len(target) : (target \o t)[i] = target[i]
      /\ \A j \in 1 .. Len(t) : (target \o t)[Len(target) + j] = t[j]
  <2>1. target \in Seq(S)
    BY <1>1
  <2> QED
    BY <1>3, <2>1
<1>6. \A j \in 1 .. n : (target \o t)[Len(target) + j] = t[j]
  BY <1>3, <1>5
<1>7. Written(b, n) \in Seq(Cell \cup {Blank}) /\ Len(Written(b, n)) = Len(target) + n
  BY <1>3, <1>4, <1>5 DEF S
<1> QED
  BY <1>2, <1>4, <1>5, <1>6, <1>7

\* A block of the search: it cannot be read, holds no header, or the first one
\* it holds is taken.
NoHeaderTo(x) ==
  \A b \in Sectors :
    offset <= b /\ b < x /\ b + SigLength <= Size => source.sig[b] = NoFormat
SearchedTo(e) ==
  /\ offset < e /\ e <= Size /\ (e % SectorSize = 0 \/ e = Size)
  /\ NoHeaderTo(e)
  /\ offset' = e
  /\ UNCHANGED <<pc, start_offset, header_offset, format, seen>>
HeaderAt(a) ==
  /\ offset <= a
  /\ NoHeaderTo(a)
  /\ header_offset' = a
  /\ format' \in Formats
  /\ start_offset' = a
  /\ seen' = Append(seen, a)
  /\ pc' = "dispatch"
  /\ UNCHANGED offset

\* A step of findHeader throws, finds nothing in the block, or finds a header.
LEMMA SearchCases ==
  ASSUME TypeInv, SearchBlock
  PROVE  /\ pc = "search" /\ offset < Size /\ offset % SectorSize = 0
         /\ UNCHANGED <<source, first, folderVars, saveVars>>
         /\ \/ /\ pc' = "dead" /\ cause' = "read" /\ source.bad # {}
               /\ UNCHANGED <<scanVars, seen>>
            \/ UNCHANGED cause /\ \E e \in Nat : SearchedTo(e)
            \/ UNCHANGED cause /\ \E a \in Sectors : HeaderAt(a)
<1> DEFINE n == calcBlockSize(offset, Size, BlockSize)
           e == offset + n
<1>1. /\ pc = "search" /\ offset < Size
      /\ UNCHANGED <<source, first, folderVars, saveVars>>
  BY DEF SearchBlock
<1>2. offset \in Nat /\ Size \in Nat /\ offset % SectorSize = 0
  BY <1>1, Typed, Sizes DEF TypeInv
<1>3. n \in Nat /\ offset < e /\ e \in Nat /\ e <= Size /\ (e % SectorSize = 0 \/ e = Size)
  <2>1. n \in 1 .. BlockSize /\ offset + n <= Size
    BY <1>1, <1>2, Blocks
  <2>2. e \in Nat /\ (e % SectorSize = 0 \/ e = Size)
    BY <1>1, <1>2, BlockEnds
  <2> HIDE DEF n
  <2> QED
    BY <1>2, <2>1, <2>2, Sizes
<1>4. CASE ReadThrows(offset, n)
  <2>1. pc' = "dead" /\ cause' = "read" /\ UNCHANGED <<scanVars, seen>>
    BY <1>4 DEF SearchBlock, Die
  <2>2. source.bad # {}
    <3> HIDE DEF n
    <3> QED
      BY <1>2, <1>3, <1>4 DEF ReadThrows
  <2> QED
    BY <1>1, <1>2, <2>1, <2>2
<1>5. CASE ~ReadThrows(offset, n)
  <2>1. PICK found \in [HitsIn(e) -> Formats \cup {NoFormat}] :
          /\ \A a \in HitsIn(e) : found[a] \in Matches(a, e)
          /\ LET hits == {a \in HitsIn(e) : found[a] # NoFormat}
             IN IF hits = {}
                THEN offset' = NextBlock(e)
                     /\ UNCHANGED <<pc, start_offset, header_offset, format, seen>>
                ELSE \E a \in hits :
                       /\ \A b \in hits : a <= b
                       /\ header_offset' = a
                       /\ format' = found[a]
                       /\ start_offset' = a
                       /\ seen' = Append(seen, a)
                       /\ pc' = "dispatch"
                       /\ UNCHANGED offset
          /\ UNCHANGED cause
    BY <1>5 DEF SearchBlock
  <2> DEFINE hits == {a \in HitsIn(e) : found[a] # NoFormat}
  <2> HIDE DEF e, n
  <2>2. ASSUME NEW b \in Sectors, offset <= b, b < e, b + SigLength <= Size,
               source.sig[b] # NoFormat
        PROVE  b \in hits
    <3>1. b \in Nat /\ b % SectorSize = 0 /\ SectorSize \in Nat \ {0}
      BY SectorTyped, Sizes
    <3>2. (b - offset) % SectorSize = 0
      <4>1. CASE offset < b
        BY <1>2, <3>1, <4>1, MultiplesApart
      <4>2. CASE offset = b
        BY <3>1, <4>2
      <4> QED
        BY <1>2, <2>2, <3>1, <4>1, <4>2
    <3>3. b + SigLength <= e
      <4>1. CASE e % SectorSize = 0
        <5>1. b + SectorSize <= e
          BY <1>3, <2>2, <3>1, <4>1, MultiplesApart
        <5> QED
          BY <1>3, <3>1, <5>1, Sizes
      <4> QED
        BY <1>3, <2>2, <4>1
    <3>4. b \in HitsIn(e)
      BY <1>2, <1>3, <2>2, <3>1, <3>2 DEF HitsIn
    <3>5. found[b] = source.sig[b]
      BY <2>1, <3>3, <3>4 DEF Matches
    <3> QED
      BY <2>2, <3>4, <3>5
  <2>3. CASE hits = {}
    <3>1. offset' = e /\ UNCHANGED <<pc, start_offset, header_offset, format, seen>>
      BY <2>1, <2>3 DEF NextBlock
    <3>2. NoHeaderTo(e)
      BY <2>2, <2>3 DEF NoHeaderTo
    <3>3. SearchedTo(e)
      BY <1>3, <3>1, <3>2 DEF SearchedTo
    <3> QED
      BY <1>1, <1>2, <1>3, <2>1, <3>3
  <2>4. CASE hits # {}
    <3>1. PICK a \in hits :
            /\ \A b \in hits : a <= b
            /\ header_offset' = a
            /\ format' = found[a]
            /\ start_offset' = a
            /\ seen' = Append(seen, a)
            /\ pc' = "dispatch"
            /\ UNCHANGED offset
      BY <2>1, <2>4
    <3>2. a \in offset .. e - 1 /\ (a - offset) % SectorSize = 0
          /\ found[a] \in Formats \cup {NoFormat} /\ found[a] # NoFormat
      BY <2>1, <3>1 DEF HitsIn
    <3>3. a \in Nat /\ a < Size /\ a - offset \in Nat /\ offset + (a - offset) = a
          /\ offset <= a /\ a < e
      BY <1>2, <1>3, <3>2
    <3>4. a % SectorSize = 0
      <4>1. SectorSize \in Nat \ {0}
        BY Sizes
      <4>2. (offset + (a - offset)) % SectorSize = 0
        BY <1>2, <3>2, <3>3, <4>1, SumOfMultiples
      <4> QED
        BY <3>3, <4>2
    <3>5. a \in Sectors
      BY <3>3, <3>4, SectorOf
    <3>6. NoHeaderTo(a)
      <4> SUFFICES ASSUME NEW b \in Sectors, offset <= b, b < a, b + SigLength <= Size,
                          source.sig[b] # NoFormat
                   PROVE  FALSE
        BY DEF NoHeaderTo
      <4>1. b \in Nat /\ b < e
        BY <1>3, <3>3, SectorTyped
      <4>2. b \in hits
        BY <2>2, <4>1
      <4> QED
        BY <3>1, <3>3, <4>1, <4>2
    <3>7. HeaderAt(a)
      BY <3>1, <3>2, <3>3, <3>6 DEF HeaderAt
    <3> QED
      BY <1>1, <1>2, <2>1, <3>5, <3>7
  <2> QED
    BY <2>3, <2>4
<1> QED
  BY <1>4, <1>5

\* A block of a format with footers: it cannot be read, holds none of them, the
\* search leaves the buffer, or the first footer of the list that is found, or
\* whose search runs on, ends the file.
Stops(w, n) == RunsOn(w, n) \/ FootersIn(w, n) # {}
EndsAt(w, i, n) ==
  /\ \A m \in 1 .. w - 1 : ~Stops(m, n)
  /\ RunsOn(w, n) \/ (i \in FootersIn(w, n) /\ \A j \in FootersIn(w, n) : i <= j)
  /\ EndWithFooter(w, i)
BlockRead(n) ==
  /\ buffer' = Filled(offset, n)
  /\ read_end' = offset + n
  /\ \/ (\A w \in 1 .. format.footers : ~Stops(w, n)) /\ AppendFooterless(n)
     \/ pc' = "dead" /\ cause' # "read" /\ UNCHANGED <<offset, target>>
     \/ \E w \in 1 .. format.footers : \E i \in FooterStart .. BlockSize - FooterLength[w] :
          EndsAt(w, i, n)

\* A step of SaveRawFile by footers throws, or reads a block.
LEMMA FooterCases ==
  ASSUME TypeInv, FooterBlock
  PROVE  /\ pc = "footer" /\ offset < Size
         /\ UNCHANGED <<source, first, start_offset, header_offset, format, folderVars, seen>>
         /\ \E n \in 1 .. BlockSize :
              /\ offset + n <= Size
              /\ n = BlockSize \/ offset + n = Size
              /\ \/ /\ pc' = "dead" /\ cause' = "read" /\ source.bad # {}
                    /\ UNCHANGED <<offset, saveVars>>
                 \/ BlockRead(n)
<1> DEFINE n == calcBlockSize(offset, Size, BlockSize)
<1>1. /\ pc = "footer" /\ offset < Size
      /\ UNCHANGED <<source, first, start_offset, header_offset, format, folderVars, seen>>
  BY DEF FooterBlock
<1>2. offset \in Nat /\ Size \in Nat
  BY Typed, Sizes
<1>3. n \in 1 .. BlockSize /\ offset + n <= Size /\ (n = BlockSize \/ offset + n = Size)
  BY <1>1, <1>2, Blocks
<1>4. CASE ReadThrows(offset, n)
  <2>1. pc' = "dead" /\ cause' = "read" /\ UNCHANGED <<offset, saveVars>>
    BY <1>4 DEF FooterBlock, Die
  <2> HIDE DEF n
  <2>2. source.bad # {}
    BY <1>2, <1>3, <1>4 DEF ReadThrows
  <2> QED
    BY <1>1, <1>3, <2>1, <2>2
<1>5. CASE ~ReadThrows(offset, n)
  <2>1. /\ buffer' = Filled(offset, n)
        /\ read_end' = offset + n
        /\ \/ /\ \A w \in 1 .. format.footers : ~Stops(w, n)
              /\ AppendFooterless(n)
           \/ \E w \in 1 .. format.footers :
                /\ Stops(w, n)
                /\ \A m \in 1 .. w - 1 : ~Stops(m, n)
                /\ IF RunsOn(w, n)
                   THEN \/ Die("footer search leaves the buffer") /\ UNCHANGED <<offset, target>>
                        \/ \E i \in FooterStart .. BlockSize - FooterLength[w] : EndWithFooter(w, i)
                   ELSE \E i \in FootersIn(w, n) :
                          /\ \A j \in FootersIn(w, n) : i <= j
                          /\ EndWithFooter(w, i)
    BY <1>5, Zenon DEF FooterBlock, Stops
  <2> HIDE DEF n
  <2>2. CASE /\ \A w \in 1 .. format.footers : ~Stops(w, n)
             /\ AppendFooterless(n)
    BY <1>1, <1>3, <2>1, <2>2, Zenon DEF BlockRead
  <2>3. CASE ~(/\ \A w \in 1 .. format.footers : ~Stops(w, n)
               /\ AppendFooterless(n))
    <3>1. PICK w \in 1 .. format.footers :
            /\ Stops(w, n)
            /\ \A m \in 1 .. w - 1 : ~Stops(m, n)
            /\ IF RunsOn(w, n)
               THEN \/ Die("footer search leaves the buffer") /\ UNCHANGED <<offset, target>>
                    \/ \E i \in FooterStart .. BlockSize - FooterLength[w] : EndWithFooter(w, i)
               ELSE \E i \in FootersIn(w, n) :
                      /\ \A j \in FootersIn(w, n) : i <= j
                      /\ EndWithFooter(w, i)
      BY <2>1, <2>3, Zenon
    <3>2. CASE Die("footer search leaves the buffer") /\ UNCHANGED <<offset, target>>
      <4>1. pc' = "dead" /\ cause' # "read"
        BY <3>2 DEF Die
      <4> QED
        BY <1>1, <1>3, <2>1, <3>2, <4>1, Zenon DEF BlockRead
    <3>3. ASSUME RunsOn(w, n),
                 NEW i \in FooterStart .. BlockSize - FooterLength[w], EndWithFooter(w, i)
          PROVE  BlockRead(n)
      <4>1. EndsAt(w, i, n)
        BY <3>1, <3>3, Zenon DEF EndsAt
      <4> QED
        BY <2>1, <4>1, Zenon DEF BlockRead
    <3>4. ASSUME ~RunsOn(w, n), NEW i \in FootersIn(w, n),
                 \A j \in FootersIn(w, n) : i <= j, EndWithFooter(w, i)
          PROVE  BlockRead(n)
      <4>1. EndsAt(w, i, n)
        BY <3>1, <3>4, Zenon DEF EndsAt
      <4>2. format \in Formats
        BY <1>1, Typed DEF Carving, Saving
      <4>3. FooterLength[w] \in 1 .. BlockSize
        BY <4>2, FormatTyped
      <4>4. FooterStart \in Nat
        BY Sizes DEF FooterStart
      <4>5. i \in FooterStart .. BlockSize - FooterLength[w]
        BY <1>3, <4>3, <4>4, <3>4, Sizes DEF FootersIn
      <4> QED
        BY <2>1, <4>1, <4>5, Zenon DEF BlockRead
    <3> QED
      BY <1>1, <1>3, <3>1, <3>2, <3>3, <3>4, Zenon
  <2> QED
    BY <2>2, <2>3
<1> QED
  BY <1>4, <1>5

\* A new scan has the types it should have.
LEMMA TypeInit == Init => TypeInv
<1> SUFFICES ASSUME Init PROVE TypeInv
  OBVIOUS
<1>1. PICK s \in StartSectors : first = s * SectorSize
  BY DEF Init
<1>2. s \in Nat /\ SectorSize \in Nat \ {0} /\ BlockSize \in Nat \ {0}
  BY StartAssumption, Sizes
<1>3. first \in Nat /\ first % SectorSize = 0
  BY <1>1, <1>2, Multiple
<1>4. buffer \in [0 .. BlockSize - 1 -> Cell \cup {Blank}]
  BY DEF Init, NoBlock
<1>5. TypeOK
  BY <1>3, <1>4 DEF Init, TypeOK, Terminal
<1> QED
  BY <1>3, <1>5 DEF Init, TypeInv, Carving, Saving

\* The state of a search or of a save that a step leaves as it is.
LEMMA TypeStep == TypeInv /\ [Next]_vars => TypeInv'
<1> SUFFICES ASSUME TypeInv, [Next]_vars PROVE TypeInv'
  OBVIOUS
<1>t. /\ TypeOK
      /\ source \in Sources
      /\ first % SectorSize = 0 /\ start_offset % SectorSize = 0
      /\ pc \in Carving => header_offset \in Sectors
      /\ pc = "search" => offset % SectorSize = 0 \/ offset = Size
      /\ pc = "factory" => format.how = "factory"
      /\ pc = "append" => format.how = "standard" /\ format.footers = 0
      /\ pc = "footer" => format.how = "standard" /\ format.footers > 0
  BY DEF TypeInv
<1>n. pc \in Carving => NextSearch \in Nat /\ NextSearch % SectorSize = 0
  BY <1>t, NextSector DEF NextSearch
<1>d. pc \in Carving => format \in Formats
  BY Typed
<1>z. Size \in Nat /\ BlockSize \in Nat \ {0}
  BY Sizes
<1> USE DEF Carving, Saving, Terminal
<1>1. CASE LoopHead
  <2>1. TypeOK'
    BY <1>t, <1>1, Typed, <1>z DEF LoopHead, TypeOK, folderVars, saveVars
  <2> QED
    BY <1>t, <1>1, <2>1 DEF LoopHead, TypeInv, folderVars, saveVars
<1>2. CASE SearchBlock
  <2>1. /\ pc = "search" /\ offset < Size /\ offset % SectorSize = 0
        /\ UNCHANGED <<source, first, folderVars, saveVars>>
    BY <1>2, SearchCases
  <2>2. offset \in Nat /\ seen \in Seq(Sectors)
    BY Typed
  <2>3. CASE pc' = "dead" /\ UNCHANGED <<scanVars, seen>>
    <3>1. TypeOK'
      BY <1>t, <2>1, <2>3 DEF TypeOK, folderVars, saveVars, scanVars
    <3> QED
      BY <1>t, <2>1, <2>3, <3>1 DEF TypeInv, folderVars, saveVars, scanVars
  <2>4. ASSUME NEW e \in Nat, SearchedTo(e) PROVE TypeInv'
    <3>1. TypeOK'
      BY <1>t, <2>1, <2>4 DEF TypeOK, SearchedTo, folderVars, saveVars
    <3> QED
      BY <1>t, <2>1, <2>4, <3>1 DEF TypeInv, SearchedTo, folderVars, saveVars
  <2>5. ASSUME NEW a \in Sectors, HeaderAt(a) PROVE TypeInv'
    <3>1. a \in Nat /\ a % SectorSize = 0
      BY SectorTyped
    <3>2. seen' \in Seq(Sectors)
      BY <2>2, <2>5, Appended DEF HeaderAt
    <3>3. \A f \in Formats : f # NoFormat
      BY NoFormatAssumption
    <3>4. TypeOK'
      BY <1>t, <2>1, <2>2, <2>5, <3>1, <3>2, <3>3 DEF TypeOK, HeaderAt, folderVars, saveVars
    <3> QED
      BY <1>t, <2>1, <2>5, <3>1, <3>4 DEF TypeInv, HeaderAt, folderVars, saveVars
  <2> QED
    BY <1>2, <2>3, <2>4, <2>5, SearchCases
<1>3. CASE SearchFails
  <2>1. TypeOK'
    BY <1>t, <1>3 DEF SearchFails, TypeOK, scanVars, folderVars, saveVars
  <2> QED
    BY <1>t, <1>3, <2>1 DEF SearchFails, TypeInv, scanVars, folderVars, saveVars
<1>4. CASE Special
  <2>1. pc' \in {"stopped", "loop", "dead"} /\ pc = "dispatch"
        /\ UNCHANGED <<source, first, offset, header_offset, format, folderVars, saveVars, seen>>
    BY <1>4 DEF Special, Die
  <2>2. start_offset' \in Nat /\ start_offset' % SectorSize = 0
    BY <1>t, <1>n, <1>4, Typed DEF Special, Die
  <2>3. TypeOK'
    BY <1>t, <2>1, <2>2 DEF TypeOK, folderVars, saveVars
  <2> QED
    BY <1>t, <2>1, <2>2, <2>3 DEF TypeInv, folderVars, saveVars
<1>5. CASE NotSpecified
  <2>1. pc' \in {"loop", "dead"} /\ pc = "dispatch"
        /\ UNCHANGED <<source, first, offset, header_offset, format, folderVars, saveVars, seen>>
    BY <1>5 DEF NotSpecified, Die
  <2>2. start_offset' \in Nat /\ start_offset' % SectorSize = 0
    BY <1>t, <1>n, <1>5, Typed DEF NotSpecified, Die
  <2>3. TypeOK'
    BY <1>t, <2>1, <2>2 DEF TypeOK, folderVars, saveVars
  <2> QED
    BY <1>t, <2>1, <2>2, <2>3 DEF TypeInv, folderVars, saveVars
<1>6. CASE CreateTarget
  <2> DEFINE newFolder == IF Rotates THEN folderCounter ELSE folder
  <2>1. /\ pc = "dispatch" /\ format.how # "special"
        /\ folder' = newFolder
        /\ folderCounter' = IF Rotates THEN folderCounter + 1 ELSE folderCounter
        /\ \/ /\ created' = Append(created, <<newFolder, header_offset>>)
              /\ pc' = IF format.how = "factory" THEN "factory"
                       ELSE IF format.footers > 0 THEN "footer" ELSE "append"
           \/ pc' = "dead" /\ UNCHANGED created
        /\ offset' = header_offset
        /\ read_end' = header_offset
        /\ buffer' = NoBlock
        /\ target' = <<>>
        /\ UNCHANGED <<source, first, start_offset, header_offset, format, fileCounter, seen>>
    BY <1>6 DEF CreateTarget, Die
  <2>2. newFolder \in Nat /\ folderCounter \in Nat /\ header_offset \in Sectors
        /\ header_offset \in Nat /\ header_offset < Size
    BY <1>t, <2>1, Typed, SectorTyped
  <2>3. folder' \in Nat /\ folderCounter' \in Nat
    BY <2>1, <2>2
  <2>4. created' \in Seq(Nat \X Sectors)
    <3>1. <<newFolder, header_offset>> \in Nat \X Sectors
      BY <2>2
    <3>2. created \in Seq(Nat \X Sectors)
      BY Typed
    <3>3. Append(created, <<newFolder, header_offset>>) \in Seq(Nat \X Sectors)
      BY <3>1, <3>2, Appended
    <3> QED
      BY <2>1, <3>2, <3>3
  <2>5. NoBlock \in [0 .. BlockSize - 1 -> Cell \cup {Blank}]
    BY DEF NoBlock
  <2>6. format \in Formats /\ format.how \in {"special", "factory", "standard"}
        /\ format.footers \in Nat
    BY <1>d, <2>1, FormatTyped
  <2> HIDE DEF newFolder
  <2>7. pc' \in {"factory", "append", "footer", "dead"}
    BY <2>1
  <2>8. TypeOK'
    BY <1>t, <1>z, <2>1, <2>2, <2>3, <2>4, <2>5, <2>7 DEF TypeOK
  <2> QED
    BY <1>t, <2>1, <2>2, <2>6, <2>8 DEF TypeInv
<1>7. CASE FinishFile
  <2>1. NoBlock \in [0 .. BlockSize - 1 -> Cell \cup {Blank}]
    BY DEF NoBlock
  <2>2. start_offset' \in Nat /\ start_offset' % SectorSize = 0 /\ fileCounter' \in Nat
    BY <1>n, <1>7, Typed DEF FinishFile
  <2>3. TypeOK'
    BY <1>t, <1>7, <2>1, <2>2 DEF FinishFile, TypeOK
  <2> QED
    BY <1>t, <1>7, <2>2, <2>3 DEF FinishFile, TypeInv
<1>8. CASE SaveByFactory
  <2>1. TypeOK'
    BY <1>t, <1>8 DEF SaveByFactory, Die, TypeOK, scanVars, folderVars, saveVars
  <2> QED
    BY <1>t, <1>8, <2>1 DEF SaveByFactory, Die, TypeInv, scanVars, folderVars, saveVars
<1>9. CASE AppendBlock
  <2> DEFINE n == calcBlockSize(Len(target), format.maxSize, BlockSize)
  <2>1. pc = "append" /\ UNCHANGED <<source, first, start_offset, header_offset, format, folderVars, seen>>
    BY <1>9 DEF AppendBlock
  <2>2. CASE ReadThrows(offset, n)
    <3>1. pc' = "dead" /\ UNCHANGED <<offset, saveVars>>
      BY <1>9, <2>2 DEF AppendBlock, Die
    <3>2. TypeOK'
      BY <1>t, <2>1, <3>1 DEF TypeOK, folderVars, saveVars
    <3> QED
      BY <1>t, <2>1, <3>1, <3>2 DEF TypeInv, folderVars, saveVars
  <2>3. CASE ~ReadThrows(offset, n)
    <3>1. /\ buffer' = Filled(offset, n)
          /\ target' = Written(buffer', n)
          /\ offset' = offset + n
          /\ read_end' = offset + n
          /\ UNCHANGED <<pc, cause>>
      BY <1>9, <2>3 DEF AppendBlock
    <3>2. n \in 0 .. BlockSize /\ offset + n <= Size /\ offset \in Nat
      <4>1. Len(target) \in Nat /\ format.maxSize \in Nat /\ offset \in Nat
        BY <1>d, <2>1, Typed, FormatTyped
      <4>2. n \in 0 .. BlockSize
        BY <4>1, <1>z DEF calcBlockSize
      <4> HIDE DEF n
      <4> QED
        BY <2>3, <4>1, <4>2, <1>z DEF ReadThrows
    <3> HIDE DEF n
    <3>3. buffer' \in [0 .. BlockSize - 1 -> Cell \cup {Blank}]
      BY <3>1, <3>2, FilledTyped
    <3>4. target' \in Seq(Cell \cup {Blank})
      BY <3>1, <3>2, <3>3, WrittenTyped
    <3>5. offset' \in Nat /\ offset' <= Size /\ read_end' \in Nat
      BY <3>1, <3>2
    <3>6. TypeOK'
      BY <1>t, <2>1, <3>1, <3>3, <3>4, <3>5 DEF TypeOK, folderVars
    <3> QED
      BY <1>t, <2>1, <3>1, <3>6 DEF TypeInv, folderVars
  <2> QED
    BY <2>2, <2>3
<1>10. CASE AppendDone
  <2>1. TypeOK'
    BY <1>t, <1>10 DEF AppendDone, TypeOK, scanVars, folderVars, saveVars
  <2> QED
    BY <1>t, <1>10, <2>1 DEF AppendDone, TypeInv, scanVars, folderVars, saveVars
<1>11. CASE FooterBlock
  <2>1. /\ pc = "footer" /\ offset < Size
        /\ UNCHANGED <<source, first, start_offset, header_offset, format, folderVars, seen>>
    BY <1>11, FooterCases
  <2>2. PICK n \in 1 .. BlockSize :
          /\ offset + n <= Size
          /\ n = BlockSize \/ offset + n = Size
          /\ \/ /\ pc' = "dead" /\ cause' = "read" /\ source.bad # {}
                /\ UNCHANGED <<offset, saveVars>>
             \/ BlockRead(n)
    BY <1>11, FooterCases
  <2>3. CASE pc' = "dead" /\ UNCHANGED <<offset, saveVars>>
    <3>1. TypeOK'
      BY <1>t, <2>1, <2>3 DEF TypeOK, folderVars, saveVars
    <3> QED
      BY <1>t, <2>1, <2>3, <3>1 DEF TypeInv, folderVars, saveVars
  <2>4. CASE BlockRead(n)
    <3>1. offset \in Nat /\ format \in Formats /\ n \in Nat /\ target \in Seq(Cell \cup {Blank})
      BY <2>1, Typed
    <3>2. buffer' \in [0 .. BlockSize - 1 -> Cell \cup {Blank}] /\ read_end' \in Nat
      <4>1. buffer' = Filled(offset, n) /\ read_end' = offset + n /\ n \in 0 .. BlockSize
        BY <2>4 DEF BlockRead
      <4> QED
        BY <2>2, <3>1, <4>1, FilledTyped
    <3>3. /\ pc' \in {"footer", "saved", "dead"}
          /\ offset' \in Nat /\ offset' <= Size
          /\ target' \in Seq(Cell \cup {Blank})
      <4>1. CASE AppendFooterless(n)
        <5>1. ToAppend(n) \in Nat /\ ToAppend(n) <= n
          BY <3>1, <1>z DEF ToAppend
        <5>2. target' = Written(buffer', ToAppend(n))
          BY <4>1 DEF AppendFooterless
        <5>3. target' \in Seq(Cell \cup {Blank})
          BY <3>2, <5>1, <5>2, WrittenTyped
        <5>4. /\ pc' \in {"footer", "saved"}
              /\ offset' = offset \/ offset' = offset + ToAppend(n)
          BY <2>1, <4>1 DEF AppendFooterless
        <5> QED
          BY <2>1, <2>2, <3>1, <5>1, <5>3, <5>4, <1>z
      <4>2. CASE pc' = "dead" /\ UNCHANGED <<offset, target>>
        BY <2>1, <3>1, <4>2, <1>z
      <4>3. ASSUME NEW w \in 1 .. format.footers,
                   NEW i \in FooterStart .. BlockSize - FooterLength[w], EndsAt(w, i, n)
            PROVE  /\ pc' \in {"footer", "saved", "dead"}
                   /\ offset' \in Nat /\ offset' <= Size
                   /\ target' \in Seq(Cell \cup {Blank})
        <5>1. /\ target' = Written(buffer', i + FooterLength[w] + format.tail)
              /\ pc' = "saved" /\ UNCHANGED offset
          BY <4>3 DEF EndsAt, EndWithFooter
        <5>2. FooterLength[w] \in Nat /\ format.tail \in Nat /\ FooterStart \in Nat
          BY <3>1, FormatTyped, Sizes DEF FooterStart
        <5>3. i + FooterLength[w] + format.tail \in Nat
          BY <5>2
        <5>4. target' \in Seq(Cell \cup {Blank})
          BY <3>2, <5>1, <5>3, WrittenTyped
        <5> QED
          BY <2>1, <3>1, <5>1, <5>4, <1>z
      <4> QED
        BY <2>4, <4>1, <4>2, <4>3 DEF BlockRead
    <3>4. TypeOK'
      BY <1>t, <2>1, <3>2, <3>3 DEF TypeOK, folderVars
    <3> QED
      BY <1>t, <2>1, <3>3, <3>4 DEF TypeInv
  <2> QED
    BY <2>2, <2>3, <2>4
<1>12. CASE FooterDone
  <2>1. TypeOK'
    BY <1>t, <1>12 DEF FooterDone, TypeOK, scanVars, folderVars, saveVars
  <2> QED
    BY <1>t, <1>12, <2>1 DEF FooterDone, TypeInv, scanVars, folderVars, saveVars
<1>13. CASE WriteThrows
  <2>0. pc' = "dead" /\ UNCHANGED <<source, first, scanVars, folderVars, saveVars, seen>>
    BY <1>13 DEF WriteThrows, Die
  <2>1. TypeOK'
    BY <1>t, <2>0 DEF TypeOK, scanVars, folderVars, saveVars
  <2> QED
    BY <1>t, <2>0, <2>1 DEF TypeInv, scanVars, folderVars, saveVars
<1>14. CASE UNCHANGED vars
  <2>1. TypeOK'
    BY <1>t, <1>14 DEF vars, TypeOK, scanVars, folderVars, saveVars
  <2> QED
    BY <1>t, <1>14, <2>1 DEF vars, TypeInv, scanVars, folderVars, saveVars
<1> QED
  BY <1>1, <1>2, <1>3, <1>4, <1>5, <1>6, <1>7, <1>8, <1>9, <1>10, <1>11, <1>12, <1>13,
     <1>14 DEF Next

-----------------------------------------------------------------------------
(* Every header is seen                                                    *)

\* A step that is not the search's stops the program, stays with the header, or
\* goes on behind it.
LEMMA CarvingSteps ==
  ASSUME TypeInv, [Next]_vars, ~LoopHead, ~SearchBlock, ~SearchFails
  PROVE  /\ UNCHANGED <<source, first, seen>>
         /\ \/ UNCHANGED vars
            \/ pc' \in {"stopped", "dead"}
            \/ pc \in Carving /\ pc' \in Carving /\ UNCHANGED header_offset
            \/ pc \in Carving /\ pc' = "loop" /\ start_offset' = NextSearch
<1> USE DEF Carving, Saving
<1>1. CASE Special
  BY <1>1 DEF Special, Die
<1>2. CASE NotSpecified
  BY <1>2 DEF NotSpecified, Die
<1>3. CASE CreateTarget
  <2>1. pc' \in {"factory", "footer", "append", "dead"}
    BY <1>3 DEF CreateTarget, Die
  <2> QED
    BY <1>3, <2>1 DEF CreateTarget
<1>4. CASE FinishFile
  BY <1>4 DEF FinishFile
<1>5. CASE SaveByFactory
  BY <1>5 DEF SaveByFactory, Die, scanVars
<1>6. CASE AppendBlock
  <2>1. pc' = "dead" \/ pc' = "append"
    BY <1>6 DEF AppendBlock, Die
  <2> QED
    BY <1>6, <2>1 DEF AppendBlock
<1>7. CASE AppendDone
  BY <1>7 DEF AppendDone, scanVars
<1>8. CASE FooterBlock
  <2>1. pc' \in {"footer", "saved", "dead"}
    BY <1>8, FooterCases DEF BlockRead, AppendFooterless, EndsAt, EndWithFooter
  <2> QED
    BY <1>8, <2>1, FooterCases
<1>9. CASE FooterDone
  BY <1>9 DEF FooterDone, scanVars
<1>10. CASE WriteThrows
  BY <1>10 DEF WriteThrows, Die
<1>11. CASE UNCHANGED vars
  BY <1>11 DEF vars
<1> QED
  BY <1>1, <1>2, <1>3, <1>4, <1>5, <1>6, <1>7, <1>8, <1>9, <1>10, <1>11 DEF Next

\* A new scan has found nothing, and nothing lies before its start.
LEMMA SeenInit == Init => SeenInv
<1> SUFFICES ASSUME Init PROVE SeenInv
  OBVIOUS
<1>1. PICK s \in StartSectors : first = s * SectorSize
  BY DEF Init
<1>2. first \in Nat
  BY <1>1, StartAssumption, Sizes
<1>3. SeenUpTo(start_offset)
  BY <1>2, SectorTyped DEF Init, SeenUpTo
<1> QED
  BY <1>3 DEF Init, SeenInv, Carving, Saving

\* No step of the scan passes over a header or takes one twice.
LEMMA SeenStep == TypeInv /\ SeenInv /\ [Next]_vars => SeenInv'
<1> SUFFICES ASSUME TypeInv, SeenInv, [Next]_vars PROVE SeenInv'
  OBVIOUS
<1>s. /\ \A i, j \in DOMAIN seen : i < j => seen[i] < seen[j]
      /\ pc = "loop" => SeenUpTo(start_offset) /\ \A i \in DOMAIN seen : seen[i] < start_offset
      /\ pc = "search" => SeenUpTo(offset) /\ \A i \in DOMAIN seen : seen[i] < offset
      /\ pc \in Carving =>
           SeenUpTo(NextSearch) /\ \A i \in DOMAIN seen : seen[i] < NextSearch
      /\ pc = "finished" => SeenUpTo(Size)
  BY DEF SeenInv
<1>t. /\ offset \in Nat /\ start_offset \in Nat /\ Size \in Nat
      /\ seen \in Seq(Sectors) /\ Len(seen) \in Nat
  BY Typed, Sizes
<1>1. CASE LoopHead
  <2>1. /\ pc = "loop" /\ UNCHANGED <<source, first, seen>>
        /\ pc' = IF start_offset < Size THEN "search" ELSE "finished"
        /\ offset' = start_offset
    BY <1>1 DEF LoopHead
  <2>2. SeenUpTo(start_offset)' /\ start_offset' = start_offset
    BY <1>s, <1>1, <2>1 DEF LoopHead, SeenUpTo
  <2>3. pc' = "finished" => SeenUpTo(Size)'
    BY <1>t, <2>1, <2>2, SectorTyped DEF SeenUpTo
  <2>4. pc' = "search" => SeenUpTo(offset)'
    BY <2>1, <2>2 DEF SeenUpTo
  <2> QED
    BY <1>s, <2>1, <2>3, <2>4 DEF SeenInv, Carving, Saving
<1>2. CASE SearchBlock
  <2>1. /\ pc = "search" /\ offset < Size /\ UNCHANGED <<source, first>>
    BY <1>2, SearchCases
  <2>2. CASE pc' = "dead" /\ UNCHANGED <<scanVars, seen>>
    BY <1>s, <2>1, <2>2 DEF SeenInv, Carving, Saving
  <2>3. ASSUME NEW e \in Nat, SearchedTo(e) PROVE SeenInv'
    <3>1. /\ offset < e /\ NoHeaderTo(e) /\ offset' = e /\ UNCHANGED <<pc, seen>>
      BY <2>3 DEF SearchedTo
    <3>2. SeenUpTo(e)
      <4> SUFFICES ASSUME NEW a \in Sectors, a >= first, a + SigLength <= Size,
                          source.sig[a] # NoFormat, a < e
                   PROVE  \E i \in DOMAIN seen : seen[i] = a
        BY DEF SeenUpTo
      <4>1. a < offset
        BY <1>t, <3>1, SectorTyped DEF NoHeaderTo
      <4> QED
        BY <1>s, <2>1, <4>1 DEF SeenUpTo
    <3>3. SeenUpTo(offset)'
      BY <2>1, <3>1, <3>2 DEF SeenUpTo
    <3>4. \A i \in DOMAIN seen : seen[i] < e
      <4>1. \A i \in DOMAIN seen : seen[i] \in Nat /\ seen[i] < offset
        BY <1>s, <1>t, <2>1, SectorTyped
      <4> QED
        BY <1>t, <3>1, <4>1
    <3> QED
      BY <1>s, <2>1, <3>1, <3>3, <3>4 DEF SeenInv, Carving, Saving
  <2>4. ASSUME NEW a \in Sectors, HeaderAt(a) PROVE SeenInv'
    <3>1. /\ offset <= a /\ NoHeaderTo(a) /\ header_offset' = a
          /\ seen' = Append(seen, a) /\ pc' = "dispatch"
      BY <2>4 DEF HeaderAt
    <3>2. a \in Nat /\ a % SectorSize = 0 /\ SectorSize \in Nat \ {0}
      BY SectorTyped, Sizes
    <3>3. /\ Len(seen') = Len(seen) + 1 /\ seen' \in Seq(Sectors)
          /\ \A i \in 1 .. Len(seen) : seen'[i] = seen[i]
          /\ seen'[Len(seen) + 1] = a
      BY <1>t, <3>1, Appended
    <3>4. /\ DOMAIN seen = 1 .. Len(seen) /\ DOMAIN seen' = 1 .. (Len(seen) + 1)
          /\ \A i \in 1 .. Len(seen) : seen[i] \in Nat
      BY <1>t, <3>3, SectorTyped
    <3>5. \A i \in 1 .. Len(seen) : seen'[i] \in Nat /\ seen'[i] < a
      BY <1>s, <1>t, <2>1, <3>1, <3>2, <3>3, <3>4
    <3>6. \A i, j \in DOMAIN seen' : i < j => seen'[i] < seen'[j]
      BY <1>s, <1>t, <3>3, <3>4, <3>5
    <3>7. \A i \in DOMAIN seen' : seen'[i] < NextSearch'
      BY <3>1, <3>2, <3>3, <3>4, <3>5, <1>t DEF NextSearch
    <3>8. SeenUpTo(NextSearch)'
      <4> SUFFICES ASSUME NEW b \in Sectors, b >= first, b + SigLength <= Size,
                          source.sig[b] # NoFormat, b < a + SectorSize
                   PROVE  \E i \in DOMAIN seen' : seen'[i] = b
        BY <2>1, <3>1 DEF SeenUpTo, NextSearch
      <4>1. b \in Nat /\ b % SectorSize = 0
        BY SectorTyped
      <4>2. b <= a
        <5>1. CASE a < b
          <6>1. a + SectorSize <= b
            BY <3>2, <4>1, <5>1, MultiplesApart
          <6> QED
            BY <3>2, <4>1, <6>1
        <5> QED
          BY <3>2, <4>1, <5>1
      <4>3. CASE b < offset
        <5>1. PICK i \in DOMAIN seen : seen[i] = b
          BY <1>s, <2>1, <4>3 DEF SeenUpTo
        <5> QED
          BY <1>t, <3>3, <3>4, <5>1
      <4>4. CASE offset <= b
        <5>1. ~(b < a)
          BY <4>4, <3>1 DEF NoHeaderTo
        <5>2. b = a
          BY <3>2, <4>1, <4>2, <5>1
        <5> QED
          BY <1>t, <3>3, <3>4, <5>2
      <4> QED
        BY <1>t, <4>1, <4>3, <4>4
    <3> QED
      BY <3>1, <3>6, <3>7, <3>8 DEF SeenInv
  <2> QED
    BY <1>2, <2>2, <2>3, <2>4, SearchCases
<1>3. CASE SearchFails
  <2>1. /\ pc = "search" /\ offset >= Size /\ pc' = "finished"
        /\ UNCHANGED <<source, first, seen>>
    BY <1>3 DEF SearchFails
  <2>2. SeenUpTo(Size)'
    BY <1>s, <1>t, <2>1, SectorTyped DEF SeenUpTo
  <2> QED
    BY <1>s, <2>1, <2>2 DEF SeenInv, Carving, Saving
<1>4. CASE ~LoopHead /\ ~SearchBlock /\ ~SearchFails
  <2>1. UNCHANGED <<source, first, seen>>
    BY <1>4, CarvingSteps
  <2>2. \A x : SeenUpTo(x) => \A y : y = x => SeenUpTo(y)'
    BY <2>1 DEF SeenUpTo
  <2>3. CASE UNCHANGED vars
    BY <1>s, <2>3 DEF vars, scanVars, SeenInv, SeenUpTo, NextSearch
  <2>4. CASE pc' \in {"stopped", "dead"}
    BY <1>s, <2>1, <2>4 DEF SeenInv, Carving, Saving
  <2>5. CASE pc \in Carving /\ pc' \in Carving /\ UNCHANGED header_offset
    <3>1. SeenUpTo(NextSearch)'
      BY <1>s, <2>1, <2>5 DEF SeenUpTo, NextSearch
    <3> QED
      BY <1>s, <2>1, <2>5, <3>1 DEF SeenInv, Carving, Saving, NextSearch
  <2>6. CASE pc \in Carving /\ pc' = "loop" /\ start_offset' = NextSearch
    <3>1. SeenUpTo(start_offset)'
      BY <1>s, <2>1, <2>6 DEF SeenUpTo
    <3> QED
      BY <1>s, <2>1, <2>6, <3>1 DEF SeenInv, Carving, Saving
  <2> QED
    BY <1>4, <2>3, <2>4, <2>5, <2>6, CarvingSteps
<1> QED
  BY <1>1, <1>2, <1>3, <1>4

\* A scan that runs to its end has carved at every signature behind the start
\* offset, once each and in order.
THEOREM EveryHeaderIsCarved == Spec => []EveryHeaderSeen
<1>1. TypeInv /\ SeenInv => EveryHeaderSeen
  BY SectorTyped DEF SeenInv, SeenUpTo, EveryHeaderSeen
<1> QED
  BY <1>1, TypeInit, TypeStep, SeenInit, SeenStep, PTL DEF Spec

-----------------------------------------------------------------------------
(* The target folders                                                      *)

\* Multiples of b are ordered as their factors are.
LEMMA MultiplesOrdered ==
  ASSUME NEW m \in Int, NEW n \in Int, NEW b \in Nat, m <= n
  PROVE  m * b <= n * b
OBVIOUS

\* Where a file is, counted from 0, of folders with f files each.
LEMMA InFolder ==
  ASSUME NEW a \in Nat, NEW f \in Nat \ {0}, NEW d \in Nat
  PROVE  a \div f = d <=> d * f <= a /\ a < (d + 1) * f
<1> DEFINE q == a \div f
<1>1. q \in Nat /\ a % f \in 0 .. f - 1 /\ a = f * q + (a % f)
  BY Division
<1>2. f * q = q * f /\ (d + 1) * f = d * f + f /\ (q + 1) * f = q * f + f
  BY <1>1
<1>3. q * f <= a /\ a < q * f + f
  <2> DEFINE r == a % f
  <2>1. r \in 0 .. f - 1 /\ a = f * q + r
    BY <1>1
  <2> HIDE DEF q, r
  <2> QED
    BY <1>1, <1>2, <2>1
<1> HIDE DEF q
<1>4. CASE d < q
  BY <1>1, <1>2, <1>3, <1>4, OneLess DEF q
<1>5. CASE q < d
  BY <1>1, <1>2, <1>3, <1>5, OneLess DEF q
<1>6. CASE q = d
  BY <1>1, <1>2, <1>3, <1>6 DEF q
<1> QED
  BY <1>1, <1>4, <1>5, <1>6

\* n files fill c folders of f, the newest of which is g, ..
Filling(f, n, c, g) ==
  /\ f \in Nat \ {0} /\ n \in Nat /\ c \in Nat /\ g \in Nat
  /\ n <= c * f
  /\ n = 0 => c = 0
  /\ n > 0 => g = c - 1 /\ (c - 1) * f < n

\* .. and the next one is put in the folder whose turn it is.
Placed(f, n, c, g) ==
  /\ c \in Nat /\ g \in Nat
  /\ g = n \div f /\ g = c - 1
  /\ (c - 1) * f <= n /\ n + 1 <= c * f
NewFolders(f, n, c)   == IF n % f = 0 THEN c + 1 ELSE c
NewFolder(f, n, c, g) == IF n % f = 0 THEN c ELSE g

\* main() makes a folder when the last one is full, and only then.
LEMMA NextFolder ==
  ASSUME NEW f, NEW n, NEW c, NEW g, Filling(f, n, c, g)
  PROVE  Placed(f, n, NewFolders(f, n, c), NewFolder(f, n, c, g))
<1> DEFINE ng == NewFolder(f, n, c, g)
           nc == NewFolders(f, n, c)
           placed == /\ ng \in Nat /\ nc \in Nat
                     /\ ng = n \div f /\ ng = nc - 1
                     /\ (nc - 1) * f <= n /\ n + 1 <= nc * f
<1> USE DEF Filling, NewFolders, NewFolder
<1>0. (c - 1) * f = c * f - f /\ (c + 1) * f = c * f + f /\ c * f \in Nat
  OBVIOUS
<1>1. ASSUME n % f = 0 PROVE placed
  <2>1. PICK q \in Nat : n = q * f
    BY <1>1, Multiple
  <2>2. q = c
    <3>1. CASE n = 0
      <4>1. c = 0
        BY <3>1
      <4>2. ~(0 < q)
        <5>1. ASSUME 0 < q PROVE FALSE
          <6>1. 0 * f + f <= q * f
            BY <5>1, OneLess
          <6> QED
            BY <2>1, <3>1, <6>1
        <5> QED
          BY <5>1
      <4> QED
        BY <4>1, <4>2
    <3>2. CASE n > 0
      <4>1. (c - 1) * f < q * f /\ q * f <= c * f
        BY <2>1, <3>2
      <4>2. ASSUME c < q PROVE FALSE
        <5>1. c * f + f <= q * f
          BY <4>2, OneLess
        <5> QED
          BY <1>0, <4>1, <5>1
      <4>3. ASSUME q < c PROVE FALSE
        <5>1. q * f + f <= c * f
          BY <4>3, OneLess
        <5> QED
          BY <1>0, <4>1, <5>1
      <4> QED
        BY <4>2, <4>3
    <3> QED
      BY <3>1, <3>2
  <2>3. ng = c /\ nc = c + 1 /\ n = c * f
    BY <1>1, <2>1, <2>2
  <2>4. n \div f = c
    BY <1>0, <2>3, InFolder
  <2>5. nc - 1 = c /\ nc * f = c * f + f
    BY <1>0, <2>3
  <2> QED
    BY <1>0, <2>3, <2>4, <2>5
<1>2. ASSUME n % f # 0 PROVE placed
  <2>1. n > 0
    <3>1. 0 * f = 0
      OBVIOUS
    <3>2. 0 % f = 0
      BY <3>1, Multiple
    <3> QED
      BY <1>2, <3>2
  <2>2. ng = c - 1 /\ nc = c /\ (c - 1) * f < n
    BY <1>2, <2>1
  <2>3. n # c * f
    BY <1>2, Multiple
  <2>4. c - 1 \in Nat
    BY <2>1, <2>2
  <2>5. n < c * f
    BY <1>0, <2>3
  <2>6. (c - 1) * f <= n /\ n < ((c - 1) + 1) * f
    <3>1. (c - 1) + 1 = c
      OBVIOUS
    <3> QED
      BY <1>0, <2>2, <2>5, <3>1
  <2>7. n \div f = c - 1
    BY <2>4, <2>6, InFolder
  <2> QED
    BY <1>0, <2>2, <2>4, <2>5, <2>7
<1>3. placed
  BY <1>1, <1>2
<1> HIDE DEF ng, nc
<1>4. Placed(f, n, nc, ng)
  BY <1>3 DEF Placed
<1> QED
  BY <1>4 DEF ng, nc

\* The files of a folder follow each other.
LEMMA FolderFiles ==
  ASSUME TypeInv, FolderInv, NEW d \in 0 .. folderCounter - 1
  PROVE  LET files == Cardinality({i \in DOMAIN created : created[i][1] = d})
         IN /\ files <= FilesPerFolder
            /\ d < folderCounter - 1 => files = FilesPerFolder
<1> DEFINE L == Len(created)
           F == FilesPerFolder
           last == IF (d + 1) * F <= L THEN (d + 1) * F ELSE L
           files == {i \in DOMAIN created : created[i][1] = d}
<1>1. /\ L \in Nat /\ F \in Nat \ {0} /\ folderCounter \in Nat /\ d \in Nat
      /\ DOMAIN created = 1 .. L
  BY Typed, Sizes
<1>2. \A i \in 1 .. L : created[i][1] = (i - 1) \div F
  BY <1>1 DEF FolderInv
<1>3. (folderCounter - 1) * F <= L /\ L <= folderCounter * F
  BY DEF FolderInv
<1>4. files = {i \in 1 .. L : created[i][1] = d}
  BY <1>1
<1> HIDE DEF L, F, files
<1>5. d * F \in Nat /\ (d + 1) * F = d * F + F
  BY <1>1
<1>6. files = d * F + 1 .. last
  <2>1. ASSUME NEW i \in 1 .. L PROVE created[i][1] = d <=> d * F <= i - 1 /\ i - 1 < (d + 1) * F
    <3>1. i - 1 \in Nat
      BY <1>1
    <3>2. (i - 1) \div F = d <=> d * F <= i - 1 /\ i - 1 < (d + 1) * F
      BY <1>1, <3>1, InFolder
    <3> QED
      BY <1>2, <3>2
  <2>2. files = {i \in 1 .. L : d * F + 1 <= i /\ i <= d * F + F}
    BY <1>1, <1>4, <1>5, <2>1
  <2> QED
    BY <1>1, <1>5, <2>2
<1>7. d * F + 1 \in Int /\ last \in Int
  BY <1>1, <1>5
<1>8. Cardinality(files) = IF d * F + 1 > last THEN 0 ELSE last - (d * F + 1) + 1
  BY <1>6, <1>7, FS_Interval
<1>9. Cardinality(files) <= F
  BY <1>1, <1>5, <1>8
<1>10. ASSUME d < folderCounter - 1 PROVE Cardinality(files) = F
  <2>1. (d + 1) * F <= (folderCounter - 1) * F
    BY <1>1, <1>10, MultiplesOrdered
  <2>2. (folderCounter - 1) * F \in Int
    BY <1>1
  <2>3. (d + 1) * F <= L
    BY <1>1, <1>3, <1>5, <2>1, <2>2 DEF F, L
  <2>4. last = d * F + F
    BY <1>5, <2>3
  <2> QED
    BY <1>1, <1>5, <1>8, <2>4
<1> QED
  BY <1>9, <1>10 DEF files, F

\* A new scan has made no file.
LEMMA FolderInit == Init => FolderInv
BY Sizes DEF Init, FolderInv, Current, Carving, Saving

\* Every file made goes into the folder that is being filled.
LEMMA FolderStep == TypeInv /\ FolderInv /\ [Next]_vars => FolderInv'
<1> SUFFICES ASSUME TypeInv, FolderInv, [Next]_vars PROVE FolderInv'
  OBVIOUS
<1>f. /\ \A i \in DOMAIN created : created[i][1] = (i - 1) \div FilesPerFolder
      /\ \A i, j \in DOMAIN created : i < j => created[i][2] < created[j][2]
      /\ (folderCounter - 1) * FilesPerFolder <= Len(created)
      /\ Len(created) <= folderCounter * FilesPerFolder
      /\ pc \in {"loop", "search", "dispatch"} =>
           Len(created) = fileCounter /\ Current(fileCounter)
      /\ pc \in Saving => Len(created) = fileCounter + 1 /\ Current(fileCounter + 1)
      /\ pc = "loop" => \A i \in DOMAIN created : created[i][2] < start_offset
      /\ pc = "search" => \A i \in DOMAIN created : created[i][2] < offset
      /\ pc = "dispatch" => \A i \in DOMAIN created : created[i][2] < header_offset
      /\ pc \in Saving => \A i \in DOMAIN created : created[i][2] < NextSearch
  BY DEF FolderInv
<1>t. /\ offset \in Nat /\ start_offset \in Nat /\ header_offset \in Nat
      /\ fileCounter \in Nat /\ folderCounter \in Nat /\ folder \in Nat
      /\ SectorSize \in Nat \ {0} /\ FilesPerFolder \in Nat \ {0}
      /\ created \in Seq(Nat \X Sectors) /\ Len(created) \in Nat
      /\ DOMAIN created = 1 .. Len(created)
  BY Typed, Sizes
<1>c. \A i \in DOMAIN created : created[i][1] \in Nat /\ created[i][2] \in Nat
  <2> SUFFICES ASSUME NEW i \in DOMAIN created
               PROVE  created[i][1] \in Nat /\ created[i][2] \in Nat
    OBVIOUS
  <2>1. created[i] \in Nat \X Sectors
    BY <1>t, ElementTyped
  <2> QED
    BY <2>1, SectorTyped
<1>k. ASSUME UNCHANGED folderVars
      PROVE  /\ \A i \in DOMAIN created' : created'[i][1] = (i - 1) \div FilesPerFolder
             /\ \A i, j \in DOMAIN created' : i < j => created'[i][2] < created'[j][2]
             /\ (folderCounter' - 1) * FilesPerFolder <= Len(created')
             /\ Len(created') <= folderCounter' * FilesPerFolder
             /\ fileCounter' = fileCounter /\ created' = created
             /\ \A n : Current(n) => Current(n)'
  BY <1>f, <1>k DEF folderVars, Current
<1>1. CASE LoopHead
  <2>1. UNCHANGED folderVars /\ pc = "loop" /\ pc' \in {"search", "finished"}
        /\ offset' = start_offset
    BY <1>1 DEF LoopHead
  <2>2. Current(fileCounter)'
    BY <1>f, <1>1, <2>1 DEF LoopHead, Current, folderVars
  <2> QED
    BY <1>f, <1>k, <2>1, <2>2 DEF FolderInv, Saving
<1>2. CASE SearchBlock
  <2>1. pc = "search" /\ UNCHANGED folderVars
    BY <1>2, SearchCases
  <2>2. CASE pc' = "dead"
    BY <1>f, <1>k, <2>1, <2>2 DEF FolderInv, Saving
  <2>3. ASSUME NEW e \in Nat, SearchedTo(e) PROVE FolderInv'
    <3>1. offset < e /\ offset' = e /\ pc' = "search"
      BY <2>1, <2>3 DEF SearchedTo
    <3>2. \A i \in DOMAIN created : created[i][2] < offset'
      BY <1>f, <1>t, <1>c, <2>1, <3>1
    <3>3. Current(fileCounter)'
      BY <1>f, <2>1 DEF Current, folderVars
    <3> QED
      BY <1>f, <1>k, <2>1, <3>1, <3>2, <3>3 DEF FolderInv, Saving
  <2>4. ASSUME NEW a \in Sectors, HeaderAt(a) PROVE FolderInv'
    <3>1. offset <= a /\ header_offset' = a /\ pc' = "dispatch" /\ a \in Nat
      BY <2>4, SectorTyped DEF HeaderAt
    <3>2. \A i \in DOMAIN created : created[i][2] < header_offset'
      BY <1>f, <1>t, <1>c, <2>1, <3>1
    <3>3. Current(fileCounter)'
      BY <1>f, <2>1 DEF Current, folderVars
    <3> QED
      BY <1>f, <1>k, <2>1, <3>1, <3>2, <3>3 DEF FolderInv, Saving
  <2> QED
    BY <1>2, <2>2, <2>3, <2>4, SearchCases
<1>3. CASE SearchFails
  BY <1>f, <1>k, <1>3 DEF SearchFails, FolderInv, Saving
<1>4. CASE Special \/ NotSpecified
  <2>1. /\ pc = "dispatch" /\ UNCHANGED folderVars
        /\ pc' \in {"stopped", "dead"} \/ (pc' = "loop" /\ start_offset' = NextSearch)
    BY <1>4 DEF Special, NotSpecified, Die
  <2>2. \A i \in DOMAIN created : created[i][2] < NextSearch
    BY <1>f, <1>t, <1>c, <2>1 DEF NextSearch
  <2>3. Current(fileCounter)'
    BY <1>f, <2>1 DEF Current, folderVars
  <2> QED
    BY <1>f, <1>k, <2>1, <2>2, <2>3 DEF FolderInv, Saving
<1>5. CASE CreateTarget
  <2> DEFINE newFolder == IF Rotates THEN folderCounter ELSE folder
             L == Len(created)
             F == FilesPerFolder
  <2>1. /\ pc = "dispatch"
        /\ folder' = newFolder
        /\ folderCounter' = IF Rotates THEN folderCounter + 1 ELSE folderCounter
        /\ \/ /\ created' = Append(created, <<newFolder, header_offset>>)
              /\ pc' \in {"factory", "footer", "append"}
           \/ pc' = "dead" /\ UNCHANGED created
        /\ UNCHANGED <<header_offset, fileCounter>>
    BY <1>5 DEF CreateTarget, Die
  <2>2. L = fileCounter /\ Current(L) /\ L <= folderCounter * F
    BY <1>f, <2>1
  <2>3. /\ L = 0 => folderCounter = 0
        /\ L > 0 => folder = folderCounter - 1 /\ (folderCounter - 1) * F < L
        /\ Rotates <=> L % F = 0
    BY <2>2 DEF Current, Rotates
  <2> HIDE DEF L, F
  <2>t. L \in Nat /\ F \in Nat \ {0} /\ L = Len(created) /\ F = FilesPerFolder
    BY <1>t DEF L, F
  <2>4. /\ newFolder \in Nat /\ folderCounter' \in Nat
        /\ newFolder = L \div F /\ newFolder = folderCounter' - 1
        /\ (folderCounter' - 1) * F <= L /\ L + 1 <= folderCounter' * F
    <3>1. newFolder = IF L % F = 0 THEN folderCounter ELSE folder
      BY <2>3
    <3>2. folderCounter' = IF L % F = 0 THEN folderCounter + 1 ELSE folderCounter
      BY <2>1, <2>3
    <3>3. /\ F \in Nat \ {0} /\ L \in Nat /\ folderCounter \in Nat /\ folder \in Nat
          /\ L <= folderCounter * F
          /\ L = 0 => folderCounter = 0
          /\ L > 0 => folder = folderCounter - 1 /\ (folderCounter - 1) * F < L
      BY <1>t, <2>t, <2>2, <2>3
    <3> HIDE DEF newFolder
    <3>4. Filling(F, L, folderCounter, folder)
      BY <3>3 DEF Filling
    <3>5. Placed(F, L, NewFolders(F, L, folderCounter), NewFolder(F, L, folderCounter, folder))
      BY <3>4, NextFolder
    <3>6. Placed(F, L, folderCounter', newFolder)
      BY <3>1, <3>2, <3>5 DEF NewFolders, NewFolder
    <3> QED
      BY <3>6 DEF Placed
  <2> HIDE DEF newFolder
  <2>5. CASE pc' = "dead" /\ UNCHANGED created
    <3>1. (folderCounter' - 1) * F <= L /\ L <= folderCounter' * F
      <4> DEFINE m == folderCounter' * F
      <4>1. m \in Int
        <5>1. folderCounter' \in Int /\ F \in Int
          BY <2>t, <2>4
        <5> QED
          BY <5>1
      <4>2. L + 1 <= m
        BY <2>4
      <4> HIDE DEF m
      <4>3. L <= m
        BY <2>t, <4>1, <4>2
      <4> QED
        BY <2>4, <4>3 DEF m
    <3> QED
      BY <1>f, <2>t, <2>5, <3>1 DEF FolderInv, Saving
  <2>6. CASE /\ created' = Append(created, <<newFolder, header_offset>>)
             /\ pc' \in {"factory", "footer", "append"}
    <3>1. <<newFolder, header_offset>> \in Nat \X Sectors
      BY <2>1, <2>4 DEF TypeInv, Carving
    <3>2. /\ Len(created') = L + 1 /\ DOMAIN created' = 1 .. L + 1
          /\ \A i \in 1 .. L : created'[i] = created[i]
          /\ created'[L + 1] = <<newFolder, header_offset>>
      <4>1. /\ created' \in Seq(Nat \X Sectors) /\ Len(created') = L + 1
            /\ \A i \in 1 .. L : created'[i] = created[i]
            /\ created'[L + 1] = <<newFolder, header_offset>>
        BY <1>t, <2>t, <2>6, <3>1, Appended
      <4> QED
        BY <4>1
    <3>3. \A i \in DOMAIN created' : created'[i][1] = (i - 1) \div FilesPerFolder
      <4> SUFFICES ASSUME NEW i \in 1 .. L + 1 PROVE created'[i][1] = (i - 1) \div FilesPerFolder
        BY <3>2
      <4>1. CASE i \in 1 .. L
        BY <1>f, <1>t, <2>t, <3>2, <4>1
      <4>2. CASE i = L + 1
        <5>1. i - 1 = L
          BY <2>t, <4>2
        <5> QED
          BY <2>t, <2>4, <3>2, <4>2, <5>1
      <4> QED
        BY <2>t, <4>1, <4>2
    <3>4. \A i \in 1 .. L : created'[i][2] \in Nat /\ created'[i][2] < header_offset
      BY <1>f, <1>t, <1>c, <2>t, <2>1, <3>2
    <3>5. \A i, j \in DOMAIN created' : i < j => created'[i][2] < created'[j][2]
      <4> SUFFICES ASSUME NEW i \in 1 .. L + 1, NEW j \in 1 .. L + 1, i < j
                   PROVE  created'[i][2] < created'[j][2]
        BY <3>2
      <4>1. i \in 1 .. L
        BY <2>t
      <4>2. CASE j \in 1 .. L
        BY <1>f, <1>t, <2>t, <3>2, <4>1, <4>2
      <4>3. CASE j = L + 1
        BY <3>2, <3>4, <4>1, <4>3
      <4> QED
        BY <2>t, <4>2, <4>3
    <3>6. \A i \in DOMAIN created' : created'[i][2] < NextSearch'
      <4> SUFFICES ASSUME NEW i \in 1 .. L + 1 PROVE created'[i][2] < header_offset + SectorSize
        BY <2>1, <3>2 DEF NextSearch
      <4>1. CASE i \in 1 .. L
        BY <1>t, <3>4, <4>1
      <4>2. CASE i = L + 1
        BY <1>t, <3>2, <4>2
      <4> QED
        BY <2>t, <4>1, <4>2
    <3>7. /\ (folderCounter' - 1) * FilesPerFolder <= Len(created')
          /\ Len(created') <= folderCounter' * FilesPerFolder
      <4>1. (folderCounter' - 1) * F \in Int
        BY <2>t, <2>4
      <4> QED
        BY <2>t, <2>4, <3>2, <4>1
    <3>8. Len(created') = fileCounter' + 1
      BY <2>1, <2>2, <3>2
    <3>9. Current(fileCounter + 1)'
      <4>1. fileCounter' + 1 = L + 1 /\ folder' = folderCounter' - 1
        BY <2>1, <2>2, <2>4
      <4>2. (folderCounter' - 1) * F < L + 1
        <5>1. (folderCounter' - 1) * F \in Int
          BY <2>t, <2>4
        <5> QED
          BY <2>t, <2>4, <5>1
      <4> QED
        BY <2>t, <4>1, <4>2 DEF Current
    <3> QED
      BY <2>6, <3>3, <3>5, <3>6, <3>7, <3>8, <3>9 DEF FolderInv, Saving
  <2> QED
    BY <2>1, <2>5, <2>6
<1>6. CASE FinishFile
  <2>1. /\ pc = "saved" /\ pc' = "loop" /\ start_offset' = NextSearch
        /\ fileCounter' = fileCounter + 1
        /\ UNCHANGED <<folderCounter, folder, created>>
    BY <1>6 DEF FinishFile
  <2>2. Current(fileCounter)'
    BY <1>f, <2>1 DEF Current, Saving
  <2> QED
    BY <1>f, <2>1, <2>2 DEF FolderInv, Saving
<1>7. CASE SaveByFactory \/ AppendBlock \/ AppendDone \/ FooterBlock \/ FooterDone \/ WriteThrows
  <2>1. /\ UNCHANGED <<folderVars, header_offset>>
        /\ pc' = "dead" \/ (pc \in Saving /\ pc' \in Saving)
    <3>1. CASE FooterBlock
      <4>1. pc' \in {"footer", "saved", "dead"}
        BY <3>1, FooterCases DEF BlockRead, AppendFooterless, EndsAt, EndWithFooter
      <4> QED
        BY <3>1, <4>1, FooterCases DEF Saving
    <3>2. CASE AppendBlock
      <4>1. pc' = "dead" \/ pc' = "append"
        BY <3>2 DEF AppendBlock, Die
      <4> QED
        BY <3>2, <4>1 DEF AppendBlock, Saving
    <3>3. CASE SaveByFactory \/ AppendDone \/ FooterDone \/ WriteThrows
      BY <3>3 DEF SaveByFactory, AppendDone, FooterDone, WriteThrows, Die, Saving, scanVars
    <3> QED
      BY <1>7, <3>1, <3>2, <3>3
  <2>2. CASE pc' = "dead"
    BY <1>f, <1>k, <2>1, <2>2 DEF FolderInv, Saving
  <2>3. CASE pc \in Saving /\ pc' \in Saving
    <3>1. Current(fileCounter + 1)'
      BY <1>f, <2>1, <2>3 DEF Current, folderVars
    <3>2. NextSearch' = NextSearch
      BY <2>1 DEF NextSearch
    <3> QED
      BY <1>f, <1>k, <2>1, <2>3, <3>1, <3>2 DEF FolderInv, Saving
  <2> QED
    BY <2>1, <2>2, <2>3
<1>8. CASE UNCHANGED vars
  BY <1>f, <1>8 DEF vars, scanVars, folderVars, FolderInv, Current, NextSearch
<1> QED
  BY <1>1, <1>2, <1>3, <1>4, <1>5, <1>6, <1>7, <1>8 DEF Next

\* No target is emptied by a later one, and each folder holds as many files as
\* it should.
THEOREM TargetsStay == Spec => []TargetsAreKept
<1>1. ASSUME TypeInv, FolderInv PROVE TargetsAreKept
  <2>1. NoTargetTwice
    <3> SUFFICES ASSUME NEW i \in DOMAIN created, NEW j \in DOMAIN created, i < j
                 PROVE  created[i] # created[j]
      BY DEF NoTargetTwice
    <3>1. created[i] \in Nat \X Sectors /\ created[i][2] < created[j][2]
      <4>1. created \in Seq(Nat \X Sectors) /\ DOMAIN created = 1 .. Len(created)
        BY <1>1, Typed
      <4> QED
        BY <1>1, <4>1, ElementTyped DEF FolderInv
    <3>2. created[i][2] \in Nat
      BY <3>1, SectorTyped
    <3> QED
      BY <3>1, <3>2
  <2>2. FolderBound
    BY <1>1, FolderFiles DEF FolderBound
  <2> QED
    BY <2>1, <2>2 DEF TargetsAreKept
<1> QED
  BY <1>1, TypeInit, TypeStep, FolderInit, FolderStep, PTL DEF Spec

-----------------------------------------------------------------------------
(* A saved file is its source                                              *)

SavedInv == SaveInv /\ TargetIsSource /\ FooterEndsFile /\ SizeLimit /\ ReadsStayInside

\* A new scan saves nothing.
LEMMA SavedInit == Init => SavedInv
BY DEF Init, SavedInv, SaveInv, TargetIsSource, FooterEndsFile, SizeLimit, ReadsStayInside

\* The save stands behind what it has read and written.
Behind == /\ pc \in {"append", "footer"}
          /\ read_end = offset /\ offset = header_offset + Len(target)

\* While a file is saved, the target ends where the device has been read to.
LEMMA SaveIsBehind ==
  ASSUME TypeInv, SavedInv, pc \in {"append", "footer"}
  PROVE  Behind
<1>1. offset = read_end /\ Len(target) = read_end - header_offset
  BY DEF SavedInv, SaveInv, TargetIsSource
<1>2. header_offset \in Nat /\ Len(target) \in Nat /\ read_end \in Nat
  BY Typed
<1> QED
  BY <1>1, <1>2 DEF Behind

\* What a block adds to the target is its source.
LEMMA WrittenIsSource ==
  ASSUME TypeInv, SavedInv, Behind,
         NEW n \in 0 .. BlockSize, offset + n <= Size, NEW m \in Nat
  PROVE  LET w == Written(Filled(offset, n), m)
         IN /\ Len(w) = Len(target) + m
            /\ \A i \in DOMAIN w :
                 header_offset + i - 1 < offset + n => w[i] = header_offset + i - 1
<1> DEFINE b == Filled(offset, n)
           w == Written(b, m)
           L == Len(target)
<1>1. /\ b \in [0 .. BlockSize - 1 -> Cell \cup {Blank}]
      /\ \A i \in 0 .. n - 1 : b[i] = offset + i
  BY FilledTyped
<1>2. /\ w \in Seq(Cell \cup {Blank}) /\ Len(w) = L + m
      /\ \A i \in 1 .. L : w[i] = target[i]
      /\ \A j \in 1 .. m : w[L + j] = IF j - 1 < BlockSize THEN b[j - 1] ELSE Blank
  BY <1>1, WrittenTyped
<1>3. /\ L \in Nat /\ header_offset \in Nat /\ offset = header_offset + L /\ read_end = offset
      /\ BlockSize \in Nat /\ n \in Nat /\ DOMAIN target = 1 .. L
  BY Typed, Sizes DEF Behind
<1>4. \A i \in DOMAIN target :
        header_offset + i - 1 < read_end => target[i] = header_offset + i - 1
  BY DEF SavedInv, TargetIsSource
<1>5. DOMAIN w = 1 .. L + m
  BY <1>2, <1>3
<1> HIDE DEF b, w, L
<1>6. ASSUME NEW i \in 1 .. L + m, header_offset + i - 1 < offset + n
      PROVE  w[i] = header_offset + i - 1
  <2>1. CASE i <= L
    BY <1>2, <1>3, <1>4, <2>1
  <2>2. CASE i > L
    <3> DEFINE j == i - L
    <3>1. j \in 1 .. m /\ L + j = i /\ j - 1 \in 0 .. n - 1 /\ j - 1 < BlockSize
      BY <1>3, <1>6, <2>2
    <3>2. b[j - 1] = offset + (j - 1)
      BY <1>1, <3>1
    <3>3. offset + (j - 1) = header_offset + i - 1
      BY <1>3, <3>1
    <3> QED
      BY <1>2, <3>1, <3>2, <3>3
  <2> QED
    BY <1>3, <2>1, <2>2
<1> QED
  BY <1>2, <1>5, <1>6 DEF b, w, L

\* A footer that can be found, up to where the next block of n cells ends, is
\* one its search finds in that block, the block after q others.
NextBlockIs(q, n) ==
  /\ pc = "footer" /\ offset < Size
  /\ q \in Nat /\ Len(target) = q * BlockSize /\ offset = header_offset + q * BlockSize
  /\ read_end = offset
  /\ n \in 1 .. BlockSize /\ offset + n <= Size
FoundUpTo(w, a, e) ==
  /\ a >= header_offset + SectorSize
  /\ a + FooterLength[w] < e
  /\ BlockOf(a) = BlockOf(a + FooterLength[w])

\* The blocks of a save by footers follow each other from the header on.
LEMMA BlocksBehind ==
  ASSUME TypeInv, SavedInv, pc = "footer", offset < Size,
         NEW n \in 1 .. BlockSize, offset + n <= Size
  PROVE  \E q \in Nat : NextBlockIs(q, n)
<1>1. Behind
  BY SaveIsBehind
<1>2. Len(target) % BlockSize = 0
  BY Typed, Sizes DEF SavedInv, SaveInv
<1>3. Len(target) \in Nat /\ BlockSize \in Nat \ {0}
  BY Typed, Sizes
<1>4. PICK q \in Nat : Len(target) = q * BlockSize
  BY <1>2, <1>3, Multiple
<1> QED
  BY <1>1, <1>4 DEF NextBlockIs, Behind

\* The footers of the format that is being saved.
LEMMA FooterTyped ==
  ASSUME TypeInv, pc = "footer"
  PROVE  /\ format.footers \in Nat /\ format.maxSize \in Nat /\ format.tail \in Nat
         /\ \A w \in 1 .. format.footers :
              FooterLength[w] \in 1 .. BlockSize /\ source.foot[w] \subseteq Cell
<1>1. format \in Formats /\ source.foot \in [DOMAIN FooterLength -> SUBSET Cell]
  BY Typed DEF Carving, Saving
<1> QED
  BY <1>1, FormatTyped

\* A footer that the search can see is among those it finds in its block.
LEMMA FoundFooter ==
  ASSUME TypeInv, SavedInv, NEW q, NEW n, NextBlockIs(q, n),
         NEW w \in 1 .. format.footers, NEW a \in source.foot[w], FoundUpTo(w, a, offset + n)
  PROVE  a - offset \in FootersIn(w, n) /\ BlockOf(a) = q /\ ~RunsOn(w, n)
<1> DEFINE l == FooterLength[w]
           h == header_offset
<1>1. /\ l \in Nat \ {0} /\ a \in Nat
  BY FooterTyped DEF NextBlockIs, Cell
<1>2. /\ q \in Nat /\ h \in Nat /\ BlockSize \in Nat \ {0} /\ SectorSize \in Nat \ {0}
      /\ n \in Nat /\ n <= BlockSize
      /\ q * BlockSize \in Nat /\ offset = h + q * BlockSize /\ read_end = offset
      /\ (q + 1) * BlockSize = q * BlockSize + BlockSize
  <2>1. h \in Nat /\ BlockSize \in Nat \ {0} /\ SectorSize \in Nat \ {0} /\ SectorSize <= BlockSize
    BY Typed, Sizes
  <2>2. q \in Nat /\ n \in Nat /\ n <= BlockSize /\ offset = h + q * BlockSize /\ read_end = offset
    BY <2>1 DEF NextBlockIs
  <2>3. PICK b \in Nat \ {0} : b = BlockSize
    BY <2>1
  <2>4. q * b \in Nat /\ (q + 1) * b = q * b + b
    BY <2>2
  <2> QED
    BY <2>1, <2>2, <2>3, <2>4
<1>3. /\ a >= h + SectorSize /\ a + l < offset + n
      /\ (a - h) \div BlockSize = ((a + l) - h) \div BlockSize
  BY Zenon DEF FoundUpTo, BlockOf
<1> HIDE DEF l, h
<1>4. a + l >= offset
  <2> SUFFICES ASSUME a + l < offset PROVE FALSE
    BY <1>1, <1>2
  <2>1. a + l < read_end
    BY <1>2
  <2>2. CanBeFound(w, a)
    BY <1>3, <2>1, Zenon DEF CanBeFound, BlockOf, l, h
  <2> QED
    BY <2>2 DEF SavedInv, SaveInv, NextBlockIs
<1>5. (a + l) - h \in Nat /\ a - h \in Nat
  BY <1>1, <1>2, <1>3, <1>4
<1>6. ((a + l) - h) \div BlockSize = q
  <2>1. q * BlockSize <= (a + l) - h /\ (a + l) - h < (q + 1) * BlockSize
    BY <1>1, <1>2, <1>3, <1>4
  <2> QED
    BY <1>2, <1>5, <2>1, InFolder
<1>7. (a - h) \div BlockSize = q
  BY <1>3, <1>6
<1>8. q * BlockSize <= a - h
  BY <1>2, <1>5, <1>7, InFolder
<1>9. a - offset \in Nat /\ a - offset <= n - l - 1 /\ offset + (a - offset) = a
      /\ (offset = h => a - offset >= SectorSize)
  BY <1>1, <1>2, <1>3, <1>8
<1>10. a - offset \in FootersIn(w, n)
  BY <1>1, <1>2, <1>9 DEF FootersIn, FooterStart, l, h
<1>11. ~(n < l)
  BY <1>1, <1>2, <1>9
<1> QED
  BY <1>7, <1>10, <1>11 DEF BlockOf, RunsOn, l, h

\* And what the search finds in its block is such a footer.
LEMMA FooterIsFound ==
  ASSUME TypeInv, NEW q, NEW n, NextBlockIs(q, n),
         NEW w \in 1 .. format.footers, NEW i \in FootersIn(w, n)
  PROVE  /\ i \in Nat /\ i + FooterLength[w] < n
         /\ offset + i \in source.foot[w]
         /\ FoundUpTo(w, offset + i, offset + n) /\ BlockOf(offset + i) = q
<1> DEFINE l == FooterLength[w]
           h == header_offset
<1>1. l \in Nat \ {0}
  BY FooterTyped DEF NextBlockIs
<1>2. /\ q \in Nat /\ h \in Nat /\ BlockSize \in Nat \ {0} /\ SectorSize \in Nat \ {0}
      /\ n \in Nat /\ n <= BlockSize /\ SectorSize <= BlockSize
      /\ q * BlockSize \in Nat /\ offset = h + q * BlockSize
      /\ (q + 1) * BlockSize = q * BlockSize + BlockSize
  <2>1. h \in Nat /\ BlockSize \in Nat \ {0} /\ SectorSize \in Nat \ {0} /\ SectorSize <= BlockSize
    BY Typed, Sizes
  <2>2. q \in Nat /\ n \in Nat /\ n <= BlockSize /\ offset = h + q * BlockSize
    BY <2>1 DEF NextBlockIs
  <2>3. PICK b \in Nat \ {0} : b = BlockSize
    BY <2>1
  <2>4. q * b \in Nat /\ (q + 1) * b = q * b + b
    BY <2>2
  <2> QED
    BY <2>1, <2>2, <2>3, <2>4
<1>3. /\ i \in FooterStart .. n - l - 1 /\ offset + i \in source.foot[w]
      /\ FooterStart = IF offset = h THEN SectorSize ELSE 0
  BY DEF FootersIn, FooterStart
<1> HIDE DEF l, h
<1>4. i \in Nat /\ i + l < n
  <2>1. PICK a \in Nat : a = FooterStart
    BY <1>2, <1>3
  <2>2. i \in a .. n - l - 1
    BY <1>3, <2>1
  <2> QED
    BY <1>1, <1>2, <2>2
<1>5. offset + i >= h + SectorSize
  <2>1. CASE offset = h
    BY <1>2, <1>3, <1>4, <2>1
  <2>2. CASE offset # h
    <3>1. 0 < q
      <4>1. CASE q = 0
        BY <1>2, <2>2, <4>1
      <4> QED
        BY <1>2, <4>1
    <3>2. 0 * BlockSize + BlockSize <= q * BlockSize
      BY <1>2, <3>1, OneLess
    <3> QED
      BY <1>2, <1>4, <3>2
  <2> QED
    BY <2>1, <2>2
<1>6. /\ (offset + i) - h = q * BlockSize + i /\ i \in 0 .. BlockSize - 1
      /\ (offset + i + l) - h = q * BlockSize + (i + l) /\ i + l \in 0 .. BlockSize - 1
      /\ offset + i + l < offset + n
  BY <1>1, <1>2, <1>4
<1>7. ((offset + i) - h) \div BlockSize = q /\ ((offset + i + l) - h) \div BlockSize = q
  BY <1>2, <1>6, Quotient
<1>8. BlockOf(offset + i) = q /\ BlockOf(offset + i + FooterLength[w]) = q
  BY <1>7, Zenon DEF BlockOf, l, h
<1>9. FoundUpTo(w, offset + i, offset + n)
  BY <1>5, <1>6, <1>8, Zenon DEF FoundUpTo, l, h
<1> QED
  BY <1>3, <1>4, <1>8, <1>9 DEF l

\* The footers a block may end with do not reach behind it.
LEMMA SearchStartsInside ==
  ASSUME TypeInv, pc = "footer", NEW w \in 1 .. format.footers,
         NEW i \in FooterStart .. BlockSize - FooterLength[w]
  PROVE  i \in Nat /\ i + FooterLength[w] <= BlockSize
BY FooterTyped, Sizes DEF FooterStart

\* No other multiple of the block size lies between the blocks.
LEMMA RoomForBlock ==
  ASSUME NEW q \in Nat, NEW m \in Nat, NEW b \in Nat \ {0}, m % b = 0, q * b < m
  PROVE  q * b + b <= m
<1>1. q * b \in Nat
  OBVIOUS
<1>2. (q * b) % b = 0
  BY <1>1, Multiple
<1> QED
  BY <1>1, <1>2, MultiplesApart

\* A block without a footer, or with one, keeps the invariant.
LEMMA SavedFooter ==
  ASSUME TypeInv, SavedInv, FooterBlock
  PROVE  SavedInv'
<1>1. /\ pc = "footer" /\ offset < Size
      /\ UNCHANGED <<source, first, start_offset, header_offset, format, folderVars, seen>>
  BY FooterCases
<1>2. PICK n \in 1 .. BlockSize :
        /\ offset + n <= Size
        /\ n = BlockSize \/ offset + n = Size
        /\ \/ /\ pc' = "dead" /\ cause' = "read" /\ source.bad # {}
              /\ UNCHANGED <<offset, saveVars>>
           \/ BlockRead(n)
  BY FooterCases
<1>3. PICK q \in Nat : NextBlockIs(q, n)
  BY <1>1, <1>2, BlocksBehind
<1>4. Behind
  BY <1>1, SaveIsBehind
<1>5. /\ Len(target) = q * BlockSize /\ q * BlockSize \in Nat
      /\ offset = header_offset + q * BlockSize /\ read_end = offset
      /\ header_offset \in Nat /\ BlockSize \in Nat \ {0} /\ Size \in Nat /\ n \in Nat
      /\ 0 < n /\ n <= BlockSize
      /\ DOMAIN target = 1 .. Len(target)
  BY <1>3, Typed, Sizes DEF NextBlockIs
<1>6. /\ format.footers \in Nat /\ format.maxSize \in Nat /\ format.tail \in Nat
      /\ format' = format /\ source' = source /\ header_offset' = header_offset
  BY <1>1, FooterTyped
<1>7. \A i \in DOMAIN target : target[i] = header_offset + i - 1
  <2>1. \A i \in DOMAIN target :
          header_offset + i - 1 < read_end => target[i] = header_offset + i - 1
    BY DEF SavedInv, TargetIsSource
  <2> QED
    BY <1>5, <2>1
<1>8. BlockLimit => Len(target) < format.maxSize /\ q * BlockSize + BlockSize <= format.maxSize
  <2>1. ASSUME BlockLimit PROVE Len(target) < format.maxSize
    BY <1>1, <2>1 DEF SavedInv, SaveInv
  <2>2. ASSUME BlockLimit PROVE q * BlockSize + BlockSize <= format.maxSize
    BY <1>5, <1>6, <2>1, <2>2, RoomForBlock DEF BlockLimit
  <2> QED
    BY <2>1, <2>2
<1>9. CASE pc' = "dead" /\ cause' = "read" /\ source.bad # {} /\ UNCHANGED <<offset, saveVars>>
  BY <1>6, <1>7, <1>9
     DEF SavedInv, SaveInv, TargetIsSource, FooterEndsFile, SizeLimit, ReadsStayInside, saveVars
<1>10. CASE BlockRead(n)
  <2>1. buffer' = Filled(offset, n) /\ read_end' = offset + n
    BY <1>10 DEF BlockRead
  <2>2. ASSUME NEW m \in Nat, target' = Written(buffer', m)
        PROVE  /\ Len(target') = Len(target) + m
               /\ \A i \in DOMAIN target' :
                    header_offset' + i - 1 < read_end' => target'[i] = header_offset' + i - 1
    BY <1>2, <1>4, <1>5, <1>6, <2>1, <2>2, WrittenIsSource
  <2>3. \A w, a : CanBeFound(w, a)' <=> FoundUpTo(w, a, offset + n)
    BY <1>6, <2>1 DEF CanBeFound, FoundUpTo, BlockOf
  <2>4. CASE pc' = "dead" /\ cause' # "read" /\ UNCHANGED <<offset, target>>
    BY <1>6, <1>7, <2>4
       DEF SavedInv, SaveInv, TargetIsSource, FooterEndsFile, SizeLimit, ReadsStayInside
  <2>5. CASE (\A w \in 1 .. format.footers : ~Stops(w, n)) /\ AppendFooterless(n)
    <3>1. ToAppend(n) = n
      BY <1>5 DEF ToAppend
    <3>2. /\ target' = Written(buffer', n)
          /\ \/ Len(target) + n = format.maxSize /\ pc' = "saved" /\ offset' = offset
             \/ Len(target) + n # format.maxSize /\ pc' = "footer" /\ offset' = offset + n
          /\ cause' = cause
      BY <1>1, <2>5, <3>1 DEF AppendFooterless, AfterWritten
    <3>3. /\ Len(target') = q * BlockSize + n
          /\ \A i \in DOMAIN target' :
               header_offset' + i - 1 < read_end' => target'[i] = header_offset' + i - 1
      BY <1>5, <2>2, <3>2
    <3>4. \A w \in 1 .. format'.footers : \A a \in source'.foot[w] : ~CanBeFound(w, a)'
      <4> SUFFICES ASSUME NEW w \in 1 .. format.footers, NEW a \in source.foot[w],
                          FoundUpTo(w, a, offset + n)
                   PROVE  FALSE
        BY <1>6, <2>3
      <4>1. a - offset \in FootersIn(w, n)
        BY <1>3, FoundFooter
      <4> QED
        BY <2>5, <4>1 DEF Stops
    <3>5. BlockLimit => Len(target') <= format.maxSize
      BY <1>5, <1>6, <1>8, <3>3
    <3>6. TargetIsSource'
      BY <1>5, <1>6, <2>1, <3>3 DEF TargetIsSource
    <3>7. cause' = "none"
      BY <1>1, <3>2 DEF SavedInv, SaveInv
    <3>8. CASE Len(target) + n = format.maxSize /\ pc' = "saved" /\ offset' = offset
      <4>1. SizeLimit'
        BY <1>5, <1>6, <3>3, <3>8 DEF SizeLimit
      <4>2. FooterEndsFile'
        BY <3>4 DEF FooterEndsFile
      <4>3. SaveInv'
        BY <1>1, <1>6, <3>7, <3>8 DEF SaveInv, TypeInv
      <4> QED
        BY <3>6, <3>7, <4>1, <4>2, <4>3 DEF SavedInv, ReadsStayInside
    <3>9. CASE Len(target) + n # format.maxSize /\ pc' = "footer" /\ offset' = offset + n
      <4>1. Len(target') % BlockSize = 0 \/ offset' = Size
        <5>1. CASE n = BlockSize
          <6>1. Len(target') = (q + 1) * BlockSize /\ q + 1 \in Nat /\ Len(target') \in Nat
            BY <1>5, <3>3, <5>1
          <6> QED
            BY <1>5, <6>1, Multiple
        <5> QED
          BY <1>2, <3>9, <5>1
      <4>2. BlockLimit => Len(target') < format.maxSize
        BY <1>5, <1>6, <3>3, <3>5, <3>9
      <4>3. BlockLimit' => Len(target') < format'.maxSize
        BY <1>6, <4>2 DEF BlockLimit
      <4>4. SaveInv'
        BY <2>1, <3>4, <3>7, <3>9, <4>1, <4>3 DEF SaveInv
      <4>5. SizeLimit'
        BY <1>5, <1>6, <3>3, <4>2 DEF SizeLimit, BlockLimit
      <4> QED
        BY <3>6, <3>7, <3>9, <4>4, <4>5 DEF SavedInv, FooterEndsFile, ReadsStayInside
    <3> QED
      BY <3>2, <3>8, <3>9
  <2>6. ASSUME NEW w \in 1 .. format.footers,
               NEW i \in FooterStart .. BlockSize - FooterLength[w], EndsAt(w, i, n)
        PROVE  SavedInv'
    <3> DEFINE l == FooterLength[w]
    <3>1. /\ target' = Written(buffer', i + l + format.tail)
          /\ pc' = "saved" /\ offset' = offset /\ cause' = cause
          /\ \A m \in 1 .. w - 1 : ~Stops(m, n)
          /\ RunsOn(w, n) \/ (i \in FootersIn(w, n) /\ \A j \in FootersIn(w, n) : i <= j)
      BY <2>6 DEF EndsAt, EndWithFooter
    <3>2. l \in 1 .. BlockSize /\ i \in Nat /\ i + l <= BlockSize /\ w \in Nat
      BY <1>1, FooterTyped, SearchStartsInside
    <3> HIDE DEF l
    <3>3. /\ Len(target') = q * BlockSize + i + l + format.tail
          /\ \A j \in DOMAIN target' :
               header_offset' + j - 1 < read_end' => target'[j] = header_offset' + j - 1
      <4>1. i + l + format.tail \in Nat
        BY <1>6, <3>2
      <4> QED
        BY <1>5, <1>6, <2>2, <3>1, <3>2, <4>1
    <3>4. TargetIsSource'
      BY <1>6, <2>1, <3>1, <3>3 DEF TargetIsSource
    <3>5. cause' = "none"
      BY <1>1, <3>1 DEF SavedInv, SaveInv
    <3>6. SizeLimit'
      <4>1. BlockLimit => Len(target') <= format.maxSize + format.tail
        BY <1>5, <1>6, <1>8, <3>2, <3>3
      <4> QED
        BY <1>6, <4>1 DEF SizeLimit, BlockLimit
    <3>7. SaveInv'
      BY <1>1, <1>6, <3>1, <3>5 DEF SaveInv, TypeInv
    <3>8. ASSUME NEW x \in 1 .. format.footers, NEW a \in source.foot[x],
                 FoundUpTo(x, a, offset + n)
          PROVE  /\ Len(target') <= (BlockOf(a) + 1) * BlockSize + format.tail
                 /\ \/ Len(target') <= a - header_offset + FooterLength[x] + format.tail
                    \/ \E m \in 1 .. x - 1 :
                         \/ (offset + n) - (header_offset + BlockOf(a) * BlockSize) < FooterLength[m]
                         \/ \E b \in source.foot[m] :
                              FoundUpTo(m, b, offset + n) /\ BlockOf(b) = BlockOf(a)
      <4>1. a - offset \in FootersIn(x, n) /\ BlockOf(a) = q /\ ~RunsOn(x, n)
        BY <1>3, <3>8, FoundFooter
      <4>2. a \in Int /\ FooterLength[x] \in Nat /\ x \in Nat
        BY <1>1, FooterTyped DEF Cell
      <4>3. (q + 1) * BlockSize = q * BlockSize + BlockSize
        BY <1>5
      <4>4. Len(target') <= (BlockOf(a) + 1) * BlockSize + format.tail
        BY <1>5, <1>6, <3>2, <3>3, <4>1, <4>3
      <4>5. x >= w
        BY <3>1, <3>2, <4>1, <4>2 DEF Stops
      <4>6. CASE RunsOn(w, n)
        <5>1. w \in 1 .. x - 1
          BY <3>2, <4>1, <4>2, <4>5, <4>6
        <5>2. n < l
          BY <4>6 DEF RunsOn, l
        <5>3. (offset + n) - (header_offset + BlockOf(a) * BlockSize) < l
          BY <1>5, <3>2, <4>1, <5>2
        <5> QED
          BY <4>4, <5>1, <5>3 DEF l
      <4>7. CASE i \in FootersIn(w, n) /\ \A j \in FootersIn(w, n) : i <= j
        <5>1. CASE x = w
          <6>1. i <= a - offset
            BY <4>1, <4>7, <5>1
          <6>2. Len(target') <= a - header_offset + l + format.tail
            <7> DEFINE p == q * BlockSize
                       e == Len(target')
            <7>1. /\ p \in Nat /\ offset = header_offset + p /\ e = p + i + l + format.tail
                  /\ header_offset \in Nat /\ l \in Nat /\ format.tail \in Nat /\ i \in Nat
              BY <1>5, <1>6, <3>2, <3>3
            <7> HIDE DEF p, e
            <7> QED
              BY <4>2, <6>1, <7>1 DEF e
          <6> QED
            BY <4>4, <5>1, <6>2 DEF l
        <5>2. CASE x > w
          <6>1. /\ offset + i \in source.foot[w]
                /\ FoundUpTo(w, offset + i, offset + n) /\ BlockOf(offset + i) = q
            BY <1>3, <4>7, FooterIsFound
          <6>2. w \in 1 .. x - 1
            BY <3>2, <4>2, <5>2
          <6> QED
            BY <4>1, <4>4, <6>1, <6>2
        <5> QED
          BY <3>2, <4>2, <4>5, <5>1, <5>2
      <4> QED
        BY <3>1, <4>6, <4>7
    <3>9. FooterEndsFile'
      <4> SUFFICES ASSUME NEW x \in 1 .. format'.footers, NEW a \in source'.foot[x],
                          CanBeFound(x, a)'
                   PROVE  /\ Len(target') <= (BlockOf(a)' + 1) * BlockSize + format'.tail
                          /\ \/ Len(target') <= a - header_offset' + FooterLength[x] + format'.tail
                             \/ \E m \in 1 .. x - 1 :
                                  \/ RanOn(m, a)'
                                  \/ \E b \in source'.foot[m] :
                                       CanBeFound(m, b)' /\ BlockOf(b)' = BlockOf(a)'
        BY DEF FooterEndsFile
      <4>1. \A b : BlockOf(b)' = BlockOf(b)
        BY <1>6 DEF BlockOf
      <4>2. \A m : RanOn(m, a)' <=>
                     (offset + n) - (header_offset + BlockOf(a) * BlockSize) < FooterLength[m]
        BY <1>6, <2>1, <4>1 DEF RanOn
      <4>3. FoundUpTo(x, a, offset + n) /\ x \in 1 .. format.footers /\ a \in source.foot[x]
        BY <1>6, <2>3
      <4> QED
        BY <1>6, <2>3, <3>8, <4>1, <4>2, <4>3
    <3> QED
      BY <3>1, <3>4, <3>5, <3>6, <3>7, <3>9 DEF SavedInv, ReadsStayInside
  <2> QED
    BY <1>10, <2>4, <2>5, <2>6 DEF BlockRead
<1> QED
  BY <1>2, <1>9, <1>10

\* The last block of a format without footers is cut where the source ends.
LEMMA SavedAppend ==
  ASSUME TypeInv, SavedInv, AppendBlock
  PROVE  SavedInv'
<1> DEFINE n == calcBlockSize(Len(target), format.maxSize, BlockSize)
<1>1. /\ pc = "append" /\ Len(target) < ToWrite
      /\ UNCHANGED <<source, first, start_offset, header_offset, format, folderVars, seen>>
  BY DEF AppendBlock
<1>2. /\ format.how = "standard" /\ format.footers = 0
      /\ format.maxSize \in Nat /\ Len(target) \in Nat /\ header_offset \in Nat
      /\ offset \in Nat /\ Size \in Nat /\ BlockSize \in Nat \ {0}
  BY <1>1, Typed, FormatTyped, Sizes DEF TypeInv, Carving, Saving
<1>3. Behind
  BY <1>1, SaveIsBehind
<1>4. n \in 0 .. BlockSize
  BY <1>2 DEF calcBlockSize
<1>5. cause = "none"
  BY <1>1 DEF SavedInv, SaveInv
<1>6. CASE ReadThrows(offset, n)
  <2>1. pc' = "dead" /\ cause' = "read" /\ UNCHANGED <<offset, saveVars>>
    BY <1>6 DEF AppendBlock, Die
  <2>2. ASSUME source.bad = {}, header_offset + format.maxSize <= Size PROVE FALSE
    <3>1. Len(target) < format.maxSize
      BY <1>1, <1>2, <2>2 DEF ToWrite
    <3>2. n \in 1 .. BlockSize /\ Len(target) + n <= format.maxSize
      BY <1>2, <3>1, Blocks
    <3> HIDE DEF n
    <3>3. offset + n <= Size /\ n # 0
      BY <1>2, <1>3, <2>2, <3>2 DEF Behind
    <3> QED
      BY <1>2, <1>6, <2>2, <3>2, <3>3 DEF ReadThrows
  <2>3. ReadsStayInside'
    BY <1>1, <1>2, <2>2 DEF ReadsStayInside
  <2>4. TargetIsSource'
    BY <1>1, <2>1 DEF SavedInv, TargetIsSource, saveVars
  <2> QED
    BY <2>1, <2>3, <2>4 DEF SavedInv, SaveInv, FooterEndsFile, SizeLimit
<1>7. CASE ~ReadThrows(offset, n)
  <2>1. /\ buffer' = Filled(offset, n)
        /\ target' = Written(buffer', n)
        /\ offset' = offset + n
        /\ read_end' = offset + n
        /\ UNCHANGED <<pc, cause>>
    BY <1>7 DEF AppendBlock
  <2> HIDE DEF n
  <2>2. offset + n <= Size /\ n \in Nat
    BY <1>2, <1>4, <1>7 DEF ReadThrows
  <2>3. /\ Len(target') = Len(target) + n
        /\ \A i \in DOMAIN target' :
             header_offset + i - 1 < offset + n => target'[i] = header_offset + i - 1
    BY <1>3, <1>4, <2>1, <2>2, WrittenIsSource
  <2>4. Len(target') = read_end' - header_offset
    BY <1>2, <1>3, <2>1, <2>2, <2>3 DEF Behind
  <2>5. TargetIsSource'
    BY <1>1, <2>1, <2>3, <2>4 DEF TargetIsSource
  <2>6. SaveInv'
    BY <1>1, <1>5, <2>1 DEF SaveInv
  <2> QED
    BY <1>1, <1>5, <2>1, <2>5, <2>6
       DEF SavedInv, FooterEndsFile, SizeLimit, ReadsStayInside
<1> QED
  BY <1>6, <1>7

\* While nothing is saved there is no target.
LEMMA SavedIdle ==
  ASSUME TypeInv, SavedInv, pc \notin {"append", "footer", "saved", "dead"},
         target' = target, pc' \notin {"append", "footer", "saved"},
         pc' = "dead" \/ cause' = "none",
         pc' = "dead" /\ cause' = "read" => source'.bad # {},
         pc \in {"loop", "search", "dispatch"}
  PROVE  SavedInv'
<1>1. target' = <<>>
  BY DEF SavedInv, SaveInv
<1>2. TargetIsSource'
  BY <1>1 DEF TargetIsSource
<1> QED
  BY <1>1, <1>2 DEF SavedInv, SaveInv, FooterEndsFile, SizeLimit, ReadsStayInside

\* No step of a save puts anything but the next cells of the source behind
\* the target, nor ends it where it should go on.
LEMMA SavedStep == TypeInv /\ SavedInv /\ [Next]_vars => SavedInv'
<1> SUFFICES ASSUME TypeInv, SavedInv, [Next]_vars PROVE SavedInv'
  OBVIOUS
<1>s. /\ pc \in {"loop", "search", "dispatch", "factory"} => target = <<>>
      /\ pc # "dead" => cause = "none"
  BY DEF SavedInv, SaveInv
<1>1. CASE LoopHead
  BY <1>s, <1>1, SavedIdle DEF LoopHead, saveVars
<1>2. CASE SearchBlock
  <2>1. pc = "search" /\ target' = target /\ source' = source
    BY <1>2, SearchCases DEF saveVars
  <2>2. \/ pc' = "dead" /\ cause' = "read" /\ source.bad # {}
        \/ cause' = cause /\ pc' \in {"search", "dispatch"}
    BY <1>2, SearchCases DEF SearchedTo, HeaderAt
  <2> QED
    BY <1>s, <2>1, <2>2, SavedIdle
<1>3. CASE SearchFails
  BY <1>s, <1>3, SavedIdle DEF SearchFails, saveVars
<1>4. CASE Special \/ NotSpecified
  <2>1. /\ pc = "dispatch" /\ target' = target
        /\ \/ pc' \in {"stopped", "loop"} /\ cause' = cause
           \/ pc' = "dead" /\ cause' # "read"
    BY <1>4 DEF Special, NotSpecified, Die, saveVars
  <2> QED
    BY <1>s, <2>1, SavedIdle
<1>5. CASE CreateTarget
  <2>1. /\ pc = "dispatch" /\ format.how # "special"
        /\ target' = <<>> /\ offset' = header_offset /\ read_end' = header_offset
        /\ UNCHANGED <<source, header_offset, format>>
        /\ \/ pc' = "dead" /\ cause' = "create"
           \/ /\ pc' = IF format.how = "factory" THEN "factory"
                       ELSE IF format.footers > 0 THEN "footer" ELSE "append"
              /\ cause' = "none"
    BY <1>s, <1>5 DEF CreateTarget, Die
  <2>2. /\ header_offset \in Nat /\ format.footers \in Nat /\ format.maxSize \in Nat
        /\ format.tail \in Nat
        /\ SectorSize \in Nat \ {0} /\ BlockSize \in Nat \ {0}
        /\ \A w \in 1 .. format.footers :
             FooterLength[w] \in 1 .. BlockSize /\ source.foot[w] \subseteq Cell
    <3>1. format \in Formats /\ source.foot \in [DOMAIN FooterLength -> SUBSET Cell]
      BY <2>1, Typed DEF Carving
    <3> QED
      BY <3>1, FormatTyped, Typed, Sizes
  <2>3. Len(target') = 0 /\ DOMAIN target' = {} /\ read_end' - header_offset' = 0
    BY <2>1, <2>2
  <2>4. \A w \in 1 .. format'.footers : \A a \in source'.foot[w] : ~CanBeFound(w, a)'
    <3> SUFFICES ASSUME NEW w \in 1 .. format.footers, NEW a \in source.foot[w],
                        a >= header_offset + SectorSize, a + FooterLength[w] < header_offset
                 PROVE  FALSE
      BY <2>1 DEF CanBeFound
    <3>1. a \in Int /\ FooterLength[w] \in Nat
      BY <2>2 DEF Cell
    <3> QED
      BY <2>2, <3>1
  <2>5. Len(target') % BlockSize = 0
    <3>1. 0 * BlockSize = 0
      BY <2>2
    <3> QED
      BY <2>2, <2>3, <3>1, Multiple
  <2>6. TargetIsSource'
    BY <2>3 DEF TargetIsSource
  <2>7. pc' \in {"dead", "factory", "footer", "append"}
    BY <2>1
  <2>8. BlockLimit' => Len(target') < format'.maxSize
    BY <2>1, <2>2, <2>3 DEF BlockLimit
  <2>9. SaveInv'
    BY <2>1, <2>4, <2>5, <2>7, <2>8 DEF SaveInv
  <2>10. SizeLimit'
    BY <2>1, <2>2, <2>3 DEF SizeLimit
  <2> QED
    BY <2>1, <2>6, <2>7, <2>9, <2>10 DEF SavedInv, FooterEndsFile, ReadsStayInside
<1>6. CASE FinishFile
  <2>1. pc = "saved" /\ pc' = "loop" /\ target' = <<>> /\ cause' = cause
    BY <1>6 DEF FinishFile
  <2> QED
    BY <1>s, <2>1
       DEF SavedInv, SaveInv, TargetIsSource, FooterEndsFile, SizeLimit, ReadsStayInside
<1>7. CASE SaveByFactory
  <2>1. /\ pc = "factory" /\ format.how = "factory" /\ target' = <<>> /\ format' = format
        /\ \/ pc' = "saved" /\ cause' = "none"
           \/ pc' = "dead" /\ cause' = "factory"
    BY <1>s, <1>7 DEF SaveByFactory, Die, TypeInv, saveVars, scanVars
  <2> QED
    BY <2>1
       DEF SavedInv, SaveInv, TargetIsSource, FooterEndsFile, SizeLimit, ReadsStayInside
<1>8. CASE AppendBlock
  BY <1>8, SavedAppend
<1>9. CASE AppendDone
  <2>1. /\ pc = "append" /\ format.how = "standard" /\ format.footers = 0
        /\ pc' = "saved" /\ cause' = "none"
        /\ UNCHANGED <<target, read_end, header_offset, format>>
    BY <1>s, <1>9 DEF AppendDone, TypeInv, saveVars, scanVars
  <2>2. TargetIsSource'
    BY <2>1 DEF SavedInv, TargetIsSource
  <2> QED
    BY <2>1, <2>2 DEF SavedInv, SaveInv, FooterEndsFile, SizeLimit, ReadsStayInside
<1>10. CASE FooterBlock
  BY <1>10, SavedFooter
<1>11. CASE FooterDone
  <2>1. /\ pc = "footer" /\ format.how = "standard" /\ format.footers > 0
        /\ pc' = "saved" /\ cause' = "none"
        /\ UNCHANGED <<source, target, read_end, header_offset, format>>
    BY <1>s, <1>11 DEF FooterDone, TypeInv, saveVars, scanVars
  <2>2. TargetIsSource'
    BY <2>1 DEF SavedInv, TargetIsSource
  <2>3. \A w, a : CanBeFound(w, a)' <=> CanBeFound(w, a)
    BY <2>1 DEF CanBeFound, BlockOf
  <2>4. FooterEndsFile'
    BY <2>1, <2>3 DEF SavedInv, SaveInv, FooterEndsFile
  <2>5. SizeLimit'
    <3>1. BlockLimit => Len(target) < format.maxSize
      BY <2>1 DEF SavedInv, SaveInv
    <3>2. Len(target) \in Nat /\ format.maxSize \in Nat /\ format.tail \in Nat
      BY <2>1, Typed, FooterTyped
    <3> QED
      BY <2>1, <3>1, <3>2 DEF SizeLimit, BlockLimit
  <2> QED
    BY <2>1, <2>2, <2>4, <2>5 DEF SavedInv, SaveInv, ReadsStayInside
<1>12. CASE WriteThrows
  <2>1. /\ pc' = "dead" /\ cause' = "write"
        /\ UNCHANGED <<target, read_end, header_offset>>
    BY <1>12 DEF WriteThrows, Die, saveVars, scanVars
  <2>2. TargetIsSource'
    BY <2>1 DEF SavedInv, TargetIsSource
  <2> QED
    BY <2>1, <2>2 DEF SavedInv, SaveInv, FooterEndsFile, SizeLimit, ReadsStayInside
<1>13. CASE UNCHANGED vars
  <2>1. UNCHANGED <<source, pc, offset, header_offset, format, read_end, target, cause>>
    BY <1>13 DEF vars, scanVars, saveVars
  <2>2. /\ \A w, a : CanBeFound(w, a)' <=> CanBeFound(w, a)
        /\ \A a : BlockOf(a)' = BlockOf(a)
        /\ \A m, a : RanOn(m, a)' <=> RanOn(m, a)
    BY <2>1 DEF CanBeFound, BlockOf, RanOn
  <2>3. SaveInv'
    BY <2>1, <2>2 DEF SavedInv, SaveInv, BlockLimit
  <2>4. FooterEndsFile'
    BY <2>1, <2>2 DEF SavedInv, FooterEndsFile
  <2>5. TargetIsSource' /\ SizeLimit' /\ ReadsStayInside'
    BY <2>1 DEF SavedInv, TargetIsSource, SizeLimit, ReadsStayInside
  <2> QED
    BY <2>3, <2>4, <2>5 DEF SavedInv
<1> QED
  BY <1>1, <1>2, <1>3, <1>4, <1>5, <1>6, <1>7, <1>8, <1>9, <1>10, <1>11, <1>12, <1>13
     DEF Next

\* A saved file is its source up to where its format says it ends: what was read
\* is written once and in order, a footer that can be found ends the file, the
\* size limit is kept, and only a format without footers is read beyond the end.
THEOREM SavedFileIsSource == Spec => []SavedIsSource
<1>1. TypeInv /\ SavedInv => SavedIsSource
  BY DEF TypeInv, SavedInv, SavedIsSource
<1> QED
  BY <1>1, TypeInit, TypeStep, SavedInit, SavedStep, PTL DEF Spec

-----------------------------------------------------------------------------
(* The tools of the console                                                 *)

Page == [id : Nat, good : BOOLEAN]

\* The files of a job are sequences of pages.
LEMMA JobFiles ==
  ASSUME job \in Jobs
  PROVE  /\ \A f \in DOMAIN job.files : Source(f) \in Seq(Page) /\ Len(Source(f)) \in Nat
         /\ 1 \in DOMAIN job.files /\ DOMAIN job.files = 1 .. Len(job.files) /\ Len(job.files) \in Nat
         /\ job.tool \in OfTwo => 2 \in DOMAIN job.files
<1>1. job.files \in Seq(Seq(Page)) /\ job.files # <<>>
  BY JobsAssumption DEF Page
<1>2. job.tool \in OfTwo => Len(job.files) = 2
  BY JobsAssumption DEF OfTwo
<1>3. DOMAIN job.files = 1 .. Len(job.files) /\ Len(job.files) \in Nat /\ Len(job.files) # 0
  BY <1>1
<1>4. ASSUME NEW f \in DOMAIN job.files
      PROVE  Source(f) \in Seq(Page) /\ Len(Source(f)) \in Nat
  <2>1. job.files[f] \in Seq(Page)
    BY <1>1, <1>4
  <2> QED
    BY <2>1 DEF Source
<1>5. 1 \in 1 .. Len(job.files) /\ (Len(job.files) = 2 => 2 \in 1 .. Len(job.files))
  BY <1>3
<1> QED
  BY <1>2, <1>3, <1>4, <1>5

\* What a page holds.
LEMMA PageTypes ==
  ASSUME job \in Jobs, NEW f \in DOMAIN job.files, NEW i \in 0 .. Len(Source(f)) - 1
  PROVE  /\ Source(f)[i + 1] \in Page
         /\ Source(f)[i + 1].id \in Nat /\ Source(f)[i + 1].good \in BOOLEAN
<1>1. Source(f) \in Seq(Page) /\ i + 1 \in 1 .. Len(Source(f))
  BY JobFiles
<1>2. Source(f)[i + 1] \in Page
  BY <1>1
<1> QED
  BY <1>2 DEF Page

\* The pages a tool reads at once.
LEMMA Steps ==
  /\ job.tool \in OnePage \/ job.tool \in {"xor_files", "fixDBF"} => Step = 1
  /\ job.tool = "saveXVA" => Step = 3
  /\ job.tool = "yaffsPageNumberModify" => Step = Block
BY DEF Step, OnePage

LEMMA ToolConstants ==
  /\ MaxFiles \in Nat \ {0} /\ ImagePages \in Nat \ {0} /\ EntrySize \in Nat \ {0}
  /\ DWord \in Nat \ {0} /\ Block \in Nat \ {0} /\ ModCount \in Nat \ {0}
  /\ DataBlocks \in Nat \ {0} /\ RecordSize \in Nat \ {0} /\ HeaderSize \in Nat \ {0}
  /\ MaxTargets \in Nat \ {0} /\ EntrySize > 1 /\ DWord % EntrySize = 0
  /\ Wanted \in Nat /\ DataBlocks <= NoNumber
  /\ MaxFiles <= MaxTargets /\ 3 <= MaxTargets
BY BlockToolsAssumption
\* Min of two numbers, and of a part of 1 .. 2.
LEMMA MinOfTwo ==
  ASSUME NEW a \in Int, NEW b \in Int
  PROVE  Min({a, b}) = IF a <= b THEN a ELSE b
<1> DEFINE m == IF a <= b THEN a ELSE b
<1>1. m \in {a, b} /\ \A y \in {a, b} : m <= y
  OBVIOUS
<1>2. \A x \in {a, b} : (\A y \in {a, b} : x <= y) => x = m
  OBVIOUS
<1> HIDE DEF m
<1> QED
  BY <1>1, <1>2 DEF Min, m

LEMMA MinOfResync ==
  ASSUME NEW S \in SUBSET (1 .. 2), S # {}
  PROVE  Min(S) \in S /\ \A y \in S : Min(S) <= y
<1>1. \E x \in S : \A y \in S : x <= y
  <2>1. CASE 1 \in S
    BY <2>1
  <2>2. CASE 1 \notin S
    <3>1. \A y \in S : y = 2
      <4>1. \A y \in S : y \in 1 .. 2 /\ y # 1
        BY <2>2
      <4> QED
        BY <4>1
    <3>2. PICK y \in S : TRUE
      OBVIOUS
    <3> QED
      BY <3>1, <3>2
  <2> QED
    BY <2>1, <2>2
<1> QED
  BY <1>1 DEF Min

\* What is put changes one target.
LEMMA Puts ==
  ASSUME NEW o, NEW t, NEW p, NEW c
  PROVE  /\ DOMAIN Put(o, t, p, c) = DOMAIN o
         /\ \A s \in DOMAIN o : s # t => Put(o, t, p, c)[s] = o[s]
         /\ t \in DOMAIN o =>
              /\ DOMAIN Put(o, t, p, c)[t] = DOMAIN o[t] \cup {p}
              /\ Put(o, t, p, c)[t][p] = c
              /\ \A x \in DOMAIN o[t] : x # p => Put(o, t, p, c)[t][x] = o[t][x]
BY DEF Put

\* What is left of a block at the end of a file.
LEMMA Clips ==
  ASSUME LoopInv, NEW f \in DOMAIN job.files
  PROVE  /\ Clipped(f) \in Int /\ Len(Source(f)) \in Nat
         /\ Clipped(f) = IF Block <= Len(Source(f)) - k THEN Block ELSE Len(Source(f)) - k
<1>1. k \in Nat /\ Len(Source(f)) \in Nat /\ Block \in Nat
  BY JobFiles, ToolConstants DEF LoopInv
<1> QED
  BY <1>1, MinOfTwo DEF Clipped

\* findXVABlock looks at the two sectors behind the first.
LEMMA ChunkSectors ==
  /\ AfterChunk \in 1 .. 3
  /\ \A i \in 1 .. AfterChunk - 1 : ~ HeaderIn(i)
<1>1. Resync \in SUBSET (1 .. 2)
  BY DEF Resync
<1>2. CASE Resync = {}
  <2>1. AfterChunk = 3
    BY <1>2 DEF AfterChunk
  <2>2. ~ HeaderIn(1) /\ ~ HeaderIn(2)
    BY <1>2 DEF Resync
  <2> QED
    BY <2>1, <2>2
<1>3. CASE Resync # {}
  <2>1. AfterChunk \in Resync /\ \A y \in Resync : AfterChunk <= y
    BY <1>1, <1>3, MinOfResync DEF AfterChunk
  <2>2. ASSUME NEW i \in 1 .. AfterChunk - 1 PROVE ~ HeaderIn(i)
    <3>1. i \in 1 .. 2 /\ i \notin Resync
      BY <1>1, <2>1, <2>2
    <3> QED
      BY <3>1 DEF Resync
  <2> QED
    BY <1>1, <2>1, <2>2
<1> QED
  BY <1>2, <1>3

-----------------------------------------------------------------------------
(* The loops                                                                *)

LEMMA LoopStart == BlockInit => LoopInv
<1> SUFFICES ASSUME BlockInit PROVE LoopInv
  OBVIOUS
<1>1. job \in Jobs /\ file = 1 /\ k = 0 /\ DOMAIN out = 0 .. MaxTargets - 1
      /\ \A t \in DOMAIN out : out[t] = <<>>
  BY DEF BlockInit
<1>2. 1 \in DOMAIN job.files /\ Len(Pages) \in Nat
  BY <1>1, JobFiles DEF Pages
<1>3. status \in {"opening", "running"} /\ (status = "opening" <=> job.tool = "splitToFiles")
  BY DEF BlockInit
<1>4. ~ Ended
  BY <1>3 DEF Ended
<1>5. k \in Nat /\ k <= Len(Pages)
  BY <1>1, <1>2
<1> HIDE DEF BlockInit
<1> QED
  BY <1>1, <1>2, <1>3, <1>4, <1>5 DEF LoopInv

\* A turn goes on by the pages it has read.
LEMMA TurnLoops ==
  ASSUME LoopInv, NEW tool, NEW n \in Nat, NEW o, NEW m, DOMAIN o = DOMAIN out,
         Turn(tool, n, o, m)
  PROVE  LoopInv'
<1>1. /\ status = "running" /\ job' = job /\ open' = open /\ file' = file /\ status' = status
      /\ out' = o /\ k' = k + n /\ k + n <= Len(Pages)
  BY DEF Turn, Runs, Whole
<1>2. Pages' = Pages
  BY <1>1 DEF Pages, Source
<1>3. k' \in Nat /\ k' <= Len(Pages')
  <2>1. k \in Nat
    BY DEF LoopInv
  <2> QED
    BY <1>1, <1>2, <2>1
<1>4. ~ Ended'
  BY <1>1 DEF Ended
<1>5. job' \in Jobs /\ file' \in DOMAIN job'.files /\ (job'.tool \notin OfAFolder => file' = 1)
  BY <1>1 DEF LoopInv
<1>6. job'.tool = "splitToFiles" => 0 .. MaxFiles - 1 \subseteq open'
  BY <1>1 DEF LoopInv
<1> QED
  BY <1>1, <1>3, <1>4, <1>5, <1>6 DEF LoopInv

\* A loop that ends has read all it can read.
LEMMA LoopStops ==
  ASSUME LoopInv, status = "running", NEW s \in {"done", "thrown"},
         ~ More \/ ~ MayGoOn, job.tool # "fixDBF"
  PROVE  /\ job.tool \in OnePage /\ ~ NoPlace => k = Len(Pages)
         /\ job.tool = "saveXVA" => k + 3 > Len(Pages)
         /\ job.tool = "yaffsPageNumberModify" => k + Block > Len(Pages) \/ k + Block > Len(Source(2))
         /\ job.tool = "xor_files" => k = Len(Pages) \/ k >= Len(Source(2))
<1>1. k \in Nat /\ Len(Pages) \in Nat /\ k <= Len(Pages) /\ Block \in Nat \ {0}
  BY JobFiles, ToolConstants DEF LoopInv, Pages
<1>2. ~ More => k = Len(Pages)
  BY <1>1 DEF More
<1>3. ASSUME job.tool \in OnePage \/ job.tool = "xor_files", ~ NoPlace PROVE k = Len(Pages)
  <2>1. Step = 1
    BY <1>3, Steps
  <2>2. job.tool # "yaffsPageNumberModify"
    BY <1>3 DEF OnePage
  <2>3. ASSUME k < Len(Pages), job.tool = "splitToFiles", page.id < MaxFiles PROVE page.id \in open
    <3>1. file = 1 /\ 0 .. MaxFiles - 1 \subseteq open
      BY <2>3 DEF LoopInv, OfAFolder
    <3>2. k \in 0 .. Len(Source(1)) - 1
      BY <1>1, <2>3, <3>1 DEF Pages
    <3>3. page.id \in Nat
      BY <3>1, <3>2, PageTypes DEF page, Pages, LoopInv
    <3>4. page.id \in 0 .. MaxFiles - 1
      BY <2>3, <3>3, ToolConstants
    <3> QED
      BY <3>1, <3>4
  <2>4. ASSUME k < Len(Pages) PROVE FALSE
    <3>1. More /\ Whole(1)
      BY <1>1, <2>4 DEF More, Whole
    <3>2. MayGoOn
      BY <1>3, <2>1, <2>2, <2>3, <2>4, <3>1 DEF MayGoOn, NoPlace
    <3> QED
      BY <3>1, <3>2
  <2> QED
    BY <1>1, <2>4
<1>4. ASSUME job.tool = "saveXVA" PROVE k + 3 > Len(Pages)
  <2>1. MayGoOn <=> Whole(3)
    BY <1>4, Steps DEF MayGoOn
  <2> QED
    BY <1>1, <1>2, <2>1 DEF Whole
<1>5. ASSUME job.tool = "yaffsPageNumberModify"
      PROVE  k + Block > Len(Pages) \/ k + Block > Len(Source(2))
  <2>1. MayGoOn <=> Whole(Block) /\ k + Block <= Len(Source(2))
    BY <1>5, Steps DEF MayGoOn
  <2>2. Len(Source(2)) \in Nat
    BY <1>5, JobFiles DEF OfTwo, LoopInv
  <2> QED
    BY <1>1, <1>2, <2>1, <2>2 DEF Whole
<1>6. job.tool = "xor_files" => ~ NoPlace
  BY DEF NoPlace
<1> QED
  BY <1>3, <1>4, <1>5, <1>6

\* Where a loop ends it stays.
LEMMA StopLoops ==
  ASSUME LoopInv, status = "running", status' \in {"done", "thrown"},
         UNCHANGED <<job, open, file, k>>, DOMAIN out' = DOMAIN out,
         /\ job.tool \in OnePage /\ ~ NoPlace => k = Len(Pages)
         /\ job.tool = "saveXVA" /\ ~ NoHeaderNumber => k + 3 > Len(Pages)
         /\ job.tool = "yaffsPageNumberModify" => k + Block > Len(Pages) \/ k + Block > Len(Source(2))
         /\ job.tool = "xor_files" => k = Len(Pages) \/ k >= Len(Source(2))
  PROVE  LoopInv'
<1>1. /\ Pages' = Pages /\ Source(2)' = Source(2)
      /\ (NoPlace' <=> NoPlace) /\ (NoHeaderNumber' <=> NoHeaderNumber)
  BY DEF Pages, Source, NoPlace, NoHeaderNumber, page
<1>2. status' # "opening"
  OBVIOUS
<1>3. k' \in Nat /\ k' <= Len(Pages')
  BY <1>1 DEF LoopInv
<1>4. job' \in Jobs /\ file' \in DOMAIN job'.files /\ (job'.tool \notin OfAFolder => file' = 1)
      /\ DOMAIN out' = 0 .. MaxTargets - 1
      /\ (job'.tool = "splitToFiles" => 0 .. MaxFiles - 1 \subseteq open')
  BY DEF LoopInv
<1> QED
  BY <1>1, <1>2, <1>3, <1>4 DEF LoopInv

LEMMA EndsLoop ==
  ASSUME LoopInv, job.tool # "fixDBF", EndsByException
  PROVE  LoopInv'
<1>1. status = "running" /\ ~ MayGoOn /\ status' = "thrown"
      /\ UNCHANGED <<job, open, file, k>> /\ DOMAIN out' = DOMAIN out
  BY DEF EndsByException
<1> QED
  BY <1>1, LoopStops, StopLoops

\* The next file of a folder begins at its first page.
LEMMA LoopGoesOn ==
  ASSUME LoopInv, LoopEnds, job.tool \in OfAFolder, file < Len(job.files)
  PROVE  LoopInv'
<1>1. status = "running" /\ file' = file + 1 /\ k' = 0 /\ status' = status /\ UNCHANGED <<job, open, out>>
  BY DEF LoopEnds, OfAFolder
<1>2. file \in 1 .. Len(job.files) /\ Len(job.files) \in Nat
  BY JobFiles DEF LoopInv
<1>3. file' \in DOMAIN job.files
  BY <1>1, <1>2, JobFiles DEF LoopInv
<1>4. Len(Pages') \in Nat
  BY <1>1, <1>3, JobFiles DEF Pages, Source, LoopInv
<1>5. k' \in Nat /\ k' <= Len(Pages')
  BY <1>1, <1>4
<1>6. ~ Ended'
  BY <1>1 DEF Ended
<1>7. job' \in Jobs /\ job'.tool \in OfAFolder /\ job'.tool # "splitToFiles" /\ DOMAIN out' = 0 .. MaxTargets - 1
  BY <1>1 DEF LoopInv, OfAFolder
<1> QED
  BY <1>1, <1>3, <1>5, <1>6, <1>7 DEF LoopInv

LEMMA LoopEndsLoop ==
  ASSUME LoopInv, job.tool # "fixDBF", LoopEnds
  PROVE  LoopInv'
<1>1. CASE job.tool \in OfAFolder /\ file < Len(job.files)
  BY <1>1, LoopGoesOn
<1>2. CASE ~ (job.tool \in OfAFolder /\ file < Len(job.files))
  <2>1. status = "running" /\ ~ More /\ status' = "done" /\ UNCHANGED <<job, open, file, k, out>>
    BY <1>2 DEF LoopEnds, OfAFolder
  <2>2. DOMAIN out' = DOMAIN out
    BY <2>1
  <2> QED
    BY <2>1, <2>2, LoopStops, StopLoops
<1> QED
  BY <1>1, <1>2

\* The files of splitToFiles are opened before its loop.
LEMMA OpeningLoop ==
  ASSUME LoopInv, EmplaceFile \/ OpenFiles
  PROVE  LoopInv'
<1>1. status = "opening" /\ UNCHANGED <<job, file, out>> /\ job.tool = "splitToFiles" /\ file = 1
  BY DEF EmplaceFile, OpenFiles, LoopInv, OfAFolder
<1>2. Pages' = Pages /\ Len(Pages) \in Nat /\ k \in Nat
  BY <1>1, JobFiles DEF LoopInv, Pages, Source
<1>3. CASE EmplaceFile
  <2>1. k' = k + 1 /\ status' = "opening"
    BY <1>1, <1>3 DEF EmplaceFile
  <2>2. k' \in Nat /\ ~ Ended'
    BY <1>2, <2>1 DEF Ended
  <2> QED
    BY <1>1, <2>1, <2>2 DEF LoopInv
<1>4. CASE OpenFiles
  <2>1. k' = 0 /\ status' = "running" /\ open' = open \cup 0 .. MaxFiles - 1
    BY <1>4 DEF OpenFiles, OpensAll
  <2>2. k' \in Nat /\ k' <= Len(Pages') /\ ~ Ended' /\ 0 .. MaxFiles - 1 \subseteq open'
    BY <1>2, <2>1 DEF Ended
  <2> QED
    BY <1>1, <2>1, <2>2 DEF LoopInv
<1> QED
  BY <1>3, <1>4

LEMMA FixLoop ==
  ASSUME LoopInv, fixDBF
  PROVE  LoopInv'
<1>1. status = "running" /\ job.tool = "fixDBF" /\ UNCHANGED <<job, open, file>> /\ file = 1
  BY DEF fixDBF, Runs, LoopInv, OfAFolder
<1>2. Pages' = Pages /\ Len(Pages) \in Nat /\ k \in Nat /\ k <= Len(Pages)
  BY <1>1, JobFiles DEF LoopInv, Pages, Source
<1>3. DOMAIN out' = DOMAIN out
  BY Puts DEF fixDBF, Add
<1>4. job.tool \notin OnePage /\ job.tool # "saveXVA" /\ job.tool # "yaffsPageNumberModify" /\ job.tool # "xor_files"
  BY <1>1 DEF OnePage
<1>5. CASE status' = "done" /\ k' = k
  BY <1>1, <1>3, <1>4, <1>5, StopLoops
<1>6. CASE status' = status /\ k' = k + 1 /\ HeaderSize + (k + 1) * RecordSize < FileSize
  <2>1. k + 1 <= Len(Pages)
    <3>1. RecordSize \in Nat \ {0} /\ HeaderSize \in Nat
      BY ToolConstants
    <3>2. CASE k = Len(Pages)
      <4>1. (k + 1) * RecordSize = Len(Pages) * RecordSize + RecordSize /\ Len(Pages) * RecordSize \in Nat
        BY <1>2, <3>1, <3>2
      <4>2. PICK e \in 0 .. 1 : FileSize = HeaderSize + Len(Pages) * RecordSize + e
        BY DEF FileSize
      <4> HIDE DEF FileSize
      <4> QED
        BY <1>6, <3>1, <4>1, <4>2
    <3> QED
      BY <1>2, <3>2
  <2>2. k' \in Nat /\ k' <= Len(Pages')
    BY <1>2, <1>6, <2>1
  <2>3. ~ Ended'
    BY <1>1, <1>6 DEF Ended
  <2>4. job'.tool # "splitToFiles"
    BY <1>1
  <2> QED
    BY <1>1, <1>3, <1>6, <2>2, <2>3, <2>4 DEF LoopInv
<1>7. \/ status' = "done" /\ k' = k
      \/ status' = status /\ k' = k + 1 /\ HeaderSize + (k + 1) * RecordSize < FileSize
  BY DEF fixDBF
<1> QED
  BY <1>5, <1>6, <1>7

LEMMA XorLoop ==
  ASSUME LoopInv, xor_files
  PROVE  LoopInv'
<1>1. CASE Turn("xor_files", 1, Add(out, 0, {here, <<2, k>>}), memo)
  <2>1. DOMAIN Add(out, 0, {here, <<2, k>>}) = DOMAIN out
    BY Puts DEF Add
  <2> QED
    BY <1>1, <2>1, TurnLoops
<1>2. CASE k >= Len(Source(2)) /\ status' = "done" /\ UNCHANGED <<job, open, file, k, out, memo>>
  <2>1. status = "running" /\ job.tool = "xor_files"
    BY DEF xor_files, Runs
  <2>2. job.tool \notin OnePage
    BY <2>1 DEF OnePage
  <2>3. DOMAIN out' = DOMAIN out
    BY <1>2
  <2> QED
    BY <1>2, <2>1, <2>2, <2>3, StopLoops
<1> QED
  BY <1>1, <1>2 DEF xor_files

LEMMA PageLoops ==
  ASSUME LoopInv,
         \/ splitToFiles \/ splitByPages \/ splitByPage \/ saveOnlyWithID \/ saveByPageNumber
         \/ createManyExcelFiles \/ modify_mft_by_id \/ SaveImage \/ writeImageFiles
         \/ replaceBadMarkerToNulls
  PROVE  LoopInv'
<1> USE Puts DEF Add
<1>1. CASE splitToFiles
  BY <1>1, TurnLoops DEF splitToFiles
<1>2. CASE splitByPages
  BY <1>2, TurnLoops DEF splitByPages
<1>3. CASE splitByPage
  BY <1>3, TurnLoops DEF splitByPage
<1>4. CASE saveOnlyWithID
  BY <1>4, TurnLoops DEF saveOnlyWithID
<1>5. CASE saveByPageNumber
  BY <1>5, TurnLoops DEF saveByPageNumber
<1>6. CASE createManyExcelFiles
  BY <1>6, TurnLoops DEF createManyExcelFiles
<1>7. CASE modify_mft_by_id
  BY <1>7, TurnLoops DEF modify_mft_by_id
<1>8. CASE SaveImage
  BY <1>8, TurnLoops DEF SaveImage
<1>9. CASE writeImageFiles
  BY <1>9, TurnLoops DEF writeImageFiles
<1>10. CASE replaceBadMarkerToNulls
  BY <1>10, TurnLoops DEF replaceBadMarkerToNulls
<1> QED
  BY <1>1, <1>2, <1>3, <1>4, <1>5, <1>6, <1>7, <1>8, <1>9, <1>10

LEMMA BlockLoops ==
  ASSUME LoopInv, saveXVA \/ replaceBadsFromOtherFile \/ yaffsPageNumberModify \/ xorWithBlock
  PROVE  LoopInv'
<1>1. CASE saveXVA
  <2>1. CASE Turn("saveXVA", AfterChunk, out, memo)
    BY <2>1, ChunkSectors, TurnLoops
  <2>2. CASE Turn("saveXVA", 3,
                  IF page.good /\ page.id < DataBlocks THEN Put(out, 0, page.id, <<file, k + 1>>) ELSE out, memo)
    BY <2>2, Puts, TurnLoops
  <2>3. CASE page.good /\ page.id = NoNumber /\ status' = "thrown" /\ UNCHANGED <<job, open, file, k, out, memo>>
    <3>1. status = "running" /\ job.tool = "saveXVA" /\ k + 3 <= Len(Pages) /\ job.tool \notin OnePage
      BY <1>1 DEF saveXVA, Runs, Whole, OnePage
    <3>2. NoHeaderNumber /\ DOMAIN out' = DOMAIN out
      BY <2>3, <3>1 DEF NoHeaderNumber
    <3> QED
      BY <2>3, <3>1, <3>2, StopLoops
  <2> QED
    BY <1>1, <2>1, <2>2, <2>3 DEF saveXVA
<1>2. ASSUME Runs("replaceBadsFromOtherFile") \/ Runs("xorWithBlock"), k < Len(Pages) PROVE Clipped(1) \in Nat
  <2>1. file = 1 /\ 1 \in DOMAIN job.files
    BY <1>2, JobFiles DEF LoopInv, OfAFolder, Runs
  <2>2. k \in Nat /\ k < Len(Source(1))
    BY <1>2, <2>1 DEF LoopInv, Pages
  <2> QED
    BY <2>1, <2>2, Clips, ToolConstants
<1>3. CASE replaceBadsFromOtherFile
  <2>1. Clipped(1) \in Nat
    BY <1>2, <1>3 DEF replaceBadsFromOtherFile, Turn
  <2>2. PICK from, cells : Turn("replaceBadsFromOtherFile", Clipped(1), PutAll(out, 0, from, cells), memo)
    BY <1>3 DEF replaceBadsFromOtherFile
  <2>3. PICK o : o = PutAll(out, 0, from, cells)
    OBVIOUS
  <2>4. DOMAIN o = DOMAIN out
    BY <2>3 DEF PutAll
  <2> QED
    BY <2>1, <2>2, <2>3, <2>4, TurnLoops
<1>4. CASE yaffsPageNumberModify
  <2>1. PICK cells : Turn("yaffsPageNumberModify", Block, PutAll(out, 0, k, cells), memo)
    BY <1>4 DEF yaffsPageNumberModify
  <2>2. PICK o : o = PutAll(out, 0, k, cells)
    OBVIOUS
  <2>3. DOMAIN o = DOMAIN out
    BY <2>2 DEF PutAll
  <2> QED
    BY <2>1, <2>2, <2>3, ToolConstants, TurnLoops
<1>5. CASE xorWithBlock
  <2>1. PICK cells : Turn("xorWithBlock", Clipped(1), PutAll(out, 0, k, cells), cells)
    BY <1>5 DEF xorWithBlock
  <2>2. Clipped(1) \in Nat
    BY <1>2, <2>1 DEF Turn
  <2>3. PICK o : o = PutAll(out, 0, k, cells)
    OBVIOUS
  <2>4. DOMAIN o = DOMAIN out
    BY <2>3 DEF PutAll
  <2> QED
    BY <2>1, <2>2, <2>3, <2>4, TurnLoops
<1> QED
  BY <1>1, <1>3, <1>4, <1>5

LEMMA LoopStutters ==
  ASSUME LoopInv, UNCHANGED toolVars
  PROVE  LoopInv'
<1>1. job' = job /\ open' = open /\ file' = file /\ k' = k /\ out' = out /\ status' = status
  BY DEF toolVars
<1>2. /\ Pages' = Pages /\ Source(2)' = Source(2) /\ (Ended' <=> Ended)
      /\ (NoPlace' <=> NoPlace) /\ (NoHeaderNumber' <=> NoHeaderNumber)
  BY <1>1 DEF Pages, Source, Ended, NoPlace, NoHeaderNumber, page
<1> QED
  BY <1>1, <1>2 DEF LoopInv

LEMMA LoopSteps == LoopInv /\ [BlockNext]_toolVars => LoopInv'
<1> SUFFICES ASSUME LoopInv, [BlockNext]_toolVars PROVE LoopInv'
  OBVIOUS
<1>1. \/ EmplaceFile \/ OpenFiles
      \/ splitToFiles \/ splitByPages \/ splitByPage \/ saveOnlyWithID \/ saveByPageNumber
      \/ createManyExcelFiles \/ modify_mft_by_id \/ SaveImage \/ writeImageFiles
      \/ replaceBadMarkerToNulls
      \/ saveXVA \/ replaceBadsFromOtherFile \/ yaffsPageNumberModify \/ xorWithBlock
      \/ fixDBF \/ xor_files
      \/ job.tool # "fixDBF" /\ EndsByException
      \/ job.tool # "fixDBF" /\ LoopEnds
      \/ UNCHANGED toolVars
  BY DEF BlockNext
<1> QED
  BY <1>1, OpeningLoop, PageLoops, BlockLoops, FixLoop, XorLoop, EndsLoop, LoopEndsLoop, LoopStutters

\* The loops of the tools stay in their files, and end where no more can be
\* read, or where a number that they need is none.
THEOREM LoopsEndWhereTheyHaveTo == BlockSpec => []LoopInv
<1> QED
  BY LoopStart, LoopSteps, PTL DEF BlockSpec

-----------------------------------------------------------------------------
(* The last claim                                                           *)

\* A cell has been read if it is of an earlier file or in front of the loop.
LEMMA ReadSoFarIs ==
  ASSUME LoopInv, status # "opening"
  PROVE  /\ \A c : c \in ReadSoFar <=>
              \E f \in 1 .. file : \E i \in 0 .. Len(Source(f)) - 1 : c = <<f, i>> /\ (f = file => i < k)
         /\ \A f, i : <<f, i>> \in ReadSoFar =>
              f \in DOMAIN job.files /\ i \in 0 .. Len(Source(f)) - 1 /\ (f < file \/ (f = file /\ i < k))
<1>1. job \in Jobs /\ file \in DOMAIN job.files /\ file \in 1 .. Len(job.files) /\ Len(job.files) \in Nat
      /\ k \in Nat /\ k <= Len(Source(file)) /\ Len(Source(file)) \in Nat
  BY JobFiles DEF LoopInv, Pages
<1>2. ASSUME NEW c
      PROVE  c \in ReadSoFar <=>
               \E f \in 1 .. file : \E i \in 0 .. Len(Source(f)) - 1 : c = <<f, i>> /\ (f = file => i < k)
  <2>1. ASSUME c \in ReadSoFar
        PROVE  \E f \in 1 .. file : \E i \in 0 .. Len(Source(f)) - 1 : c = <<f, i>> /\ (f = file => i < k)
    <3>1. CASE \E f \in 1 .. file - 1 : c \in {f} \X Numbers(f)
      <4>1. PICK f \in 1 .. file - 1 : c \in {f} \X Numbers(f)
        BY <3>1
      <4>2. PICK i \in Numbers(f) : c = <<f, i>>
        BY <4>1
      <4>3. f \in 1 .. file /\ f # file
        BY <1>1, <4>1
      <4> QED
        BY <4>2, <4>3 DEF Numbers
    <3>2. CASE c \in {file} \X First(k)
      <4>1. PICK i \in First(k) : c = <<file, i>>
        BY <3>2
      <4>2. i \in 0 .. Len(Source(file)) - 1 /\ i < k /\ file \in 1 .. file
        BY <1>1, <4>1 DEF First
      <4> QED
        BY <4>1, <4>2
    <3>3. c \in UNION {{f} \X Numbers(f) : f \in 1 .. file - 1} =>
            \E f \in 1 .. file - 1 : c \in {f} \X Numbers(f)
      BY Zenon
    <3> QED
      BY <2>1, <3>1, <3>2, <3>3, Zenon DEF ReadSoFar
  <2>2. ASSUME NEW f \in 1 .. file, NEW i \in 0 .. Len(Source(f)) - 1, c = <<f, i>>, f = file => i < k
        PROVE  c \in ReadSoFar
    <3>1. CASE f = file
      <4>1. i \in First(k)
        BY <1>1, <2>2, <3>1 DEF First
      <4>2. c \in {file} \X First(k)
        BY <2>2, <3>1, <4>1
      <4> QED
        BY <4>2, Zenon DEF ReadSoFar
    <3>2. CASE f # file
      <4>1. f \in 1 .. file - 1
        BY <1>1, <3>2
      <4>2. c \in {f} \X Numbers(f)
        BY <2>2 DEF Numbers
      <4> QED
        BY <4>1, <4>2, Zenon DEF ReadSoFar
    <3> QED
      BY <3>1, <3>2
  <2> QED
    BY <2>1, <2>2
<1>3. ASSUME NEW f, NEW i, <<f, i>> \in ReadSoFar
      PROVE  f \in DOMAIN job.files /\ i \in 0 .. Len(Source(f)) - 1 /\ (f < file \/ (f = file /\ i < k))
  <2>1. PICK g \in 1 .. file : \E j \in 0 .. Len(Source(g)) - 1 : <<f, i>> = <<g, j>> /\ (g = file => j < k)
    BY <1>2, <1>3
  <2>2. PICK j \in 0 .. Len(Source(g)) - 1 : <<f, i>> = <<g, j>> /\ (g = file => j < k)
    BY <2>1
  <2>3. f = g /\ i = j
    BY <2>2
  <2>4. g \in DOMAIN job.files
    BY <1>1, JobFiles
  <2>5. g < file \/ g = file
    BY <1>1
  <2> QED
    BY <2>2, <2>3, <2>4, <2>5
<1> QED
  BY <1>2, <1>3

\* A turn of a loop reads the page it is at.
LEMMA TurnReads ==
  ASSUME LoopInv, status = "running", k < Len(Pages),
         job' = job, file' = file, k' = k + 1
  PROVE  /\ ReadSoFar' = ReadSoFar \cup {here}
         /\ \A c : At(c)' = At(c)
         /\ At(here) = page /\ page \in Page /\ page.id \in Nat /\ page.good \in BOOLEAN
<1>1. k \in Nat /\ file \in DOMAIN job.files
  BY DEF LoopInv
<1>2. First(k + 1) = First(k) \cup {k}
  BY <1>1 DEF First
<1>3. \A f : Numbers(f)' = Numbers(f)
  BY DEF Numbers, Source
<1>4. ReadSoFar' = (UNION {{f} \X Numbers(f) : f \in 1 .. file - 1}) \cup ({file} \X First(k + 1))
  BY <1>3 DEF ReadSoFar, First
<1>5. {file} \X First(k + 1) = ({file} \X First(k)) \cup {<<file, k>>}
  BY <1>2
<1>6. ReadSoFar' = ReadSoFar \cup {here}
  <2>1. PICK E : E = UNION {{f} \X Numbers(f) : f \in 1 .. file - 1}
    OBVIOUS
  <2>2. ReadSoFar = E \cup ({file} \X First(k)) /\ ReadSoFar' = E \cup ({file} \X First(k + 1))
    BY <1>4, <2>1, Zenon DEF ReadSoFar
  <2> QED
    BY <1>5, <2>2 DEF here
<1>7. k \in 0 .. Len(Source(file)) - 1
  BY <1>1, JobFiles DEF Pages, LoopInv
<1>8. page \in Page /\ page.id \in Nat /\ page.good \in BOOLEAN
  BY <1>1, <1>7, PageTypes DEF page, Pages, LoopInv
<1> QED
  BY <1>6, <1>8 DEF At, Source, page, Pages, here

\* It comes behind all that have been read.
LEMMA HereIsLast ==
  ASSUME LoopInv, status = "running", NEW S \in SUBSET ReadSoFar
  PROVE  LastOf(S \cup {here}) = here
<1>1. file \in Nat /\ k \in Nat
  BY JobFiles DEF LoopInv
<1>2. ASSUME NEW c \in S PROVE Before(c, here) /\ ~ Before(here, c) /\ c # here
  <2>1. PICK f \in 1 .. file : \E i \in 0 .. Len(Source(f)) - 1 : c = <<f, i>> /\ (f = file => i < k)
    BY <1>2, ReadSoFarIs
  <2>2. PICK i \in 0 .. Len(Source(f)) - 1 : c = <<f, i>> /\ (f = file => i < k)
    BY <2>1
  <2>3. c[1] = f /\ c[2] = i /\ here[1] = file /\ here[2] = k /\ i \in Int /\ f \in Int /\ f <= file
    BY <1>1, <2>2 DEF here
  <2>4. f < file \/ (f = file /\ i < k)
    BY <1>1, <2>2, <2>3
  <2>5. ~ (file < f) /\ ~ (file = f /\ k < i) /\ ~ (f = file /\ i = k)
    BY <1>1, <2>3, <2>4
  <2> QED
    BY <2>2, <2>3, <2>4, <2>5 DEF Before, here
<1>3. ~ Before(here, here)
  <2>1. here[1] = file /\ here[2] = k
    BY DEF here
  <2> QED
    BY <1>1, <2>1 DEF Before
<1>4. \A d \in S \cup {here} : ~ Before(here, d)
  BY <1>2, <1>3
<1>5. \A x \in S \cup {here} : (\A d \in S \cup {here} : ~ Before(x, d)) => x = here
  BY <1>2
<1> HIDE DEF here
<1> QED
  BY <1>4, <1>5 DEF LastOf

\* The place x of a target g whose claims were S and now are T.
LEMMA ClaimAdds ==
  ASSUME LoopInv, status = "running", NEW S \in SUBSET ReadSoFar, NEW T, NEW x, NEW f, NEW g,
         x \in DOMAIN f <=> S # {}, S # {} => f[x] = LastOf(S),
         \/ T = S \cup {here} /\ x \in DOMAIN g /\ g[x] = here
         \/ T = S /\ (x \in DOMAIN g <=> x \in DOMAIN f) /\ (x \in DOMAIN f => g[x] = f[x])
  PROVE  (x \in DOMAIN g <=> T # {}) /\ (T # {} => g[x] = LastOf(T))
<1>1. CASE T = S \cup {here} /\ x \in DOMAIN g /\ g[x] = here
  BY <1>1, HereIsLast
<1>2. CASE T = S /\ (x \in DOMAIN g <=> x \in DOMAIN f) /\ (x \in DOMAIN f => g[x] = f[x])
  BY <1>2
<1> QED
  BY <1>1, <1>2

\* A number whose products do not wrap gives the entry's place.
LEMMA EntryNumbers ==
  ASSUME NEW id \in Nat, id < DWord \div EntrySize
  PROVE  IdPosition(id) = id /\ (id * 2) % DWord = 2 * id
<1>1. /\ DWord \in Nat \ {0} /\ EntrySize \in Nat \ {0} /\ EntrySize > 1
      /\ DWord \div EntrySize \in Nat /\ DWord = (DWord \div EntrySize) * EntrySize
  BY ToolConstants, Multiple
<1>2. PICK q \in Nat : q = DWord \div EntrySize
  BY <1>1
<1>3. id < q /\ q * EntrySize = DWord
  BY <1>1, <1>2
<1>4. id * EntrySize + EntrySize <= DWord
  BY <1>1, <1>3, OneLess
<1>5. id * EntrySize \in Nat /\ id * EntrySize < DWord /\ id * 2 <= id * EntrySize
  <2>1. id * EntrySize \in Nat
    BY <1>1
  <2>2. PICK e \in Nat : EntrySize = e + 2
    <3>1. EntrySize - 2 \in Nat /\ EntrySize = (EntrySize - 2) + 2
      BY <1>1
    <3> QED
      BY <3>1
  <2>3. id * EntrySize = id * e + id * 2 /\ id * e \in Nat
    BY <2>2
  <2> QED
    BY <1>1, <1>4, <2>1, <2>3
<1>6. \A a \in Nat : a < DWord => a % DWord = a
  <2>1. ASSUME NEW a \in Nat, a < DWord PROVE a % DWord = a
    <3>1. a \in 0 .. DWord - 1 /\ 0 * DWord + a = a
      BY <1>1, <2>1
    <3> QED
      BY <1>1, <3>1, Quotient
  <2> QED
    BY <2>1
<1>7. (id * EntrySize) % DWord = id * EntrySize
  BY <1>5, <1>6
<1>8. (id * EntrySize) \div EntrySize = id
  <2>1. 0 \in 0 .. EntrySize - 1 /\ id * EntrySize + 0 = id * EntrySize
    BY <1>1, <1>5
  <2> QED
    BY <1>1, <2>1, Quotient
<1>9. id * 2 \in Nat /\ id * 2 < DWord /\ id * 2 = 2 * id
  BY <1>1, <1>5
<1> QED
  BY <1>6, <1>7, <1>8, <1>9 DEF IdPosition

LEMMA EntriesStep ==
  ASSUME LoopInv, ClaimInv, modify_mft_by_id, NoProductWraps
  PROVE  EntriesPlaced(ReadSoFar)'
<1>1. /\ status = "running" /\ job.tool = "modify_mft_by_id" /\ k < Len(Pages)
      /\ job' = job /\ file' = file /\ k' = k + 1 /\ file = 1
      /\ out' = IF page.good /\ (page.id * 2) % DWord < Len(Pages) * EntrySize
                  THEN Put(out, 0, IdPosition(page.id), here) ELSE out
  BY DEF modify_mft_by_id, Turn, Runs, LoopInv, OfAFolder
<1>2. /\ ReadSoFar' = ReadSoFar \cup {here} /\ \A c : At(c)' = At(c)
      /\ At(here) = page /\ page.id \in Nat /\ page.good \in BOOLEAN
  BY <1>1, TurnReads
<1>3. page.id < DWord \div EntrySize
  <2>1. k \in Numbers(1)
    BY <1>1 DEF Numbers, Pages, LoopInv
  <2>2. At(<<1, k>>).id < DWord \div EntrySize
    BY <2>1 DEF NoProductWraps
  <2> QED
    BY <1>1, <1>2, <2>2 DEF here
<1>4. PICK id \in Nat : id = page.id
  BY <1>2
<1>5. IdPosition(id) = id /\ (id * 2) % DWord = 2 * id
  BY <1>3, <1>4, EntryNumbers
<1>6. PICK takes \in BOOLEAN : takes = (page.good /\ 2 * id < Len(Pages) * EntrySize)
  BY <1>2
<1>7. out' = IF takes THEN Put(out, 0, id, here) ELSE out
  BY <1>1, <1>4, <1>5, <1>6
<1>8. Len(Pages)' = Len(Pages) /\ 0 \in DOMAIN out
  <2>1. MaxTargets \in Nat \ {0} /\ DOMAIN out = 0 .. MaxTargets - 1
    BY ToolConstants DEF LoopInv
  <2>2. 0 \in DOMAIN out
    BY <2>1
  <2> QED
    BY <1>1, <2>2 DEF Pages, Source
<1>9. EntriesPlaced(ReadSoFar)
  BY <1>1 DEF ClaimInv
<1>10. ASSUME NEW q \in 0 .. DWord \div EntrySize
       PROVE  /\ q \in DOMAIN out'[0] <=> EntriesOf(ReadSoFar, q)' # {}
              /\ EntriesOf(ReadSoFar, q)' # {} => out'[0][q] = LastOf(EntriesOf(ReadSoFar, q)')
  <2>1. PICK S : S = EntriesOf(ReadSoFar, q)
    OBVIOUS
  <2>2. PICK T : T = EntriesOf(ReadSoFar, q)'
    OBVIOUS
  <2>3. S \in SUBSET ReadSoFar
    BY <2>1 DEF EntriesOf
  <2>4. (q \in DOMAIN out[0] <=> S # {}) /\ (S # {} => out[0][q] = LastOf(S))
    BY <1>9, <2>1 DEF EntriesPlaced, HasBeenSet
  <2>5. T = {c \in ReadSoFar \cup {here} : At(c).good /\ At(c).id = q /\ 2 * q < Len(Pages) * EntrySize}
    BY <1>2, <1>8, <2>2 DEF EntriesOf
  <2>6. T = IF takes /\ id = q THEN S \cup {here} ELSE S
    <3>1. (At(here).good /\ At(here).id = q /\ 2 * q < Len(Pages) * EntrySize) <=> (takes /\ id = q)
      BY <1>2, <1>4, <1>6
    <3> QED
      BY <2>1, <2>5, <3>1 DEF EntriesOf
  <2>7. \/ T = S \cup {here} /\ q \in DOMAIN out'[0] /\ out'[0][q] = here
        \/ T = S /\ (q \in DOMAIN out'[0] <=> q \in DOMAIN out[0])
                 /\ (q \in DOMAIN out[0] => out'[0][q] = out[0][q])
    BY <1>7, <1>8, <2>6, Puts
  <2>8. (q \in DOMAIN out'[0] <=> T # {}) /\ (T # {} => out'[0][q] = LastOf(T))
    <3>1. PICK f, g : f = out[0] /\ g = out'[0]
      OBVIOUS
    <3>2. (q \in DOMAIN f <=> S # {}) /\ (S # {} => f[q] = LastOf(S))
      BY <2>4, <3>1
    <3>3. \/ T = S \cup {here} /\ q \in DOMAIN g /\ g[q] = here
          \/ T = S /\ (q \in DOMAIN g <=> q \in DOMAIN f) /\ (q \in DOMAIN f => g[q] = f[q])
      BY <2>7, <3>1
    <3>4. (q \in DOMAIN g <=> T # {}) /\ (T # {} => g[q] = LastOf(T))
      BY <1>1, <2>3, <3>2, <3>3, ClaimAdds
    <3> QED
      BY <3>1, <3>4
  <2> QED
    BY <2>2, <2>8
<1> QED
  BY <1>10 DEF EntriesPlaced, HasBeenSet

\* FleshCollector keeps the ids of the good pages it has taken.
LEMMA ImageStep ==
  ASSUME LoopInv, ClaimInv, SaveImage
  PROVE  /\ ImagePlaced(ReadSoFar)'
         /\ memo' \in Seq(Nat)
         /\ {memo'[i] : i \in DOMAIN memo'} =
              {At(c).id : c \in {c \in ReadSoFar : At(c).id < ImagePages /\ At(c).good}}'
<1>1. /\ status = "running" /\ job.tool = "SaveImage" /\ k < Len(Pages)
      /\ job' = job /\ file' = file /\ k' = k + 1
      /\ out' = IF page.id < ImagePages /\ WritesImage(page.id, page.good)
                  THEN Put(out, 0, page.id, here) ELSE out
      /\ memo' = IF page.id < ImagePages /\ page.good THEN Append(memo, page.id) ELSE memo
  BY DEF SaveImage, Turn, Runs
<1>2. /\ ReadSoFar' = ReadSoFar \cup {here} /\ \A c : At(c)' = At(c)
      /\ At(here) = page /\ page.id \in Nat /\ page.good \in BOOLEAN
  BY <1>1, TurnReads
<1>3. PICK id \in Nat : id = page.id
  BY <1>2
<1>4. PICK good \in BOOLEAN : good = page.good
  BY <1>2
<1>5. PICK fits \in BOOLEAN : fits <=> id < ImagePages
  OBVIOUS
<1>6. PICK ids : ids = {memo[i] : i \in DOMAIN memo}
  OBVIOUS
<1>7. /\ memo \in Seq(Nat)
      /\ ids = {At(c).id : c \in {c \in ReadSoFar : At(c).id < ImagePages /\ At(c).good}}
      /\ ImagePlaced(ReadSoFar)
  BY <1>1, <1>6 DEF ClaimInv
<1>8. 0 \in DOMAIN out
  <2>1. MaxTargets \in Nat \ {0} /\ DOMAIN out = 0 .. MaxTargets - 1
    BY ToolConstants DEF LoopInv
  <2> QED
    BY <2>1
<1>9. out' = IF fits /\ (good \/ id \notin ids) THEN Put(out, 0, id, here) ELSE out
  <2>1. WritesImage(id, good) <=> good \/ id \notin ids
    BY <1>6 DEF WritesImage
  <2> QED
    BY <1>1, <1>3, <1>4, <1>5, <2>1
<1>10. memo' \in Seq(Nat) /\ {memo'[i] : i \in DOMAIN memo'} = IF fits /\ good THEN ids \cup {id} ELSE ids
  <2>1. CASE fits /\ good
    <3>1. memo' = Append(memo, id)
      BY <1>1, <1>3, <1>4, <1>5, <2>1
    <3>2. /\ Append(memo, id) \in Seq(Nat) /\ DOMAIN Append(memo, id) = 1 .. Len(memo) + 1
          /\ DOMAIN memo = 1 .. Len(memo) /\ Len(memo) \in Nat
          /\ \A i \in 1 .. Len(memo) : Append(memo, id)[i] = memo[i]
          /\ Append(memo, id)[Len(memo) + 1] = id
      BY <1>7
    <3>3. \A i \in 1 .. Len(memo) + 1 : i \in 1 .. Len(memo) \/ i = Len(memo) + 1
      BY <3>2
    <3>4. \A i \in 1 .. Len(memo) : i \in 1 .. Len(memo) + 1
      BY <3>2
    <3>5. Len(memo) + 1 \in 1 .. Len(memo) + 1
      BY <3>2
    <3>6. {memo'[i] : i \in DOMAIN memo'} = ids \cup {id}
      BY <1>6, <3>1, <3>2, <3>3, <3>4, <3>5
    <3> QED
      BY <2>1, <3>1, <3>2, <3>6
  <2>2. CASE ~ (fits /\ good)
    BY <1>1, <1>3, <1>4, <1>5, <1>6, <1>7, <2>2
  <2> QED
    BY <2>1, <2>2
<1>11. {At(c).id : c \in {c \in ReadSoFar : At(c).id < ImagePages /\ At(c).good}}'
         = IF fits /\ good THEN ids \cup {id} ELSE ids
  <2>1. PICK S : S = {c \in ReadSoFar : At(c).id < ImagePages /\ At(c).good}
    OBVIOUS
  <2>2. PICK T : T = {c \in ReadSoFar : At(c).id < ImagePages /\ At(c).good}'
    OBVIOUS
  <2>3. T = IF fits /\ good THEN S \cup {here} ELSE S
    BY <1>2, <1>3, <1>4, <1>5, <2>1, <2>2
  <2>4. {At(c).id : c \in {c \in ReadSoFar : At(c).id < ImagePages /\ At(c).good}}' = {At(c).id : c \in T}
    BY <1>2, <2>2
  <2>5. ids = {At(c).id : c \in S}
    BY <1>7, <2>1
  <2>6. {At(c).id : c \in S \cup {here}} = ids \cup {id}
    BY <1>2, <1>3, <2>5
  <2> QED
    BY <2>3, <2>4, <2>5, <2>6
<1>12. ASSUME NEW q \in 0 .. ImagePages
       PROVE  /\ q \in DOMAIN out'[0] <=> PagesOf(ReadSoFar, q)' # {}
              /\ PagesOf(ReadSoFar, q)' # {} =>
                   out'[0][q] = LastOf(IF GoodOf(PagesOf(ReadSoFar, q))' # {}
                                         THEN GoodOf(PagesOf(ReadSoFar, q))' ELSE PagesOf(ReadSoFar, q)')
  <2>1. PICK S, s, T, t : /\ S = PagesOf(ReadSoFar, q) /\ s = GoodOf(S)
                          /\ T = PagesOf(ReadSoFar, q)' /\ t = {c \in T : At(c).good}
    OBVIOUS
  <2>2. PICK f, g : f = out[0] /\ g = out'[0]
    OBVIOUS
  <2>3. S \in SUBSET ReadSoFar /\ s \in SUBSET ReadSoFar /\ s \subseteq S
    BY <2>1 DEF PagesOf, GoodOf
  <2>4. (q \in DOMAIN f <=> S # {}) /\ (S # {} => f[q] = LastOf(IF s # {} THEN s ELSE S))
    BY <1>7, <2>1, <2>2 DEF ImagePlaced, HasBeenSet
  <2>5. s # {} <=> q \in ids /\ q < ImagePages
    BY <1>7, <2>1 DEF PagesOf, GoodOf
  <2>6. T = IF fits /\ id = q THEN S \cup {here} ELSE S
    BY <1>2, <1>3, <1>5, <2>1 DEF PagesOf
  <2>7. t = IF fits /\ id = q /\ good THEN s \cup {here} ELSE s
    BY <1>2, <1>4, <2>1, <2>6 DEF GoodOf
  <2>8. g = IF fits /\ (good \/ id \notin ids) THEN Put(out, 0, id, here)[0] ELSE f
    BY <1>9, <2>2
  <2>9. /\ fits /\ (good \/ id \notin ids) /\ id = q => q \in DOMAIN g /\ g[q] = here
        /\ ~ (fits /\ (good \/ id \notin ids) /\ id = q) =>
             (q \in DOMAIN g <=> q \in DOMAIN f) /\ (q \in DOMAIN f => g[q] = f[q])
    BY <1>8, <2>2, <2>8, Puts
  <2>10. LastOf(S \cup {here}) = here /\ LastOf(s \cup {here}) = here
    BY <1>1, <2>3, HereIsLast
  <2>11. (q \in DOMAIN g <=> T # {}) /\ (T # {} => g[q] = LastOf(IF t # {} THEN t ELSE T))
    <3>1. CASE ~ (fits /\ id = q)
      BY <2>4, <2>6, <2>7, <2>9, <3>1
    <3>2. CASE fits /\ id = q /\ good
      BY <2>6, <2>7, <2>9, <2>10, <3>2
    <3>3. CASE fits /\ id = q /\ ~ good /\ s = {}
      BY <1>5, <2>5, <2>6, <2>7, <2>9, <2>10, <3>3
    <3>4. CASE fits /\ id = q /\ ~ good /\ s # {}
      BY <2>3, <2>4, <2>5, <2>6, <2>7, <2>9, <3>4
    <3> QED
      BY <3>1, <3>2, <3>3, <3>4
  <2>12. t = GoodOf(PagesOf(ReadSoFar, q))'
    BY <1>2, <2>1 DEF GoodOf
  <2> QED
    BY <2>1, <2>2, <2>11, <2>12
<1>13. ImagePlaced(ReadSoFar)'
  BY <1>12 DEF ImagePlaced, HasBeenSet
<1> QED
  BY <1>10, <1>11, <1>13

LEMMA FilesStep ==
  ASSUME LoopInv, ClaimInv, writeImageFiles
  PROVE  FilesPlaced(ReadSoFar)'
<1>1. /\ status = "running" /\ job.tool = "writeImageFiles" /\ k < Len(Pages)
      /\ job' = job /\ file' = file /\ k' = k + 1
      /\ out' = Put(out, 0, fileNameToOffset(file) + k, here)
  BY DEF writeImageFiles, Turn, Runs
<1>2. ReadSoFar' = ReadSoFar \cup {here}
  BY <1>1, TurnReads
<1>3. (\A c : PlaceOf(c)' = PlaceOf(c)) /\ Named(ReadSoFar)' = Named(ReadSoFar) \cup {here}
  <2>1. job.at[here[1]] # NoNumber
    BY <1>1 DEF writeImageFiles, NoPlace, here
  <2> QED
    BY <1>1, <1>2, <2>1 DEF PlaceOf, Named
<1>4. fileNameToOffset(file) + k = PlaceOf(here)
  <2>1. job.at \in Seq(Nat) /\ Len(job.at) = Len(job.files)
    BY <1>1, JobsAssumption DEF LoopInv
  <2>2. job.at[file] \in Nat /\ k \in Nat
    BY <2>1, JobFiles DEF LoopInv
  <2>3. here[1] = file /\ here[2] = k
    BY DEF here
  <2> QED
    BY <2>2, <2>3 DEF PlaceOf, fileNameToOffset
<1>5. PICK at : at = PlaceOf(here)
  OBVIOUS
<1>6. PICK f, g : f = out[0] /\ g = out'[0]
  OBVIOUS
<1>7. FilesPlaced(ReadSoFar)
  BY <1>1 DEF ClaimInv
<1>8. 0 \in DOMAIN out
  <2>1. MaxTargets \in Nat \ {0} /\ DOMAIN out = 0 .. MaxTargets - 1
    BY ToolConstants DEF LoopInv
  <2> QED
    BY <2>1
<1>9. /\ DOMAIN g = DOMAIN f \cup {at} /\ g[at] = here
      /\ \A y \in DOMAIN f : y # at => g[y] = f[y]
  BY <1>1, <1>4, <1>5, <1>6, <1>8, Puts
<1>10. ASSUME NEW x
       PROVE  /\ x \in DOMAIN g <=> {c \in Named(ReadSoFar) : PlaceOf(c) = x}' # {}
              /\ {c \in Named(ReadSoFar) : PlaceOf(c) = x}' # {} =>
                   g[x] = LastOf({c \in Named(ReadSoFar) : PlaceOf(c) = x}')
  <2>1. PICK S, T : S = {c \in Named(ReadSoFar) : PlaceOf(c) = x} /\ T = {c \in Named(ReadSoFar) : PlaceOf(c) = x}'
    OBVIOUS
  <2>2. S \in SUBSET ReadSoFar
    BY <2>1 DEF Named
  <2>3. (x \in DOMAIN f <=> S # {}) /\ (S # {} => f[x] = LastOf(S))
    <3>1. CASE x \in DOMAIN out[0] \cup {PlaceOf(c) : c \in Named(ReadSoFar)}
      <4>1. HasBeenSet(S, x) /\ (S # {} => out[0][x] = LastOf(S))
        BY <1>7, <2>1, <3>1, Zenon DEF FilesPlaced
      <4> QED
        BY <1>6, <4>1 DEF HasBeenSet
    <3>2. CASE x \notin DOMAIN out[0] \cup {PlaceOf(c) : c \in Named(ReadSoFar)}
      BY <1>6, <2>1, <3>2
    <3> QED
      BY <3>1, <3>2
  <2>4. T = IF at = x THEN S \cup {here} ELSE S
    BY <1>3, <1>5, <2>1
  <2>5. \/ T = S \cup {here} /\ x \in DOMAIN g /\ g[x] = here
        \/ T = S /\ (x \in DOMAIN g <=> x \in DOMAIN f) /\ (x \in DOMAIN f => g[x] = f[x])
    BY <1>9, <2>4
  <2>6. (x \in DOMAIN g <=> T # {}) /\ (T # {} => g[x] = LastOf(T))
    <3>1. LastOf(S \cup {here}) = here
      BY <1>1, <2>2, HereIsLast
    <3> QED
      BY <2>3, <2>5, <3>1
  <2> QED
    BY <2>1, <2>6
<1> QED
  BY <1>6, <1>10 DEF FilesPlaced, HasBeenSet

\* A block of saveXVA's source that begins with a header lies behind all that
\* have been read, as headers are three sectors apart.
LEMMA BlocksStep ==
  ASSUME LoopInv, ClaimInv, saveXVA, WholeBlocks
  PROVE  /\ BlocksPlaced(ReadSoFar)'
         /\ \A i \in First(k)' : (At(<<1, i>>).id # NoId)' => i + 3 <= k'
<1>0. page.id # NoNumber
  <2>1. file = 1 /\ 1 \in DOMAIN job.files /\ k \in Nat /\ k + 3 <= Len(Pages) /\ Len(Pages) \in Nat
    BY JobFiles DEF saveXVA, Runs, Whole, LoopInv, OfAFolder, Pages
  <2>2. k \in Numbers(1) /\ page = At(<<1, k>>)
    BY <2>1 DEF Numbers, Pages, page, At
  <2> QED
    BY <2>2 DEF WholeBlocks
<1>1. /\ status = "running" /\ job.tool = "saveXVA" /\ k < Len(Pages) /\ k + 3 <= Len(Pages)
      /\ job' = job /\ file' = file /\ file = 1 /\ status' = status
      /\ \/ page.id = NoId /\ k' = k + AfterChunk /\ out' = out
         \/ /\ ~ page.good \/ page.id # NoId
            /\ k' = k + 3
            /\ out' = IF page.good /\ page.id < DataBlocks THEN Put(out, 0, page.id, <<file, k + 1>>) ELSE out
  BY <1>0 DEF saveXVA, Turn, Runs, Whole, LoopInv, OfAFolder
<1>2. k \in Nat /\ Len(Pages) \in Nat /\ Pages = Source(1) /\ 1 \in DOMAIN job.files
  BY <1>1, JobFiles DEF LoopInv, Pages
<1>3. \A c : At(c)' = At(c)
  BY <1>1 DEF At, Source
<1>4. k' \in Nat /\ k' > k /\ k' <= k + 3
  BY <1>1, <1>2, ChunkSectors
<1>5. PICK e \in Nat : e = k'
  BY <1>4
<1>c. k \in Nat /\ e \in Nat /\ e > k /\ e <= k + 3
  BY <1>2, <1>4, <1>5
<1>6. \A i \in First(e) : i \in First(k) \/ (i \in k .. k + 2 /\ i < e)
  BY ONLY <1>c DEF First
<1>7. /\ \A i \in First(k) : i \in First(e) /\ i \in Nat /\ i < k
      /\ k \in First(e)
  BY ONLY <1>c DEF First
<1>8. /\ At(here) = page /\ here = <<1, k>> /\ k \in Numbers(1) /\ page.good /\ page.id \in Nat
  <2>1. k \in Numbers(1)
    BY <1>1, <1>2 DEF Numbers
  <2>2. At(here) = page /\ here = <<1, k>>
    BY <1>1 DEF At, here, page, Pages
  <2>3. page.good
    BY <2>1, <2>2 DEF WholeBlocks
  <2>4. page.id \in Nat
    BY <1>2, <2>1, PageTypes DEF page, Numbers, LoopInv
  <2> QED
    BY <2>1, <2>2, <2>3, <2>4
<1>9. ASSUME NEW i \in k .. k + 2, i < e, At(<<1, i>>).id # NoId
      PROVE  i = k /\ page.id # NoId /\ e = k + 3
  <2>1. i \in Int /\ i >= k /\ i < k + 3 /\ i \in Numbers(1)
    BY <1>1, <1>2, <1>9 DEF Numbers
  <2>2. CASE page.id = NoId /\ e = k + AfterChunk
    <3>1. i # k
      BY <1>8, <1>9, <2>2
    <3>2. i - k \in 1 .. AfterChunk - 1 /\ k + (i - k) + 1 = i + 1
      BY <1>2, <1>9, <2>1, <2>2, <3>1, ChunkSectors
    <3>3. ~ HeaderIn(i - k)
      BY <3>2, ChunkSectors
    <3>4. Pages[i + 1].id = NoId
      BY <3>2, <3>3 DEF HeaderIn
    <3>5. At(<<1, i>>) = Pages[i + 1]
      BY <1>2 DEF At
    <3> QED
      BY <1>9, <3>4, <3>5
  <2>3. CASE page.id # NoId /\ e = k + 3
    <3>1. CASE i # k
      <4>1. At(<<1, k>>).id # NoId /\ k < i
        BY <1>2, <1>8, <2>1, <2>3, <3>1
      <4>2. k + 3 <= i
        BY <1>8, <1>9, <2>1, <4>1 DEF WholeBlocks
      <4> QED
        BY <1>2, <2>1, <4>2
    <3> QED
      BY <2>3, <3>1
  <2> QED
    BY <1>1, <1>5, <1>8, <2>2, <2>3
<1>10. BlocksPlaced(ReadSoFar) /\ \A i \in First(k) : At(<<1, i>>).id # NoId => i + 3 <= k
  BY <1>1 DEF ClaimInv
<1>11. ASSUME NEW i \in First(e), At(<<1, i>>).id # NoId PROVE i + 3 <= e
  <2>1. CASE i \in First(k)
    <3>1. i + 3 <= k /\ i \in Nat
      BY <1>7, <1>10, <1>11, <2>1
    <3> QED
      BY <1>2, <1>4, <1>5, <3>1
  <2>2. CASE i \in k .. k + 2 /\ i < e
    BY <1>2, <1>9, <1>11, <2>2
  <2> QED
    BY <1>6, <1>11, <2>1, <2>2
<1>12. PICK f, g : f = out[0] /\ g = out'[0]
  OBVIOUS
<1>13. 0 \in DOMAIN out
  <2>1. MaxTargets \in Nat \ {0} /\ DOMAIN out = 0 .. MaxTargets - 1
    BY ToolConstants DEF LoopInv
  <2> QED
    BY <2>1
<1>14. ReadSoFar = {1} \X First(k) /\ ReadSoFar' = {1} \X First(e)
  <2>1. 1 .. file - 1 = {} /\ file' = 1
    BY <1>1
  <2>2. ReadSoFar = {file} \X First(k)
    BY <2>1 DEF ReadSoFar
  <2>3. ReadSoFar' = {1} \X First(e)
    <3>1. First(k)' = First(e) /\ 1 .. file' - 1 = {}
      BY <1>5, <2>1 DEF First
    <3> QED
      BY <2>1, <3>1 DEF ReadSoFar
  <2> QED
    BY <1>1, <1>5, <2>1, <2>2, <2>3
<1>15. ASSUME NEW q \in 0 .. DataBlocks
       PROVE  /\ q \in DOMAIN g <=> BlocksOf(ReadSoFar, q)' # {}
              /\ BlocksOf(ReadSoFar, q)' # {} => g[q] = <<1, LastOf(BlocksOf(ReadSoFar, q)')[2] + 1>>
  <2>1. PICK S, T : S = BlocksOf(ReadSoFar, q) /\ T = BlocksOf(ReadSoFar, q)'
    OBVIOUS
  <2>2. S \in SUBSET ReadSoFar
    BY <2>1 DEF BlocksOf
  <2>3. (q \in DOMAIN f <=> S # {}) /\ (S # {} => f[q] = <<1, LastOf(S)[2] + 1>>)
    BY <1>10, <1>12, <2>1 DEF BlocksPlaced, HasBeenSet
  <2>4. q < DataBlocks => q # NoId /\ q < NoId
    BY ToolConstants DEF NoId, NoNumber
  <2>5. T = {c \in {1} \X First(e) : At(c).id = q /\ q < DataBlocks /\ c[2] + 3 <= Len(Pages)}
    <3>1. Len(Pages)' = Len(Pages)
      BY <1>1 DEF Pages, Source
    <3> QED
      BY <1>3, <1>14, <2>1, <3>1 DEF BlocksOf
  <2>6. T = IF page.id = q /\ q < DataBlocks THEN S \cup {here} ELSE S
    <3>1. ASSUME NEW c \in T PROVE c \in S \/ (c = here /\ page.id = q /\ q < DataBlocks)
      <4>1. PICK i \in First(e) : c = <<1, i>>
        BY <2>5, <3>1
      <4>2. At(<<1, i>>).id = q /\ q < DataBlocks /\ c[2] + 3 <= Len(Pages)
        BY <2>5, <3>1, <4>1
      <4>3. CASE i \in First(k)
        <5>1. c \in ReadSoFar
          BY <1>14, <4>1, <4>3
        <5> QED
          BY <2>1, <4>1, <4>2, <5>1 DEF BlocksOf
      <4>4. CASE i \in k .. k + 2 /\ i < e
        <5>1. i = k
          BY <1>9, <2>4, <4>2, <4>4
        <5> QED
          BY <1>8, <4>1, <4>2, <5>1
      <4> QED
        BY <1>6, <4>3, <4>4
    <3>2. ASSUME NEW c \in S PROVE c \in T
      <4>1. c \in {1} \X First(k) /\ At(c).id = q /\ q < DataBlocks /\ c[2] + 3 <= Len(Pages)
        BY <1>14, <2>1, <3>2 DEF BlocksOf
      <4>2. c \in {1} \X First(e)
        BY <1>7, <4>1
      <4> QED
        BY <2>5, <4>1, <4>2
    <3>3. ASSUME page.id = q, q < DataBlocks PROVE here \in T
      <4>1. k \in First(e) /\ here[2] = k
        BY <1>7, <1>8
      <4>2. here \in {1} \X First(e)
        BY <1>8, <4>1
      <4> QED
        BY <1>1, <1>8, <2>5, <3>3, <4>1, <4>2
    <3> QED
      BY <3>1, <3>2, <3>3
  <2>7. LastOf(S \cup {here}) = here /\ here[2] = k
    BY <1>1, <1>8, <2>2, HereIsLast
  <2>8. \/ page.id = q /\ q < DataBlocks /\ q \in DOMAIN g /\ g[q] = <<1, k + 1>>
        \/ ~ (page.id = q /\ q < DataBlocks) /\ (q \in DOMAIN g <=> q \in DOMAIN f)
           /\ (q \in DOMAIN f => g[q] = f[q])
    <3>1. CASE page.id = NoId /\ out' = out
      BY <1>12, <2>4, <3>1
    <3>2. CASE out' = IF page.good /\ page.id < DataBlocks THEN Put(out, 0, page.id, <<file, k + 1>>) ELSE out
      BY <1>1, <1>8, <1>12, <1>13, <3>2, Puts
    <3> QED
      BY <1>1, <3>1, <3>2
  <2>9. (q \in DOMAIN g <=> T # {}) /\ (T # {} => g[q] = <<1, LastOf(T)[2] + 1>>)
    <3>1. CASE page.id = q /\ q < DataBlocks
      BY <2>6, <2>7, <2>8, <3>1
    <3>2. CASE ~ (page.id = q /\ q < DataBlocks)
      BY <2>3, <2>6, <2>8, <3>2
    <3> QED
      BY <3>1, <3>2
  <2> QED
    BY <2>1, <2>9
<1>16. BlocksPlaced(ReadSoFar)'
  BY <1>12, <1>15 DEF BlocksPlaced, HasBeenSet
<1>17. \A i \in First(k)' : (At(<<1, i>>).id # NoId)' => i + 3 <= k'
  BY <1>3, <1>5, <1>11 DEF First
<1> QED
  BY <1>16, <1>17

\* At its end a file has been read, as it will have been at the next one's
\* beginning.
LEMMA FileRead ==
  ASSUME LoopInv, k = Len(Pages)
  PROVE  /\ ReadSoFar = Read
         /\ job' = job /\ file' = file + 1 /\ k' = 0 => ReadSoFar' = ReadSoFar
<1>1. file \in Nat /\ file >= 1
  BY JobFiles DEF LoopInv
<1>2. First(k) = Numbers(file)
  BY DEF First, Numbers, Pages
<1>3. PICK E : E = UNION {{f} \X Numbers(f) : f \in 1 .. file - 1}
  OBVIOUS
<1>4. ReadSoFar = E \cup ({file} \X Numbers(file))
  BY <1>2, <1>3, Zenon DEF ReadSoFar
<1>5. \A f : f \in 1 .. file <=> f \in 1 .. file - 1 \/ f = file
  BY <1>1
<1>6. Read = E \cup ({file} \X Numbers(file))
  <2>1. PICK N : N = [f \in 1 .. file |-> {f} \X Numbers(f)]
    OBVIOUS
  <2>2. Read = UNION {N[f] : f \in 1 .. file}
    BY <2>1 DEF Read
  <2>3. E = UNION {N[f] : f \in 1 .. file - 1}
    BY <1>3, <1>5, <2>1
  <2>4. N[file] = {file} \X Numbers(file)
    BY <1>5, <2>1
  <2>5. ASSUME NEW c PROVE c \in Read <=> c \in E \/ c \in N[file]
    BY <1>5, <2>2, <2>3
  <2> QED
    BY <2>4, <2>5
<1>7. ASSUME job' = job, file' = file + 1, k' = 0 PROVE ReadSoFar' = ReadSoFar
  <2>1. file' - 1 = file /\ First(k)' = {}
    BY <1>1, <1>7 DEF First
  <2>2. \A f : Numbers(f)' = Numbers(f)
    BY <1>7 DEF Numbers, Source
  <2>3. {file'} \X First(k)' = {}
    BY <2>1
  <2>4. ReadSoFar' = (UNION {{f} \X Numbers(f) : f \in 1 .. file}) \cup ({file'} \X First(k)')
    BY <2>1, <2>2 DEF ReadSoFar
  <2>5. Read = UNION {{f} \X Numbers(f) : f \in 1 .. file}
    BY DEF Read
  <2> QED
    BY <1>4, <1>6, <2>3, <2>4, <2>5
<1> QED
  BY <1>4, <1>6, <1>7

\* A file whose name gives no place adds nothing.
LEMMA NamelessFile ==
  ASSUME LoopInv, NoPlace
  PROVE  Named(Read) = Named(ReadSoFar)
<1>1. job.at[file] = NoNumber /\ file \in Nat
  BY JobFiles DEF NoPlace, LoopInv
<1>2. ASSUME NEW c, job.at[c[1]] # NoNumber
      PROVE  c \in Read <=> c \in ReadSoFar
  <2>1. c[1] # file
    BY <1>1, <1>2
  <2>2. c \in Read <=> \E f \in 1 .. file : c \in {f} \X Numbers(f)
    BY Zenon DEF Read
  <2>3. c \in ReadSoFar <=> (\E f \in 1 .. file - 1 : c \in {f} \X Numbers(f)) \/ c \in {file} \X First(k)
    BY Zenon DEF ReadSoFar
  <2>4. \A f, S : c \in {f} \X S => c[1] = f
    OBVIOUS
  <2>5. \A f : f # file => (f \in 1 .. file <=> f \in 1 .. file - 1)
    BY <1>1
  <2> QED
    BY <2>1, <2>2, <2>3, <2>4, <2>5
<1> QED
  BY <1>2 DEF Named

\* Steps that read nothing and write nothing.
LEMMA QuietClaims ==
  ASSUME LoopInv, ClaimInv, job' = job, out' = out, memo' = memo, ReadSoFar' = ReadSoFar,
         job.tool \notin OfAFolder => k' = k /\ file' = file
  PROVE  ClaimInv'
<1>1. /\ \A c : At(c)' = At(c)
      /\ \A f : Numbers(f)' = Numbers(f)
      /\ \A c : PlaceOf(c)' = PlaceOf(c)
  BY DEF At, Numbers, Source, PlaceOf
<1>2. ASSUME job.tool = "modify_mft_by_id", NoProductWraps'
      PROVE  EntriesPlaced(ReadSoFar)'
  <2>1. Len(Pages)' = Len(Pages)
    BY <1>2 DEF Pages, Source, OfAFolder
  <2>2. NoProductWraps
    BY <1>1, <1>2 DEF NoProductWraps
  <2>3. \A id : EntriesOf(ReadSoFar, id)' = EntriesOf(ReadSoFar, id)
    BY <1>1, <2>1 DEF EntriesOf
  <2>4. EntriesPlaced(ReadSoFar)
    BY <1>2, <2>2 DEF ClaimInv
  <2> QED
    BY <2>3, <2>4 DEF EntriesPlaced, HasBeenSet
<1>3. ASSUME job.tool = "SaveImage"
      PROVE  /\ ImagePlaced(ReadSoFar)'
             /\ memo' \in Seq(Nat)
             /\ {memo'[i] : i \in DOMAIN memo'} =
                  {At(c).id : c \in {c \in ReadSoFar : At(c).id < ImagePages /\ At(c).good}}'
  <2>1. /\ ImagePlaced(ReadSoFar) /\ memo \in Seq(Nat)
        /\ {memo[i] : i \in DOMAIN memo} =
             {At(c).id : c \in {c \in ReadSoFar : At(c).id < ImagePages /\ At(c).good}}
    BY <1>3 DEF ClaimInv
  <2>2. \A id : PagesOf(ReadSoFar, id)' = PagesOf(ReadSoFar, id)
    BY <1>1 DEF PagesOf
  <2>3. \A id : GoodOf(PagesOf(ReadSoFar, id))' = GoodOf(PagesOf(ReadSoFar, id))
    BY <1>1, <2>2 DEF GoodOf
  <2>4. ImagePlaced(ReadSoFar)'
    BY <2>1, <2>2, <2>3 DEF ImagePlaced, HasBeenSet
  <2>5. {At(c).id : c \in {c \in ReadSoFar : At(c).id < ImagePages /\ At(c).good}}'
          = {At(c).id : c \in {c \in ReadSoFar : At(c).id < ImagePages /\ At(c).good}}
    BY <1>1
  <2> QED
    BY <2>1, <2>4, <2>5
<1>4. ASSUME job.tool = "writeImageFiles" PROVE FilesPlaced(ReadSoFar)'
  <2>1. FilesPlaced(ReadSoFar)
    BY <1>4 DEF ClaimInv
  <2> QED
    BY <1>1, <2>1 DEF FilesPlaced, HasBeenSet, Named
<1>5. ASSUME job.tool = "saveXVA", WholeBlocks'
      PROVE  BlocksPlaced(ReadSoFar)' /\ \A i \in First(k)' : (At(<<1, i>>).id # NoId)' => i + 3 <= k'
  <2>1. Len(Pages)' = Len(Pages) /\ k' = k
    BY <1>5 DEF Pages, Source, OfAFolder
  <2>2. WholeBlocks
    BY <1>1, <1>5 DEF WholeBlocks
  <2>3. \A id : BlocksOf(ReadSoFar, id)' = BlocksOf(ReadSoFar, id)
    BY <1>1, <2>1 DEF BlocksOf
  <2>4. BlocksPlaced(ReadSoFar) /\ \A i \in First(k) : At(<<1, i>>).id # NoId => i + 3 <= k
    BY <1>5, <2>2 DEF ClaimInv
  <2> QED
    BY <1>1, <2>1, <2>3, <2>4 DEF BlocksPlaced, HasBeenSet, First
<1> QED
  BY <1>2, <1>3, <1>4, <1>5 DEF ClaimInv

LEMMA ClaimStart == BlockInit => ClaimInv
<1> SUFFICES ASSUME BlockInit PROVE ClaimInv
  OBVIOUS
<1>1. file = 1 /\ k = 0 /\ memo = <<>> /\ \A t \in 0 .. MaxTargets - 1 : out[t] = <<>>
  BY DEF BlockInit
<1>2. ReadSoFar = {}
  <2>1. 1 .. file - 1 = {} /\ First(k) = {}
    BY <1>1 DEF First
  <2> QED
    BY <2>1 DEF ReadSoFar
<1>3. DOMAIN out[0] = {} /\ First(k) = {}
  <2>1. MaxTargets \in Nat \ {0}
    BY ToolConstants
  <2> QED
    BY <1>1, <2>1 DEF First
<1>4. EntriesPlaced(ReadSoFar) /\ ImagePlaced(ReadSoFar) /\ FilesPlaced(ReadSoFar) /\ BlocksPlaced(ReadSoFar)
  BY <1>2, <1>3 DEF EntriesPlaced, ImagePlaced, FilesPlaced, BlocksPlaced, HasBeenSet,
                    EntriesOf, PagesOf, BlocksOf, Named
<1>5. memo \in Seq(Nat) /\ {memo[i] : i \in DOMAIN memo} = {}
  BY <1>1
<1> QED
  BY <1>2, <1>3, <1>4, <1>5 DEF ClaimInv

LEMMA StopsClaims ==
  ASSUME LoopInv, ClaimInv, EndsByException \/ LoopEnds, job.tool # "fixDBF"
  PROVE  ClaimInv'
<1>1. CASE UNCHANGED <<job, out, memo, file, k>>
  <2>1. ReadSoFar' = ReadSoFar
    BY <1>1 DEF ReadSoFar, First, Numbers, Source
  <2> QED
    BY <1>1, <2>1, QuietClaims
<1>2. CASE LoopEnds /\ job.tool \in OfAFolder /\ file' = file + 1 /\ k' = 0
  <2>1. UNCHANGED <<job, out, memo>> /\ status = "running" /\ ~ More /\ ~ NoPlace
    BY <1>2 DEF LoopEnds
  <2>2. job.tool \in OnePage
    BY <1>2 DEF OnePage, OfAFolder
  <2>3. k = Len(Pages)
    BY <2>1, <2>2, LoopStops
  <2>4. ReadSoFar' = ReadSoFar
    BY <1>2, <2>1, <2>3, FileRead
  <2> QED
    BY <1>2, <2>1, <2>4, QuietClaims
<1>3. \/ UNCHANGED <<job, out, memo, file, k>>
      \/ LoopEnds /\ job.tool \in OfAFolder /\ file' = file + 1 /\ k' = 0
  BY DEF EndsByException, LoopEnds, OfAFolder
<1> QED
  BY <1>1, <1>2, <1>3

\* Each turn is one tool's.
LEMMA OtherTools ==
  ASSUME LoopInv
  PROVE  /\ EmplaceFile \/ OpenFiles \/ splitToFiles => job' = job /\ job.tool = "splitToFiles"
         /\ splitByPages => job' = job /\ job.tool = "splitByPages"
         /\ splitByPage => job' = job /\ job.tool = "splitByPage"
         /\ saveOnlyWithID => job' = job /\ job.tool = "saveOnlyWithID"
         /\ saveByPageNumber => job' = job /\ job.tool = "saveByPageNumber"
         /\ createManyExcelFiles => job' = job /\ job.tool = "createManyExcelFiles"
         /\ modify_mft_by_id => job' = job /\ job.tool = "modify_mft_by_id"
         /\ SaveImage => job' = job /\ job.tool = "SaveImage"
         /\ writeImageFiles => job' = job /\ job.tool = "writeImageFiles"
         /\ saveXVA => job' = job /\ job.tool = "saveXVA"
         /\ replaceBadMarkerToNulls => job' = job /\ job.tool = "replaceBadMarkerToNulls"
         /\ replaceBadsFromOtherFile => job' = job /\ job.tool = "replaceBadsFromOtherFile"
         /\ yaffsPageNumberModify => job' = job /\ job.tool = "yaffsPageNumberModify"
         /\ xor_files => job' = job /\ job.tool = "xor_files"
         /\ xorWithBlock => job' = job /\ job.tool = "xorWithBlock"
         /\ fixDBF => job' = job /\ job.tool = "fixDBF"
BY DEF Turn, Runs, LoopInv, EmplaceFile, OpenFiles, splitToFiles, splitByPages, splitByPage, saveOnlyWithID,
       saveByPageNumber, createManyExcelFiles, modify_mft_by_id, SaveImage, writeImageFiles, saveXVA,
       replaceBadMarkerToNulls, replaceBadsFromOtherFile, yaffsPageNumberModify, xor_files, xorWithBlock, fixDBF

LEMMA ClaimSteps == LoopInv /\ ClaimInv /\ [BlockNext]_toolVars => ClaimInv'
<1> SUFFICES ASSUME LoopInv, ClaimInv, [BlockNext]_toolVars PROVE ClaimInv'
  OBVIOUS
<1>1. CASE UNCHANGED toolVars
  <2>1. ReadSoFar' = ReadSoFar
    BY <1>1 DEF toolVars, ReadSoFar, First, Numbers, Source
  <2>2. job' = job /\ out' = out /\ memo' = memo /\ k' = k /\ file' = file
    BY <1>1 DEF toolVars
  <2> QED
    BY <2>1, <2>2, QuietClaims
<1>2. CASE job.tool # "fixDBF" /\ (EndsByException \/ LoopEnds)
  BY <1>2, StopsClaims
<1>3. CASE modify_mft_by_id
  <2>1. job' = job /\ job.tool = "modify_mft_by_id"
    BY <1>3 DEF modify_mft_by_id, Turn, Runs
  <2>2. NoProductWraps' <=> NoProductWraps
    BY <2>1 DEF NoProductWraps, Numbers, At, Source
  <2>3. NoProductWraps => EntriesPlaced(ReadSoFar)'
    BY <1>3, EntriesStep
  <2> QED
    BY <2>1, <2>2, <2>3 DEF ClaimInv
<1>4. CASE SaveImage
  <2>1. job' = job /\ job.tool = "SaveImage"
    BY <1>4 DEF SaveImage, Turn, Runs
  <2> QED
    BY <1>4, <2>1, ImageStep DEF ClaimInv
<1>5. CASE writeImageFiles
  <2>1. job' = job /\ job.tool = "writeImageFiles"
    BY <1>5 DEF writeImageFiles, Turn, Runs
  <2> QED
    BY <1>5, <2>1, FilesStep DEF ClaimInv
<1>6. CASE saveXVA
  <2>1. job' = job /\ job.tool = "saveXVA"
    BY <1>6 DEF saveXVA, Turn, Runs
  <2>2. WholeBlocks' <=> WholeBlocks
    BY <2>1 DEF WholeBlocks, Numbers, At, Source
  <2>3. WholeBlocks => BlocksPlaced(ReadSoFar)'
                       /\ \A i \in First(k)' : (At(<<1, i>>).id # NoId)' => i + 3 <= k'
    BY <1>6, BlocksStep
  <2> QED
    BY <2>1, <2>2, <2>3 DEF ClaimInv
<1>7. CASE job' = job /\ job.tool \notin {"modify_mft_by_id", "SaveImage", "writeImageFiles", "saveXVA"}
  BY <1>7 DEF ClaimInv
<1>8. \/ UNCHANGED toolVars
      \/ job.tool # "fixDBF" /\ (EndsByException \/ LoopEnds)
      \/ modify_mft_by_id \/ SaveImage \/ writeImageFiles \/ saveXVA
      \/ job' = job /\ job.tool \notin {"modify_mft_by_id", "SaveImage", "writeImageFiles", "saveXVA"}
  BY OtherTools DEF BlockNext
<1> QED
  BY <1>1, <1>2, <1>3, <1>4, <1>5, <1>6, <1>7, <1>8

\* When the tool has ended, its claims are those of all that was read.
LEMMA ClaimEnds == LoopInv /\ ClaimInv => LastClaimHolds
<1> SUFFICES ASSUME LoopInv, ClaimInv PROVE LastClaimHolds
  OBVIOUS
<1>1. ASSUME Ended, job.tool \in {"modify_mft_by_id", "SaveImage", "writeImageFiles"}, ~ NoPlace
      PROVE  ReadSoFar = Read
  <2>1. k = Len(Pages)
    BY <1>1 DEF LoopInv, OnePage
  <2> QED
    BY <2>1, FileRead
<1>2. ASSUME Ended, job.tool = "saveXVA", WholeBlocks PROVE BlocksPlaced(Read)
  <2>0. file = 1 /\ k \in Nat /\ k <= Len(Pages) /\ Pages = Source(1) /\ Len(Pages) \in Nat
    BY <1>2, JobFiles DEF LoopInv, OfAFolder, Ended, Pages
  <2>7. ~ NoHeaderNumber
    <3>1. k + 3 <= Len(Pages) => k \in Numbers(1) /\ page = At(<<1, k>>)
      BY <2>0 DEF Numbers, page, At
    <3> QED
      BY <1>2, <3>1 DEF NoHeaderNumber, WholeBlocks
  <2>1. file = 1 /\ k \in Nat /\ k + 3 > Len(Pages) /\ k <= Len(Pages) /\ Pages = Source(1)
        /\ Len(Pages) \in Nat
    BY <1>2, <2>0, <2>7 DEF LoopInv
  <2>2. BlocksPlaced(ReadSoFar)
    BY <1>2 DEF ClaimInv
  <2>3. ReadSoFar = {1} \X First(k) /\ Read = {1} \X Numbers(1)
    <3>1. 1 .. file - 1 = {} /\ 1 .. file = {1}
      BY <2>1
    <3> QED
      BY <2>1, <3>1 DEF ReadSoFar, Read
  <2>4. \A i \in Numbers(1) : i \in First(k) \/ ~ (i + 3 <= Len(Pages))
    BY <2>1 DEF Numbers, First
  <2>5. \A i \in First(k) : i \in Numbers(1)
    BY <2>1 DEF Numbers, First
  <2>6. \A id : BlocksOf(Read, id) = BlocksOf(ReadSoFar, id)
    BY <2>3, <2>4, <2>5 DEF BlocksOf
  <2> QED
    BY <2>2, <2>6 DEF BlocksPlaced
<1>3. Is("modify_mft_by_id") /\ NoProductWraps => EntriesPlaced(Read)
  BY <1>1 DEF ClaimInv, Is, NoPlace
<1>4. Is("SaveImage") => ImagePlaced(Read)
  BY <1>1 DEF ClaimInv, Is, NoPlace
<1>5. Is("writeImageFiles") => FilesPlaced(Read)
  <2> SUFFICES ASSUME Is("writeImageFiles") PROVE FilesPlaced(Read)
    OBVIOUS
  <2>1. CASE ~ NoPlace
    BY <1>1, <2>1 DEF ClaimInv, Is
  <2>2. CASE NoPlace
    <3>1. FilesPlaced(ReadSoFar) /\ Named(Read) = Named(ReadSoFar)
      BY <2>2, NamelessFile DEF ClaimInv, Is
    <3> QED
      BY <3>1 DEF FilesPlaced
  <2> QED
    BY <2>1, <2>2
<1> QED
  BY <1>2, <1>3, <1>4, <1>5 DEF LastClaimHolds, Is

-----------------------------------------------------------------------------
(* Pages and their targets                                                  *)

\* Parts of 0 .. n - 1.
LEMMA Numbered ==
  ASSUME NEW n \in Nat
  PROVE  /\ First(n + 1) = First(n) \cup {n} /\ n \notin First(n)
         /\ \A i \in First(n) : i \in Nat /\ i < n
         /\ IsFiniteSet(First(n)) /\ Cardinality(First(n)) = n
         /\ \A S \in SUBSET First(n) :
              /\ IsFiniteSet(S) /\ Cardinality(S) \in Nat /\ Cardinality(S) <= n
              /\ IsFiniteSet(S \cup {n}) /\ Cardinality(S \cup {n}) = Cardinality(S) + 1
<1>1. First(n + 1) = First(n) \cup {n} /\ n \notin First(n) /\ \A i \in First(n) : i \in Nat /\ i < n
  BY DEF First
<1>2. IsFiniteSet(First(n)) /\ Cardinality(First(n)) = n
  BY FS_Interval DEF First
<1>3. ASSUME NEW S \in SUBSET First(n)
      PROVE  /\ IsFiniteSet(S) /\ Cardinality(S) \in Nat /\ Cardinality(S) <= n
             /\ IsFiniteSet(S \cup {n}) /\ Cardinality(S \cup {n}) = Cardinality(S) + 1
  <2>1. IsFiniteSet(S) /\ Cardinality(S) \in Nat /\ Cardinality(S) <= n
    BY <1>2, FS_Subset, FS_CardinalityType
  <2>2. n \notin S
    BY <1>1
  <2> QED
    BY <2>1, <2>2, FS_AddElement
<1> QED
  BY <1>1, <1>2, <1>3

LEMMA NoneListed ==
  ASSUME NEW f, DOMAIN f = {}
  PROVE  Lists(f, {})
<1>1. Cardinality({}) = 0 /\ First(0) = {}
  BY FS_EmptySet DEF First
<1> QED
  BY <1>1 DEF Lists

\* A page behind all that are listed is added to a target.
LEMMA ListAdds ==
  ASSUME NEW p, NEW t \in DOMAIN p, NEW n \in Nat, NEW S \in SUBSET First(n), Lists(p[t], S)
  PROVE  /\ Lists(Add(p, t, <<1, n>>)[t], S \cup {n})
         /\ DOMAIN Add(p, t, <<1, n>>) = DOMAIN p
         /\ \A s \in DOMAIN p : s # t => Add(p, t, <<1, n>>)[s] = p[s]
<1>1. PICK f, g, m : f = p[t] /\ g = Add(p, t, <<1, n>>)[t] /\ m = Cardinality(S)
  OBVIOUS
<1>2. m \in Nat /\ Cardinality(S \cup {n}) = m + 1 /\ \A i \in S : i \in Nat /\ i < n
  BY <1>1, Numbered
<1>3. DOMAIN f = First(m) /\ Cardinality(DOMAIN f) = m /\ First(m + 1) = First(m) \cup {m}
  BY <1>1, <1>2, Numbered DEF Lists
<1>4. /\ DOMAIN g = First(m + 1) /\ g[m] = <<1, n>>
      /\ \A x \in First(m) : x # m => g[x] = f[x]
  <2>1. g = Put(p, t, m, <<1, n>>)[t]
    BY <1>1, <1>3 DEF Add
  <2>2. PICK c : c = <<1, n>>
    OBVIOUS
  <2>3. g = [x \in DOMAIN f \cup {m} |-> IF x = m THEN c ELSE f[x]]
    BY <1>1, <2>1, <2>2 DEF Put
  <2> QED
    BY <1>3, <2>2, <2>3
<1>5. \A x \in First(m) : g[x] = f[x] /\ x \in Nat /\ x < m
  BY <1>2, <1>4, Numbered
<1>6. {f[x] : x \in First(m)} = {<<1, i>> : i \in S}
      /\ \A x, y \in First(m) : x < y => f[x][2] < f[y][2]
  BY <1>1, <1>3 DEF Lists
<1>7. {g[x] : x \in First(m + 1)} = {<<1, i>> : i \in S \cup {n}}
  <2>1. {g[x] : x \in First(m + 1)} = {f[x] : x \in First(m)} \cup {<<1, n>>}
    BY <1>3, <1>4, <1>5
  <2> QED
    BY <1>6, <2>1
<1>8. ASSUME NEW x \in First(m + 1), NEW y \in First(m + 1), x < y
      PROVE  g[x][2] < g[y][2]
  <2>1. x \in First(m)
    <3>1. x # m
      BY <1>2, <1>3, <1>5, <1>8
    <3> QED
      BY <1>3, <3>1
  <2>2. CASE y = m
    <3>1. g[x] \in {<<1, i>> : i \in S}
      BY <1>5, <1>6, <2>1
    <3>2. PICK i \in S : g[x] = <<1, i>>
      BY <3>1
    <3>3. g[x][2] = i /\ g[y][2] = n
      BY <1>4, <2>2, <3>2
    <3> QED
      BY <1>2, <3>3
  <2>3. CASE y \in First(m)
    BY <1>5, <1>6, <1>8, <2>1, <2>3
  <2> QED
    BY <1>3, <2>2, <2>3
<1>9. Lists(g, S \cup {n})
  BY <1>2, <1>4, <1>7, <1>8 DEF Lists
<1> QED
  BY <1>1, <1>9, Puts DEF Add

\* In 32 bits, too, the next number but one is the one after the next.
LEMMA NextNumber ==
  ASSUME NEW n \in Nat
  PROVE  ((n % DWord) + 1) % DWord = (n + 1) % DWord
<1>1. PICK D \in Nat \ {0} : D = DWord
  BY ToolConstants
<1>2. PICK q, m : q = n \div D /\ m = n % D
  OBVIOUS
<1>3. q \in Nat /\ m \in 0 .. D - 1 /\ n = D * q + m
  BY <1>2, Division
<1>4. D * q = q * D /\ q * D \in Nat /\ n + 1 = q * D + (m + 1)
  BY <1>3
<1>5. CASE m + 1 \in 0 .. D - 1
  <2>1. (q * D + (m + 1)) % D = m + 1 /\ (0 * D + (m + 1)) % D = m + 1
    BY <1>3, <1>5, Quotient
  <2> QED
    BY <1>1, <1>2, <1>4, <2>1
<1>6. CASE m + 1 = D
  <2>1. n + 1 = (q + 1) * D /\ m + 1 = 1 * D /\ q + 1 \in Nat /\ n + 1 \in Nat /\ m + 1 \in Nat
    BY <1>3, <1>4, <1>6
  <2>2. (n + 1) % D = 0 /\ (m + 1) % D = 0
    BY <2>1, Multiple
  <2> QED
    BY <1>1, <1>2, <2>2
<1> QED
  BY <1>3, <1>5, <1>6

\* A turn of a tool with one source.
LEMMA TurnAt ==
  ASSUME LoopInv, NEW tool, tool \notin OfAFolder, NEW o, NEW m, Turn(tool, 1, o, m)
  PROVE  /\ status = "running" /\ status' = status /\ job.tool = tool /\ job' = job /\ file = 1 /\ file' = file
         /\ k \in Nat /\ k' = k + 1 /\ out' = o /\ memo' = m /\ k < Len(Pages)
         /\ here = <<1, k>> /\ At(<<1, k>>) = page /\ page.id \in Nat /\ page.good \in BOOLEAN
         /\ \A c : At(c)' = At(c)
         /\ 0 .. 2 \subseteq DOMAIN out /\ 0 .. MaxFiles - 1 \subseteq DOMAIN out /\ 0 \in DOMAIN out
<1>1. /\ status = "running" /\ status' = status /\ job.tool = tool /\ job' = job /\ file = 1 /\ file' = file
      /\ k \in Nat /\ k' = k + 1 /\ out' = o /\ memo' = m /\ k < Len(Pages)
  BY DEF Turn, Runs, LoopInv
<1>2. /\ \A c : At(c)' = At(c)
      /\ At(here) = page /\ page.id \in Nat /\ page.good \in BOOLEAN
  BY <1>1, TurnReads
<1>3. here = <<1, k>>
  BY <1>1 DEF here
<1>4. 0 .. 2 \subseteq DOMAIN out /\ 0 .. MaxFiles - 1 \subseteq DOMAIN out /\ 0 \in DOMAIN out
  <2>1. DOMAIN out = 0 .. MaxTargets - 1
    BY DEF LoopInv
  <2> QED
    BY <2>1, ToolConstants
<1> QED
  BY <1>1, <1>2, <1>3, <1>4

LEMMA SplitStep ==
  ASSUME LoopInv, DealInv, splitToFiles
  PROVE  Dealt(k)'
<1>1. Turn("splitToFiles", 1, IF page.id < MaxFiles THEN Add(out, page.id, here) ELSE out, memo)
  BY DEF splitToFiles
<1>2. "splitToFiles" \notin OfAFolder
  BY DEF OfAFolder
<1>3. /\ k \in Nat /\ k' = k + 1 /\ \A c : At(c)' = At(c)
      /\ here = <<1, k>> /\ At(<<1, k>>) = page /\ page.id \in Nat
      /\ 0 .. MaxFiles - 1 \subseteq DOMAIN out
      /\ out' = IF page.id < MaxFiles THEN Add(out, page.id, here) ELSE out
      /\ status = "running" /\ job.tool = "splitToFiles"
  BY <1>1, <1>2, TurnAt
<1>4. Dealt(k)
  BY <1>3 DEF DealInv
<1>5. First(k)' = First(k) \cup {k}
  BY <1>3, Numbered DEF First
<1>6. PICK id \in Nat : id = page.id
  BY <1>3
<1>7. ASSUME NEW t \in 0 .. MaxFiles - 1
      PROVE  Lists(out'[t], {i \in First(k)' : At(<<1, i>>)'.id = t})
  <2>1. PICK S : S = {i \in First(k) : At(<<1, i>>).id = t}
    OBVIOUS
  <2>2. Lists(out[t], S) /\ S \in SUBSET First(k) /\ t \in DOMAIN out
    BY <1>3, <1>4, <2>1 DEF Dealt
  <2>3. {i \in First(k)' : At(<<1, i>>)'.id = t} = IF id = t THEN S \cup {k} ELSE S
    BY <1>3, <1>5, <1>6, <2>1
  <2>4. CASE id = t
    <3>1. out' = Add(out, t, <<1, k>>)
      BY <1>3, <1>6, <2>4, ToolConstants
    <3>2. Lists(out'[t], S \cup {k})
      BY <1>3, <2>2, <3>1, ListAdds
    <3> QED
      BY <2>3, <2>4, <3>2
  <2>5. CASE id # t
    <3>1. out'[t] = out[t]
      BY <1>3, <1>6, <2>2, <2>5, Puts DEF Add
    <3> QED
      BY <2>2, <2>3, <2>5, <3>1
  <2> QED
    BY <2>4, <2>5
<1> QED
  BY <1>7 DEF Dealt

LEMMA InTurnStep ==
  ASSUME LoopInv, DealInv, splitByPages
  PROVE  DealtInTurn(k)'
<1>1. Turn("splitByPages", 1, Add(out, k % 3, here), memo)
  BY DEF splitByPages
<1>2. "splitByPages" \notin OfAFolder
  BY DEF OfAFolder
<1>3. /\ k \in Nat /\ k' = k + 1 /\ here = <<1, k>> /\ 0 .. 2 \subseteq DOMAIN out
      /\ out' = Add(out, k % 3, here) /\ status = "running" /\ job.tool = "splitByPages"
  BY <1>1, <1>2, TurnAt
<1>4. DealtInTurn(k)
  BY <1>3 DEF DealInv
<1>5. First(k)' = First(k) \cup {k}
  BY <1>3, Numbered DEF First
<1>6. PICK r \in 0 .. 2 : r = k % 3
  BY <1>3
<1>7. ASSUME NEW t \in 0 .. 2
      PROVE  Lists(out'[t], {i \in First(k)' : i % 3 = t})
  <2>1. PICK S : S = {i \in First(k) : i % 3 = t}
    OBVIOUS
  <2>2. Lists(out[t], S) /\ S \in SUBSET First(k) /\ t \in DOMAIN out
    BY <1>3, <1>4, <2>1 DEF DealtInTurn
  <2>3. {i \in First(k)' : i % 3 = t} = IF r = t THEN S \cup {k} ELSE S
    BY <1>5, <1>6, <2>1
  <2>4. CASE r = t
    BY <1>3, <1>6, <2>2, <2>3, <2>4, ListAdds
  <2>5. CASE r # t
    <3>1. out'[t] = out[t]
      BY <1>3, <1>6, <2>2, <2>5, Puts DEF Add
    <3> QED
      BY <2>2, <2>3, <2>5, <3>1
  <2> QED
    BY <2>4, <2>5
<1> QED
  BY <1>7 DEF DealtInTurn

LEMMA DoubledStep ==
  ASSUME LoopInv, DealInv, splitByPage
  PROVE  Doubled(k)'
<1>1. Turn("splitByPage", 1, Add(Add(out, 0, here), 1, here), memo)
  BY DEF splitByPage
<1>2. "splitByPage" \notin OfAFolder
  BY DEF OfAFolder
<1>3. /\ k \in Nat /\ k' = k + 1 /\ here = <<1, k>> /\ 0 .. 2 \subseteq DOMAIN out
      /\ out' = Add(Add(out, 0, here), 1, here) /\ status = "running" /\ job.tool = "splitByPage"
  BY <1>1, <1>2, TurnAt
<1>4. Lists(out[0], First(k)) /\ Lists(out[1], First(k)) /\ 0 \in DOMAIN out /\ 1 \in DOMAIN out
  <2>1. Doubled(k)
    BY <1>3 DEF DealInv
  <2> QED
    BY <1>3, <2>1 DEF Doubled
<1>5. First(k)' = First(k) \cup {k}
  BY <1>3, Numbered DEF First
<1>6. PICK o : o = Add(out, 0, <<1, k>>)
  OBVIOUS
<1>7. Lists(o[0], First(k) \cup {k}) /\ DOMAIN o = DOMAIN out /\ o[1] = out[1]
  <2>1. First(k) \in SUBSET First(k)
    OBVIOUS
  <2> QED
    BY <1>3, <1>4, <1>6, <2>1, ListAdds
<1>8. out' = Add(o, 1, <<1, k>>)
  BY <1>3, <1>6
<1>9. Lists(out'[1], First(k) \cup {k}) /\ out'[0] = o[0]
  <2>1. First(k) \in SUBSET First(k) /\ Lists(o[1], First(k)) /\ 0 # 1
    BY <1>4, <1>7
  <2> QED
    BY <1>3, <1>4, <1>7, <1>8, <2>1, ListAdds
<1>10. \A t \in 0 .. 1 : t = 0 \/ t = 1
  OBVIOUS
<1> QED
  BY <1>5, <1>7, <1>9, <1>10 DEF Doubled

LEMMA SelectedStep ==
  ASSUME LoopInv, DealInv, saveOnlyWithID
  PROVE  Selected(k)'
<1>1. Turn("saveOnlyWithID", 1, IF page.id = Wanted THEN Add(out, 0, here) ELSE out, memo)
  BY DEF saveOnlyWithID
<1>2. "saveOnlyWithID" \notin OfAFolder
  BY DEF OfAFolder
<1>3. /\ k \in Nat /\ k' = k + 1 /\ here = <<1, k>> /\ 0 \in DOMAIN out /\ \A c : At(c)' = At(c)
      /\ At(<<1, k>>) = page /\ out' = IF page.id = Wanted THEN Add(out, 0, here) ELSE out
      /\ status = "running" /\ job.tool = "saveOnlyWithID"
  BY <1>1, <1>2, TurnAt
<1>4. First(k)' = First(k) \cup {k}
  BY <1>3, Numbered DEF First
<1>5. PICK S : S = {i \in First(k) : At(<<1, i>>).id = Wanted}
  OBVIOUS
<1>6. Lists(out[0], S) /\ S \in SUBSET First(k)
  BY <1>3, <1>5 DEF DealInv, Selected
<1>7. {i \in First(k)' : At(<<1, i>>)'.id = Wanted} = IF page.id = Wanted THEN S \cup {k} ELSE S
  BY <1>3, <1>4, <1>5
<1>8. Lists(out'[0], IF page.id = Wanted THEN S \cup {k} ELSE S)
  <2>1. CASE page.id = Wanted
    BY <1>3, <1>6, <2>1, ListAdds
  <2>2. CASE page.id # Wanted
    BY <1>3, <1>6, <2>2
  <2> QED
    BY <2>1, <2>2
<1> QED
  BY <1>7, <1>8 DEF Selected

\* A cell at the end of a target that has no gaps.
LEMMA AddsAtEnd ==
  ASSUME NEW p, NEW t \in DOMAIN p, NEW m \in Nat, DOMAIN p[t] = First(m), NEW c
  PROVE  /\ Add(p, t, c) = Put(p, t, m, c)
         /\ DOMAIN Add(p, t, c) = DOMAIN p
         /\ DOMAIN Add(p, t, c)[t] = First(m + 1) /\ Add(p, t, c)[t][m] = c
         /\ \A x \in First(m) : Add(p, t, c)[t][x] = p[t][x]
         /\ \A s \in DOMAIN p : s # t => Add(p, t, c)[s] = p[s]
<1>1. Cardinality(DOMAIN p[t]) = m /\ First(m + 1) = First(m) \cup {m} /\ m \notin First(m)
  BY Numbered
<1>2. Add(p, t, c) = Put(p, t, m, c)
  BY <1>1 DEF Add
<1>3. \A x \in First(m) : x # m
  BY <1>1
<1> QED
  BY <1>1, <1>2, <1>3, Puts

\* saveByPageNumber remembers the number of the last page it has taken.
LEMMA FollowedStep ==
  ASSUME LoopInv, DealInv, saveByPageNumber
  PROVE  /\ Followed(k)' /\ IsFiniteSet(DOMAIN out'[0])
         /\ memo' = IF k' = 0 THEN <<>> ELSE <<TakenUpTo(Taken)'>>
<1> DEFINE follows == memo # <<>> /\ page.id = (memo[1] + 1) % DWord
<1>1. Turn("saveByPageNumber", 1, IF follows THEN Add(out, 0, here) ELSE out,
           IF follows \/ memo = <<>> THEN <<page.id>> ELSE memo)
  BY DEF saveByPageNumber
<1>2. "saveByPageNumber" \notin OfAFolder
  BY DEF OfAFolder
<1>3. /\ k \in Nat /\ k' = k + 1 /\ here = <<1, k>> /\ 0 \in DOMAIN out /\ \A c : At(c)' = At(c)
      /\ At(<<1, k>>) = page /\ page.id \in Nat /\ out' = IF follows THEN Add(out, 0, here) ELSE out
      /\ memo' = IF follows \/ memo = <<>> THEN <<page.id>> ELSE memo
      /\ status = "running" /\ job.tool = "saveByPageNumber" /\ k < Len(Pages)
  BY <1>1, <1>2, TurnAt
<1>4. First(k)' = First(k) \cup {k} /\ \A i \in First(k) : i \in Nat /\ i < k
  BY <1>3, Numbered DEF First
<1>5. Followed(k) /\ IsFiniteSet(DOMAIN out[0]) /\ memo = IF k = 0 THEN <<>> ELSE <<TakenUpTo(Taken)>>
  BY <1>3 DEF DealInv
<1>6. PICK m \in Nat : m = Taken
  BY <1>5, FS_CardinalityType DEF Taken
<1>7. \A i : IdAt(i)' = IdAt(i)
  BY <1>3 DEF IdAt
<1>8. page.id = IdAt(k)
  BY <1>3 DEF IdAt
<1>9. IdAt(0) \in Nat
  <2>1. 0 \in 0 .. Len(Source(1)) - 1 /\ 1 \in DOMAIN job.files
    <3>1. file = 1 /\ 1 \in DOMAIN job.files
      BY <1>3, JobFiles DEF LoopInv, OfAFolder
    <3>2. Len(Source(1)) \in Nat /\ 0 < Len(Source(1))
      BY <1>3, <3>1, JobFiles DEF LoopInv, Pages
    <3> QED
      BY <3>1, <3>2
  <2>2. Source(1)[0 + 1].id \in Nat
    BY <2>1, PageTypes DEF LoopInv
  <2> QED
    BY <2>2 DEF IdAt, At
<1>10. PICK a \in Nat, b \in Nat : a = IdAt(0) /\ b = IdAt(k)
  BY <1>3, <1>8, <1>9
<1>11. PICK f : f = out[0]
  OBVIOUS
<1>12. /\ DOMAIN f = First(m)
       /\ \A x \in DOMAIN f : \E i \in First(k) : f[x] = <<1, i>> /\ IdAt(i) = (a + x + 1) % DWord
       /\ \A x, y \in DOMAIN f : x < y => f[x][2] < f[y][2]
       /\ \A i \in First(k) : i > LastTaken => IdAt(i) # (a + m + 1) % DWord
  BY <1>5, <1>6, <1>10, <1>11 DEF Followed
<1>13. k = 0 => m = 0
  <2>1. ASSUME k = 0, m # 0 PROVE FALSE
    <3>1. 0 \in First(m) /\ First(k) = {}
      BY <2>1 DEF First
    <3> QED
      BY <1>12, <3>1
  <2> QED
    BY <2>1
<1>18. PICK u : u = TakenUpTo(m)
  OBVIOUS
<1>19. (u + 1) % DWord = (a + m + 1) % DWord
  <2>1. m = 0 => u = a /\ a + 1 = a + m + 1
    BY <1>10, <1>18 DEF TakenUpTo
  <2>2. m # 0 => u = (a + m) % DWord /\ a + m \in Nat
    BY <1>10, <1>18 DEF TakenUpTo
  <2> QED
    BY <2>1, <2>2, NextNumber
<1>20. TakenUpTo(m)' = u /\ TakenUpTo(m + 1)' = (a + m + 1) % DWord
  <2>1. m + 1 # 0 /\ a + (m + 1) = a + m + 1
    OBVIOUS
  <2> QED
    BY <1>7, <1>10, <1>18, <2>1 DEF TakenUpTo
<1>14. follows <=> k # 0 /\ b = (a + m + 1) % DWord
  <2>1. CASE k = 0
    BY <1>5, <2>1
  <2>2. CASE k # 0
    <3>1. memo = <<u>>
      BY <1>5, <1>6, <1>18, <2>2
    <3>2. memo # <<>> /\ memo[1] = u
      BY <3>1
    <3> QED
      BY <1>8, <1>10, <1>19, <2>2, <3>2
  <2> QED
    BY <2>1, <2>2
<1>15. k' # 0 /\ IdAt(0)' = a
  BY <1>3, <1>7, <1>10
<1> HIDE DEF follows
<1>16. CASE follows
  <2>1. out' = Add(out, 0, <<1, k>>) /\ memo' = <<b>> /\ k # 0 /\ b = (a + m + 1) % DWord
    BY <1>3, <1>8, <1>10, <1>14, <1>16
  <2>2. PICK g : g = out'[0]
    OBVIOUS
  <2>3. DOMAIN g = First(m + 1) /\ g[m] = <<1, k>> /\ \A x \in First(m) : g[x] = f[x]
    BY <1>3, <1>11, <1>12, <2>1, <2>2, AddsAtEnd
  <2>4. /\ First(m + 1) = First(m) \cup {m} /\ IsFiniteSet(First(m + 1)) /\ Cardinality(First(m + 1)) = m + 1
        /\ \A x \in First(m) : x \in Nat /\ x < m
    <3>1. m + 1 \in Nat
      OBVIOUS
    <3> QED
      BY <3>1, Numbered
  <2>5. Taken' = m + 1
    BY <2>2, <2>3, <2>4 DEF Taken
  <2>6. LastTaken' = k
    <3>1. m + 1 # 0 /\ m + 1 - 1 = m
      OBVIOUS
    <3>2. LastTaken' = g[m][2]
      BY <2>2, <2>5, <3>1 DEF LastTaken
    <3> QED
      BY <2>3, <3>2
  <2>7. ASSUME NEW x \in First(m + 1)
        PROVE  \E i \in First(k)' : g[x] = <<1, i>> /\ IdAt(i)' = (a + x + 1) % DWord
    <3>1. CASE x \in First(m)
      BY <1>4, <1>7, <1>12, <2>3, <3>1
    <3>2. CASE x = m
      BY <1>4, <1>7, <1>10, <2>1, <2>3, <3>2
    <3> QED
      BY <2>4, <3>1, <3>2
  <2>8. ASSUME NEW x \in First(m + 1), NEW y \in First(m + 1), x < y
        PROVE  g[x][2] < g[y][2]
    <3>1. x \in First(m)
      BY <2>4, <2>8
    <3>2. CASE y = m
      <4>1. PICK i \in First(k) : f[x] = <<1, i>>
        BY <1>12, <3>1
      <4>2. g[x][2] = i /\ g[y][2] = k
        BY <2>3, <3>1, <3>2, <4>1
      <4> QED
        BY <1>4, <4>2
    <3>3. CASE y \in First(m)
      BY <1>12, <2>3, <2>8, <3>1, <3>3
    <3> QED
      BY <2>4, <3>2, <3>3
  <2>9. \A i \in First(k)' : ~ (i > k)
    BY <1>3, <1>4
  <2>10. Followed(k)'
    BY <1>15, <2>2, <2>3, <2>5, <2>6, <2>7, <2>8, <2>9 DEF Followed
  <2>11. memo' = <<TakenUpTo(Taken)'>>
    <3>1. TakenUpTo(Taken)' = TakenUpTo(m + 1)'
      BY <2>5 DEF TakenUpTo
    <3> QED
      BY <1>20, <2>1, <3>1
  <2> QED
    BY <1>15, <2>2, <2>3, <2>4, <2>10, <2>11
<1>17. CASE ~ follows
  <2>1. out' = out /\ Taken' = m /\ LastTaken' = LastTaken
    BY <1>3, <1>6, <1>17 DEF Taken, LastTaken
  <2>2. memo' = <<u>>
    <3>1. CASE k = 0
      BY <1>3, <1>5, <1>8, <1>10, <1>13, <1>18, <3>1 DEF TakenUpTo
    <3>2. CASE k # 0
      <4>1. memo = <<u>>
        BY <1>5, <1>6, <1>18, <3>2
      <4>2. memo # <<>>
        BY <4>1
      <4> QED
        BY <1>3, <1>17, <4>1, <4>2
    <3> QED
      BY <3>1, <3>2
  <2>3. ASSUME NEW i \in First(k)', i > LastTaken PROVE IdAt(i)' # (a + m + 1) % DWord
    <3>1. CASE i \in First(k)
      BY <1>7, <1>12, <2>3, <3>1
    <3>2. CASE i = k
      <4>1. k # 0
        <5>1. k = 0 => LastTaken = 0
          BY <1>6, <1>13 DEF LastTaken
        <5> QED
          BY <2>3, <3>2, <5>1
      <4> QED
        BY <1>7, <1>10, <1>14, <1>17, <3>2, <4>1
    <3> QED
      BY <1>4, <3>1, <3>2
  <2>4. Followed(k)'
    <3>1. \A x \in DOMAIN f : \E i \in First(k)' : f[x] = <<1, i>> /\ IdAt(i)' = (a + x + 1) % DWord
      BY <1>4, <1>7, <1>12
    <3> QED
      BY <1>11, <1>12, <1>15, <2>1, <2>3, <3>1 DEF Followed
  <2>5. TakenUpTo(Taken)' = u
    BY <1>20, <2>1 DEF TakenUpTo
  <2> QED
    BY <1>5, <1>15, <2>1, <2>2, <2>4, <2>5
<1> QED
  BY <1>16, <1>17

LEMMA NulledStep ==
  ASSUME LoopInv, DealInv, replaceBadMarkerToNulls
  PROVE  Nulled(k)'
<1> DEFINE cell == IF page.good THEN here ELSE Nulls
<1>1. Turn("replaceBadMarkerToNulls", 1, Add(out, 0, cell), memo)
  BY DEF replaceBadMarkerToNulls
<1>2. "replaceBadMarkerToNulls" \notin OfAFolder
  BY DEF OfAFolder
<1>3. /\ k \in Nat /\ k' = k + 1 /\ here = <<1, k>> /\ 0 \in DOMAIN out /\ \A c : At(c)' = At(c)
      /\ At(<<1, k>>) = page /\ out' = Add(out, 0, cell)
      /\ status = "running" /\ job.tool = "replaceBadMarkerToNulls"
  BY <1>1, <1>2, TurnAt
<1>4. First(k)' = First(k + 1) /\ First(k + 1) = First(k) \cup {k}
  BY <1>3, Numbered DEF First
<1>5. out[0] = [x \in First(k) |-> IF At(<<1, x>>).good THEN <<1, x>> ELSE Nulls]
  BY <1>3 DEF DealInv, Nulled
<1>6. cell = IF At(<<1, k>>).good THEN <<1, k>> ELSE Nulls
  BY <1>3
<1> HIDE DEF cell
<1>8. out'[0] = [x \in First(k + 1) |-> IF At(<<1, x>>).good THEN <<1, x>> ELSE Nulls]
  <2>1. DOMAIN out[0] = First(k) /\ out' = Put(out, 0, k, cell)
    BY <1>3, <1>5, AddsAtEnd
  <2>2. out'[0] = [x \in First(k + 1) |-> IF x = k THEN cell ELSE out[0][x]]
    BY <1>3, <1>4, <2>1 DEF Put
  <2>3. \A x \in First(k + 1) :
          (IF x = k THEN cell ELSE out[0][x]) = (IF At(<<1, x>>).good THEN <<1, x>> ELSE Nulls)
    <3>1. \A x \in First(k) : out[0][x] = (IF At(<<1, x>>).good THEN <<1, x>> ELSE Nulls)
      BY <1>5
    <3> QED
      BY <1>4, <1>6, <3>1
  <2> QED
    BY <2>2, <2>3
<1> QED
  BY <1>3, <1>4, <1>8 DEF Nulled

\* What the folders and the files in them are.
LEMMA FilesMadeAre ==
  ASSUME NEW t, NEW x
  PROVE  <<t, x>> \in FilesMade <=> t \in DOMAIN out /\ x \in DOMAIN out[t]
BY DEF FilesMade

LEMMA FolderedStep ==
  ASSUME LoopInv, DealInv, createManyExcelFiles
  PROVE  Foldered(k)' /\ IsFiniteSet(FilesMade)' /\ Cardinality(FilesMade)' = Cardinality(GoodPages(k))'
<1>1. Turn("createManyExcelFiles", 1,
           IF page.good THEN Add(out, Cardinality(FilesMade) \div ModCount, here) ELSE out, memo)
  BY DEF createManyExcelFiles
<1>2. "createManyExcelFiles" \notin OfAFolder
  BY DEF OfAFolder
<1>3. /\ k \in Nat /\ k' = k + 1 /\ here = <<1, k>> /\ \A c : At(c)' = At(c)
      /\ At(<<1, k>>) = page /\ page.good \in BOOLEAN
      /\ out' = IF page.good THEN Add(out, Cardinality(FilesMade) \div ModCount, here) ELSE out
      /\ status = "running" /\ job.tool = "createManyExcelFiles" /\ k < Len(Pages) /\ file = 1
  BY <1>1, <1>2, TurnAt
<1>4. First(k)' = First(k + 1) /\ First(k + 1) = First(k) \cup {k} /\ \A i \in First(k) : i \in Nat /\ i < k
  BY <1>3, Numbered DEF First
<1>5. Foldered(k) /\ IsFiniteSet(FilesMade) /\ Cardinality(FilesMade) = Cardinality(GoodPages(k))
  BY <1>3 DEF DealInv
<1>6. PICK G : G = GoodPages(k)
  OBVIOUS
<1>7. G \in SUBSET First(k)
  BY <1>6 DEF GoodPages
<1>8. PICK m \in Nat : m = Cardinality(G)
  BY <1>3, <1>7, Numbered
<1>9. m <= k /\ Cardinality(G \cup {k}) = m + 1
  BY <1>3, <1>7, <1>8, Numbered
<1>10. \A n : GoodPages(n)' = {i \in First(n)' : At(<<1, i>>).good}
  BY <1>3 DEF GoodPages
<1>11. GoodPages(k)' = IF page.good THEN G \cup {k} ELSE G
  BY <1>3, <1>4, <1>6 DEF GoodPages
<1>12. ASSUME NEW i \in G
       PROVE  /\ GoodPages(i)' = GoodPages(i) /\ i \in Nat /\ i < k
              /\ Cardinality(GoodPages(i)) \in Nat /\ Cardinality(GoodPages(i)) < m
  <2>1. i \in Nat /\ i < k
    BY <1>4, <1>7, <1>12
  <2>2. GoodPages(i)' = GoodPages(i)
    BY <1>3 DEF GoodPages, First
  <2>3. PICK H : H = GoodPages(i)
    OBVIOUS
  <2>4. \A j \in First(i) : j \in First(k) /\ j # i
    BY <1>3, <2>1 DEF First
  <2>5. H \in SUBSET G /\ i \notin H
    BY <1>6, <2>3, <2>4 DEF GoodPages
  <2>6. IsFiniteSet(G) /\ IsFiniteSet(H)
    BY <1>3, <1>7, <2>5, Numbered, FS_Subset
  <2>7. Cardinality(H) \in Nat /\ Cardinality(H) <= m /\ Cardinality(H) # m
    BY <1>8, <1>12, <2>5, <2>6, FS_Subset, FS_CardinalityType
  <2> QED
    BY <2>1, <2>2, <2>3, <2>7
<1>13. CASE ~ page.good
  <2>1. out' = out /\ GoodPages(k)' = G
    BY <1>3, <1>11, <1>13
  <2>2. FilesMade' = FilesMade
    BY <2>1 DEF FilesMade
  <2>3. \A i \in G : GoodPages(i)' = GoodPages(i)
    BY <1>12
  <2>4. /\ \A t \in DOMAIN out : DOMAIN out[t] = {x \in First(ModCount) : t * ModCount + x < Cardinality(G)}
        /\ \A i \in G : out[Cardinality(GoodPages(i)) \div ModCount][Cardinality(GoodPages(i)) % ModCount] = <<1, i>>
    BY <1>5, <1>6 DEF Foldered
  <2>5. Foldered(k)'
    BY <2>1, <2>3, <2>4 DEF Foldered, First
  <2> QED
    BY <1>5, <1>6, <2>1, <2>2, <2>5
<1>14. CASE page.good
  <2>1. PICK M \in Nat \ {0} : M = ModCount
    BY ToolConstants
  <2>2. PICK d \in Nat, r \in Nat : d = m \div M /\ r = m % M
    <3>1. m \div M \in Nat /\ m % M \in 0 .. M - 1
      BY Division
    <3> QED
      BY <3>1
  <2>3. m = d * M + r /\ r \in 0 .. M - 1
    BY <2>2, Division
  <2>4. out' = Add(out, d, <<1, k>>)
    BY <1>3, <1>5, <1>6, <1>8, <1>14, <2>1, <2>2
  <2>5. /\ \A t \in DOMAIN out : DOMAIN out[t] = {x \in First(M) : t * M + x < m}
        /\ \A i \in G : out[Cardinality(GoodPages(i)) \div M][Cardinality(GoodPages(i)) % M] = <<1, i>>
    BY <1>5, <1>6, <1>8, <2>1 DEF Foldered
  <2>6. \A n \in Nat : n <= m => n \div M \in DOMAIN out
    <3>1. DOMAIN out = 0 .. MaxTargets - 1 /\ MaxTargets \in Nat
      BY ToolConstants DEF LoopInv
    <3>2. Len(Pages) <= MaxTargets * M
      BY <1>3, <2>1, JobsAssumption DEF LoopInv, Pages, Source
    <3>3. Len(Pages) \in Nat
      BY <1>3, JobFiles DEF LoopInv, Pages
    <3>4. m < MaxTargets * M
      BY <1>3, <1>9, <2>1, <3>1, <3>2, <3>3
    <3>5. ASSUME NEW n \in Nat, n <= m PROVE n \div M \in DOMAIN out
      <4>1. PICK q \in Nat, s \in 0 .. M - 1 : q = n \div M /\ n = q * M + s
        BY Division
      <4>2. CASE MaxTargets <= q
        <5>1. MaxTargets * M <= q * M
          BY <3>1, <4>2, OneLess
        <5> QED
          BY <3>1, <3>4, <3>5, <4>1, <5>1
      <4> QED
        BY <3>1, <4>1, <4>2
    <3> QED
      BY <3>5
  <2>7. d \in DOMAIN out
    BY <2>2, <2>6
  <2>8. \A t \in DOMAIN out : t \in Nat
    BY ToolConstants DEF LoopInv
  <2>9. \A t \in Nat, x \in 0 .. M - 1 : t * M + x \in Nat /\ (t * M + x = m <=> t = d /\ x = r)
    <3>1. ASSUME NEW t \in Nat, NEW x \in 0 .. M - 1
          PROVE  t * M + x \in Nat /\ (t * M + x = m <=> t = d /\ x = r)
      <4>1. (t * M + x) \div M = t /\ (t * M + x) % M = x
        BY Quotient
      <4>2. t * M + x \in Nat
        OBVIOUS
      <4>3. t * M + x = m => t = d /\ x = r
        BY <2>2, <4>1
      <4>4. t = d /\ x = r => t * M + x = m
        BY <2>3
      <4> QED
        BY <4>2, <4>3, <4>4
    <3> QED
      BY <3>1
  <2>10. DOMAIN out[d] = First(r)
    <3>1. \A x \in First(M) : d * M + x < m <=> x < r
      BY <2>3 DEF First
    <3>2. First(r) = {x \in First(M) : x < r}
      BY <2>3 DEF First
    <3> QED
      BY <2>5, <2>7, <3>1, <3>2
  <2>11. /\ DOMAIN out' = DOMAIN out
         /\ DOMAIN out'[d] = First(r + 1) /\ out'[d][r] = <<1, k>>
         /\ \A x \in First(r) : out'[d][x] = out[d][x]
         /\ \A t \in DOMAIN out : t # d => out'[t] = out[t]
    BY <2>4, <2>7, <2>10, AddsAtEnd
  <2>12. ASSUME NEW t \in DOMAIN out
         PROVE  DOMAIN out'[t] = {x \in First(M) : t * M + x < m + 1}
    <3>1. t \in Nat
      BY <2>8
    <3>2. CASE t = d
      <4>1. \A x \in 0 .. M - 1 : d * M + x < m + 1 <=> x < r + 1
        BY <2>3
      <4> QED
        BY <2>3, <2>11, <3>2, <4>1 DEF First
    <3>3. CASE t # d
      <4>1. \A x \in First(M) : t * M + x < m + 1 <=> t * M + x < m
        <5>1. ASSUME NEW x \in First(M) PROVE t * M + x < m + 1 <=> t * M + x < m
          <6>1. x \in 0 .. M - 1
            BY <5>1 DEF First
          <6>2. PICK v \in Nat : v = t * M + x
            BY <2>9, <3>1, <6>1
          <6>3. v # m
            BY <2>9, <3>1, <3>3, <6>1, <6>2
          <6> QED
            BY <6>2, <6>3
        <5> QED
          BY <5>1
      <4> QED
        BY <2>5, <2>11, <3>3, <4>1
    <3> QED
      BY <3>2, <3>3
  <2>13. ASSUME NEW i \in G
         PROVE  out'[Cardinality(GoodPages(i)) \div M][Cardinality(GoodPages(i)) % M] = <<1, i>>
    <3>1. PICK n \in Nat : n = Cardinality(GoodPages(i))
      BY <1>12
    <3>2. n < m
      BY <1>12, <3>1
    <3>3. PICK q \in Nat, s \in 0 .. M - 1 : q = n \div M /\ s = n % M /\ n = q * M + s
      <4>1. n \div M \in Nat /\ n % M \in 0 .. M - 1 /\ n = M * (n \div M) + (n % M)
        BY Division
      <4>2. PICK q \in Nat, s \in 0 .. M - 1 : q = n \div M /\ s = n % M
        BY <4>1
      <4>3. n = q * M + s
        BY <4>1, <4>2
      <4> QED
        BY <4>2, <4>3
    <3>4. q \in DOMAIN out
      BY <2>6, <3>2, <3>3
    <3>5. out[q][s] = <<1, i>> /\ s \in DOMAIN out[q]
      <4>1. out[q][s] = <<1, i>>
        BY <2>5, <3>1, <3>3
      <4>2. s \in First(M) /\ q * M + s < m
        BY <3>2, <3>3 DEF First
      <4> QED
        BY <2>5, <3>4, <4>1, <4>2
    <3>6. out'[q][s] = out[q][s]
      <4>1. CASE q = d
        BY <2>10, <2>11, <3>5, <4>1
      <4>2. CASE q # d
        BY <2>11, <3>4, <4>2
      <4> QED
        BY <4>1, <4>2
    <3> QED
      BY <3>1, <3>3, <3>5, <3>6
  <2>14. Cardinality(GoodPages(k)') = m + 1
    BY <1>9, <1>11, <1>14
  <2>15. Foldered(k)'
    <3>1. \A t \in DOMAIN out' : DOMAIN out'[t] = {x \in First(ModCount) : t * ModCount + x < Cardinality(GoodPages(k)')}
      BY <2>1, <2>11, <2>12, <2>14
    <3>2. GoodPages(k)' = G \cup {k} /\ GoodPages(k) = G
      BY <1>6, <1>11, <1>14
    <3>3. \A i \in G \cup {k} : GoodPages(i)' = GoodPages(i)
      BY <1>3 DEF GoodPages, First
    <3>4. out'[Cardinality(GoodPages(k)) \div M][Cardinality(GoodPages(k)) % M] = <<1, k>>
      BY <1>8, <2>2, <2>11, <3>2
    <3>5. \A i \in GoodPages(k)' :
            out'[Cardinality(GoodPages(i)') \div ModCount][Cardinality(GoodPages(i)') % ModCount] = <<1, i>>
      BY <2>1, <2>13, <3>2, <3>3, <3>4
    <3> QED
      BY <3>1, <3>5 DEF Foldered, First
  <2>16. FilesMade' = FilesMade \cup {<<d, r>>}
    <3>1. \A t \in DOMAIN out : DOMAIN out'[t] = IF t = d THEN DOMAIN out[t] \cup {r} ELSE DOMAIN out[t]
      <4>1. First(r + 1) = First(r) \cup {r}
        BY Numbered
      <4> QED
        BY <2>10, <2>11, <4>1
    <3>2. FilesMade' = UNION {{t} \X DOMAIN out'[t] : t \in DOMAIN out}
      BY <2>11 DEF FilesMade
    <3>3. ASSUME NEW c PROVE c \in FilesMade' <=> c \in FilesMade \/ c = <<d, r>>
      <4>1. c \in FilesMade' => \E t \in DOMAIN out : \E x \in DOMAIN out'[t] : c = <<t, x>>
        BY <3>2
      <4>2. c \in FilesMade => \E t \in DOMAIN out : \E x \in DOMAIN out[t] : c = <<t, x>>
        BY DEF FilesMade
      <4>3. \A t \in DOMAIN out : \A x \in DOMAIN out'[t] : <<t, x>> \in FilesMade'
        BY <3>2
      <4>4. \A t \in DOMAIN out : \A x \in DOMAIN out[t] : <<t, x>> \in FilesMade
        BY FilesMadeAre
      <4> QED
        BY <2>7, <3>1, <4>1, <4>2, <4>3, <4>4
    <3> QED
      BY <3>3
  <2>17. <<d, r>> \notin FilesMade
    <3>1. r \notin DOMAIN out[d]
      BY <2>10, Numbered
    <3> QED
      BY <3>1, FilesMadeAre
  <2>18. IsFiniteSet(FilesMade') /\ Cardinality(FilesMade') = m + 1
    BY <1>5, <1>6, <1>8, <2>16, <2>17, FS_AddElement
  <2> QED
    BY <2>14, <2>15, <2>18
<1> QED
  BY <1>3, <1>13, <1>14

\* Before the first page nothing has been dealt out.
LEMMA NoneDealt ==
  ASSUME k = 0, \A t \in 0 .. MaxTargets - 1 : out[t] = <<>>, DOMAIN out = 0 .. MaxTargets - 1
  PROVE  /\ Dealt(k) /\ DealtInTurn(k) /\ Doubled(k) /\ Selected(k) /\ Foldered(k) /\ Nulled(k)
         /\ Followed(k) /\ IsFiniteSet(DOMAIN out[0])
         /\ IsFiniteSet(FilesMade) /\ Cardinality(FilesMade) = Cardinality(GoodPages(k))
<1>1. First(k) = {} /\ Cardinality({}) = 0 /\ IsFiniteSet({})
  BY FS_EmptySet DEF First
<1>2. \A t \in 0 .. MaxTargets - 1 : DOMAIN out[t] = {} /\ Lists(out[t], {})
  BY NoneListed
<1>3. 0 .. 2 \subseteq 0 .. MaxTargets - 1 /\ 0 .. MaxFiles - 1 \subseteq 0 .. MaxTargets - 1
      /\ 0 .. 1 \subseteq 0 .. 2 /\ 0 \in 0 .. 2 /\ \A t \in 0 .. MaxTargets - 1 : t \in Nat
  BY ToolConstants
<1>4. Dealt(k) /\ DealtInTurn(k) /\ Doubled(k) /\ Selected(k)
  BY <1>1, <1>2, <1>3 DEF Dealt, DealtInTurn, Doubled, Selected
<1>5. Nulled(k)
  <2>1. out[0] = <<>> /\ DOMAIN out[0] = {}
    BY <1>2, <1>3
  <2>2. out[0] = [x \in {} |-> IF At(<<1, x>>).good THEN <<1, x>> ELSE Nulls]
    BY <2>1
  <2> QED
    BY <1>1, <2>2 DEF Nulled
<1>6. GoodPages(k) = {}
  BY <1>1 DEF GoodPages
<1>7. Foldered(k)
  <2>1. \A t \in DOMAIN out, x \in First(ModCount) : ~ (t * ModCount + x < 0)
    <3>1. ASSUME NEW t \in DOMAIN out, NEW x \in First(ModCount) PROVE ~ (t * ModCount + x < 0)
      <4>1. t \in Nat /\ x \in Nat /\ ModCount \in Nat
        BY <1>3, ToolConstants DEF First
      <4>2. t * ModCount \in Nat
        BY <4>1
      <4> QED
        BY <4>1, <4>2
    <3> QED
      BY <3>1
  <2> QED
    BY <1>1, <1>2, <1>6, <2>1 DEF Foldered
<1>8. DOMAIN out[0] = {} /\ Taken = 0 /\ First(Taken) = {}
  BY <1>1, <1>2, <1>3 DEF Taken, First
<1>9. Followed(k)
  BY <1>1, <1>8 DEF Followed
<1>10. FilesMade = {}
  BY <1>2 DEF FilesMade
<1> QED
  BY <1>1, <1>4, <1>5, <1>6, <1>7, <1>8, <1>9, <1>10

LEMMA DealStart == BlockInit => DealInv
<1> SUFFICES ASSUME BlockInit PROVE DealInv
  OBVIOUS
<1>1. k = 0 /\ memo = <<>> /\ DOMAIN out = 0 .. MaxTargets - 1 /\ \A t \in 0 .. MaxTargets - 1 : out[t] = <<>>
  BY DEF BlockInit
<1> QED
  BY <1>1, NoneDealt DEF DealInv

LEMMA QuietDeals ==
  ASSUME DealInv, UNCHANGED <<job, out, memo, k>>, status # "opening"
  PROVE  DealInv'
<1>1. \A c : At(c)' = At(c)
  BY DEF At, Source
<1>2. First(k)' = First(k) /\ FilesMade' = FilesMade /\ Taken' = Taken /\ LastTaken' = LastTaken
      /\ \A i : IdAt(i)' = IdAt(i)
      /\ TakenUpTo(Taken)' = TakenUpTo(Taken)
  BY <1>1 DEF First, FilesMade, Taken, LastTaken, IdAt, TakenUpTo
<1>3. \A n : GoodPages(n)' = GoodPages(n)
  BY <1>1 DEF GoodPages, First
<1>4. Dealt(k)' <=> Dealt(k)
  BY <1>1, <1>2 DEF Dealt
<1>5. DealtInTurn(k)' <=> DealtInTurn(k)
  BY <1>2 DEF DealtInTurn
<1>6. (Doubled(k)' <=> Doubled(k)) /\ (Selected(k)' <=> Selected(k)) /\ (Nulled(k)' <=> Nulled(k))
  BY <1>1, <1>2 DEF Doubled, Selected, Nulled
<1>7. Followed(k)' <=> Followed(k)
  BY <1>2 DEF Followed, First
<1>8. Foldered(k)' <=> Foldered(k)
  <2>1. Foldered(k)' <=>
          /\ \A t \in DOMAIN out :
               DOMAIN out[t] = {x \in First(ModCount) : t * ModCount + x < Cardinality(GoodPages(k))}
          /\ \A i \in GoodPages(k) :
               out[Cardinality(GoodPages(i)) \div ModCount][Cardinality(GoodPages(i)) % ModCount] = <<1, i>>
    BY <1>3 DEF Foldered, First
  <2> QED
    BY <2>1 DEF Foldered
<1> QED
  BY <1>2, <1>3, <1>4, <1>5, <1>6, <1>7, <1>8 DEF DealInv

LEMMA OpeningDeals ==
  ASSUME LoopInv, EmplaceFile \/ OpenFiles
  PROVE  DealInv'
<1>1. CASE EmplaceFile
  BY <1>1 DEF EmplaceFile, DealInv
<1>2. CASE OpenFiles
  <2>1. k' = 0 /\ out' = out /\ job' = job /\ status = "opening"
    BY <1>2 DEF OpenFiles
  <2>2. DOMAIN out = 0 .. MaxTargets - 1 /\ job.tool = "splitToFiles" /\ \A t \in DOMAIN out : out[t] = <<>>
    BY <2>1 DEF LoopInv
  <2>3. Dealt(k)'
    <3>1. First(k)' = {} /\ 0 .. MaxFiles - 1 \subseteq DOMAIN out
      BY <2>1, <2>2, ToolConstants DEF First
    <3>2. \A t \in DOMAIN out : Lists(out[t], {})
      BY <2>2, NoneListed
    <3> QED
      BY <2>1, <3>1, <3>2 DEF Dealt
  <2> QED
    BY <2>1, <2>2, <2>3 DEF DealInv
<1> QED
  BY <1>1, <1>2

DealingTools == {"splitToFiles", "splitByPages", "splitByPage", "saveOnlyWithID", "saveByPageNumber",
                 "createManyExcelFiles", "replaceBadMarkerToNulls"}

LEMMA DealSteps == LoopInv /\ DealInv /\ [BlockNext]_toolVars => DealInv'
<1> SUFFICES ASSUME LoopInv, DealInv, [BlockNext]_toolVars PROVE DealInv'
  OBVIOUS
<1>1. CASE UNCHANGED toolVars
  <2>1. CASE status = "opening"
    BY <1>1, <2>1 DEF toolVars, DealInv
  <2>2. CASE status # "opening"
    BY <1>1, <2>2, QuietDeals DEF toolVars
  <2> QED
    BY <2>1, <2>2
<1>2. CASE EndsByException \/ LoopEnds
  <2>1. CASE job.tool \in OfAFolder
    <3>1. job' = job
      BY <1>2 DEF EndsByException, LoopEnds
    <3> QED
      BY <2>1, <3>1 DEF DealInv, OfAFolder
  <2>2. CASE job.tool \notin OfAFolder
    <3>1. UNCHANGED <<job, out, memo, k>> /\ status = "running"
      BY <1>2, <2>2 DEF EndsByException, LoopEnds, OfAFolder
    <3> QED
      BY <3>1, QuietDeals
  <2> QED
    BY <2>1, <2>2
<1>3. CASE splitToFiles
  BY <1>3, SplitStep, OtherTools DEF DealInv
<1>4. CASE splitByPages
  BY <1>4, InTurnStep, OtherTools DEF DealInv
<1>5. CASE splitByPage
  BY <1>5, DoubledStep, OtherTools DEF DealInv
<1>6. CASE saveOnlyWithID
  BY <1>6, SelectedStep, OtherTools DEF DealInv
<1>7. CASE saveByPageNumber
  BY <1>7, FollowedStep, OtherTools DEF DealInv
<1>8. CASE createManyExcelFiles
  BY <1>8, FolderedStep, OtherTools DEF DealInv
<1>9. CASE replaceBadMarkerToNulls
  BY <1>9, NulledStep, OtherTools DEF DealInv
<1>10. CASE EmplaceFile \/ OpenFiles
  BY <1>10, OpeningDeals
<1>11. CASE job' = job /\ job.tool \notin DealingTools
  BY <1>11 DEF DealInv, DealingTools
<1>12. \/ UNCHANGED toolVars \/ EndsByException \/ LoopEnds
       \/ splitToFiles \/ splitByPages \/ splitByPage \/ saveOnlyWithID \/ saveByPageNumber
       \/ createManyExcelFiles \/ replaceBadMarkerToNulls \/ EmplaceFile \/ OpenFiles
       \/ job' = job /\ job.tool \notin DealingTools
  BY OtherTools DEF BlockNext, DealingTools
<1> QED
  BY <1>1, <1>2, <1>3, <1>4, <1>5, <1>6, <1>7, <1>8, <1>9, <1>10, <1>11, <1>12

\* When the tool has ended, all pages have been dealt.
LEMMA DealEnds == LoopInv /\ DealInv => PagesToTheirTargets
<1> SUFFICES ASSUME LoopInv, DealInv, Ended PROVE PagesToTheirTargets
  BY DEF PagesToTheirTargets, Is
<1>1. status # "opening"
  BY DEF Ended
<1>2. job.tool \in DealingTools => k = Len(Pages)
  BY DEF LoopInv, OnePage, DealingTools, NoPlace
<1>3. CASE job.tool \in DealingTools
  <2>1. k = Len(Pages)
    BY <1>2, <1>3
  <2> QED
    BY <1>1, <2>1 DEF PagesToTheirTargets, DealInv, Is
<1>4. CASE job.tool \notin DealingTools
  BY <1>4 DEF PagesToTheirTargets, Is, DealingTools
<1> QED
  BY <1>3, <1>4

-----------------------------------------------------------------------------
(* Least and greatest numbers                                               *)

\* Least elements exist, and so do greatest ones of a bounded set.
LessThan == {ss \in Nat \X Nat : ss[1] < ss[2]}
LEMMA LeastElement ==
  ASSUME NEW S \in SUBSET Nat, S # {}
  PROVE  Min(S) \in S /\ \A n \in S : Min(S) <= n
<1>1. OpToRel(<, Nat) = LessThan
  BY Zenon DEF OpToRel, LessThan
<1>2. IsWellFoundedOn(LessThan, Nat)
  BY <1>1, NatLessThanWellFounded, Zenon
<1>3. \E m \in S : \A n \in S : <<n, m>> \notin LessThan
  BY <1>2, WFMin
<1>4. PICK m \in S : \A n \in S : <<n, m>> \notin LessThan
  BY <1>3
<1>5. ASSUME NEW n \in S PROVE m <= n
  <2>1. <<n, m>> \in Nat \X Nat /\ ~(n < m)
    BY <1>4 DEF LessThan
  <2> QED
    BY <2>1
<1> QED
  BY <1>5 DEF Min

LEMMA GreatestElement ==
  ASSUME NEW S \in SUBSET Nat, S # {}, NEW b \in Nat, \A n \in S : n <= b
  PROVE  Max(S) \in S /\ \A n \in S : n <= Max(S)
<1> DEFINE T == {b - n : n \in S}
<1>1. T \in SUBSET Nat /\ T # {}
  <2>1. \A n \in S : b - n \in Nat
    OBVIOUS
  <2> QED
    BY <2>1
<1>2. Min(T) \in T /\ \A n \in T : Min(T) <= n
  BY <1>1, LeastElement
<1>3. PICK m \in S : Min(T) = b - m
  BY <1>2
<1>4. \A n \in S : n <= m
  <2>1. ASSUME NEW n \in S PROVE n <= m
    <3>1. b - n \in T
      OBVIOUS
    <3>2. b - m <= b - n
      BY <1>2, <1>3, <3>1
    <3> QED
      BY <3>2
  <2> QED
    BY <2>1
<1>5. \E x \in S : \A y \in S : x >= y
  BY <1>4
<1>6. Max(S) \in S /\ \A y \in S : Max(S) >= y
  BY <1>5 DEF Max
<1> QED
  BY <1>6

\* The only one that is least is the least.
LEMMA LeastIs ==
  ASSUME NEW S \in SUBSET Nat, NEW m \in S, \A n \in S : m <= n
  PROVE  Min(S) = m
<1>1. Min(S) \in S /\ Min(S) <= m
  BY LeastElement
<1>2. m <= Min(S) /\ Min(S) \in Nat /\ m \in Nat
  BY <1>1
<1> QED
  BY <1>1, <1>2

\* Of finitely many numbers one is the greatest.
LEMMA GreatestAt ==
  ASSUME NEW l \in Nat, NEW f \in [1 .. l -> Nat], NEW S \in SUBSET (1 .. l), S # {}
  PROVE  \E i \in S : \A j \in S : f[j] <= f[i]
<1> DEFINE unbounded == {m \in 0 .. l : ~ \E b \in Nat : \A j \in 1 .. m : f[j] <= b}
<1>1. unbounded = {}
  <2> SUFFICES ASSUME unbounded # {} PROVE FALSE
    OBVIOUS
  <2>1. unbounded \in SUBSET Nat
    OBVIOUS
  <2>2. PICK m : m = Min(unbounded)
    OBVIOUS
  <2>3. m \in unbounded /\ \A n \in unbounded : m <= n
    BY <2>1, <2>2, LeastElement
  <2>4. m \in Nat /\ m <= l
    BY <2>3
  <2>5. \A b \in Nat : \E j \in 1 .. m : ~ (f[j] <= b)
    BY <2>3
  <2>6. m # 0
    BY <2>5
  <2>7. m - 1 \in 0 .. l /\ m \in 1 .. l
    BY <2>4, <2>6
  <2>8. m - 1 \notin unbounded
    <3> HIDE DEF unbounded
    <3> QED
      BY <2>3, <2>4
  <2>9. PICK b \in Nat : \A j \in 1 .. m - 1 : f[j] <= b
    BY <2>7, <2>8
  <2> HIDE DEF unbounded
  <2>10. PICK x \in Nat : x = f[m]
    BY <2>7
  <2>11. PICK c \in Nat : b <= c /\ x <= c
    <3>1. b + x \in Nat /\ b <= b + x /\ x <= b + x
      OBVIOUS
    <3> QED
      BY <3>1
  <2>12. ASSUME NEW j \in 1 .. m PROVE f[j] <= c
    <3>1. CASE j = m
      BY <2>10, <2>11, <3>1
    <3>2. CASE j # m
      <4>1. j \in 1 .. m - 1 /\ j \in 1 .. l
        BY <2>4, <3>2
      <4>2. PICK y \in Nat : y = f[j]
        BY <4>1
      <4>3. y <= b
        BY <2>9, <4>1, <4>2
      <4> QED
        BY <2>11, <4>2, <4>3
    <3> QED
      BY <3>1, <3>2
  <2> QED
    BY <2>5, <2>12
<1>2. PICK b \in Nat : \A j \in 1 .. l : f[j] <= b
  <2>1. l \in 0 .. l
    OBVIOUS
  <2> QED
    BY <1>1, <2>1
<1> DEFINE T == {f[j] : j \in S}
<1>3. T \in SUBSET Nat /\ T # {} /\ \A n \in T : n <= b
  BY <1>2
<1>4. Max(T) \in T /\ \A n \in T : n <= Max(T)
  BY <1>3, GreatestElement
<1>5. PICK i \in S : Max(T) = f[i]
  BY <1>4
<1> QED
  BY <1>4, <1>5

-----------------------------------------------------------------------------
(* What the repairing tools leave                                           *)

\* Cells put behind all that a target has.
LEMMA AddsBlock ==
  ASSUME NEW p, NEW t \in DOMAIN p, NEW n \in Nat, NEW c \in Nat, DOMAIN p[t] = First(n),
         NEW cells, DOMAIN cells = 1 .. c, Len(cells) = c
  PROVE  PutAll(p, t, n, cells)[t] = [x \in First(n + c) |-> IF x < n THEN p[t][x] ELSE cells[x - n + 1]]
<1>1. First(n) \cup (n .. n + c - 1) = First(n + c)
  BY DEF First
<1>2. \A x \in First(n + c) : x - n + 1 \in 1 .. c <=> ~ (x < n)
  BY DEF First
<1>3. PutAll(p, t, n, cells)[t] =
        [x \in First(n + c) |-> IF x - n + 1 \in 1 .. c THEN cells[x - n + 1] ELSE p[t][x]]
  <2>1. PutAll(p, t, n, cells)[t] =
          [x \in DOMAIN p[t] \cup (n .. n + Len(cells) - 1) |->
             IF x - n + 1 \in DOMAIN cells THEN cells[x - n + 1] ELSE p[t][x]]
    BY DEF PutAll
  <2> QED
    BY <1>1, <2>1
<1> QED
  BY <1>2, <1>3

\* A turn of a tool with two sources.
LEMMA TurnOfTwo ==
  ASSUME LoopInv, NEW tool, tool \notin OfAFolder, NEW n, NEW o, NEW m, Turn(tool, n, o, m)
  PROVE  /\ status = "running" /\ status' = status /\ job.tool = tool /\ job' = job /\ file = 1 /\ file' = file
         /\ k \in Nat /\ k' = k + n /\ out' = o /\ memo' = m /\ k < Len(Pages) /\ k + n <= Len(Pages)
         /\ Pages = Source(1) /\ Len(Source(1)) \in Nat
         /\ 0 \in DOMAIN out /\ Block \in Nat \ {0}
         /\ tool \in OfTwo => Len(Source(2)) \in Nat
         /\ (\A c : At(c)' = At(c)) /\ \A f : Source(f)' = Source(f)
<1>1. /\ status = "running" /\ status' = status /\ job.tool = tool /\ job' = job /\ file = 1 /\ file' = file
      /\ k \in Nat /\ k' = k + n /\ out' = o /\ memo' = m /\ k < Len(Pages) /\ k + n <= Len(Pages)
  BY DEF Turn, Runs, LoopInv, Whole
<1>2. Pages = Source(1) /\ Len(Source(1)) \in Nat /\ (tool \in OfTwo => Len(Source(2)) \in Nat)
  BY <1>1, JobFiles DEF Pages, LoopInv
<1>3. \A f : Source(f)' = Source(f)
  BY <1>1 DEF Source
<1>4. \A c : At(c)' = At(c)
  BY <1>3 DEF At
<1>5. 0 \in DOMAIN out
  <2>1. DOMAIN out = 0 .. MaxTargets - 1
    BY DEF LoopInv
  <2> QED
    BY <2>1, ToolConstants
<1> QED
  BY <1>1, <1>2, <1>3, <1>4, <1>5, ToolConstants

\* The other file's sectors reach as far as it does.
LEMMA Compared ==
  ASSUME LoopInv, file = 1, job.tool \in OfTwo, NEW i \in Nat, i < Clipped(1)
  PROVE  i < cmp_bytes <=> k + i < Len(Source(2))
<1>1. /\ 1 \in DOMAIN job.files /\ 2 \in DOMAIN job.files /\ k \in Nat /\ Block \in Nat \ {0}
      /\ Len(Source(1)) \in Nat /\ Len(Source(2)) \in Nat
  BY JobFiles, ToolConstants DEF LoopInv
<1>2. PICK a, b, l, h : a = Clipped(1) /\ b = Clipped(2) /\ l = Len(Source(1)) /\ h = Len(Source(2))
  OBVIOUS
<1>3. /\ a \in Int /\ b \in Int /\ l \in Nat /\ h \in Nat
      /\ a = IF Block <= l - k THEN Block ELSE l - k
      /\ b = IF Block <= h - k THEN Block ELSE h - k
  BY <1>1, <1>2, Clips
<1>4. cmp_bytes = IF k < h THEN IF a <= b THEN a ELSE b ELSE 0
  BY <1>2, <1>3, MinOfTwo DEF cmp_bytes
<1>5. i < (IF k < h THEN IF a <= b THEN a ELSE b ELSE 0) <=> k + i < h
  <2>1. i < a
    BY <1>2
  <2> QED
    BY ONLY <1>1, <1>3, <2>1, i \in Nat
<1> QED
  BY <1>2, <1>4, <1>5

LEMMA RepairedStep ==
  ASSUME LoopInv, RepairInv, replaceBadsFromOtherFile
  PROVE  Repaired(k)'
<1> DEFINE cells == [i \in 1 .. Clipped(1) |-> Replaced(i - 1)]
           cell(x) == IF ~ At(<<1, x>>).good /\ x \in Numbers(2) THEN <<2, x>> ELSE <<1, x>>
<1>1. Turn("replaceBadsFromOtherFile", Clipped(1), PutAll(out, 0, Cardinality(DOMAIN out[0]), cells), memo)
  BY DEF replaceBadsFromOtherFile
<1>2. "replaceBadsFromOtherFile" \notin OfAFolder /\ "replaceBadsFromOtherFile" \in OfTwo
  BY DEF OfAFolder, OfTwo
<1>3. /\ job.tool = "replaceBadsFromOtherFile" /\ file = 1 /\ k \in Nat /\ k' = k + Clipped(1)
      /\ out' = PutAll(out, 0, Cardinality(DOMAIN out[0]), cells) /\ k < Len(Source(1))
      /\ Pages = Source(1) /\ Len(Source(1)) \in Nat /\ Len(Source(2)) \in Nat
      /\ 0 \in DOMAIN out /\ Block \in Nat \ {0} /\ (\A c : At(c)' = At(c)) /\ \A f : Source(f)' = Source(f)
  BY <1>1, <1>2, TurnOfTwo
<1>4. PICK c \in Nat : c = Clipped(1)
  <2>1. 1 \in DOMAIN job.files
    BY JobFiles DEF LoopInv
  <2> QED
    BY <1>3, <2>1, Clips
<1>5. out[0] = [x \in First(k) |-> cell(x)]
  BY <1>3 DEF RepairInv, Repaired
<1>6. Cardinality(DOMAIN out[0]) = k /\ DOMAIN out[0] = First(k)
  BY <1>3, <1>5, Numbered
<1>7. \A i \in 1 .. c : cells[i] = Replaced(i - 1)
  BY <1>4
<1>8. DOMAIN cells = 1 .. c /\ Len(cells) = c
  BY <1>4
<1> HIDE DEF cells, cell
<1>9. out'[0] = [x \in First(k + c) |-> IF x < k THEN out[0][x] ELSE cells[x - k + 1]]
  BY <1>3, <1>6, <1>8, AddsBlock
<1>10. ASSUME NEW x \in First(k + c) PROVE (IF x < k THEN out[0][x] ELSE cells[x - k + 1]) = cell(x)
  <2>1. CASE x < k
    <3>1. x \in First(k)
      BY <1>3, <1>10, <2>1 DEF First
    <3> QED
      BY <1>5, <2>1, <3>1
  <2>2. CASE ~ (x < k)
    <3>1. PICK i \in Nat : i = x - k /\ i < c
      BY <1>3, <1>10, <2>2 DEF First
    <3>2. cells[x - k + 1] = Replaced(i)
      <4>1. x - k + 1 \in 1 .. c /\ (x - k + 1) - 1 = i
        BY <1>3, <1>10, <2>2, <3>1 DEF First
      <4> QED
        BY <1>7, <4>1
    <3>3. k + i = x /\ x \in Nat
      BY <1>3, <1>10, <3>1 DEF First
    <3>4. i < cmp_bytes <=> x \in Numbers(2)
      <4>1. i < cmp_bytes <=> k + i < Len(Source(2))
        BY <1>2, <1>3, <1>4, <3>1, Compared
      <4> QED
        BY <1>3, <3>3, <4>1 DEF Numbers
    <3>5. At(<<1, x>>) = Pages[k + i + 1]
      BY <1>3, <3>3 DEF At
    <3>6. Replaced(i) = cell(x)
      BY <3>3, <3>4, <3>5 DEF Replaced, cell
    <3> QED
      BY <2>2, <3>2, <3>6
  <2> QED
    BY <2>1, <2>2
<1>11. out'[0] = [x \in First(k + c) |-> cell(x)]
  BY <1>9, <1>10
<1>12. First(k)' = First(k + c) /\ Numbers(2)' = Numbers(2)
  BY <1>3, <1>4 DEF First, Numbers
<1> QED
  BY <1>3, <1>11, <1>12 DEF Repaired, cell

-----------------------------------------------------------------------------
(* The markers of the pages in a block                                      *)

LEMMA TwoOf ==
  ASSUME NEW S, IsFiniteSet(S)
  PROVE  Cardinality(S) > 1 <=> \E a, b \in S : a # b
<1>1. ASSUME Cardinality(S) > 1 PROVE \E a, b \in S : a # b
  <2>1. Cardinality({}) = 0
    BY FS_EmptySet
  <2>2. PICK a \in S : TRUE
    BY <1>1, <2>1
  <2>3. Cardinality({a}) = 1
    BY FS_Singleton
  <2>4. S # {a}
    BY <1>1, <2>3
  <2>5. PICK b \in S : b # a
    BY <2>2, <2>4
  <2> QED
    BY <2>5
<1>2. ASSUME NEW a \in S, NEW b \in S, a # b PROVE Cardinality(S) > 1
  <2>1. IsFiniteSet({a}) /\ Cardinality({a}) = 1
    BY FS_Singleton
  <2>2. IsFiniteSet({a} \cup {b}) /\ Cardinality({a} \cup {b}) = 2
    <3>1. b \notin {a}
      BY <1>2
    <3>2. Cardinality({a} \cup {b}) = Cardinality({a}) + 1 /\ IsFiniteSet({a} \cup {b})
      BY <2>1, <3>1, FS_AddElement, Zenon
    <3> QED
      BY <2>1, <3>2
  <2>3. {a} \cup {b} \subseteq S
    BY <1>2
  <2>4. Cardinality({a} \cup {b}) <= Cardinality(S) /\ Cardinality(S) \in Nat
    BY <2>3, FS_Subset, FS_CardinalityType
  <2> QED
    BY <2>2, <2>4
<1> QED
  BY <1>1, <1>2

\* Where the loop is at the first page of a block, the block is what it reads.
LEMMA BlockAhead ==
  ASSUME NEW n \in Nat, n % Block = 0
  PROVE  /\ \A x \in First(n) : SameBlock(x, n + Block) = SameBlock(x, n)
         /\ \A x \in n .. n + Block - 1 : SameBlock(x, n + Block) = n .. n + Block - 1
<1>1. Block \in Nat \ {0}
  BY ToolConstants
<1>2. PICK q \in Nat : n = q * Block
  BY <1>1, Multiple
<1>3. ASSUME NEW i \in First(n + Block) PROVE i \div Block = q <=> i >= n
  <2>1. i \in Nat /\ i < n + Block
    BY <1>1, <1>3 DEF First
  <2>2. CASE i >= n
    <3>1. PICK j \in 0 .. Block - 1 : i = q * Block + j
      <4>1. i - n \in 0 .. Block - 1 /\ i = n + (i - n)
        BY <1>1, <2>1, <2>2
      <4> QED
        BY <1>2, <4>1
    <3>2. (q * Block + j) \div Block = q
      BY <1>1, Quotient
    <3> QED
      BY <2>2, <3>1, <3>2
  <2>3. CASE i < n
    <3>1. i \div Block \in Nat /\ i % Block \in 0 .. Block - 1 /\ i = Block * (i \div Block) + (i % Block)
      BY <1>1, <2>1, Division
    <3>2. PICK d, m : d = i \div Block /\ m = i % Block
      OBVIOUS
    <3>3. d \in Nat /\ m \in Nat /\ i = Block * d + m
      BY <3>1, <3>2
    <3>4. d # q
      <4>1. SUFFICES ASSUME d = q PROVE FALSE
        OBVIOUS
      <4>2. Block * d = n
        BY <1>1, <1>2, <3>3, <4>1
      <4> QED
        BY <2>3, <3>3, <4>2
    <3> QED
      BY <2>1, <2>3, <3>2, <3>4
  <2> QED
    BY <2>1, <2>2, <2>3
<1>4. First(n) \subseteq First(n + Block) /\ \A x \in First(n) : x < n
      /\ \A i \in First(n + Block) : i < n => i \in First(n)
  BY <1>1 DEF First
<1>5. ASSUME NEW x \in First(n) PROVE SameBlock(x, n + Block) = SameBlock(x, n)
  <2>1. x \div Block # q
    <3>1. x \in First(n + Block) /\ x < n /\ x \in Nat
      BY <1>4, <1>5 DEF First
    <3> QED
      BY <1>3, <3>1
  <2>2. \A i \in First(n + Block) : i \div Block = x \div Block => i \in First(n)
    <3>1. \A i \in First(n + Block) : i \in Nat
      BY DEF First
    <3> QED
      BY <1>3, <1>4, <2>1, <3>1
  <2> QED
    BY <1>4, <2>2 DEF SameBlock
<1>6. ASSUME NEW x \in n .. n + Block - 1 PROVE SameBlock(x, n + Block) = n .. n + Block - 1
  <2>1. x \in First(n + Block) /\ x >= n
    BY <1>1, <1>6 DEF First
  <2>2. x \div Block = q
    BY <1>3, <2>1
  <2>3. SameBlock(x, n + Block) = {i \in First(n + Block) : i >= n}
    BY <1>3, <2>2 DEF SameBlock
  <2>4. {i \in First(n + Block) : i >= n} = n .. n + Block - 1
    BY <1>1 DEF First
  <2> QED
    BY <2>3, <2>4
<1> QED
  BY <1>5, <1>6

\* calcPopularValue finds the one marker that a block shares.
LEMMA Popular ==
  ASSUME LoopInv, file = 1, k + Block <= Len(Pages),
         NEW id \in 1 .. NoId - 1, Shared(k .. k + Block - 1, id)
  PROVE  calcPopularValue = id
<1>1. k \in Nat /\ Block \in Nat \ {0} /\ Pages = Source(1)
  BY ToolConstants DEF LoopInv, Pages
<1> DEFINE B == k .. k + Block - 1
           V(v) == {i \in 1 .. Block : Pages[k + i].id = v}
<1>2. \A i \in 1 .. Block : k + i - 1 \in B /\ IdAt(k + i - 1) = Pages[k + i].id
  <2>1. ASSUME NEW i \in 1 .. Block PROVE k + i - 1 \in B /\ IdAt(k + i - 1) = Pages[k + i].id
    <3>1. k + i - 1 \in B /\ (k + i - 1) + 1 = k + i
      BY <1>1, <2>1
    <3> QED
      BY <1>1, <3>1 DEF IdAt, At
  <2> QED
    BY <2>1
<1>3. \A x \in B : x - k + 1 \in 1 .. Block /\ IdAt(x) = Pages[k + (x - k + 1)].id
  <2>1. ASSUME NEW x \in B PROVE x - k + 1 \in 1 .. Block /\ IdAt(x) = Pages[k + (x - k + 1)].id
    <3>1. x - k + 1 \in 1 .. Block /\ k + (x - k + 1) = x + 1
      BY <1>1, <2>1
    <3> QED
      BY <1>1, <3>1 DEF IdAt, At
  <2> QED
    BY <2>1
<1>4. \A v : IsFiniteSet(V(v))
  <2>1. IsFiniteSet(1 .. Block)
    <3>1. 1 \in Int /\ Block \in Int
      BY <1>1
    <3> QED
      BY <3>1, FS_Interval
  <2>2. \A v : V(v) \subseteq 1 .. Block
    OBVIOUS
  <2> QED
    BY <2>1, <2>2, FS_Subset
<1>5. IsFiniteSet(WithId(B, id))
  <2>1. IsFiniteSet(B)
    BY <1>1, FS_Interval
  <2>2. WithId(B, id) \subseteq B
    BY DEF WithId
  <2> QED
    BY <2>1, <2>2, FS_Subset
<1>6. PICK x, y \in WithId(B, id) : x # y
  <2>1. Cardinality(WithId(B, id)) > 1
    BY DEF Shared
  <2> QED
    BY <1>5, <2>1, TwoOf
<1>7. x \in B /\ y \in B /\ IdAt(x) = id /\ IdAt(y) = id
  BY <1>6 DEF WithId, IdAt
<1>8. \A i, j \in B : IdAt(i) # id /\ IdAt(j) # id /\ i # j => IdAt(i) # IdAt(j)
  BY DEF Shared, WithId, IdAt
<1> HIDE DEF B, V
<1>9. id \in Twice
  <2>1. x - k + 1 \in V(id) /\ y - k + 1 \in V(id)
    BY <1>3, <1>7 DEF V
  <2>2. x - k + 1 # y - k + 1
    BY <1>1, <1>6, <1>7 DEF B
  <2>3. Cardinality(V(id)) > 1
    BY <1>4, <2>1, <2>2, TwoOf
  <2>4. id \in {Pages[k + i].id : i \in 1 .. Block} \ {NoId}
    <3>1. id # NoId
      BY DEF NoId
    <3> QED
      BY <1>3, <1>7, <3>1
  <2> QED
    BY <2>3, <2>4 DEF Twice, V
<1>10. ASSUME NEW v \in Twice PROVE v = id
  <2>1. Cardinality(V(v)) > 1
    BY <1>10 DEF Twice, V
  <2>2. PICK i, j \in V(v) : i # j
    BY <1>4, <2>1, TwoOf
  <2>3. i \in 1 .. Block /\ j \in 1 .. Block /\ Pages[k + i].id = v /\ Pages[k + j].id = v
    BY <2>2 DEF V
  <2>4. /\ k + i - 1 \in B /\ k + j - 1 \in B
        /\ IdAt(k + i - 1) = v /\ IdAt(k + j - 1) = v
    BY <1>2, <2>3
  <2>5. k + i - 1 # k + j - 1
    BY <1>1, <2>2, <2>3
  <2> QED
    BY <1>8, <2>4, <2>5
<1>11. Twice = {id}
  BY <1>9, <1>10
<1>12. Max({id}) = id
  BY DEF Max
<1> QED
  BY <1>11, <1>12 DEF calcPopularValue

\* It is the largest of those that come twice, 0 if none does.
LEMMA PopularIsLargest ==
  ASSUME LoopInv, file = 1, k + Block <= Len(Pages)
  PROVE  /\ calcPopularValue \in Repeated(k .. k + Block - 1) \cup {0}
         /\ \A id \in Repeated(k .. k + Block - 1) : id <= calcPopularValue
<1>1. k \in Nat /\ Block \in Nat \ {0} /\ Pages = Source(1) /\ Len(Pages) \in Nat /\ 1 \in DOMAIN job.files
  BY ToolConstants, JobFiles DEF LoopInv, Pages
<1> DEFINE B == k .. k + Block - 1
           V(v) == {i \in 1 .. Block : Pages[k + i].id = v}
           f == [i \in 1 .. Block |-> Pages[k + i].id]
<1>2. \A i \in 1 .. Block : k + i - 1 \in B /\ IdAt(k + i - 1) = Pages[k + i].id /\ Pages[k + i].id \in Nat
  <2>1. ASSUME NEW i \in 1 .. Block
        PROVE  k + i - 1 \in B /\ IdAt(k + i - 1) = Pages[k + i].id /\ Pages[k + i].id \in Nat
    <3>1. k + i - 1 \in B /\ (k + i - 1) + 1 = k + i /\ k + i - 1 \in 0 .. Len(Pages) - 1
      BY <1>1, <2>1
    <3>2. Source(1)[(k + i - 1) + 1].id \in Nat
      BY <1>1, <3>1, PageTypes DEF LoopInv
    <3> QED
      BY <1>1, <3>1, <3>2 DEF IdAt, At
  <2> QED
    BY <2>1
<1>3. \A x \in B : x - k + 1 \in 1 .. Block /\ IdAt(x) = Pages[k + (x - k + 1)].id
  <2>1. ASSUME NEW x \in B PROVE x - k + 1 \in 1 .. Block /\ IdAt(x) = Pages[k + (x - k + 1)].id
    <3>1. x - k + 1 \in 1 .. Block /\ k + (x - k + 1) = x + 1
      BY <1>1, <2>1
    <3> QED
      BY <1>1, <3>1 DEF IdAt, At
  <2> QED
    BY <2>1
<1>4. /\ \A v : IsFiniteSet(V(v)) /\ IsFiniteSet(WithId(B, v))
      /\ \A v : V(v) \subseteq 1 .. Block /\ WithId(B, v) \subseteq B
  <2>1. IsFiniteSet(1 .. Block) /\ IsFiniteSet(B)
    <3>0. 1 \in Int /\ Block \in Int
      BY <1>1
    <3>1. IsFiniteSet(1 .. Block)
      BY <3>0, FS_Interval
    <3>2. k \in Int /\ k + Block - 1 \in Int
      BY <1>1
    <3>3. IsFiniteSet(B)
      BY <3>2, FS_Interval
    <3> QED
      BY <3>1, <3>3
  <2>2. \A v : V(v) \subseteq 1 .. Block /\ WithId(B, v) \subseteq B
    BY DEF WithId
  <2> QED
    BY <2>1, <2>2, FS_Subset
<1>5. f \in [1 .. Block -> Nat] /\ \A i \in 1 .. Block : f[i] = Pages[k + i].id
  BY <1>2
<1>6. \A v, i : i \in V(v) <=> i \in 1 .. Block /\ f[i] = v
  OBVIOUS
<1>7. \A v, x : x \in WithId(B, v) <=> x \in B /\ IdAt(x) = v
  BY DEF WithId, IdAt
<1>b. \A x, y \in B : x \in Int /\ y \in Int
  OBVIOUS
<1>v. Twice = {v \in {f[i] : i \in 1 .. Block} \ {NoId} : Cardinality(V(v)) > 1}
  BY DEF Twice
<1>r. Repeated(B) = {v \in {IdAt(x) : x \in B} \ {NoId} : Cardinality(WithId(B, v)) > 1}
  BY DEF Repeated
<1> HIDE DEF B, V, f
<1>8. ASSUME NEW v PROVE Cardinality(V(v)) > 1 <=> Cardinality(WithId(B, v)) > 1
  <2>1. ASSUME NEW i \in V(v), NEW j \in V(v), i # j PROVE \E x, y \in WithId(B, v) : x # y
    <3>1. i \in 1 .. Block /\ j \in 1 .. Block
      BY <1>6, <2>1
    <3>2. k + i - 1 # k + j - 1
      BY <1>1, <2>1, <3>1
    <3>3. k + i - 1 \in WithId(B, v) /\ k + j - 1 \in WithId(B, v)
      BY <1>2, <1>5, <1>6, <1>7, <2>1, <3>1
    <3> QED
      BY <3>2, <3>3
  <2>2. ASSUME NEW x \in WithId(B, v), NEW y \in WithId(B, v), x # y PROVE \E i, j \in V(v) : i # j
    <3>1. x \in B /\ y \in B /\ x \in Int /\ y \in Int
      BY <1>7, <1>b, <2>2
    <3>2. x - k + 1 # y - k + 1
      BY <1>1, <2>2, <3>1
    <3>3. x - k + 1 \in V(v) /\ y - k + 1 \in V(v)
      BY <1>3, <1>5, <1>6, <1>7, <2>2, <3>1
    <3> QED
      BY <3>2, <3>3
  <2>3. Cardinality(V(v)) > 1 <=> \E i, j \in V(v) : i # j
    BY <1>4, TwoOf
  <2>4. Cardinality(WithId(B, v)) > 1 <=> \E x, y \in WithId(B, v) : x # y
    BY <1>4, TwoOf
  <2> QED
    BY <2>1, <2>2, <2>3, <2>4
<1>9. {f[i] : i \in 1 .. Block} = {IdAt(x) : x \in B}
  <2>1. \A i \in 1 .. Block : \E x \in B : f[i] = IdAt(x)
    BY <1>2, <1>5
  <2>2. \A x \in B : \E i \in 1 .. Block : f[i] = IdAt(x)
    BY <1>3, <1>5
  <2> QED
    BY <2>1, <2>2
<1>10. Repeated(B) = Twice
  BY <1>8, <1>9, <1>r, <1>v
<1>11. CASE Twice = {}
  BY <1>10, <1>11 DEF calcPopularValue, B
<1>12. CASE Twice # {}
  <2> DEFINE S == {i \in 1 .. Block : f[i] \in Twice}
  <2>1. S # {} /\ S \subseteq 1 .. Block /\ \A v \in Twice : \E i \in S : v = f[i]
    BY <1>12, <1>v
  <2>2. PICK i \in S : \A j \in S : f[j] <= f[i]
    <3> HIDE DEF S
    <3> QED
      BY <1>1, <1>5, <2>1, GreatestAt
  <2>3. f[i] \in Nat /\ f[i] \in Twice /\ \A v \in Twice : v <= f[i] /\ v \in Nat
    BY <1>5, <2>1, <2>2
  <2>4. Max(Twice) \in Twice /\ \A v \in Twice : v <= Max(Twice)
    <3>1. Twice \in SUBSET Nat
      BY <2>3
    <3> QED
      BY <1>12, <2>3, <3>1, GreatestElement
  <2>5. calcPopularValue = Max(Twice)
    BY <1>12 DEF calcPopularValue
  <2> QED
    BY <1>10, <2>4, <2>5 DEF B
<1> QED
  BY <1>11, <1>12

LEMMA MarkersStep ==
  ASSUME LoopInv, RepairInv, yaffsPageNumberModify
  PROVE  MarkersAgree(k)' /\ LargestOnly(k)' /\ k' % Block = 0
<1> DEFINE cells == [i \in 1 .. Block |-> <<IF FromNext(i - 1) THEN 2 ELSE 1, k + i - 1>>]
<1>1. Turn("yaffsPageNumberModify", Block, PutAll(out, 0, k, cells), memo) /\ MayGoOn
  BY DEF yaffsPageNumberModify
<1>2. "yaffsPageNumberModify" \notin OfAFolder /\ "yaffsPageNumberModify" \in OfTwo
  BY DEF OfAFolder, OfTwo
<1>3. /\ job.tool = "yaffsPageNumberModify" /\ file = 1 /\ k \in Nat /\ k' = k + Block
      /\ out' = PutAll(out, 0, k, cells) /\ k + Block <= Len(Pages) /\ job' = job
      /\ Pages = Source(1) /\ 0 \in DOMAIN out /\ Block \in Nat \ {0} /\ (\A c : At(c)' = At(c))
  BY <1>1, <1>2, TurnOfTwo
<1>4. MarkersAgree(k) /\ LargestOnly(k) /\ k % Block = 0
  BY <1>3 DEF RepairInv
<1>5. DOMAIN out[0] = First(k)
  BY <1>4 DEF MarkersAgree
<1>6. DOMAIN cells = 1 .. Block /\ Len(cells) = Block
      /\ \A i \in 1 .. Block : cells[i] = <<IF FromNext(i - 1) THEN 2 ELSE 1, k + i - 1>>
  BY <1>3
<1> HIDE DEF cells
<1>7. out'[0] = [x \in First(k + Block) |-> IF x < k THEN out[0][x] ELSE cells[x - k + 1]]
  <2>1. /\ out' = PutAll(out, 0, k, cells) /\ 0 \in DOMAIN out /\ k \in Nat /\ Block \in Nat
        /\ DOMAIN out[0] = First(k) /\ DOMAIN cells = 1 .. Block /\ Len(cells) = Block
    BY <1>3, <1>5, <1>6
  <2> QED
    BY ONLY <2>1, AddsBlock
<1>8. (k + Block) % Block = 0
  <2>1. Block % Block = 0
    <3>1. 1 * Block = Block
      BY <1>3
    <3> QED
      BY <1>3, <3>1, Multiple
  <2> QED
    BY <1>3, <1>4, <2>1, SumOfMultiples
<1>9. /\ \A x \in First(k) : SameBlock(x, k + Block) = SameBlock(x, k)
      /\ \A x \in k .. k + Block - 1 : SameBlock(x, k + Block) = k .. k + Block - 1
  BY <1>3, <1>4, BlockAhead
<1>10. ASSUME NEW x \in First(k + Block), NEW id \in 1 .. NoId - 1, Shared(SameBlock(x, k + Block), id)
       PROVE  out'[0][x] = IF At(<<1, x>>).id # id /\ At(<<2, x>>).id = id THEN <<2, x>> ELSE <<1, x>>
  <2>1. CASE x < k
    <3>1. x \in First(k)
      BY <1>3, <1>10, <2>1 DEF First
    <3>2. Shared(SameBlock(x, k), id)
      BY <1>9, <1>10, <3>1
    <3> QED
      BY <1>4, <1>7, <2>1, <3>1, <3>2 DEF MarkersAgree
  <2>2. CASE ~ (x < k)
    <3>1. x \in k .. k + Block - 1 /\ x - k + 1 \in 1 .. Block /\ (x - k + 1) - 1 \in Nat
          /\ k + (x - k + 1) - 1 = x /\ k + ((x - k + 1) - 1) + 1 = x + 1
      BY <1>3, <1>10, <2>2 DEF First
    <3>2. calcPopularValue = id
      <4>1. Shared(k .. k + Block - 1, id)
        BY <1>9, <1>10, <3>1
      <4> QED
        BY <1>3, <4>1, Popular
    <3>3. out'[0][x] = <<IF FromNext((x - k + 1) - 1) THEN 2 ELSE 1, x>>
      BY <1>6, <1>7, <1>10, <2>2, <3>1
    <3>4. FromNext((x - k + 1) - 1) <=> At(<<1, x>>).id # id /\ At(<<2, x>>).id = id
      <4>1. FromNext((x - k + 1) - 1) <=>
              Source(1)[x + 1].id # id /\ Source(2)[x + 1].id = id
        BY <1>3, <3>1, <3>2 DEF FromNext
      <4>2. At(<<1, x>>) = Source(1)[x + 1] /\ At(<<2, x>>) = Source(2)[x + 1]
        BY DEF At
      <4> QED
        BY <4>1, <4>2
    <3> QED
      BY <3>3, <3>4
  <2> QED
    BY <2>1, <2>2
<1>11. /\ First(k)' = First(k + Block) /\ \A x : SameBlock(x, k)' = SameBlock(x, k + Block)
       /\ \A S, id : Shared(S, id)' <=> Shared(S, id)
  <2>1. \A S, id : WithId(S, id)' = WithId(S, id)
    BY <1>3 DEF WithId
  <2> QED
    BY <1>3, <2>1 DEF First, SameBlock, Shared
<1>12. DOMAIN out'[0] = First(k + Block)
  BY <1>7
<1>13. k' % Block = 0
  BY <1>3, <1>8
<1>14. MarkersAgree(k)'
  BY <1>3, <1>10, <1>11, <1>12 DEF MarkersAgree
<1>15. ASSUME NEW x \in First(k + Block), out'[0][x] # <<1, x>>
       PROVE  /\ out'[0][x] = <<2, x>> /\ IdAt(x) # At(<<2, x>>).id
              /\ At(<<2, x>>).id \in Repeated(SameBlock(x, k + Block)) \cup {0}
              /\ \A id \in Repeated(SameBlock(x, k + Block)) : id <= At(<<2, x>>).id
  <2>1. CASE x < k
    <3>1. x \in First(k) /\ SameBlock(x, k + Block) = SameBlock(x, k) /\ out'[0][x] = out[0][x]
      BY <1>3, <1>7, <1>9, <1>15, <2>1 DEF First
    <3> QED
      BY <1>4, <1>15, <3>1 DEF LargestOnly
  <2>2. CASE ~ (x < k)
    <3>1. x \in k .. k + Block - 1 /\ x - k + 1 \in 1 .. Block /\ (x - k + 1) - 1 \in Nat
          /\ k + (x - k + 1) - 1 = x /\ k + ((x - k + 1) - 1) + 1 = x + 1
      BY <1>3, <1>15, <2>2 DEF First
    <3>2. out'[0][x] = <<IF FromNext((x - k + 1) - 1) THEN 2 ELSE 1, x>>
      BY <1>6, <1>7, <1>15, <2>2, <3>1
    <3>3. FromNext((x - k + 1) - 1)
      BY <1>15, <3>2
    <3>4. Source(1)[x + 1].id # calcPopularValue /\ Source(2)[x + 1].id = calcPopularValue
      BY <1>3, <3>1, <3>3 DEF FromNext
    <3>5. IdAt(x) = Source(1)[x + 1].id /\ At(<<2, x>>).id = Source(2)[x + 1].id
      BY DEF IdAt, At
    <3>6. SameBlock(x, k + Block) = k .. k + Block - 1
      BY <1>9, <3>1
    <3>7. /\ calcPopularValue \in Repeated(k .. k + Block - 1) \cup {0}
          /\ \A id \in Repeated(k .. k + Block - 1) : id <= calcPopularValue
      BY <1>3, PopularIsLargest
    <3> QED
      BY <3>2, <3>3, <3>4, <3>5, <3>6, <3>7
  <2> QED
    BY <2>1, <2>2
<1>16. \A S : Repeated(S)' = Repeated(S)
  <2>1. \A S, id : WithId(S, id)' = WithId(S, id)
    BY <1>3 DEF WithId
  <2> QED
    BY <1>3, <2>1 DEF Repeated, IdAt
<1>17. LargestOnly(k)'
  <2>1. \A x : IdAt(x)' = IdAt(x)
    BY <1>3 DEF IdAt
  <2>2. ASSUME NEW x \in First(k)', out'[0][x] # <<1, x>>
        PROVE  /\ out'[0][x] = <<2, x>> /\ IdAt(x)' # At(<<2, x>>)'.id
               /\ At(<<2, x>>)'.id \in Repeated(SameBlock(x, k))' \cup {0}
               /\ \A id \in Repeated(SameBlock(x, k))' : id <= At(<<2, x>>)'.id
    <3>1. Repeated(SameBlock(x, k))' = Repeated(SameBlock(x, k + Block))
      <4>1. PICK S : S = SameBlock(x, k + Block)
        OBVIOUS
      <4>2. Repeated(SameBlock(x, k))' = Repeated(S)'
        BY <1>11, <4>1 DEF Repeated
      <4> QED
        BY <1>16, <4>1, <4>2
    <3>2. x \in First(k + Block) /\ At(<<2, x>>)' = At(<<2, x>>) /\ IdAt(x)' = IdAt(x)
      BY <1>3, <1>11, <2>1, <2>2
    <3> QED
      BY <1>15, <2>2, <3>1, <3>2
  <2> QED
    BY <2>2 DEF LargestOnly
<1> QED
  BY <1>13, <1>14, <1>17

-----------------------------------------------------------------------------
(* XOR                                                                      *)

LEMMA CombinedStep ==
  ASSUME LoopInv, RepairInv, Turn("xor_files", 1, Add(out, 0, {here, <<2, k>>}), memo), k < Len(Source(2))
  PROVE  Combined(k)' /\ k' <= Len(Source(2))'
<1>1. "xor_files" \notin OfAFolder /\ "xor_files" \in OfTwo
  BY DEF OfAFolder, OfTwo
<1>2. /\ job.tool = "xor_files" /\ file = 1 /\ k \in Nat /\ k' = k + 1
      /\ out' = Add(out, 0, {here, <<2, k>>}) /\ Len(Source(2)) \in Nat
      /\ 0 \in DOMAIN out /\ \A f : Source(f)' = Source(f)
  BY <1>1, TurnOfTwo
<1>3. here = <<1, k>>
  BY <1>2 DEF here
<1>4. out[0] = [x \in First(k) |-> {<<1, x>>, <<2, x>>}]
  BY <1>2 DEF RepairInv, Combined
<1>5. First(k)' = First(k + 1) /\ First(k + 1) = First(k) \cup {k}
  BY <1>2, Numbered DEF First
<1>6. out'[0] = [x \in First(k + 1) |-> {<<1, x>>, <<2, x>>}]
  <2>1. DOMAIN out[0] = First(k) /\ out' = Put(out, 0, k, {<<1, k>>, <<2, k>>})
    BY <1>2, <1>3, <1>4, AddsAtEnd
  <2>2. out'[0] = [x \in First(k + 1) |-> IF x = k THEN {<<1, k>>, <<2, k>>} ELSE out[0][x]]
    BY <1>2, <1>5, <2>1 DEF Put
  <2>3. \A x \in First(k + 1) :
          (IF x = k THEN {<<1, k>>, <<2, k>>} ELSE out[0][x]) = {<<1, x>>, <<2, x>>}
    BY <1>4, <1>5
  <2> QED
    BY <2>2, <2>3
<1>7. k' <= Len(Source(2))'
  BY <1>2
<1> QED
  BY <1>5, <1>6, <1>7 DEF Combined

\* The second file repeats with the blocks if a block holds it a number of times.
LEMMA Repeats ==
  ASSUME NEW a \in Nat, NEW b \in Nat \ {0}, NEW l \in Nat \ {0}, a % b = 0, b % l = 0, NEW i \in Nat
  PROVE  (a + i) % l = i % l
<1>1. PICK p \in Nat : a = p * b
  BY Multiple
<1>2. PICK q \in Nat : b = q * l
  BY Multiple
<1>3. i \div l \in Nat /\ i % l \in 0 .. l - 1 /\ i = l * (i \div l) + (i % l)
  BY Division
<1>4. PICK d, m : d = i \div l /\ m = i % l
  OBVIOUS
<1>5. d \in Nat /\ m \in 0 .. l - 1 /\ i = l * d + m
  BY <1>3, <1>4
<1>6. a = (p * q) * l /\ p * q \in Nat
  BY <1>1, <1>2
<1>7. PICK r \in Nat : r = p * q
  BY <1>6
<1>8. r * l + d * l = (r + d) * l /\ l * d = d * l
  BY <1>5, <1>7
<1>9. a + i = (r + d) * l + m
  BY <1>5, <1>6, <1>7, <1>8
<1>10. ((r + d) * l + m) % l = m
  <2>1. r + d \in Nat
    BY <1>5, <1>7
  <2> QED
    BY <1>5, <2>1, Quotient
<1> QED
  BY <1>4, <1>9, <1>10

LEMMA WithBlockStep ==
  ASSUME LoopInv, RepairInv, xorWithBlock
  PROVE  BlockCombined'
<1> DEFINE old == IF memo = <<>> THEN [i \in 1 .. Block |-> {}] ELSE memo
           new == [i \in 1 .. Block |-> XorCell(i - 1, Clipped(1), old)]
<1>1. Turn("xorWithBlock", Clipped(1), PutAll(out, 0, k, new), new)
  BY DEF xorWithBlock
<1>2. "xorWithBlock" \notin OfAFolder /\ "xorWithBlock" \in OfTwo
  BY DEF OfAFolder, OfTwo
<1>3. /\ job.tool = "xorWithBlock" /\ file = 1 /\ k \in Nat /\ k' = k + Clipped(1)
      /\ out' = PutAll(out, 0, k, new) /\ memo' = new /\ k < Len(Source(1)) /\ job' = job
      /\ Len(Source(1)) \in Nat /\ 0 \in DOMAIN out /\ Block \in Nat \ {0}
      /\ \A f : Source(f)' = Source(f)
  BY <1>1, <1>2, TurnOfTwo
<1>4. PICK l : l = Len(Source(2))
  OBVIOUS
<1>5. l \in Nat \ {0}
  <2>1. Source(2) \in Seq(Page)
    BY <1>2, <1>3, JobFiles DEF LoopInv
  <2>2. Source(2) # <<>>
    BY <1>3, JobsAssumption DEF LoopInv, Source
  <2> QED
    BY <1>4, <2>1, <2>2
<1>6. PICK n : n = Clipped(1)
  OBVIOUS
<1>7. n \in Nat /\ n <= Block /\ (n = Block \/ k + n = Len(Source(1)))
  <2>1. 1 \in DOMAIN job.files
    BY JobFiles DEF LoopInv
  <2>2. n = IF Block <= Len(Source(1)) - k THEN Block ELSE Len(Source(1)) - k
    BY <1>6, <2>1, Clips
  <2> QED
    BY <1>3, <2>2
<1>8. /\ CombinedWithBlock(k) /\ k % Block = 0 /\ DOMAIN out[0] = First(k)
      /\ k > 0 => memo # <<>> /\ k >= Block /\ \A i \in First(Block) : memo[i + 1] = out[0][k - Block + i]
  BY <1>3 DEF RepairInv, BlockCombined
<1>9. \A i \in First(Block) :
        new[i + 1] = IF i < n THEN {<<1, k + i>>, <<2, i % l>>} ELSE old[i + 1]
  <2>1. ASSUME NEW i \in First(Block)
        PROVE  new[i + 1] = IF i < n THEN {<<1, k + i>>, <<2, i % l>>} ELSE old[i + 1]
    <3>1. i + 1 \in 1 .. Block /\ (i + 1) - 1 = i
      BY <1>3, <2>1 DEF First
    <3>2. new[i + 1] = XorCell(i, n, old)
      BY <1>6, <3>1
    <3> QED
      BY <1>4, <3>2 DEF XorCell
  <2> QED
    BY <2>1
<1>10. DOMAIN new = 1 .. Block /\ Len(new) = Block
  BY <1>3
<1>11. memo # <<>> => old = memo
  OBVIOUS
<1> HIDE DEF old, new
<1>12. out'[0] = [x \in First(k + Block) |-> IF x < k THEN out[0][x] ELSE new[x - k + 1]]
  <2>1. /\ out' = PutAll(out, 0, k, new) /\ 0 \in DOMAIN out /\ k \in Nat /\ Block \in Nat
        /\ DOMAIN out[0] = First(k) /\ DOMAIN new = 1 .. Block /\ Len(new) = Block
    BY <1>3, <1>8, <1>10
  <2> QED
    BY ONLY <2>1, AddsBlock
<1>13. PICK g, f : g = out'[0] /\ f = out[0]
  OBVIOUS
<1>14. /\ DOMAIN g = First(k + Block)
       /\ \A x \in First(k) : x \in First(k + Block) /\ g[x] = f[x]
       /\ \A i \in First(Block) : k + i \in First(k + Block) /\ g[k + i] = new[i + 1]
  <2>1. DOMAIN g = First(k + Block) /\ \A x \in First(k + Block) : g[x] = IF x < k THEN f[x] ELSE new[x - k + 1]
    BY <1>12, <1>13
  <2>2. \A x \in First(k) : x \in First(k + Block) /\ x < k
    BY <1>3 DEF First
  <2>3. \A i \in First(Block) : k + i \in First(k + Block) /\ ~ (k + i < k) /\ (k + i) - k + 1 = i + 1
    BY <1>3 DEF First
  <2> QED
    BY <2>1, <2>2, <2>3
<1>15. \A x \in First(k + Block) : x \in First(k) \/ (x - k \in First(Block) /\ x = k + (x - k) /\ x \in Nat)
  BY <1>3 DEF First
<1>16. First(k + n) \subseteq DOMAIN g
  BY <1>3, <1>7, <1>14 DEF First
<1>17. ASSUME Block % l = 0, NEW x \in First(k + n)
       PROVE  g[x] = {<<1, x>>, <<2, x % l>>}
  <2>1. CASE x \in First(k)
    <3>1. f[x] = {<<1, x>>, <<2, x % l>>}
      BY <1>4, <1>8, <1>13, <1>17, <2>1 DEF CombinedWithBlock
    <3> QED
      BY <1>14, <2>1, <3>1
  <2>2. CASE x \notin First(k)
    <3>1. x \in First(k + Block)
      BY <1>14, <1>16, <1>17
    <3>2. PICK i \in First(Block) : x = k + i
      BY <1>15, <2>2, <3>1
    <3>3. i \in Nat /\ i < n
      BY <1>3, <1>7, <1>17, <3>2 DEF First
    <3>4. g[x] = {<<1, k + i>>, <<2, i % l>>}
      BY <1>9, <1>14, <3>2, <3>3
    <3>5. (k + i) % l = i % l
      BY <1>3, <1>5, <1>8, <1>17, <3>3, Repeats
    <3> QED
      BY <3>2, <3>4, <3>5
  <2> QED
    BY <2>1, <2>2
<1>18. ASSUME NEW x \in DOMAIN g \ First(k + n), x >= Block
       PROVE  g[x] = g[x - Block]
  <2>1. x \in First(k + Block) /\ x \notin First(k)
    <3>1. First(k) \subseteq First(k + n)
      BY <1>3, <1>7 DEF First
    <3> QED
      BY <1>14, <1>18, <3>1
  <2>2. PICK i \in First(Block) : x = k + i
    BY <1>15, <2>1
  <2>3. i \in Nat /\ i < Block /\ ~ (i < n) /\ k > 0
    BY <1>3, <1>7, <1>18, <2>2 DEF First
  <2>4. new[i + 1] = memo[i + 1] /\ memo[i + 1] = f[k - Block + i]
    BY <1>8, <1>9, <1>11, <1>13, <2>2, <2>3
  <2>5. k - Block + i \in First(k) /\ x - Block = k - Block + i
    <3>1. k >= Block
      BY <1>8, <2>3
    <3> QED
      BY <1>3, <2>2, <2>3, <3>1 DEF First
  <2>6. g[x] = f[k - Block + i]
    BY <1>14, <2>2, <2>4
  <2> QED
    BY <1>14, <2>5, <2>6
<1>19. First(k)' = First(k + n) /\ Len(Source(2))' = l /\ Len(Source(1))' = Len(Source(1)) /\ k' = k + n
  BY <1>3, <1>4, <1>6 DEF First
<1>20. CombinedWithBlock(k)'
  BY <1>13, <1>16, <1>17, <1>18, <1>19 DEF CombinedWithBlock
<1>21. ASSUME k' < Len(Source(1))'
       PROVE  /\ k' % Block = 0 /\ DOMAIN g = First(k)'
              /\ memo' # <<>> /\ k' >= Block /\ \A i \in First(Block) : memo'[i + 1] = g[k' - Block + i]
  <2>1. n = Block /\ k' = k + Block
    BY <1>3, <1>7, <1>19, <1>21
  <2>2. (k + Block) % Block = 0
    <3>1. 1 * Block = Block
      BY <1>3
    <3>2. Block % Block = 0
      BY <1>3, <3>1, Multiple
    <3> QED
      BY <1>3, <1>8, <3>2, SumOfMultiples
  <2>3. memo' # <<>>
    <3>1. 1 \in DOMAIN new
      BY <1>3, <1>10
    <3> QED
      BY <1>3, <3>1
  <2>4. k' >= Block
    BY <1>3, <2>1
  <2>5. ASSUME NEW i \in First(Block) PROVE memo'[i + 1] = g[k' - Block + i]
    <3>1. k' - Block + i = k + i
      BY <1>3, <2>1, <2>5 DEF First
    <3> QED
      BY <1>3, <1>14, <3>1
  <2> QED
    BY <1>14, <1>19, <2>1, <2>2, <2>3, <2>4, <2>5
<1>22. \A i : First(i)' = First(i)
  BY DEF First
<1> QED
  BY <1>13, <1>19, <1>20, <1>21 DEF BlockCombined, First

-----------------------------------------------------------------------------
(* Tables                                                                   *)

\* A record is read if something follows it.
LEMMA Follows ==
  ASSUME LoopInv, file = 1
  PROVE  /\ FollowedRecords \in Int /\ FollowedRecords <= Len(Source(1)) /\ FileSize \in Nat
         /\ HeaderSize + (k + 1) * RecordSize < FileSize <=> k + 1 <= FollowedRecords
         /\ \A n \in Nat : n <= FollowedRecords => HeaderSize + n * RecordSize + 1 <= FileSize
<1>1. /\ k \in Nat /\ Len(Source(1)) \in Nat /\ Pages = Source(1)
      /\ RecordSize \in Nat \ {0} /\ HeaderSize \in Nat \ {0} /\ job.tail \in BOOLEAN
  BY JobFiles, ToolConstants, JobsAssumption DEF LoopInv, Pages
<1>2. PICK l, r, h : l = Len(Source(1)) /\ r = RecordSize /\ h = HeaderSize
  OBVIOUS
<1>3. l \in Nat /\ r \in Nat \ {0} /\ h \in Nat
  BY <1>1, <1>2
<1>4. /\ job.tail => FileSize = h + l * r + 1 /\ FollowedRecords = l
      /\ ~ job.tail => FileSize = h + l * r /\ FollowedRecords = l - 1
  <2>1. /\ job.tail => FileSize = h + l * r + 1
        /\ ~ job.tail => FileSize = h + l * r + 0
    BY <1>1, <1>2 DEF FileSize
  <2>2. l * r \in Nat
    BY <1>3
  <2> QED
    BY <1>1, <1>2, <1>3, <2>1, <2>2 DEF FollowedRecords
<1>5. ASSUME NEW n \in Nat
      PROVE  /\ h + n * r < FileSize <=> n <= FollowedRecords
             /\ n <= FollowedRecords => h + n * r + 1 <= FileSize
  <2>1. n * r \in Nat /\ l * r \in Nat
    BY <1>3
  <2>2. n < l => n * r + r <= l * r
    BY <1>3, OneLess
  <2>3. l < n => l * r + r <= n * r
    BY <1>3, OneLess
  <2>4. PICK a, b \in Nat : a = n * r /\ b = l * r
    BY <2>1
  <2>5. (n < l => a + r <= b) /\ (l < n => b + r <= a) /\ (n = l => a = b)
    BY <2>2, <2>3, <2>4
  <2>6. CASE job.tail
    BY <1>3, <1>4, <2>4, <2>5, <2>6
  <2>7. CASE ~ job.tail
    <3>1. n <= l - 1 <=> n < l
      BY <1>3
    <3> QED
      BY <1>3, <1>4, <2>4, <2>5, <2>7, <3>1
  <2> QED
    BY <2>6, <2>7
<1>6. k + 1 \in Nat
  BY <1>1
<1>7. FollowedRecords \in Int /\ FollowedRecords <= l /\ FileSize \in Nat
  <2>1. l * r \in Nat
    BY <1>3
  <2> QED
    BY <1>3, <1>4, <2>1
<1> QED
  BY <1>2, <1>5, <1>6, <1>7

\* A 32-bit count of records that there are is right.
LEMMA CountedAnew ==
  ASSUME NEW n \in Nat \ {0}, NEW s \in Nat, HeaderSize + n * RecordSize + 1 <= s, s < DWord
  PROVE  /\ CountFrom(HeaderSize + n * RecordSize) = n
         /\ (HeaderSize + n * RecordSize + 1) % DWord = HeaderSize + n * RecordSize + 1
<1>1. RecordSize \in Nat \ {0} /\ HeaderSize \in Nat \ {0} /\ DWord \in Nat \ {0}
  BY ToolConstants
<1>2. PICK r, h : r = RecordSize /\ h = HeaderSize
  OBVIOUS
<1>3. r \in Nat \ {0} /\ h \in Nat
  BY <1>1, <1>2
<1>4. PICK a \in Nat : a = n * r
  BY <1>3
<1>5. (n - 1) * r + r = n * r /\ n - 1 \in Nat /\ (n - 1) * r \in Nat
  BY <1>3
<1>6. a >= r /\ a = (n - 1) * r + r /\ h + a + 1 < DWord /\ n <= a
  <2>1. n <= n * r
    <3>1. PICK e \in Nat : r = e + 1
      <4>1. r - 1 \in Nat /\ r = (r - 1) + 1
        BY <1>3
      <4> QED
        BY <4>1
    <3>2. n * r = n * e + n /\ n * e \in Nat
      BY <3>1
    <3> QED
      BY <3>2
  <2>2. h + a + 1 < DWord
    BY <1>1, <1>2, <1>3, <1>4
  <2> QED
    BY <1>3, <1>4, <1>5, <2>1, <2>2
<1>7. \A b \in Nat : b < DWord => b % DWord = b
  <2>1. ASSUME NEW b \in Nat, b < DWord PROVE b % DWord = b
    <3>1. b \in 0 .. DWord - 1 /\ 0 * DWord + b = b
      BY <1>1, <2>1
    <3> QED
      BY <1>1, <3>1, Quotient
  <2> QED
    BY <2>1
<1>8. a - 1 \in Nat /\ a - 1 < DWord /\ n \in Nat /\ n < DWord /\ h + a + 1 \in Nat
  BY <1>1, <1>3, <1>6
<1>9. (a - 1) % DWord = a - 1 /\ n % DWord = n /\ (h + a + 1) % DWord = h + a + 1
  BY <1>6, <1>7, <1>8
<1>10. (a - 1) \div r = n - 1
  <2>1. PICK v \in Nat : v = (n - 1) * r
    BY <1>5
  <2>2. r - 1 \in 0 .. r - 1 /\ a - 1 = v + (r - 1)
    BY <1>3, <1>6, <2>1
  <2>3. ((n - 1) * r + (r - 1)) \div r = n - 1
    BY <1>3, <1>5, <2>2, Quotient
  <2> QED
    BY <2>1, <2>2, <2>3
<1>11. CountFrom(h + a) = ((((h + a) - h - 1) % DWord) \div r + 1) % DWord
  BY <1>2 DEF CountFrom
<1>12. (h + a) - h - 1 = a - 1
  BY <1>3
<1>13. CountFrom(h + a) = n
  <2>1. (n - 1) + 1 = n
    OBVIOUS
  <2> QED
    BY <1>9, <1>10, <1>11, <1>12, <2>1
<1> QED
  BY <1>2, <1>4, <1>9, <1>13

\* A 32-bit number is below 2^32.
LEMMA NoWrap ==
  ASSUME NEW a \in Nat, a < DWord
  PROVE  a % DWord = a
<1>1. PICK D \in Nat \ {0} : D = DWord
  BY ToolConstants
<1>2. a \in 0 .. D - 1 /\ 0 * D + a = a
  BY <1>1
<1> QED
  BY <1>1, <1>2, Quotient

\* While a table is not larger than 4 GB, a turn reads the record it counts.
LEMMA RecordAhead ==
  ASSUME LoopInv, file = 1, HeaderSize + (k + 1) * RecordSize < FileSize, FileSize <= DWord, k < Len(Pages)
  PROVE  RecordsAt(record_offset(k)) = {[cell |-> <<1, k>>, nulls |-> ~ page.good]}
<1>1. PICK r, h, D : r = RecordSize /\ h = HeaderSize /\ D = DWord
  OBVIOUS
<1>2. /\ k \in Nat /\ r \in Nat \ {0} /\ h \in Nat /\ D \in Nat \ {0} /\ FileSize \in Nat
      /\ Len(Pages) \in Nat
  BY <1>1, Follows, ToolConstants, JobFiles DEF LoopInv, Pages
<1>3. PICK a \in Nat : a = k * r
  BY <1>2
<1>4. (k + 1) * r = a + r
  BY <1>2, <1>3
<1>5. PICK z \in Nat : z = FileSize
  BY <1>2
<1>6. h + (a + r) < z /\ z <= D
  BY <1>1, <1>4, <1>5
<1>7. record_offset(k) = h + a
  <2>1. h + a \in Nat /\ h + a < D
    BY <1>2, <1>6
  <2>2. record_offset(k) = (h + a) % DWord
    BY <1>1, <1>3 DEF record_offset
  <2> QED
    BY <1>1, <2>1, <2>2, NoWrap
<1>8. \A i \in 0 .. Len(Pages) - 1 : h + i * r = h + a <=> i = k
  <2>1. ASSUME NEW i \in 0 .. Len(Pages) - 1, i # k PROVE h + i * r # h + a
    <3>1. i \in Nat
      BY <1>2
    <3>2. PICK b \in Nat : b = i * r
      BY <1>2, <3>1
    <3>3. i < k => b + r <= a
      BY <1>2, <1>3, <3>1, <3>2, OneLess
    <3>4. k < i => a + r <= b
      BY <1>2, <1>3, <3>1, <3>2, OneLess
    <3>5. b # a
      BY <1>2, <2>1, <3>1, <3>3, <3>4
    <3> QED
      BY <1>2, <3>2, <3>5
  <2> QED
    BY <1>3, <2>1
<1>9. k \in 0 .. Len(Pages) - 1
  BY <1>2
<1>10. {i \in 0 .. Len(Pages) - 1 : HeaderSize + i * RecordSize = h + a} = {k}
  BY <1>1, <1>8, <1>9
<1>11. RecordsAt(h + a) = {[cell |-> <<1, i>>, nulls |-> ~ Pages[i + 1].good] : i \in {k}}
  <2>1. {k} # {}
    OBVIOUS
  <2> QED
    BY <1>10, <2>1 DEF RecordsAt
<1>12. \A F : {F[i] : i \in {k}} = {F[k]}
  OBVIOUS
<1>13. PICK F : F = [i \in {k} |-> [cell |-> <<1, i>>, nulls |-> ~ Pages[i + 1].good]]
  OBVIOUS
<1>14. RecordsAt(h + a) = {F[i] : i \in {k}} /\ F[k] = [cell |-> <<1, k>>, nulls |-> ~ Pages[k + 1].good]
  BY <1>11, <1>13
<1> QED
  BY <1>7, <1>12, <1>14 DEF page

\* Then what has been written ends behind the records that were kept.
LEMMA WrittenRecords ==
  ASSUME NEW n \in Nat \ {0}, DOMAIN out[0] = First(n), HeaderSize + n * RecordSize < DWord
  PROVE  tmp_size = HeaderSize + n * RecordSize
<1>1. PICK r, h : r = RecordSize /\ h = HeaderSize
  OBVIOUS
<1>2. r \in Nat \ {0} /\ h \in Nat
  BY <1>1, ToolConstants
<1>3. PICK a \in Nat : a = n * r
  BY <1>2
<1>4. ASSUME NEW i \in First(n)
      PROVE  /\ record_offset(i) = h + i * r /\ i * r \in Nat
             /\ i * r + r <= a /\ (i = n - 1 => i * r + r = a)
  <2>1. i \in Nat /\ i < n
    BY <1>4 DEF First
  <2>2. i * r + r <= n * r
    BY <1>2, <2>1, OneLess
  <2>3. PICK b \in Nat : b = i * r
    BY <1>2, <2>1
  <2>4. b + r <= a
    BY <1>3, <2>2, <2>3
  <2>5. h + b \in Nat /\ h + b < DWord
    <3>1. h + a < DWord /\ DWord \in Nat
      BY <1>1, <1>3, ToolConstants
    <3> QED
      BY <1>2, <2>4, <3>1
  <2>6. record_offset(i) = h + b
    BY <1>1, <2>3, <2>5, NoWrap DEF record_offset
  <2>7. i = n - 1 => i * r + r = n * r
    BY <1>2
  <2> QED
    BY <1>3, <2>3, <2>4, <2>6, <2>7
<1> DEFINE S == {h} \cup {record_offset(i) + r : i \in First(n)}
<1>5. ASSUME NEW x \in S PROVE x \in Nat /\ x <= h + a
  <2>1. CASE x = h
    BY <1>2, <2>1
  <2>2. CASE \E i \in First(n) : x = record_offset(i) + r
    <3>1. PICK i \in First(n) : x = record_offset(i) + r
      BY <2>2
    <3>2. PICK b \in Nat : b = i * r
      BY <1>4
    <3>3. x = h + b + r /\ b + r <= a
      BY <1>4, <3>1, <3>2
    <3> QED
      BY <1>2, <3>3
  <2> QED
    BY <2>1, <2>2
<1>6. h + a \in S
  <2>1. n - 1 \in First(n)
    BY DEF First
  <2>2. PICK b \in Nat : b = (n - 1) * r
    BY <1>4, <2>1
  <2>3. record_offset(n - 1) + r = h + a
    <3>1. record_offset(n - 1) = h + b /\ b + r = a
      BY <1>4, <2>1, <2>2
    <3> QED
      BY <1>2, <3>1
  <2> QED
    BY <2>1, <2>3
<1>7. tmp_size = Max(S)
  BY <1>1 DEF tmp_size
<1> HIDE DEF S
<1>8. Max(S) \in S /\ \A x \in S : x <= Max(S)
  <2>1. S \in SUBSET Nat /\ h + a \in Nat /\ \A x \in S : x <= h + a
    BY <1>2, <1>5
  <2> QED
    BY <1>6, <2>1, GreatestElement
<1>9. Max(S) = h + a
  <2>1. PICK x \in Nat : x = Max(S)
    BY <1>5, <1>8
  <2>2. x <= h + a /\ h + a <= x
    BY <1>5, <1>6, <1>8, <2>1
  <2> QED
    BY <1>2, <2>1, <2>2
<1> QED
  BY <1>1, <1>3, <1>7, <1>9

LEMMA FixedStep ==
  ASSUME LoopInv, RepairInv, fixDBF
  PROVE  Fixed'
<1>1. /\ status = "running" /\ job.tool = "fixDBF" /\ UNCHANGED <<job, open, file>> /\ file = 1
      /\ k \in Nat /\ k <= Len(Pages) /\ Pages = Source(1) /\ 1 \in DOMAIN job.files
      /\ Len(Source(1)) \in Nat /\ Fixed
  BY JobFiles DEF fixDBF, Runs, LoopInv, OfAFolder, Pages, RepairInv
<1>2. (FileSize <= DWord => Lists(out[0], GoodPages(k))) /\ (k <= FollowedRecords \/ k = 0)
  BY <1>1 DEF Fixed
<1>3. /\ FollowedRecords' = FollowedRecords /\ FileSize' = FileSize /\ \A c : At(c)' = At(c)
      /\ \A n : GoodPages(n)' = GoodPages(n)
  <2>1. Pages' = Pages /\ \A c : At(c)' = At(c)
    BY <1>1 DEF Pages, Source, At
  <2> QED
    BY <1>1, <2>1 DEF FollowedRecords, FileSize, GoodPages, First
<1>4. /\ FollowedRecords \in Int /\ FollowedRecords <= Len(Source(1)) /\ FileSize \in Nat
      /\ HeaderSize + (k + 1) * RecordSize < FileSize <=> k + 1 <= FollowedRecords
  BY <1>1, Follows
<1>5. GoodPages(k) \in SUBSET First(k) /\ 0 \in DOMAIN out
  <2>1. DOMAIN out = 0 .. MaxTargets - 1
    BY DEF LoopInv
  <2> QED
    BY <2>1, ToolConstants DEF GoodPages
<1>6. CASE HeaderSize + (k + 1) * RecordSize < FileSize
  <2>1. /\ \E record \in RecordsAt(record_offset(k)) : out' = IF record.nulls THEN out ELSE Add(out, 0, record.cell)
        /\ k' = k + 1 /\ status' = "running"
    BY <1>1, <1>6 DEF fixDBF
  <2>2. k + 1 <= FollowedRecords /\ k < Len(Pages)
    BY <1>1, <1>4, <1>6
  <2>10. FileSize <= DWord => out' = IF page.good THEN Add(out, 0, <<1, k>>) ELSE out
    <3> SUFFICES ASSUME FileSize <= DWord PROVE out' = IF page.good THEN Add(out, 0, <<1, k>>) ELSE out
      OBVIOUS
    <3>1. RecordsAt(record_offset(k)) = {[cell |-> <<1, k>>, nulls |-> ~ page.good]}
      BY <1>1, <1>6, <2>2, RecordAhead
    <3>2. PICK record \in RecordsAt(record_offset(k)) :
            out' = IF record.nulls THEN out ELSE Add(out, 0, record.cell)
      BY <2>1
    <3>3. record = [cell |-> <<1, k>>, nulls |-> ~ page.good]
      BY <3>1, <3>2
    <3>4. record.cell = <<1, k>>
      BY <3>3
    <3>5. record.nulls = (~ page.good)
      BY <3>3
    <3> QED
      BY <3>2, <3>4, <3>5
  <2>3. page = At(<<1, k>>)
    BY <1>1 DEF page, At
  <2>4. GoodPages(k + 1) = IF page.good THEN GoodPages(k) \cup {k} ELSE GoodPages(k)
    <3>1. First(k + 1) = First(k) \cup {k}
      BY <1>1, Numbered
    <3> QED
      BY <2>3, <3>1 DEF GoodPages
  <2>5. ASSUME FileSize <= DWord PROVE Lists(out'[0], GoodPages(k + 1))
    <3>1. CASE page.good
      <4>1. out' = Add(out, 0, <<1, k>>) /\ GoodPages(k + 1) = GoodPages(k) \cup {k}
        BY <2>4, <2>5, <2>10, <3>1
      <4> QED
        BY <1>1, <1>2, <1>5, <2>5, <4>1, ListAdds
    <3>2. CASE ~ page.good
      BY <1>2, <2>4, <2>5, <2>10, <3>2
    <3> QED
      BY <3>1, <3>2
  <2>6. ~ Ended'
    BY <2>1 DEF Ended
  <2>7. GoodPages(k)' = GoodPages(k + 1)
    BY <1>3, <2>1 DEF GoodPages, First
  <2>8. (FileSize <= DWord => Lists(out[0], GoodPages(k)))'
    BY <1>3, <2>5, <2>7 DEF Lists, First
  <2>9. k' <= FollowedRecords'
    BY <1>3, <2>1, <2>2
  <2> QED
    BY <2>6, <2>8, <2>9 DEF Fixed
<1>7. CASE ~ (HeaderSize + (k + 1) * RecordSize < FileSize)
  <2> DEFINE numRecords == CountFrom(tmp_size)
  <2>1. /\ memo' = <<numRecords, (HeaderSize + numRecords * RecordSize + 1) % DWord>>
        /\ out' = out /\ k' = k
    BY <1>1, <1>7 DEF fixDBF
  <2>2. ~ (k + 1 <= FollowedRecords)
    BY <1>4, <1>7
  <2>3. First(k) = First(FollowedRecords)
    <3>1. CASE k = FollowedRecords
      BY <3>1
    <3>2. CASE k # FollowedRecords
      <4>1. k = 0 /\ FollowedRecords < 0
        BY <1>1, <1>2, <1>4, <2>2, <3>2
      <4> QED
        BY <1>4, <4>1 DEF First
    <3> QED
      BY <3>1, <3>2
  <2>4. GoodPages(k) = GoodPages(FollowedRecords)
    BY <2>3 DEF GoodPages
  <2>5. PICK n : n = Cardinality(GoodPages(k))
    OBVIOUS
  <2>6. n \in Nat /\ n <= k /\ IsFiniteSet(GoodPages(k)) /\ (FileSize <= DWord => DOMAIN out[0] = First(n))
    <3>1. n \in Nat /\ n <= k /\ IsFiniteSet(GoodPages(k))
      BY <1>1, <1>5, <2>5, Numbered
    <3>2. FileSize <= DWord => DOMAIN out[0] = First(n)
      BY <1>2, <2>5 DEF Lists
    <3> QED
      BY <3>1, <3>2
  <2>7. ASSUME GoodPages(k) # {}, FileSize < DWord PROVE memo' = <<n, HeaderSize + n * RecordSize + 1>>
    <3>1. n \in Nat \ {0}
      BY <2>5, <2>6, <2>7, FS_EmptySet
    <3>2. n <= FollowedRecords
      <4>1. k # 0
        BY <2>6, <3>1
      <4> QED
        BY <1>1, <1>2, <1>4, <2>6, <4>1
    <3>3. HeaderSize + n * RecordSize + 1 <= FileSize
      BY <1>1, <2>6, <3>2, Follows
    <3>4. /\ CountFrom(HeaderSize + n * RecordSize) = n
          /\ (HeaderSize + n * RecordSize + 1) % DWord = HeaderSize + n * RecordSize + 1
      BY <1>4, <2>7, <3>1, <3>3, CountedAnew
    <3>5. tmp_size = HeaderSize + n * RecordSize
      <4>1. FileSize <= DWord /\ HeaderSize + n * RecordSize < DWord
        <5>1. PICK a \in Nat : a = n * RecordSize
          BY <3>1, ToolConstants
        <5>2. HeaderSize + a + 1 <= FileSize
          BY <3>3, <5>1
        <5>3. HeaderSize + a < DWord /\ FileSize <= DWord
          BY <1>4, <2>7, <5>2, ToolConstants
        <5> QED
          BY <5>1, <5>3
      <4> QED
        BY <2>6, <3>1, <4>1, WrittenRecords
    <3> QED
      BY <2>1, <3>4, <3>5
  <2>8. GoodPages(k)' = GoodPages(k) /\ GoodPages(FollowedRecords)' = GoodPages(FollowedRecords)
    BY <1>3, <2>1 DEF GoodPages, First
  <2>9. (FileSize <= DWord => Lists(out[0], GoodPages(k)))'
    BY <1>2, <1>3, <2>1, <2>8 DEF Lists, First
  <2>10. k' <= FollowedRecords' \/ k' = 0
    BY <1>2, <1>3, <2>1
  <2> HIDE DEF numRecords
  <2> QED
    BY <1>3, <2>4, <2>5, <2>7, <2>8, <2>9, <2>10 DEF Fixed
<1> QED
  BY <1>6, <1>7

-----------------------------------------------------------------------------
(* All of them                                                              *)

LEMMA RepairStart == BlockInit => RepairInv
<1> SUFFICES ASSUME BlockInit PROVE RepairInv
  OBVIOUS
<1>1. k = 0 /\ file = 1 /\ job \in Jobs /\ out[0] = <<>> /\ DOMAIN out[0] = {}
  BY ToolConstants DEF BlockInit
<1>2. First(k) = {} /\ GoodPages(k) = {}
  BY <1>1 DEF First, GoodPages
<1>3. Repaired(k) /\ Combined(k)
  <2>1. /\ out[0] = [x \in {} |-> IF ~ At(<<1, x>>).good /\ x \in Numbers(2) THEN <<2, x>> ELSE <<1, x>>]
        /\ out[0] = [x \in {} |-> {<<1, x>>, <<2, x>>}]
    BY <1>1
  <2> QED
    BY <1>2, <2>1 DEF Repaired, Combined
<1>4. MarkersAgree(k) /\ LargestOnly(k) /\ k % Block = 0
  <2>1. k % Block = 0
    <3>1. 0 = 0 * Block /\ 0 \in Nat /\ Block \in Nat \ {0}
      BY ToolConstants
    <3> QED
      BY <1>1, <3>1, Multiple
  <2> QED
    BY <1>1, <1>2, <2>1 DEF MarkersAgree, LargestOnly
<1>5. job.tool = "xor_files" => k <= Len(Source(2))
  <2>1. job.tool = "xor_files" => Len(Source(2)) \in Nat
    BY <1>1, JobFiles DEF OfTwo
  <2> QED
    BY <1>1, <2>1
<1>6. BlockCombined
  BY <1>1, <1>2, <1>4 DEF BlockCombined, CombinedWithBlock
<1>7. Fixed
  <2>1. ~ Ended
    BY DEF BlockInit, Ended
  <2> QED
    BY <1>1, <1>2, <2>1, NoneListed DEF Fixed
<1> QED
  BY <1>3, <1>4, <1>5, <1>6, <1>7 DEF RepairInv

LEMMA QuietRepairs ==
  ASSUME RepairInv, UNCHANGED <<job, file, k, out, memo>>,
         job.tool = "fixDBF" => (Ended' <=> Ended)
  PROVE  RepairInv'
<1>1. (\A f : Source(f)' = Source(f)) /\ (\A c : At(c)' = At(c)) /\ Pages' = Pages
  BY DEF At, Source, Pages
<1>2. (\A n : First(n)' = First(n)) /\ \A n : GoodPages(n)' = GoodPages(n)
  BY <1>1 DEF First, GoodPages
<1>3. First(k)' = First(k) /\ GoodPages(k)' = GoodPages(k) /\ Numbers(2)' = Numbers(2)
      /\ FollowedRecords' = FollowedRecords /\ FileSize' = FileSize
  BY <1>1 DEF First, GoodPages, Numbers, FollowedRecords, FileSize
<1>4. (Repaired(k)' <=> Repaired(k)) /\ (Combined(k)' <=> Combined(k))
  BY <1>1, <1>3 DEF Repaired, Combined
<1>5. (MarkersAgree(k)' <=> MarkersAgree(k)) /\ (LargestOnly(k)' <=> LargestOnly(k))
  <2>1. \A S, id : WithId(S, id)' = WithId(S, id)
    BY <1>1 DEF WithId
  <2>2. \A S, id : Shared(S, id)' <=> Shared(S, id)
    BY <1>1, <2>1 DEF Shared
  <2>3. \A x : SameBlock(x, k)' = SameBlock(x, k)
    BY <1>3 DEF SameBlock
  <2>4. \A x : Repeated(SameBlock(x, k))' = Repeated(SameBlock(x, k)) /\ IdAt(x)' = IdAt(x)
    BY <1>1, <2>1, <2>3 DEF Repeated, IdAt
  <2>5. MarkersAgree(k)' <=> MarkersAgree(k)
    BY <1>1, <1>3, <2>2, <2>3 DEF MarkersAgree
  <2>6. LargestOnly(k)' <=> LargestOnly(k)
    BY <1>1, <1>3, <2>4 DEF LargestOnly
  <2> QED
    BY <2>5, <2>6
<1>6. BlockCombined' <=> BlockCombined
  BY <1>1, <1>3 DEF BlockCombined, CombinedWithBlock, First
<1>7. job.tool = "fixDBF" => (Fixed' <=> Fixed)
  <2>1. GoodPages(FollowedRecords)' = GoodPages(FollowedRecords)
    BY <1>1, <1>3 DEF GoodPages, First
  <2>2. Lists(out[0], GoodPages(k))' <=> Lists(out[0], GoodPages(k))
    BY <1>3 DEF Lists, First
  <2> QED
    BY <1>3, <2>1, <2>2 DEF Fixed
<1> QED
  BY <1>1, <1>4, <1>5, <1>6, <1>7 DEF RepairInv

RepairingTools == {"replaceBadsFromOtherFile", "yaffsPageNumberModify", "xor_files", "xorWithBlock", "fixDBF"}

LEMMA RepairSteps == LoopInv /\ RepairInv /\ [BlockNext]_toolVars => RepairInv'
<1> SUFFICES ASSUME LoopInv, RepairInv, [BlockNext]_toolVars PROVE RepairInv'
  OBVIOUS
<1>1. CASE UNCHANGED toolVars
  <2>1. UNCHANGED <<job, file, k, out, memo>> /\ (Ended' <=> Ended)
    BY <1>1 DEF toolVars, Ended
  <2> QED
    BY <2>1, QuietRepairs
<1>2. CASE job.tool # "fixDBF" /\ (EndsByException \/ LoopEnds)
  <2>1. CASE job.tool \in OfAFolder
    <3>1. job' = job
      BY <1>2 DEF EndsByException, LoopEnds
    <3> QED
      BY <2>1, <3>1 DEF RepairInv, OfAFolder
  <2>2. CASE job.tool \notin OfAFolder
    <3>1. UNCHANGED <<job, file, k, out, memo>>
      BY <1>2, <2>2 DEF EndsByException, LoopEnds, OfAFolder
    <3> QED
      BY <1>2, <3>1, QuietRepairs
  <2> QED
    BY <2>1, <2>2
<1>3. CASE replaceBadsFromOtherFile
  BY <1>3, RepairedStep, OtherTools DEF RepairInv
<1>4. CASE yaffsPageNumberModify
  BY <1>4, MarkersStep, OtherTools DEF RepairInv
<1>5. CASE xor_files
  <2>1. CASE Turn("xor_files", 1, Add(out, 0, {here, <<2, k>>}), memo) /\ k < Len(Source(2))
    BY <1>5, <2>1, CombinedStep, OtherTools DEF RepairInv
  <2>2. CASE UNCHANGED <<job, open, file, k, out, memo>>
    BY <1>5, <2>2, OtherTools, QuietRepairs
  <2> QED
    BY <1>5, <2>1, <2>2 DEF xor_files
<1>6. CASE xorWithBlock
  BY <1>6, WithBlockStep, OtherTools DEF RepairInv
<1>7. CASE fixDBF
  BY <1>7, FixedStep, OtherTools DEF RepairInv
<1>8. CASE job' = job /\ job.tool \notin RepairingTools
  BY <1>8 DEF RepairInv, RepairingTools
<1>9. \/ UNCHANGED toolVars
      \/ job.tool # "fixDBF" /\ (EndsByException \/ LoopEnds)
      \/ replaceBadsFromOtherFile \/ yaffsPageNumberModify \/ xor_files \/ xorWithBlock \/ fixDBF
      \/ job' = job /\ job.tool \notin RepairingTools
  BY OtherTools DEF BlockNext, RepairingTools
<1> QED
  BY <1>1, <1>2, <1>3, <1>4, <1>5, <1>6, <1>7, <1>8, <1>9

\* When the tool has ended, all that it had to mend is mended.
LEMMA RepairEnds == LoopInv /\ RepairInv => RepairsAreRight
<1> SUFFICES ASSUME LoopInv, RepairInv, Ended PROVE RepairsAreRight
  BY DEF RepairsAreRight, RepairsOnlyDamage, FixedBaseCounts, Is
<1>1. status # "opening" /\ k \in Nat /\ Block \in Nat \ {0}
  BY ToolConstants DEF Ended, LoopInv
<1>2. ASSUME job.tool \in RepairingTools
      PROVE  file = 1 /\ Pages = Source(1) /\ Len(Source(1)) \in Nat /\ k <= Len(Source(1))
  <2>1. file = 1 /\ 1 \in DOMAIN job.files
    BY <1>2, JobFiles DEF LoopInv, RepairingTools, OfAFolder
  <2> QED
    BY <1>1, <2>1, JobFiles DEF LoopInv, Pages
<1>3. job.tool \in OfTwo => Len(Source(2)) \in Nat
  BY JobFiles DEF LoopInv
<1>4. job.tool = "replaceBadsFromOtherFile" => Repaired(Len(Pages))
  <2>1. job.tool = "replaceBadsFromOtherFile" => k = Len(Pages)
    BY DEF LoopInv, OnePage, NoPlace
  <2> QED
    BY <2>1 DEF RepairInv
<1>5. job.tool = "yaffsPageNumberModify" =>
        /\ MarkersAgree(k) /\ LargestOnly(k)
        /\ k % Block = 0 /\ (k + Block > Len(Pages) \/ k + Block > Len(Source(2)))
  BY DEF RepairInv, LoopInv
<1>6. job.tool = "xor_files" => Combined(Min({Len(Source(1)), Len(Source(2))}))
  <2> SUFFICES ASSUME job.tool = "xor_files" PROVE Combined(Min({Len(Source(1)), Len(Source(2))}))
    OBVIOUS
  <2>1. /\ Combined(k) /\ k <= Len(Source(2)) /\ k <= Len(Source(1))
        /\ Len(Source(1)) \in Nat /\ Len(Source(2)) \in Nat
        /\ k = Len(Source(1)) \/ k >= Len(Source(2))
    BY <1>2, <1>3 DEF RepairInv, LoopInv, RepairingTools, OfTwo
  <2>2. Min({Len(Source(1)), Len(Source(2))}) = k
    BY <1>1, <2>1, MinOfTwo
  <2> QED
    BY <2>1, <2>2
<1>7. job.tool = "xorWithBlock" => CombinedWithBlock(Len(Pages))
  <2>1. job.tool = "xorWithBlock" => k = Len(Pages)
    BY DEF LoopInv, OnePage, NoPlace
  <2> QED
    BY <2>1 DEF RepairInv, BlockCombined
<1>8. FixedBaseCounts
  <2>1. job.tool = "fixDBF" => Fixed
    BY DEF RepairInv
  <2> QED
    BY <2>1 DEF FixedBaseCounts, Fixed, Is
<1> QED
  BY <1>4, <1>5, <1>6, <1>7, <1>8 DEF RepairsAreRight, RepairsOnlyDamage, Is

-----------------------------------------------------------------------------
(* The searches of the console                                              *)

\* The constants of Searches, one fact each.
LEMMA SearchConstants ==
  /\ Grid \in Nat \ {0} /\ NumCmp \in Nat \ {0} /\ MarkSize \in Nat \ {0} /\ MarkData \in Nat \ {0}
  /\ XorSize \in Nat \ {0} /\ Chunks \in Nat \ {0} /\ CountMod \in Nat \ {0}
  /\ Block % Grid = 0 /\ MaxDepth \in 0 .. MaxTargets - 1 /\ MarkSize < Block /\ Chunks <= XorSize
  /\ \A ext \in DOMAIN ExtensionsMap : ExtensionsMap[ext] \in Seq(Nat)
BY SearchesAssumption

\* A list has a length and an entry for each number up to it.
LEMMA ListsHaveLength ==
  ASSUME NEW s, IsList(s)
  PROVE  Len(s) \in Nat /\ DOMAIN s = 1 .. Len(s) /\ (s # <<>> => Len(s) > 0)
<1>1. s \in Seq({s[i] : i \in DOMAIN s})
  BY DEF IsList
<1>2. PICK T : s \in Seq(T)
  BY <1>1
<1> QED
  BY <1>2

\* The files a search goes through, and its list of places.
LEMMA SearchedFiles ==
  ASSUME job \in Searched
  PROVE  /\ job.tool \in SearchTools /\ job \notin Jobs
         /\ DOMAIN job.files = 1 .. Len(job.files) /\ Len(job.files) \in Nat /\ 1 \in DOMAIN job.files
         /\ \A f \in DOMAIN job.files :
              /\ Len(Source(f)) \in Nat /\ DOMAIN Source(f) = 1 .. Len(Source(f))
              /\ \A i \in 1 .. Len(Source(f)) : Source(f)[i].id \in Nat /\ Source(f)[i].good \in BOOLEAN
         /\ DOMAIN job.at = 1 .. Len(job.at) /\ Len(job.at) \in Nat
         /\ job.tool # "testSigantures" => \A i \in 1 .. Len(job.at) : job.at[i] \in Nat
<1>1. job.tool \in SearchTools /\ job \notin Jobs
  BY SearchedAssumption
<1>2. IsList(job.files) /\ job.files # <<>> /\ IsList(job.at)
  BY SearchedAssumption
<1>3. DOMAIN job.files = 1 .. Len(job.files) /\ Len(job.files) \in Nat /\ 1 \in DOMAIN job.files
  BY <1>2, ListsHaveLength
<1>4. DOMAIN job.at = 1 .. Len(job.at) /\ Len(job.at) \in Nat
  BY <1>2, ListsHaveLength
<1>5. ASSUME NEW f \in DOMAIN job.files
      PROVE  /\ Len(Source(f)) \in Nat /\ DOMAIN Source(f) = 1 .. Len(Source(f))
             /\ \A i \in 1 .. Len(Source(f)) : Source(f)[i].id \in Nat /\ Source(f)[i].good \in BOOLEAN
  <2>1. /\ IsList(job.files[f])
        /\ \A n \in DOMAIN job.files[f] : job.files[f][n].id \in Nat /\ job.files[f][n].good \in BOOLEAN
    BY <1>5, SearchedAssumption
  <2> QED
    BY <2>1, ListsHaveLength DEF Source
<1>6. ASSUME job.tool # "testSigantures" PROVE \A i \in 1 .. Len(job.at) : job.at[i] \in Nat
  <2>1. job.at \in Seq(Nat)
    BY <1>6, SearchedAssumption
  <2> QED
    BY <2>1
<1> QED
  BY <1>1, <1>3, <1>4, <1>5, <1>6

\* Each step is one search's.
LEMMA OtherSearches ==
  /\ searchCircle => Searching("searchCircle") /\ job' = job /\ status' = "done"
  /\ searchExtents => Searching("searchExtents") /\ job' = job /\ status' \in {status, "done"}
  /\ readListExtents \/ searchExtends => Searching("searchExtends") /\ job' = job /\ status' \in {"searching", "done", "thrown"}
  /\ findFilesWithOffsets \/ NextPart \/ PartsDone =>
       Searching("findFilesWithOffsets") /\ job' = job /\ status' \in {status, "thrown", "done"}
  /\ SavePos_ftyp_mdat \/ saveQtFragment =>
       Searching("saveQtFragment") /\ job' = job /\ status' \in {status, "thrown", "done"}
  /\ saveToFile => Searching("saveToFile") /\ job' = job /\ status' \in {status, "thrown", "done"}
  /\ Analize => Searching("Analize") /\ job' = job /\ status' \in {"searching", "thrown", "done"}
  /\ testSigantures => Searching("testSigantures") /\ job' = job /\ status' \in {status, "thrown"}
  /\ saveByVxFSInode => Searching("saveByVxFSInode") /\ job' = job /\ status' = status
  /\ AllDone => /\ Ends("done")
                /\ \/ Searching("testSigantures") /\ k = Len(Pages)
                   \/ Searching("saveByVxFSInode") /\ k = Len(Source(2))
                /\ job' = job /\ status' = "done"
<1>1. ASSUME NEW how, Ends(how) PROVE job' = job /\ status' = how
  BY <1>1 DEF Ends
<1>2. searchCircle => Searching("searchCircle") /\ job' = job /\ status' = "done"
  BY DEF searchCircle
<1>3. searchExtents => Searching("searchExtents") /\ job' = job /\ status' \in {status, "done"}
  BY <1>1 DEF searchExtents
<1>4. readListExtents \/ searchExtends => Searching("searchExtends") /\ job' = job /\ status' \in {"searching", "done", "thrown"}
  <2>1. readListExtents => Searching("searchExtends") /\ job' = job /\ status' \in {"searching", "done", "thrown"}
    BY <1>1 DEF readListExtents, Searching
  <2>2. searchExtends => Searching("searchExtends") /\ job' = job /\ status' \in {"searching", "done", "thrown"}
    BY DEF searchExtends
  <2> QED
    BY <2>1, <2>2
<1>5. findFilesWithOffsets \/ NextPart \/ PartsDone =>
        Searching("findFilesWithOffsets") /\ job' = job /\ status' \in {status, "thrown", "done"}
  BY <1>1 DEF findFilesWithOffsets, NextPart, PartsDone
<1>6. SavePos_ftyp_mdat \/ saveQtFragment =>
        Searching("saveQtFragment") /\ job' = job /\ status' \in {status, "thrown", "done"}
  BY <1>1 DEF SavePos_ftyp_mdat, saveQtFragment
<1>7. saveToFile => Searching("saveToFile") /\ job' = job /\ status' \in {status, "thrown", "done"}
  BY <1>1 DEF saveToFile
<1>8. Analize => Searching("Analize") /\ job' = job /\ status' \in {"searching", "thrown", "done"}
  BY <1>1 DEF Analize
<1>9. testSigantures => Searching("testSigantures") /\ job' = job /\ status' \in {status, "thrown"}
  BY <1>1 DEF testSigantures
<1>10. saveByVxFSInode => Searching("saveByVxFSInode") /\ job' = job /\ status' = status
  BY DEF saveByVxFSInode
<1>11. AllDone => /\ Ends("done")
                  /\ \/ Searching("testSigantures") /\ k = Len(Pages)
                     \/ Searching("saveByVxFSInode") /\ k = Len(Source(2))
                  /\ job' = job /\ status' = "done"
  BY <1>1 DEF AllDone
<1> QED
  BY <1>2, <1>3, <1>4, <1>5, <1>6, <1>7, <1>8, <1>9, <1>10, <1>11

\* The steps that a search's tool takes.
LEMMA SearchSteps ==
  ASSUME SearchNext
  PROVE  /\ status = "searching" /\ job' = job
         /\ status' \in {"searching", "done", "thrown"}
         /\ job.tool = "searchCircle" => searchCircle
         /\ job.tool = "searchExtents" => searchExtents
         /\ job.tool = "searchExtends" => readListExtents \/ searchExtends
         /\ job.tool = "findFilesWithOffsets" => findFilesWithOffsets \/ NextPart \/ PartsDone
         /\ job.tool = "saveQtFragment" => SavePos_ftyp_mdat \/ saveQtFragment
         /\ job.tool = "saveToFile" => saveToFile
         /\ job.tool = "Analize" => Analize
         /\ job.tool = "testSigantures" => testSigantures \/ (k = Len(Pages) /\ Ends("done"))
         /\ job.tool = "saveByVxFSInode" => saveByVxFSInode \/ (k = Len(Source(2)) /\ Ends("done"))
BY OtherSearches DEF SearchNext, Searching

LEMMA KindStart == ToolInit => KindInv
BY SearchedAssumption DEF ToolInit, BlockInit, SearchInit, KindInv

LEMMA BlockSteps ==
  ASSUME BlockNext
  PROVE  /\ status \in {"opening", "running"} /\ job' = job
         /\ status' \in {"opening", "running", "done", "thrown"}
<1>1. ASSUME NEW tool, NEW n, NEW o, NEW m, Turn(tool, n, o, m)
      PROVE  status = "running" /\ job' = job /\ status' = "running"
  BY <1>1 DEF Turn, Runs
<1>2. CASE EmplaceFile \/ OpenFiles \/ EndsByException \/ LoopEnds \/ fixDBF
  BY <1>2 DEF EmplaceFile, OpenFiles, EndsByException, LoopEnds, fixDBF, Runs
<1>3. CASE xor_files
  BY <1>1, <1>3 DEF xor_files, Runs
<1>5. CASE saveXVA
  <2>1. CASE \E n, o : Turn("saveXVA", n, o, memo)
    BY <1>1, <2>1
  <2>2. CASE status' = "thrown" /\ UNCHANGED <<job, open, file, k, out, memo>>
    BY <1>5, <2>2 DEF saveXVA, Runs
  <2> QED
    BY <1>5, <2>1, <2>2 DEF saveXVA
<1>4. CASE splitToFiles \/ splitByPages \/ splitByPage \/ saveOnlyWithID \/ saveByPageNumber
           \/ createManyExcelFiles \/ modify_mft_by_id \/ SaveImage \/ writeImageFiles
           \/ replaceBadMarkerToNulls \/ replaceBadsFromOtherFile \/ yaffsPageNumberModify \/ xorWithBlock
  BY <1>1, <1>4 DEF splitToFiles, splitByPages, splitByPage, saveOnlyWithID, saveByPageNumber,
       createManyExcelFiles, modify_mft_by_id, SaveImage, writeImageFiles,
       replaceBadMarkerToNulls, replaceBadsFromOtherFile, yaffsPageNumberModify, xorWithBlock
<1> QED
  BY <1>2, <1>3, <1>4, <1>5 DEF BlockNext

LEMMA KindSteps ==
  ASSUME KindInv, [ToolNext]_toolVars
  PROVE  /\ KindInv' /\ job' = job
         /\ job \in Searched => (status = "searching" /\ SearchNext) \/ UNCHANGED toolVars
         /\ job \in Jobs => [BlockNext]_toolVars
<1>1. CASE UNCHANGED toolVars
  BY <1>1, SearchedAssumption DEF KindInv, toolVars
<1>2. CASE BlockNext
  BY <1>2, BlockSteps, SearchedFiles DEF KindInv
<1>3. CASE SearchNext
  BY <1>3, SearchSteps, SearchedFiles DEF KindInv
<1> QED
  BY <1>1, <1>2, <1>3 DEF ToolNext

-----------------------------------------------------------------------------
(* DataFinder                                                               *)

\* A place of a block is on the block's grid if it is on that of the region.
LEMMA BlockGrid ==
  ASSUME NEW n \in Nat
  PROVE  (n % Block) % Grid = 0 <=> n % Grid = 0
<1>1. PICK q, r : q = n \div Block /\ r = n % Block
  OBVIOUS
<1>2. q \in Nat /\ r \in Nat /\ n = Block * q + r
  BY <1>1, Division, ToolConstants
<1>3. Grid \in Nat \ {0} /\ Block \in Nat \ {0}
  BY SearchConstants, ToolConstants
<1>4. Block * q \in Nat /\ (Block * q) % Grid = 0
  <2>1. PICK p \in Nat : Block = p * Grid
    BY <1>3, Multiple, SearchConstants, ZenonT(30)
  <2>2. Block * q = (p * q) * Grid /\ p * q \in Nat /\ Block * q \in Nat
    BY <1>2, <1>3, <2>1
  <2> QED
    BY <1>3, <2>2, Multiple
<1>5. ASSUME r % Grid = 0 PROVE n % Grid = 0
  BY <1>2, <1>3, <1>4, <1>5, SumOfMultiples
<1>6. ASSUME n % Grid = 0 PROVE r % Grid = 0
  <2>1. PICK m \in Nat : m = Block * q
    BY <1>4
  <2>2. CASE m < n
    <3>1. (n - m) % Grid = 0
      BY <1>3, <1>4, <1>6, <2>1, <2>2, MultiplesApart
    <3> QED
      BY <1>2, <2>1, <3>1
  <2>3. CASE ~ (m < n)
    <3>1. r = 0
      BY <1>2, <2>1, <2>3
    <3>2. Grid \in Nat \ {0} /\ 0 = 0 * Grid
      BY <1>3
    <3> QED
      BY <3>1, <3>2, Multiple
  <2> QED
    BY <2>2, <2>3
<1> QED
  BY <1>1, <1>5, <1>6

\* A region is searched on its grid, from its start to its end at least.
LEMMA RegionFinds ==
  ASSUME NEW start \in Nat, NEW end \in Nat, Len(Pages) \in Nat, NEW matching \in SUBSET (0 .. Len(Pages) - 1)
  PROVE  /\ findInRegion(start, end, matching) \in SUBSET (matching \cap OnGrid(start))
         /\ \A x \in matching \cap OnGrid(start) : x < end => x \in findInRegion(start, end, matching)
         /\ start >= end => findInRegion(start, end, matching) = {}
<1> DEFINE blocks == (end - start + Block - 1) \div Block
<1>0. Block \in Nat \ {0}
  BY ToolConstants
<1>1. ASSUME NEW x \in start .. Len(Pages) - 1
      PROVE  ((x - start) % Block) % Grid = 0 <=> x \in OnGrid(start)
  <2>1. x - start \in Nat
    BY <1>1
  <2>2. (x - start) % Grid = 0 <=> x \in OnGrid(start)
    BY <1>1 DEF OnGrid
  <2> QED
    BY <2>1, <2>2, BlockGrid
<1>2. start >= end => findInRegion(start, end, matching) = {}
  BY DEF findInRegion
<1>3. ASSUME start < end
      PROVE  /\ LastOfRegion(start, end) \in Int /\ LastOfRegion(start, end) <= Len(Pages) - 1
             /\ LastOfRegion(start, end) >= end - 1 \/ LastOfRegion(start, end) = Len(Pages) - 1
  <2>1. end - start + Block - 1 \in Nat
    BY <1>0, <1>3
  <2>2. PICK r \in 0 .. Block - 1 : blocks \in Nat /\ end - start + Block - 1 = Block * blocks + r
    BY <1>0, <2>1, Division
  <2>3. PICK m \in Nat : m = blocks * Block /\ m = Block * blocks
    BY <1>0, <2>2
  <2>4. m >= end - start
    BY <1>0, <2>2, <2>3
  <2>5. LastOfRegion(start, end) = Min({start + m, Len(Pages)}) - 1
    BY <2>3 DEF LastOfRegion
  <2>6. Min({start + m, Len(Pages)}) = IF start + m <= Len(Pages) THEN start + m ELSE Len(Pages)
    BY MinOfTwo
  <2> QED
    BY <2>4, <2>5, <2>6
<1>4. ASSUME start < end
      PROVE  findInRegion(start, end, matching) =
               {x \in matching \cap (start .. LastOfRegion(start, end)) : ((x - start) % Block) % Grid = 0}
  BY <1>4 DEF findInRegion
<1>5. ASSUME start < end
      PROVE  /\ findInRegion(start, end, matching) \in SUBSET (matching \cap OnGrid(start))
             /\ \A x \in matching \cap OnGrid(start) : x < end => x \in findInRegion(start, end, matching)
  <2>1. ASSUME NEW x \in findInRegion(start, end, matching) PROVE x \in matching \cap OnGrid(start)
    <3>1. x \in matching /\ x \in start .. Len(Pages) - 1 /\ ((x - start) % Block) % Grid = 0
      BY <1>3, <1>4, <1>5, <2>1
    <3> QED
      BY <1>1, <3>1
  <2>2. ASSUME NEW x \in matching \cap OnGrid(start), x < end PROVE x \in findInRegion(start, end, matching)
    <3>1. x \in start .. Len(Pages) - 1
      BY <2>2 DEF OnGrid
    <3>2. x \in start .. LastOfRegion(start, end)
      BY <1>3, <1>5, <2>2, <3>1
    <3> QED
      BY <1>1, <1>4, <1>5, <2>2, <3>1, <3>2
  <2> QED
    BY <2>1, <2>2
<1>6. ASSUME NEW x \in matching \cap OnGrid(start), x < end PROVE x \in findInRegion(start, end, matching)
  <2>1. start < end
    BY <1>6 DEF OnGrid
  <2> QED
    BY <1>5, <1>6, <2>1
<1> QED
  BY <1>2, <1>5, <1>6

LEMMA SearchBegins ==
  ASSUME SearchInit
  PROVE  /\ job \in Searched /\ status = "searching" /\ open = {} /\ file = 1 /\ memo = <<>>
         /\ DOMAIN out = 0 .. MaxTargets - 1 /\ 0 \in DOMAIN out
         /\ \A t \in DOMAIN out : out[t] = <<>> /\ DOMAIN out[t] = {}
         /\ k = IF job.tool = "searchExtents" THEN job.at[1] ELSE 0
  BY ToolConstants DEF SearchInit

\* Where a search has one file.
LEMMA OneFile ==
  ASSUME job \in Searched, file = 1
  PROVE  /\ Pages = Source(1) /\ Len(Pages) \in Nat /\ DOMAIN Pages = 1 .. Len(Pages)
         /\ \A x \in 0 .. Len(Pages) - 1 : Pages[x + 1].id \in Nat /\ Pages[x + 1].good \in BOOLEAN
<1>1. Pages = Source(1) /\ Len(Pages) \in Nat /\ DOMAIN Pages = 1 .. Len(Pages)
      /\ \A i \in 1 .. Len(Pages) : Pages[i].id \in Nat /\ Pages[i].good \in BOOLEAN
  BY SearchedFiles DEF Pages
<1>2. \A x \in 0 .. Len(Pages) - 1 : x + 1 \in 1 .. Len(Pages)
  BY <1>1
<1> QED
  BY <1>1, <1>2

LEMMA CircleStep ==
  ASSUME CircleInv, job \in Searched, status = "searching", searchCircle
  PROVE  CircleInv'
<1> DEFINE begin == job.at[1]
           curr == job.at[3]
           matching == {x \in 0 .. Len(Pages) - 1 : Pages[x + 1].good}
           one == findInRegion(curr, RangeEnd, matching)
           two == findInRegion(begin, curr, matching)
           ahead == {x \in OnGrid(curr) : Pages[x + 1].good}
           behind == {x \in OnGrid(begin) : x < curr /\ Pages[x + 1].good}
<1>1. /\ job.tool = "searchCircle" /\ UNCHANGED <<job, file>> /\ status' = "done"
      /\ out' = IF one # {} THEN Add(out, 0, <<1, Min(one)>>)
                ELSE IF two # {} THEN Add(out, 0, <<1, Min(two)>>) ELSE out
  BY DEF searchCircle, Searching
<1>2. file = 1 /\ DOMAIN out = 0 .. MaxTargets - 1 /\ out[0] = <<>>
  BY <1>1 DEF CircleInv
<1>3. begin \in Nat /\ curr \in Nat
  <2>1. Len(job.at) = 3
    BY <1>1, SearchedAssumption
  <2> QED
    BY <1>1, <2>1, SearchedFiles
<1>4. Len(Pages) \in Nat /\ matching \in SUBSET (0 .. Len(Pages) - 1) /\ RangeEnd = Len(Pages)
  BY <1>2, OneFile DEF RangeEnd
<1>5. 0 \in DOMAIN out /\ DOMAIN out[0] = {} /\ Cardinality(DOMAIN out[0]) = 0
  BY <1>2, ToolConstants, FS_EmptySet
<1>6. ASSUME NEW c 
      PROVE  /\ DOMAIN Add(out, 0, c) = DOMAIN out
             /\ {Add(out, 0, c)[0][x] : x \in DOMAIN Add(out, 0, c)[0]} = {c}
  <2>1. Add(out, 0, c) = [out EXCEPT ![0] = [x \in DOMAIN out[0] \cup {0} |-> IF x = 0 THEN c ELSE out[0][x]]]
    BY <1>5 DEF Add, Put
  <2>2. Add(out, 0, c)[0] = [x \in {0} |-> c]
    BY <1>5, <2>1
  <2>3. DOMAIN Add(out, 0, c) = DOMAIN out
    BY <2>1
  <2>4. PICK g : g = Add(out, 0, c)[0]
    OBVIOUS
  <2>5. {g[x] : x \in DOMAIN g} = {c}
    BY <2>2, <2>4
  <2> QED
    BY <2>3, <2>4, <2>5
<1>7. one = ahead
  <2>1. \A x \in OnGrid(curr) : x \in 0 .. Len(Pages) - 1 /\ x < Len(Pages)
    BY <1>3, <1>4 DEF OnGrid
  <2> QED
    BY <1>3, <1>4, <2>1, RegionFinds
<1>8. ASSUME (curr - begin) % Grid = 0, ahead = {} PROVE two = behind
  <2>1. behind \in SUBSET two
    <3>1. \A x \in OnGrid(begin) : x \in 0 .. Len(Pages) - 1
      BY <1>3, <1>4 DEF OnGrid
    <3> QED
      BY <1>3, <1>4, <3>1, RegionFinds
  <2>2. ASSUME NEW x \in two PROVE x \in behind
    <3>0. begin < curr
      BY <1>3, <1>4, <2>2, RegionFinds
    <3>1. x \in OnGrid(begin) /\ Pages[x + 1].good
      BY <1>3, <1>4, <2>2, RegionFinds
    <3>2. x \in Nat /\ x \in begin .. Len(Pages) - 1 /\ (x - begin) % Grid = 0
      BY <1>3, <3>1 DEF OnGrid
    <3>3. ASSUME ~ (x < curr) PROVE FALSE
      <4>1. x - begin \in Nat /\ curr - begin \in Nat /\ x - curr \in Nat /\ Grid \in Nat \ {0}
        <5>1. Grid \in Nat \ {0}
          BY SearchConstants
        <5>2. x \in Nat /\ begin <= x /\ curr <= x /\ begin <= curr
          BY <1>3, <3>0, <3>2, <3>3
        <5> HIDE DEF begin, curr
        <5> QED
          BY <1>3, <5>1, <5>2
      <4>2. (x - curr) % Grid = 0
        <5>1. CASE curr < x
          <6>1. PICK a \in Nat, c \in Nat : a = curr - begin /\ c = x - begin /\ a < c
            BY <4>1, <1>3, <3>2, <5>1, SMTT(30)
          <6>2. (c - a) % Grid = 0
            BY <1>8, <3>2, <4>1, <6>1, MultiplesApart
          <6>3. c - a = x - curr
            BY <1>3, <3>2, <6>1, SMTT(30)
          <6> QED
            BY <6>2, <6>3
        <5>2. CASE curr = x
          <6>1. x - curr = 0 * Grid
            BY <3>2, <4>1, <5>2
          <6> QED
            BY <4>1, <6>1, Multiple
        <5> QED
          BY <1>3, <3>2, <3>3, <5>1, <5>2
      <4>3. x \in OnGrid(curr)
        BY <1>3, <3>2, <3>3, <4>2 DEF OnGrid
      <4> QED
        BY <1>8, <3>1, <4>3
    <3> QED
      BY <3>1, <3>3
  <2> QED
    BY <2>1, <2>2
<1> HIDE DEF one, two
<1>9. /\ DOMAIN out' = 0 .. MaxTargets - 1
      /\ Cells' = IF one # {} THEN {<<1, Min(one)>>} ELSE IF two # {} THEN {<<1, Min(two)>>} ELSE {}
  <2>1. CASE one # {}
    BY <1>1, <1>2, <1>6, <2>1 DEF Cells
  <2>2. CASE one = {} /\ two # {}
    BY <1>1, <1>2, <1>6, <2>2 DEF Cells
  <2>3. CASE one = {} /\ two = {}
    BY <1>1, <1>2, <1>5, <2>3 DEF Cells
  <2> QED
    BY <2>1, <2>2, <2>3
<1>10. ASSUME (curr - begin) % Grid = 0
       PROVE  Cells' = {<<1, Min(U)>> : U \in {IF ahead # {} THEN ahead ELSE behind} \ {{}}}
  <2>1. CASE ahead # {}
    BY <1>7, <1>9, <2>1
  <2>2. CASE ahead = {} /\ behind # {}
    BY <1>7, <1>8, <1>9, <1>10, <2>2
  <2>3. CASE ahead = {} /\ behind = {}
    BY <1>7, <1>8, <1>9, <1>10, <2>3
  <2> QED
    BY <2>1, <2>2, <2>3
<1>11. Pages' = Pages
  BY <1>1 DEF Pages, Source
<1>12. (job.at[3] - job.at[1]) % Grid = 0 => FirstMatch'
  BY <1>1, <1>10, <1>11 DEF FirstMatch, OnGrid
<1> QED
  BY <1>1, <1>2, <1>9, <1>12 DEF CircleInv

-----------------------------------------------------------------------------
(* The lists of extents by depth                                            *)

LEMMA ExtentsAre ==
  ASSUME job \in Searched, job.tool = "searchExtents", file = 1, NEW n \in Nat
  PROVE  /\ job.at[1] \in Nat
         /\ \A x \in Extents(n) : /\ x \in Nat /\ x < n /\ x < Len(Pages) /\ Id(x) \in 0 .. MaxDepth
                                  /\ Id(x) \in Nat
         /\ IsFiniteSet(Extents(n))
         /\ \A d : OfDepth(n, d) \in SUBSET Extents(n) /\ IsFiniteSet(OfDepth(n, d))
         /\ Len(Pages) \in Nat
<1>1. job.at[1] \in Nat
  <2>1. job.at # <<>> /\ IsList(job.at)
    BY SearchedAssumption
  <2>2. 1 \in 1 .. Len(job.at)
    BY <2>1, ListsHaveLength
  <2> QED
    BY <2>2, SearchedFiles
<1>2. Len(Pages) \in Nat /\ \A x \in 0 .. Len(Pages) - 1 : Pages[x + 1].id \in Nat
  BY OneFile
<1>3. ASSUME NEW x \in Extents(n)
      PROVE  /\ x \in Nat /\ x < n /\ x < Len(Pages) /\ Id(x) \in 0 .. MaxDepth /\ Id(x) \in Nat
  <2>1. x \in job.at[1] .. Len(Pages) - 1 /\ x < n /\ Id(x) <= MaxDepth
    BY <1>3 DEF Extents, OnGrid
  <2>2. x \in 0 .. Len(Pages) - 1
    BY <1>1, <1>2, <2>1
  <2>3. Id(x) \in Nat
    BY <1>2, <2>2 DEF Id
  <2> QED
    BY <1>2, <2>1, <2>2, <2>3, SearchConstants
<1>4. IsFiniteSet(Extents(n))
  <2>1. Extents(n) \in SUBSET Nat /\ \A x \in Extents(n) : x <= n
    BY <1>3
  <2> QED
    BY <2>1, FS_BoundedSetOfNaturals
<1>5. \A d : OfDepth(n, d) \in SUBSET Extents(n) /\ IsFiniteSet(OfDepth(n, d))
  BY <1>4, FS_Subset DEF OfDepth
<1> QED
  BY <1>1, <1>2, <1>3, <1>4, <1>5

\* Places on the grid of the start and on that of a place on it.
LEMMA SameGrid ==
  ASSUME NEW start \in Nat, NEW from \in Nat, start <= from, (from - start) % Grid = 0, Len(Pages) \in Nat
  PROVE  /\ \A x \in Nat : x >= from => (x \in OnGrid(start) <=> x \in OnGrid(from))
         /\ (from + Grid - start) % Grid = 0
         /\ \A x \in OnGrid(from) : x = from \/ x >= from + Grid
<1>1. Grid \in Nat \ {0}
  BY SearchConstants
<1>2. PICK a \in Nat : a = from - start
  OBVIOUS
<1>3. a % Grid = 0 /\ \A z : z = 0 * Grid => z % Grid = 0
  BY <1>1, <1>2, Multiple
<1>4. (from + Grid - start) % Grid = 0
  <2>1. Grid % Grid = 0
    <3>1. Grid = 1 * Grid
      BY <1>1
    <3> QED
      BY <1>1, <3>1, Multiple
  <2>2. (a + Grid) % Grid = 0
    BY <1>1, <1>3, <2>1, SumOfMultiples
  <2>3. a + Grid = from + Grid - start
    BY <1>1, <1>2
  <2> QED
    BY <2>2, <2>3
<1>5. ASSUME NEW x \in Nat, x >= from
      PROVE  (x - start) % Grid = 0 <=> (x - from) % Grid = 0
  <2>1. PICK b \in Nat : b = x - from
    BY <1>5
  <2>2. x - start = a + b
    BY <1>2, <2>1
  <2>3. b % Grid = 0 => (a + b) % Grid = 0
    BY <1>1, <1>3, SumOfMultiples
  <2>4. ASSUME (a + b) % Grid = 0 PROVE b % Grid = 0
    <3>1. CASE b = 0
      <4>1. b = 0 * Grid
        BY <1>1, <3>1
      <4> QED
        BY <1>1, <4>1, Multiple
    <3>2. CASE b # 0
      <4>1. PICK c \in Nat : c = a + b
        OBVIOUS
      <4>2. a < c /\ c - a = b /\ c % Grid = 0
        BY <2>4, <3>2, <4>1
      <4>3. (c - a) % Grid = 0
        BY <1>1, <1>3, <4>2, MultiplesApart
      <4> QED
        BY <4>2, <4>3
    <3> QED
      BY <3>1, <3>2
  <2> QED
    BY <2>1, <2>2, <2>3, <2>4
<1>6. ASSUME NEW x \in Nat, x >= from
      PROVE  x \in OnGrid(start) <=> x \in OnGrid(from)
  BY <1>5, <1>6 DEF OnGrid
<1>7. ASSUME NEW x \in OnGrid(from), x # from PROVE x >= from + Grid
  <2>1. x \in from .. Len(Pages) - 1 /\ (x - from) % Grid = 0
    BY <1>7 DEF OnGrid
  <2>2. PICK c \in Nat, z \in Nat : c = x - from /\ z = 0 /\ z < c
    BY <1>7, <2>1
  <2>3. z = 0 * Grid
    BY <1>1, <2>2
  <2>4. z % Grid = 0 /\ c % Grid = 0
    BY <1>1, <2>1, <2>2, <2>3, Multiple
  <2>5. z + Grid <= c
    BY <1>1, <2>2, <2>4, MultiplesApart
  <2> QED
    BY <1>1, <2>1, <2>2, <2>5
<1> QED
  BY <1>4, <1>6, <1>7

\* The search goes on to the next extent.
LEMMA NextExtent ==
  ASSUME DepthInv, job \in Searched, job.tool = "searchExtents", NEW found,
         found = findInRegion(k, RangeEnd, cmpExtentIfLessMaxDepth)
  PROVE  /\ found = {} => \A n \in Nat : Extents(n) \subseteq Extents(k)
         /\ found # {} => /\ Min(found) \in Nat /\ Min(found) >= k /\ Min(found) \notin Extents(k)
                          /\ Id(Min(found)) \in 0 .. MaxDepth
                          /\ Extents(Min(found)) = Extents(k)
                          /\ Extents(Min(found) + Grid) = Extents(k) \cup {Min(found)}
                          /\ (Min(found) + Grid - job.at[1]) % Grid = 0
<1>1. /\ file = 1 /\ k \in Nat /\ job.at[1] <= k /\ (k - job.at[1]) % Grid = 0 /\ job.at[1] \in Nat
      /\ Len(Pages) \in Nat /\ Grid \in Nat \ {0}
  BY ExtentsAre, SearchConstants DEF DepthInv
<1>2. found = {x \in OnGrid(k) : Pages[x + 1].good /\ Id(x) <= MaxDepth}
  <2>1. cmpExtentIfLessMaxDepth \in SUBSET (0 .. Len(Pages) - 1) /\ RangeEnd = Len(Pages)
    BY DEF cmpExtentIfLessMaxDepth, RangeEnd
  <2>2. \A x \in OnGrid(k) : x \in 0 .. Len(Pages) - 1 /\ x < Len(Pages)
    BY <1>1 DEF OnGrid
  <2>3. found \in SUBSET (cmpExtentIfLessMaxDepth \cap OnGrid(k))
    BY <1>1, <2>1, RegionFinds
  <2>4. \A x \in cmpExtentIfLessMaxDepth \cap OnGrid(k) : x \in found
    BY <1>1, <2>1, <2>2, RegionFinds
  <2>5. cmpExtentIfLessMaxDepth \cap OnGrid(k) = {x \in OnGrid(k) : Pages[x + 1].good /\ Id(x) <= MaxDepth}
    BY <2>2 DEF cmpExtentIfLessMaxDepth, Id
  <2> QED
    BY <2>3, <2>4, <2>5
<1>3. \A x \in Nat : x >= k => (x \in OnGrid(job.at[1]) <=> x \in OnGrid(k))
  BY <1>1, SameGrid
<1>4. ASSUME NEW n \in Nat
      PROVE  Extents(n) = {x \in Extents(k) : x < n} \cup {x \in found : x < n}
  <2>1. ASSUME NEW x \in Extents(n) PROVE (x \in Extents(k) \/ x \in found) /\ x < n
    <3>1. x \in Nat /\ x < n /\ x \in OnGrid(job.at[1]) /\ Pages[x + 1].good /\ Id(x) <= MaxDepth
      BY <1>1, <2>1, ExtentsAre DEF Extents
    <3>2. x < k => x \in Extents(k)
      BY <3>1 DEF Extents
    <3> QED
      BY <1>1, <1>2, <1>3, <3>1, <3>2
  <2>2. ASSUME NEW x \in Extents(k), x < n PROVE x \in Extents(n)
    BY <2>2 DEF Extents
  <2>3. ASSUME NEW x \in found, x < n PROVE x \in Extents(n)
    <3>1. x \in Nat /\ x >= k
      BY <1>1, <1>2, <2>3 DEF OnGrid
    <3> QED
      BY <1>2, <1>3, <2>3, <3>1 DEF Extents
  <2> QED
    BY <2>1, <2>2, <2>3
<1>5. found = {} => \A n \in Nat : Extents(n) \subseteq Extents(k)
  BY <1>4
<1>6. ASSUME found # {}
      PROVE  /\ Min(found) \in Nat /\ Min(found) >= k /\ Min(found) \notin Extents(k)
             /\ Id(Min(found)) \in 0 .. MaxDepth
             /\ Extents(Min(found)) = Extents(k)
             /\ Extents(Min(found) + Grid) = Extents(k) \cup {Min(found)}
             /\ (Min(found) + Grid - job.at[1]) % Grid = 0
  <2>1. found \in SUBSET Nat /\ \A x \in found : x >= k
    BY <1>1, <1>2 DEF OnGrid
  <2>2. PICK f \in Nat : f = Min(found) /\ f \in found /\ f >= k /\ \A x \in found : f <= x
    BY <1>6, <2>1, LeastElement
  <2>3. f \in OnGrid(job.at[1]) /\ Id(f) <= MaxDepth /\ f \in OnGrid(k)
    BY <1>2, <1>3, <2>2
  <2>4. Id(f) \in 0 .. MaxDepth
    <3>1. f \in 0 .. Len(Pages) - 1
      BY <1>1, <2>2, <2>3 DEF OnGrid
    <3>2. Id(f) \in Nat
      BY <1>1, <3>1, OneFile DEF Id
    <3> QED
      BY <2>3, <3>2, SearchConstants
  <2>5. \A x \in Extents(k) : x \in Nat /\ x < k
    BY <1>1, ExtentsAre
  <2>6. Extents(f) = Extents(k)
    <3>1. {x \in found : x < f} = {}
      BY <2>1, <2>2
    <3>2. {x \in Extents(k) : x < f} = Extents(k)
      BY <1>1, <2>2, <2>5
    <3> QED
      BY <1>4, <3>1, <3>2
  <2>7. (f - job.at[1]) % Grid = 0 /\ job.at[1] <= f
    BY <1>1, <2>3 DEF OnGrid
  <2>8. (f + Grid - job.at[1]) % Grid = 0 /\ \A x \in OnGrid(f) : x = f \/ x >= f + Grid
    BY <1>1, <2>2, <2>7, SameGrid
  <2>9. ASSUME NEW x \in found, x < f + Grid PROVE x = f
    <3>1. x \in Nat /\ x >= f /\ x >= k /\ x \in OnGrid(k)
      BY <1>2, <2>1, <2>2, <2>9
    <3>2. x \in OnGrid(f)
      BY <1>1, <1>3, <2>2, <2>7, <3>1, SameGrid
    <3> QED
      BY <1>1, <2>8, <2>9, <3>1, <3>2
  <2>10. f + Grid \in Nat /\ f < f + Grid
    BY <1>1
  <2>11. Extents(f + Grid) = Extents(k) \cup {f}
    <3>1. {x \in found : x < f + Grid} = {f}
      BY <2>2, <2>9, <2>10
    <3>2. {x \in Extents(k) : x < f + Grid} = Extents(k)
      BY <1>1, <2>2, <2>5, <2>10
    <3> QED
      BY <1>4, <2>10, <3>1, <3>2
  <2>12. f \notin Extents(k)
    BY <1>1, <2>2, <2>5
  <2> QED
    BY <2>2, <2>4, <2>6, <2>8, <2>11, <2>12
<1> QED
  BY <1>5, <1>6

LEMMA MaxOfTwo ==
  ASSUME NEW a \in Int, NEW b \in Int
  PROVE  Max({a, b}) = IF a >= b THEN a ELSE b
<1> DEFINE m == IF a >= b THEN a ELSE b
<1>1. m \in {a, b} /\ \A y \in {a, b} : m >= y
  OBVIOUS
<1>2. \A x \in {a, b} : (\A y \in {a, b} : x >= y) => x = m
  OBVIOUS
<1> HIDE DEF m
<1> QED
  BY <1>1, <1>2 DEF Max, m

\* What addOffset leaves, of l lists with old lines in that of the depth.
Added(f, d, l, size, old) ==
  /\ memo' \in Seq(Nat) /\ Len(memo') = size /\ DOMAIN memo' = 1 .. size
  /\ memo'[d + 1] = old + 1
  /\ \A i \in 1 .. size : i # d + 1 => memo'[i] = IF i \in DOMAIN memo THEN memo[i] ELSE 0
  /\ DOMAIN out' = DOMAIN out /\ d \in DOMAIN out
  /\ \A t \in DOMAIN out : t # d => out'[t] = out[t]
  /\ out'[d][old] = <<1, f>> /\ old \in DOMAIN out'[d]
  /\ \A i \in DOMAIN out'[d] : i # old => i \in DOMAIN out[d] /\ out'[d][i] = out[d][i]
  /\ d \in open'
  /\ size = l => open' = open \cup {d}
  /\ size = l /\ d \in open => DOMAIN out'[d] = DOMAIN out[d] \cup {old}

LEMMA OffsetAdded ==
  ASSUME NEW f, NEW d \in 0 .. MaxDepth, addOffset(f, d), memo \in Seq(Nat), DOMAIN out = 0 .. MaxTargets - 1,
         NEW l, l = Len(memo),
         NEW size, size = IF l >= d + 1 THEN l ELSE d + 1,
         NEW old, old = IF d + 1 \in DOMAIN memo THEN memo[d + 1] ELSE 0
  PROVE  Added(f, d, l, size, old)
<1> DEFINE lines == [i \in 1 .. size |-> IF i <= Len(memo) THEN memo[i] ELSE 0]
           stillOpen == OpenAfterGrowth(open, CapacityFor[size] # CapacityFor[Len(memo)])
           kept == IF d \in stillOpen THEN out ELSE [out EXCEPT ![d] = << >>]
<1>1. d \in Nat /\ Len(memo) \in Nat /\ DOMAIN memo = 1 .. Len(memo) /\ d \in 0 .. MaxTargets - 1
  <2>1. Len(memo) \in Nat /\ DOMAIN memo = 1 .. Len(memo)
    OBVIOUS
  <2>2. MaxDepth \in 0 .. MaxTargets - 1 /\ MaxTargets \in Nat
    BY SearchConstants, ToolConstants
  <2> QED
    BY <2>1, <2>2
<1>2. Max({Len(memo), d + 1}) = size /\ size \in Nat /\ Len(memo) <= size /\ d + 1 \in 1 .. size
  BY <1>1, MaxOfTwo
<1>3. /\ out' = Put(kept, d, lines[d + 1], <<1, f>>)
      /\ open' = stillOpen \cup {d}
      /\ memo' = [lines EXCEPT ![d + 1] = @ + 1]
  BY <1>2 DEF addOffset
<1>4. lines \in [1 .. size -> Nat] /\ lines[d + 1] = old
      /\ \A i \in 1 .. size : lines[i] = IF i \in DOMAIN memo THEN memo[i] ELSE 0
  <2>1. \A i \in 1 .. size : i <= Len(memo) <=> i \in DOMAIN memo
    <3>1. PICK len \in Nat : len = Len(memo) /\ DOMAIN memo = 1 .. len
      BY <1>1
    <3> QED
      BY <3>1
  <2>2. \A i \in DOMAIN memo : memo[i] \in Nat
    BY <1>1
  <2> QED
    BY <1>1, <1>2, <2>1, <2>2
<1> HIDE DEF lines
<1>5. memo' \in [1 .. size -> Nat]
  BY <1>2, <1>3, <1>4
<1>6. memo' \in Seq(Nat) /\ Len(memo') = size /\ DOMAIN memo' = 1 .. size
  <2>1. PICK m : m = memo'
    OBVIOUS
  <2>2. PICK len \in Nat : len = size
    BY <1>2
  <2>3. m \in [1 .. len -> Nat]
    BY <1>5, <2>1, <2>2
  <2>4. m \in Seq(Nat) /\ Len(m) = len /\ DOMAIN m = 1 .. len
    BY <2>3
  <2> QED
    BY <2>1, <2>2, <2>4
<1>7. memo'[d + 1] = old + 1 /\ \A i \in 1 .. size : i # d + 1 => memo'[i] = IF i \in DOMAIN memo THEN memo[i] ELSE 0
  BY <1>2, <1>3, <1>4
<1>8. /\ stillOpen \subseteq open
      /\ size = Len(memo) => stillOpen = open
  BY DEF OpenAfterGrowth
<1> HIDE DEF stillOpen
<1>9. /\ DOMAIN kept = DOMAIN out /\ d \in DOMAIN out
      /\ \A t \in DOMAIN out : t # d => kept[t] = out[t]
      /\ d \in stillOpen => kept[d] = out[d]
      /\ d \notin stillOpen => DOMAIN kept[d] = {}
  BY <1>1
<1> HIDE DEF kept
<1>10. /\ DOMAIN out' = DOMAIN out
       /\ \A t \in DOMAIN out : t # d => out'[t] = out[t]
       /\ DOMAIN out'[d] = DOMAIN kept[d] \cup {old} /\ out'[d][old] = <<1, f>>
       /\ \A i \in DOMAIN kept[d] : i # old => out'[d][i] = kept[d][i]
  <2>1. PICK p : p = Put(kept, d, old, <<1, f>>)
    OBVIOUS
  <2>2. /\ DOMAIN p = DOMAIN kept
        /\ \A t \in DOMAIN kept : t # d => p[t] = kept[t]
        /\ DOMAIN p[d] = DOMAIN kept[d] \cup {old} /\ p[d][old] = <<1, f>>
        /\ \A i \in DOMAIN kept[d] : i # old => p[d][i] = kept[d][i]
    BY <1>9, <2>1 DEF Put
  <2>3. out' = p
    BY <1>3, <1>4, <2>1
  <2> QED
    BY <1>9, <2>2, <2>3
<1>11. \A i \in DOMAIN out'[d] : i # old => d \in open' /\ i \in DOMAIN out[d] /\ out'[d][i] = out[d][i]
  BY <1>3, <1>9, <1>10
<1> QED
  BY <1>3, <1>6, <1>7, <1>8, <1>9, <1>10, <1>11 DEF Added

LEMMA DepthStart ==
  ASSUME SearchInit PROVE DepthInv
<1> SUFFICES ASSUME job \in Searched, job.tool = "searchExtents" PROVE DepthInv
  BY DEF DepthInv
<1>1. file = 1 /\ memo = <<>> /\ DOMAIN out = 0 .. MaxTargets - 1 /\ k = job.at[1] /\ status = "searching"
      /\ \A t \in DOMAIN out : DOMAIN out[t] = {}
  BY SearchBegins
<1>2. job.at[1] \in Nat
  BY <1>1, ExtentsAre
<1>3. (k - job.at[1]) % Grid = 0
  <2>1. Grid \in Nat \ {0} /\ k - job.at[1] = 0 * Grid
    BY <1>1, <1>2, SearchConstants
  <2> QED
    BY <2>1, Multiple
<1>4. Extents(k) = {} /\ \A d : OfDepth(k, d) = {}
  <2>1. Extents(k) = {}
    BY <1>1, <1>2 DEF Extents, OnGrid
  <2> QED
    BY <2>1 DEF OfDepth
<1>5. DepthsNoted(k)
  <2>1. \A d \in 0 .. MaxDepth : DOMAIN out[d] = {}
    BY <1>1, SearchConstants, ToolConstants
  <2> QED
    BY <1>4, <2>1 DEF DepthsNoted
<1>6. memo \in Seq(Nat) /\ Len(memo) = 0 /\ DOMAIN memo = {}
  BY <1>1
<1> QED
  BY <1>1, <1>2, <1>3, <1>4, <1>5, <1>6 DEF DepthInv, ClosedFile

\* The same extents give the same lists.
LEMMA SameLists ==
  ASSUME NEW m \in Nat, NEW n \in Nat, Extents(m) = Extents(n), DepthsNoted(m)
  PROVE  DepthsNoted(n)
<1>1. \A d : OfDepth(m, d) = OfDepth(n, d)
  BY DEF OfDepth
<1>2. \A x : Remains(m, x) <=> Remains(n, x)
  BY <1>1 DEF Remains
<1> QED
  BY <1>1, <1>2 DEF DepthsNoted

LEMMA DepthStep ==
  ASSUME DepthInv, job \in Searched, status = "searching", searchExtents
  PROVE  DepthInv'
<1> DEFINE found == findInRegion(k, RangeEnd, cmpExtentIfLessMaxDepth)
<1>1. /\ job.tool = "searchExtents" /\ job' = job /\ file' = file /\ file = 1
      /\ DOMAIN out = 0 .. MaxTargets - 1 /\ k \in Nat /\ memo \in Seq(Nat)
  BY DEF searchExtents, Searching, Ends, DepthInv
<1>2. Pages' = Pages
  BY <1>1 DEF Pages, Source
<1>3. \A n : Extents(n)' = Extents(n) /\ \A d : OfDepth(n, d)' = OfDepth(n, d)
  BY <1>1, <1>2 DEF Extents, OfDepth, OnGrid, Id
<1>4. \A x : Id(x)' = Id(x) /\ (Deepens(x)' <=> Deepens(x)) /\ Line(x)' = Line(x)
  BY <1>2, <1>3 DEF Deepens, Line, Id
<1>5. \A n, x : Remains(n, x)' <=> Remains(n, x)
  BY <1>3, <1>4 DEF Remains
<1>6. CASE found = {} /\ Ends("done")
  <2>1. UNCHANGED <<job, open, file, k, out, memo>> /\ status' = "done"
    BY <1>6 DEF Ends
  <2>2. \A n \in Nat : Extents(n) \subseteq Extents(k)
    BY <1>1, <1>6, NextExtent
  <2>3. Len(Pages) \in Nat /\ \A x \in Extents(k) : x < Len(Pages)
    BY <1>1, ExtentsAre
  <2>4. Extents(k) = Extents(Len(Pages))
    <3>1. Extents(k) \subseteq Extents(Len(Pages))
      BY <2>3 DEF Extents
    <3> QED
      BY <2>2, <2>3, <3>1
  <2>5. DepthsNoted(Len(Pages))
    BY <1>1, <2>3, <2>4, SameLists DEF DepthInv
  <2>6. \A n : DepthsNoted(n)' <=> DepthsNoted(n)
    BY <1>3, <1>4, <1>5, <2>1 DEF DepthsNoted
  <2>7. \A d : ClosedFile(d)' <=> ClosedFile(d)
    BY <1>3, <1>4, <2>1 DEF ClosedFile
  <2>8. DepthsNoted(k)' /\ DepthsNoted(Len(Pages))'
    BY <1>1, <1>2, <2>1, <2>5, <2>6 DEF DepthInv
  <2> QED
    BY <1>1, <1>3, <1>4, <2>1, <2>7, <2>8 DEF DepthInv
<1>7. CASE /\ found # {}
           /\ addOffset(Min(found), Pages[Min(found) + 1].id)
           /\ k' = Min(found) + Grid
           /\ status' = status
  <2>1. PICK f, d : f = Min(found) /\ d = Id(f)
    OBVIOUS
  <2>2. /\ f \in Nat /\ f >= k /\ f \notin Extents(k) /\ d \in 0 .. MaxDepth
        /\ Extents(f) = Extents(k) /\ Extents(f + Grid) = Extents(k) \cup {f}
        /\ (f + Grid - job.at[1]) % Grid = 0
    BY <1>1, <1>7, <2>1, NextExtent
  <2>3. addOffset(f, d) /\ k' = f + Grid
    BY <1>7, <2>1 DEF Id
  <2>4. \A x \in Extents(k) : x \in Nat /\ x < k /\ Id(x) \in Nat /\ Id(x) \in 0 .. MaxDepth
    BY <1>1, ExtentsAre
  <2>5. d \in Nat /\ Grid \in Nat \ {0} /\ MaxDepth \in Nat
    BY <2>2, SearchConstants, ToolConstants
  <2>6. PICK l, size, old : /\ l = Len(memo)
                            /\ size = IF l >= d + 1 THEN l ELSE d + 1
                            /\ old = IF d + 1 \in DOMAIN memo THEN memo[d + 1] ELSE 0
    OBVIOUS
  <2>7. /\ l \in Nat /\ DOMAIN memo = 1 .. l /\ size \in Nat
        /\ d < size /\ l <= size /\ (size # l => size = d + 1 /\ l < d + 1)
    <3>1. l \in Nat /\ DOMAIN memo = 1 .. l
      BY <1>1, <2>6
    <3>2. size \in Nat /\ d < size /\ l <= size /\ (size # l => size = d + 1 /\ l < d + 1)
      BY <2>5, <2>6, <3>1
    <3> QED
      BY <3>1, <3>2
  <2>8. old = Cardinality(OfDepth(k, d)) /\ old = Line(f) /\ IsFiniteSet(OfDepth(k, d)) /\ old \in Nat
    <3>1. IsFiniteSet(OfDepth(k, d))
      BY <1>1, ExtentsAre
    <3>2. old = Cardinality(OfDepth(k, d))
      BY <1>1, <2>2, <2>6, FS_EmptySet DEF DepthInv
    <3>3. OfDepth(f, d) = OfDepth(k, d)
      BY <2>2 DEF OfDepth
    <3> QED
      BY <2>1, <3>1, <3>2, <3>3, FS_CardinalityType DEF Line
  <2>9. size # l => Deepens(f) /\ OfDepth(k, d) = {}
    <3>1. ASSUME size # l, NEW y \in Extents(k) PROVE Id(y) < d
      <4>1. Id(y) < l /\ l < d + 1
        BY <1>1, <2>6, <2>7, <3>1 DEF DepthInv
      <4> QED
        BY <2>4, <2>5, <2>7, <4>1
    <3> QED
      BY <2>1, <2>2, <2>4, <2>5, <3>1 DEF Deepens, OfDepth
  <2>10. Added(f, d, l, size, old)
    BY <1>1, <2>2, <2>3, <2>6, OffsetAdded
  <2>11. PICK n \in Nat : n = f + Grid /\ n > f /\ k' = n
    BY <2>2, <2>3, <2>5
  <2>12. /\ OfDepth(n, d) = OfDepth(k, d) \cup {f} /\ f \notin OfDepth(k, d)
         /\ \A e : e # d => OfDepth(n, e) = OfDepth(k, e)
    BY <2>1, <2>2, <2>11 DEF OfDepth
  <2>13. \A e : OfDepth(k, e) \subseteq Extents(k)
    BY DEF OfDepth
  <2>14. \A x \in Extents(k) : Remains(n, x) => Remains(k, x)
    <3>1. Extents(k) \subseteq Extents(n) /\ \A e : OfDepth(k, e) \subseteq OfDepth(n, e)
      BY <2>2, <2>11 DEF OfDepth
    <3> QED
      BY <3>1 DEF Remains
  \* Where a file is closed or is none yet, a deeper extent lies between.
  <2>15. ASSUME NEW x \in OfDepth(k, d), Remains(n, x) PROVE size = l /\ d \in open
    <3>1. size = l
      BY <2>9, <2>15
    <3>2. ASSUME d \notin open PROVE FALSE
      <4>1. PICK y \in Extents(k) : x < y /\ Deepens(y)
        BY <1>1, <2>2, <2>15, <3>2 DEF DepthInv, ClosedFile
      <4>2. y \in Extents(n) /\ f \in OfDepth(n, d) /\ y < f /\ Id(x) = d
        BY <2>2, <2>4, <2>11, <2>12, <2>15, <4>1, <1>1 DEF OfDepth
      <4> QED
        BY <2>15, <4>1, <4>2 DEF Remains
    <3> QED
      BY <3>1, <3>2
  <2>16. DepthsNoted(n)'
    <3>1. ASSUME NEW e \in 0 .. MaxDepth
          PROVE  /\ \A i \in DOMAIN out'[e] : \E x \in OfDepth(n, e) : i = Line(x) /\ out'[e][i] = <<1, x>>
                 /\ \A x \in OfDepth(n, e) : Remains(n, x) => Line(x) \in DOMAIN out'[e]
      <4>1. /\ \A i \in DOMAIN out[e] : \E x \in OfDepth(k, e) : i = Line(x) /\ out[e][i] = <<1, x>>
            /\ \A x \in OfDepth(k, e) : Remains(k, x) => Line(x) \in DOMAIN out[e]
        BY <1>1 DEF DepthInv, DepthsNoted
      <4>2. CASE e # d
        <5>1. e \in DOMAIN out /\ out'[e] = out[e]
          <6>1. e \in DOMAIN out
            BY <1>1, SearchConstants, ToolConstants
          <6> QED
            BY <2>10, <4>2, <6>1 DEF Added
        <5> QED
          BY <2>12, <2>13, <2>14, <4>1, <4>2, <5>1
      <4>3. CASE e = d
        <5>1. ASSUME NEW i \in DOMAIN out'[e]
              PROVE  \E x \in OfDepth(n, e) : i = Line(x) /\ out'[e][i] = <<1, x>>
          <6>1. CASE i = old
            BY <2>8, <2>10, <2>12, <4>3, <6>1 DEF Added
          <6>2. CASE i # old
            <7>1. i \in DOMAIN out[e] /\ out'[e][i] = out[e][i]
              BY <2>10, <4>3, <5>1, <6>2 DEF Added
            <7> QED
              BY <2>12, <4>1, <4>3, <7>1
          <6> QED
            BY <6>1, <6>2
        <5>2. ASSUME NEW x \in OfDepth(n, e), Remains(n, x) PROVE Line(x) \in DOMAIN out'[e]
          <6>1. CASE x = f
            BY <2>8, <2>10, <4>3, <6>1 DEF Added
          <6>2. CASE x # f
            <7>1. x \in OfDepth(k, d)
              BY <2>12, <4>3, <5>2, <6>2
            <7>2. size = l /\ d \in open /\ Remains(k, x)
              BY <2>13, <2>14, <2>15, <5>2, <7>1
            <7> QED
              BY <2>10, <4>1, <4>3, <7>1, <7>2 DEF Added
          <6> QED
            BY <6>1, <6>2
        <5> QED
          BY <5>1, <5>2
      <4> QED
        BY <4>2, <4>3
    <3> QED
      BY <1>3, <1>4, <1>5, <3>1 DEF DepthsNoted
  <2>17. ASSUME NEW e \in 0 .. MaxDepth
         PROVE  /\ e + 1 \in DOMAIN memo' => memo'[e + 1] = Cardinality(OfDepth(n, e))
                /\ e + 1 \notin DOMAIN memo' => OfDepth(n, e) = {}
                /\ e \notin open' => \A x \in OfDepth(n, e) : \E y \in Extents(n) : x < y /\ Deepens(y)
    <3>1. /\ e + 1 \in DOMAIN memo => memo[e + 1] = Cardinality(OfDepth(k, e))
          /\ e + 1 \notin DOMAIN memo => OfDepth(k, e) = {}
          /\ e \notin open => \A x \in OfDepth(k, e) : \E y \in Extents(k) : x < y /\ Deepens(y)
      BY <1>1 DEF DepthInv, ClosedFile
    <3>2. CASE e = d
      <4>1. Cardinality(OfDepth(n, e)) = old + 1
        BY <2>8, <2>12, <3>2, FS_AddElement
      <4>2. e + 1 \in DOMAIN memo'
        BY <2>5, <2>6, <2>7, <2>10, <3>2 DEF Added
      <4> QED
        BY <2>10, <3>2, <4>1, <4>2 DEF Added
    <3>3. CASE e # d
      <4>1. OfDepth(n, e) = OfDepth(k, e)
        BY <2>12, <3>3
      <4>2. e \in Nat /\ e + 1 # d + 1
        BY <2>5, <3>3
      <4>3. e + 1 \in DOMAIN memo' => memo'[e + 1] = Cardinality(OfDepth(n, e))
        <5>1. ASSUME e + 1 \in DOMAIN memo'
              PROVE memo'[e + 1] = IF e + 1 \in DOMAIN memo THEN memo[e + 1] ELSE 0
          BY <2>10, <4>2, <5>1 DEF Added
        <5> QED
          BY <3>1, <4>1, <5>1, FS_EmptySet
      <4>4. e + 1 \notin DOMAIN memo' => OfDepth(n, e) = {}
        <5>1. DOMAIN memo \subseteq DOMAIN memo'
          BY <2>5, <2>6, <2>7, <2>10 DEF Added
        <5> QED
          BY <3>1, <4>1, <5>1
      <4>5. ASSUME e \notin open', NEW x \in OfDepth(n, e) PROVE \E y \in Extents(n) : x < y /\ Deepens(y)
        <5>1. CASE size = l
          <6>1. e \notin open
            BY <2>10, <4>5, <5>1 DEF Added
          <6> QED
            BY <2>2, <2>11, <3>1, <4>1, <4>5, <6>1
        <5>2. CASE size # l
          <6>1. x \in Nat /\ x < f
            BY <1>1, <2>2, <2>4, <2>13, <4>1, <4>5
          <6> QED
            BY <2>2, <2>9, <2>11, <5>2, <6>1
        <5> QED
          BY <5>1, <5>2
      <4> QED
        BY <4>3, <4>4, <4>5
    <3> QED
      BY <3>2, <3>3
  <2>18. \A x \in Extents(n) : Id(x) < size
    <3>1. d < size /\ l <= size
      BY <2>7
    <3>2. ASSUME NEW x \in Extents(k) PROVE Id(x) < size
      <4>1. Id(x) < l
        BY <1>1, <2>6, <3>2 DEF DepthInv
      <4> QED
        BY <2>4, <2>7, <3>1, <4>1
    <3> QED
      BY <2>1, <2>2, <2>11, <3>1, <3>2
  <2>19. \E x \in Extents(n) : Id(x) = size - 1
    <3>1. CASE size = l
      <4>1. l > 0
        <5>1. size > 0
          BY <2>5, <2>7
        <5> QED
          BY <3>1, <5>1
      <4> QED
        BY <1>1, <2>2, <2>6, <2>11, <3>1, <4>1 DEF DepthInv
    <3>2. CASE size # l
      <4>1. d = size - 1
        BY <2>5, <2>7, <3>2
      <4> QED
        BY <2>1, <2>2, <2>11, <4>1
    <3> QED
      BY <3>1, <3>2
  <2>20. job.at[1] <= n /\ (n - job.at[1]) % Grid = 0
    <3>1. job.at[1] <= k /\ job.at[1] \in Nat
      BY <1>1, ExtentsAre DEF DepthInv
    <3>2. PICK start \in Nat : start = job.at[1]
      BY <3>1
    <3>3. start <= n
      BY <1>1, <2>2, <2>11, <3>1, <3>2
    <3>4. n = f + Grid
      BY <2>11
    <3> QED
      <4>1. job.at[1] <= n
        BY <3>2, <3>3
      <4>2. (f + Grid - job.at[1]) % Grid = 0
        BY <2>2
      <4>3. (n - job.at[1]) % Grid = 0
        BY <2>2, <2>5, <3>1, <3>4, <4>2
      <4> QED
        BY <4>1, <4>3
  <2>21. \A e \in 0 .. MaxDepth : e \notin open' => ClosedFile(e)'
    BY <1>3, <1>4, <2>11, <2>17 DEF ClosedFile
  <2>22. DepthsNoted(k)'
    BY <2>11, <2>16
  <2>23. /\ \A e \in 0 .. MaxDepth :
              /\ e + 1 \in DOMAIN memo' => memo'[e + 1] = Cardinality(OfDepth(k, e)')
              /\ e + 1 \notin DOMAIN memo' => OfDepth(k, e)' = {}
         /\ \A x \in Extents(k)' : Id(x)' < Len(memo')
         /\ \E x \in Extents(k)' : Id(x)' = Len(memo') - 1
    BY <1>3, <1>4, <2>10, <2>11, <2>17, <2>18, <2>19 DEF Added
  <2> QED
    BY <1>1, <1>7, <2>10, <2>11, <2>20, <2>21, <2>22, <2>23 DEF DepthInv, Added
<1> QED
  BY <1>6, <1>7 DEF searchExtents

-----------------------------------------------------------------------------
(* The pieces of an Acronis image, and the extents of an inode              *)

\* A place that is no farther on in its region lets as much fit.
LEMMA NoFarther ==
  ASSUME NEW y \in Int, NEW z \in Int, NEW start \in Int, NEW r \in Int, NEW s \in Int,
         NEW b \in Int, NEW l \in Int, y - start - r <= z - start - s, z - s + b <= l
  PROVE  y - r + b <= l
  OBVIOUS

LEMMA BlockOrder ==
  ASSUME NEW a \in Nat, NEW b \in Nat
  PROVE  /\ a <= b => a - (a % Block) <= b - (b % Block)
         /\ a < b /\ b % Block = 0 => a - (a % Block) + Block <= b
<1>1. PICK B \in Nat \ {0} : B = Block
  BY ToolConstants
<1>2. PICK p \in Nat, r \in 0 .. B - 1 : r = a % B /\ a = B * p + r
  <2>1. a \div B \in Nat /\ a % B \in 0 .. B - 1 /\ a = B * (a \div B) + (a % B)
    BY Division
  <2> QED
    BY <2>1
<1>3. PICK q \in Nat, s \in 0 .. B - 1 : s = b % B /\ b = B * q + s
  <2>1. b \div B \in Nat /\ b % B \in 0 .. B - 1 /\ b = B * (b \div B) + (b % B)
    BY Division
  <2> QED
    BY <2>1
<1>4. a - r = p * B /\ b - s = q * B /\ p * B \in Nat /\ q * B \in Nat
  BY <1>1, <1>2, <1>3
<1>5. ASSUME a <= b, ~ (a - r <= b - s) PROVE FALSE
  <2>1. q < p \/ p <= q
    BY <1>2, <1>3
  <2>2. CASE q < p
    <3>1. q * B + B <= p * B
      BY <2>2, OneLess
    <3> QED
      BY <1>1, <1>2, <1>3, <1>4, <1>5, <3>1
  <2>3. CASE p <= q
    <3>1. p * B <= q * B
      <4>1. CASE p = q
        BY <4>1, <1>4
      <4>2. CASE p < q
        BY <1>1, <1>4, <4>2, OneLess
      <4> QED
        BY <2>3, <4>1, <4>2
    <3> QED
      BY <1>4, <1>5, <3>1
  <2> QED
    BY <2>1, <2>2, <2>3
<1>6. ASSUME a < b, s = 0 PROVE a - r + B <= b
  <2>1. p < q
    <3>1. CASE q < p
      BY <1>1, <1>2, <1>3, <1>4, <1>6, <3>1, OneLess
    <3>2. CASE q = p
      BY <1>1, <1>2, <1>3, <1>4, <1>6, <3>2
    <3> QED
      BY <1>2, <1>3, <3>1, <3>2
  <2>2. p * B + B <= q * B
    BY <2>1, OneLess
  <2> QED
    BY <1>1, <1>2, <1>3, <1>4, <1>6, <2>2
<1> QED
  BY <1>1, <1>2, <1>3, <1>5, <1>6

\* What find_8FF finds from a start.
LEMMA MarkersFound ==
  ASSUME NEW start \in Nat, Len(Pages) \in Nat, NEW found, found = find_8FF(start), ~ SearchThrows(start)
  PROVE  /\ found \in Nat /\ found >= start
         /\ found # start => Marker(found)
         /\ \A y \in start .. found - 1 : ~ Seen(start, y)
         /\ found = start => NoneBehind(start)
<1>1. Block \in Nat \ {0}
  BY ToolConstants
<1>2. Hits(start) \in SUBSET (start .. Len(Pages) - 1)
  BY DEF Hits
<1>3. \A x \in start .. Len(Pages) - 1 :
        x \in Hits(start) <=> Seen(start, x) /\ x - ((x - start) % Block) + Block <= Len(Pages)
  <2>1. \A x \in start .. Len(Pages) - 1 : x \in 0 .. Len(Pages) - 1
    OBVIOUS
  <2> QED
    BY <2>1 DEF Hits, Seen, Marker, Id, CanMatch
<1>4. \A x : Seen(start, x) => x \in 0 .. Len(Pages) - 1
  BY DEF Seen, Marker
<1>5. CASE Hits(start) = {}
  <2>1. found = start
    BY <1>5 DEF find_8FF
  <2>2. ASSUME NEW y \in start .. Len(Pages) - 1, Seen(start, y) PROVE FALSE
    <3>0. y - start \in Nat /\ Len(Pages) - start \in Nat /\ y - start < Len(Pages) - start
      BY <2>2
    <3>1. PICK a \in Nat, b \in Nat : a = y - start /\ b = Len(Pages) - start /\ a < b
      BY <3>0
    <3>2. b % Block = 0
      <4>1. start < Len(Pages)
        BY <2>2
      <4>2. (Len(Pages) - start) % Block = 0
        BY <1>5, <4>1 DEF SearchThrows
      <4> QED
        BY <3>1, <4>2
    <3>3. a - (a % Block) + Block <= b
      BY <3>1, <3>2, BlockOrder
    <3>4. a % Block \in Int
      BY <1>1, <3>1
    <3>5. y - (a % Block) + Block <= Len(Pages)
      BY <1>1, <3>1, <3>3, <3>4
    <3> QED
      BY <1>3, <1>5, <2>2, <3>1, <3>5
  <2>3. NoneBehind(start)
    BY <2>2 DEF NoneBehind
  <2>4. start .. found - 1 = {}
    BY <2>1
  <2> QED
    BY <2>1, <2>3, <2>4
<1>6. CASE Hits(start) # {}
  <2>1. Hits(start) \in SUBSET Nat
    BY <1>2
  <2>2. found \in Hits(start) /\ (\A x \in Hits(start) : found <= x) /\ found \in start .. Len(Pages) - 1
    BY <1>2, <1>6, <2>1, LeastElement DEF find_8FF
  <2>3. Marker(found) /\ Seen(start, found) /\ found - ((found - start) % Block) + Block <= Len(Pages)
    BY <1>3, <2>2 DEF Seen
  <2>4. ASSUME NEW y \in start .. found - 1, Seen(start, y) PROVE FALSE
    <3>1. y \in start .. Len(Pages) - 1 /\ y < found
      BY <2>2
    <3>0. y - start \in Nat /\ found - start \in Nat /\ y - start <= found - start
      BY <2>2, <2>4
    <3>2. PICK a \in Nat, b \in Nat : a = y - start /\ b = found - start /\ a <= b
      BY <3>0
    <3>3. a - (a % Block) <= b - (b % Block) /\ a % Block \in Int /\ b % Block \in Int
      <4>1. a - (a % Block) <= b - (b % Block)
        BY <3>2, BlockOrder
      <4> QED
        BY <1>1, <3>2, <4>1
    <3>4. found - (b % Block) + Block <= Len(Pages)
      BY <2>3, <3>2
    <3>5. y - (a % Block) + Block <= Len(Pages)
      <4>1. PICK r \in Int : r = a % Block
        BY <3>3
      <4>2. PICK s \in Int : s = b % Block
        BY <3>3
      <4>3. PICK B \in Int : B = Block
        BY <1>1
      <4>4. PICK l \in Int : l = Len(Pages)
        OBVIOUS
      <4>5. a - r <= b - s /\ found - s + B <= l /\ found \in Int /\ y \in Int
        BY <2>2, <2>4, <3>3, <3>4, <4>1, <4>2, <4>3, <4>4
      <4>6. a = y - start /\ b = found - start
        BY <3>2
      <4>7. y - r + B <= l
        <5>1. y - start - r <= found - start - s
          BY <4>5, <4>6
        <5>2. start \in Int
          OBVIOUS
        <5> QED
          BY <4>5, <5>1, <5>2, NoFarther, SMTT(30)
      <4> QED
        BY <4>1, <4>3, <4>4, <4>7
    <3>6. y \in Hits(start)
      BY <1>3, <2>4, <3>1, <3>2, <3>5
    <3> QED
      BY <2>2, <3>1, <3>6
  <2>5. found = start => NoneBehind(start)
    BY <2>3 DEF NoneBehind
  <2> QED
    BY <2>2, <2>3, <2>4, <2>5
<1> QED
  BY <1>5, <1>6

\* What is true of a target and no other variable but the job's.
LEMMA NothingPut ==
  ASSUME SearchInit
  PROVE  Size0 = 0 /\ DOMAIN out[0] = First(0) /\ DOMAIN out = 0 .. MaxTargets - 1 /\ Cells = {}
<1>1. DOMAIN out = 0 .. MaxTargets - 1 /\ DOMAIN out[0] = {}
  BY SearchBegins
<1>2. First(0) = {}
  BY DEF First
<1> QED
  BY <1>1, <1>2, FS_EmptySet DEF Size0, Cells

LEMMA PieceStart ==
  ASSUME SearchInit PROVE PieceInv
<1>1. job \in Searched /\ file = 1 /\ memo = <<>> /\ status = "searching"
  BY SearchBegins
<1>2. Size0 = 0 /\ DOMAIN out[0] = {} /\ First(0) = {} /\ DOMAIN out = 0 .. MaxTargets - 1
  BY NothingPut DEF First
<1>3. PiecesBetween
  BY <1>2 DEF PiecesBetween
<1>4. Size0 \in Nat /\ ~ (Size0 > 0) /\ DOMAIN out[0] = First(Size0)
  BY <1>2
<1> QED
  BY <1>1, <1>2, <1>3, <1>4 DEF PieceInv

LEMMA PieceStep ==
  ASSUME PieceInv, job \in Searched, status = "searching", saveToFile
  PROVE  PieceInv'
<1> DEFINE start == IF memo = <<>> THEN 0 ELSE memo[1]
           found == find_8FF(start)
           n == Size0
<1>1. /\ job.tool = "saveToFile" /\ file = 1 /\ DOMAIN out = 0 .. MaxTargets - 1 /\ 0 \in DOMAIN out
      /\ n \in Nat /\ DOMAIN out[0] = First(n) /\ PiecesBetween /\ Len(Pages) \in Nat
      /\ n > 0 => memo # <<>> /\ memo[1] = out[0][n - 1][2] + MarkData
  BY OneFile, ToolConstants DEF saveToFile, Searching, PieceInv
<1>2. /\ job' = job /\ file' = file /\ Pages' = Pages
      /\ \A x, y : (Seen(x, y)' <=> Seen(x, y)) /\ (Marker(y)' <=> Marker(y)) /\ (NoneBehind(x)' <=> NoneBehind(x))
  <2>1. job' = job /\ file' = file
    BY DEF saveToFile, Ends
  <2>2. Pages' = Pages
    BY <2>1 DEF Pages, Source
  <2> QED
    BY <2>1, <2>2 DEF Seen, Marker, NoneBehind, Id
<1>3. start \in Nat
  BY <1>1 DEF PieceInv
<1> HIDE DEF start
<1>4. ASSUME ~ SearchThrows(start)
      PROVE  /\ found \in Nat /\ found >= start
             /\ found # start => Marker(found)
             /\ \A y \in start .. found - 1 : ~ Seen(start, y)
             /\ found = start => NoneBehind(start)
  BY <1>1, <1>3, <1>4, MarkersFound
<1> HIDE DEF found
<1>5. ASSUME UNCHANGED out PROVE Size0' = Size0 /\ (PiecesBetween' <=> PiecesBetween)
  BY <1>2, <1>5 DEF Size0, PiecesBetween
<1>6. CASE SearchThrows(start) /\ Ends("thrown")
  <2>1. UNCHANGED <<job, out, memo>> /\ status' = "thrown"
    BY <1>6 DEF Ends
  <2>2. Size0' = Size0 /\ PiecesBetween'
    BY <1>1, <1>5, <2>1
  <2> QED
    BY <1>1, <1>2, <2>1, <2>2 DEF PieceInv
<1>7. CASE /\ ~ SearchThrows(start) /\ memo = <<>>
           /\ memo' = <<found + MarkData>>
           /\ UNCHANGED <<job, open, file, k, out, status>>
  <2>1. Size0' = Size0 /\ PiecesBetween' /\ Size0 = 0
    BY <1>1, <1>5, <1>7 DEF PieceInv
  <2>2. memo' # <<>> /\ memo'[1] = found + MarkData /\ found + MarkData \in Nat
    BY <1>4, <1>7, SearchConstants
  <2> QED
    BY <1>1, <1>2, <1>7, <2>1, <2>2 DEF PieceInv
<1>8. CASE /\ ~ SearchThrows(start) /\ memo # <<>> /\ found # start
           /\ out' = Add(out, 0, <<start, found>>)
           /\ memo' = <<found + MarkData>>
           /\ UNCHANGED <<job, open, file, k, status>>
  <2>1. memo' # <<>> /\ memo'[1] = found + MarkData /\ found + MarkData \in Nat /\ start = memo[1]
    BY <1>4, <1>8, SearchConstants DEF start
  <2>2. /\ DOMAIN out' = DOMAIN out /\ DOMAIN out'[0] = First(n + 1) /\ out'[0][n] = <<start, found>>
        /\ \A x \in First(n) : out'[0][x] = out[0][x]
    <3>1. PICK c : c = <<start, found>>
      OBVIOUS
    <3>2. out' = Add(out, 0, c)
      BY <1>8, <3>1
    <3>3. PICK p : p = out
      OBVIOUS
    <3>4. 0 \in DOMAIN p /\ DOMAIN p[0] = First(n) /\ n \in Nat
      BY <1>1, <3>3
    <3>5. /\ DOMAIN Add(p, 0, c) = DOMAIN p
          /\ DOMAIN Add(p, 0, c)[0] = First(n + 1) /\ Add(p, 0, c)[0][n] = c
          /\ \A x \in First(n) : Add(p, 0, c)[0][x] = p[0][x]
      BY <3>4, AddsAtEnd
    <3> QED
      BY <3>1, <3>2, <3>3, <3>5
  <2>3. Size0' = n + 1 /\ n + 1 \in Nat /\ (n + 1) - 1 = n
    BY <1>1, <2>2, Numbered DEF Size0
  <2>4. First(n + 1) = First(n) \cup {n} /\ \A x \in First(n) : x \in Nat /\ x < n
    BY <1>1, Numbered
  <2>5. ASSUME NEW x \in First(n + 1)
        PROVE  /\ Marker(out'[0][x][2])
               /\ \A y \in out'[0][x][1] .. out'[0][x][2] - 1 : ~ Seen(out'[0][x][1], y)
               /\ x + 1 \in First(n + 1) => out'[0][x + 1][1] = out'[0][x][2] + MarkData
    <3>1. CASE x = n
      <4>1. x + 1 \notin First(n + 1)
        BY <1>1, <3>1 DEF First
      <4>2. out'[0][x][1] = start /\ out'[0][x][2] = found
        BY <2>2, <3>1
      <4> QED
        BY <1>4, <1>8, <4>1, <4>2
    <3>2. CASE x # n
      <4>1. x \in First(n) /\ x \in Nat /\ x < n /\ out'[0][x] = out[0][x]
        BY <2>2, <2>4, <2>5, <3>2
      <4>2. /\ Marker(out[0][x][2])
            /\ \A y \in out[0][x][1] .. out[0][x][2] - 1 : ~ Seen(out[0][x][1], y)
            /\ x + 1 \in First(n) => out[0][x + 1][1] = out[0][x][2] + MarkData
        BY <1>1, <4>1 DEF PiecesBetween
      <4>3. CASE x + 1 = n
        <5>1. n > 0 /\ x = n - 1
          BY <1>1, <4>1, <4>3
        <5> QED
          BY <1>1, <2>1, <2>2, <4>1, <4>2, <4>3, <5>1
      <4>4. CASE x + 1 # n
        <5>1. x + 1 \in First(n)
          BY <1>1, <4>1, <4>4 DEF First
        <5> QED
          BY <2>2, <4>1, <4>2, <5>1
      <4> QED
        BY <4>3, <4>4
    <3> QED
      BY <3>1, <3>2
  <2>6. PiecesBetween'
    BY <1>2, <2>2, <2>5 DEF PiecesBetween
  <2>7. out'[0][Size0' - 1][2] = found
    BY <2>2, <2>3
  <2> QED
    BY <1>1, <1>2, <1>8, <2>1, <2>2, <2>3, <2>6, <2>7 DEF PieceInv
<1>9. CASE ~ SearchThrows(start) /\ memo # <<>> /\ found = start /\ Ends("done")
  <2>1. UNCHANGED <<job, out, memo>> /\ status' = "done"
    BY <1>9 DEF Ends
  <2>2. Size0' = Size0 /\ PiecesBetween'
    BY <1>1, <1>5, <2>1
  <2>3. Size0 > 0 => start = out[0][Size0 - 1][2] + MarkData
    BY <1>1, <1>9 DEF start
  <2>4. Size0 > 0 => NoneBehind(out[0][Size0 - 1][2] + MarkData)'
    BY <1>2, <1>4, <1>9, <2>1, <2>2, <2>3
  <2> QED
    BY <1>1, <1>2, <2>1, <2>2, <2>4 DEF PieceInv
<1> QED
  BY <1>6, <1>7, <1>8, <1>9 DEF saveToFile, start, found

LEMMA InodeIs ==
  ASSUME job \in Searched, job.tool = "saveByVxFSInode"
  PROVE  /\ Len(Source(2)) \in Nat /\ DOMAIN job.at = 1 .. Len(Source(2)) /\ Len(Source(1)) \in Nat
         /\ \A i \in 1 .. Len(Source(2)) : Source(2)[i].id \in Nat
<1>1. Len(job.files) = 2 /\ Len(job.at) = Len(job.files[2])
  BY SearchedAssumption
<1>2. 1 \in DOMAIN job.files /\ 2 \in DOMAIN job.files
  BY <1>1, SearchedFiles
<1> QED
  BY <1>1, <1>2, SearchedFiles DEF Source

LEMMA InodeStart ==
  ASSUME SearchInit PROVE InodeInv
<1> SUFFICES ASSUME job \in Searched, job.tool = "saveByVxFSInode" PROVE InodeInv
  BY DEF InodeInv
<1>1. file = 1 /\ DOMAIN out = 0 .. MaxTargets - 1 /\ k = 0 /\ status = "searching" /\ DOMAIN out[0] = {}
  BY SearchBegins
<1>2. k \in 0 .. Len(Source(2)) /\ 1 .. k = {}
  BY <1>1, InodeIs
<1>3. FromInode(k)
  <2>1. \A t : LiesAt(k, t) = {}
    BY <1>2 DEF LiesAt
  <2> QED
    BY <1>1, <2>1 DEF FromInode
<1> QED
  BY <1>1, <1>2, <1>3 DEF InodeInv

\* An inode's extents are where they were while nothing but k changes.
LEMMA SameInode ==
  ASSUME UNCHANGED <<job, out>>, NEW n, NEW m, n = m
  PROVE  FromInode(n)' <=> FromInode(m)
<1>0. n = m
  OBVIOUS
<1>1. \A f : Source(f)' = Source(f)
  BY DEF Source
<1>2. \A t : LiesAt(n, t)' = LiesAt(m, t)
  BY <1>0, <1>1 DEF LiesAt
<1>3. out' = out /\ job' = job
  OBVIOUS
<1> QED
  BY <1>1, <1>2, <1>3 DEF FromInode

LEMMA InodeStep ==
  ASSUME InodeInv, job \in Searched, status = "searching", saveByVxFSInode
  PROVE  InodeInv'
<1> DEFINE block == Source(2)[k + 1].id
           to == job.at[k + 1]
<1>1. /\ job.tool = "saveByVxFSInode" /\ k < Len(Source(2)) /\ k' = k + 1 /\ UNCHANGED <<job, file, status>>
      /\ out' = IF block < Len(Source(1)) THEN Put(out, 0, to, <<1, block>>) ELSE out
  BY DEF saveByVxFSInode, Searching
<1>2. /\ file = 1 /\ DOMAIN out = 0 .. MaxTargets - 1 /\ 0 \in DOMAIN out
      /\ k \in Nat /\ FromInode(k) /\ Len(Source(2)) \in Nat /\ k + 1 \in 1 .. Len(Source(2))
  BY <1>1, InodeIs, ToolConstants DEF InodeInv
<1>3. Source(1)' = Source(1) /\ Source(2)' = Source(2)
  BY <1>1 DEF Source
<1>4. /\ DOMAIN out' = DOMAIN out
      /\ block < Len(Source(1)) => to \in DOMAIN out'[0] /\ out'[0][to] = <<1, block>>
      /\ \A t : t # to \/ ~ (block < Len(Source(1))) =>
           /\ t \in DOMAIN out'[0] <=> t \in DOMAIN out[0]
           /\ t \in DOMAIN out[0] => out'[0][t] = out[0][t]
  <2>1. PICK p : p = Put(out, 0, to, <<1, block>>)
    OBVIOUS
  <2>2. /\ DOMAIN p = DOMAIN out /\ DOMAIN p[0] = DOMAIN out[0] \cup {to} /\ p[0][to] = <<1, block>>
        /\ \A t \in DOMAIN out[0] : t # to => p[0][t] = out[0][t]
    BY <1>2, <2>1 DEF Put
  <2>3. out' = IF block < Len(Source(1)) THEN p ELSE out
    BY <1>1, <2>1
  <2> QED
    BY <2>2, <2>3
<1>5. ASSUME NEW t
      PROVE  /\ LiesAt(k + 1, t) = LiesAt(k, t) \cup (IF to = t /\ block < Len(Source(1)) THEN {k + 1} ELSE {})
             /\ LiesAt(k, t) \in SUBSET (1 .. k)
  <2>1. 1 .. k + 1 = (1 .. k) \cup {k + 1}
    BY <1>2
  <2> QED
    BY <2>1 DEF LiesAt
<1>6. ASSUME NEW t \in {job.at[i] : i \in DOMAIN job.at}
      PROVE  /\ t \in DOMAIN out'[0] <=> LiesAt(k + 1, t) # {}
             /\ LiesAt(k + 1, t) # {} => out'[0][t] = <<1, Source(2)[Max(LiesAt(k + 1, t))].id>>
  <2>1. /\ t \in DOMAIN out[0] <=> LiesAt(k, t) # {}
        /\ LiesAt(k, t) # {} => out[0][t] = <<1, Source(2)[Max(LiesAt(k, t))].id>>
    BY <1>2, <1>6 DEF FromInode
  <2>2. CASE to = t /\ block < Len(Source(1))
    <3>1. LiesAt(k + 1, t) = LiesAt(k, t) \cup {k + 1} /\ LiesAt(k, t) \in SUBSET (1 .. k)
      BY <1>5, <2>2
    <3>2. LiesAt(k + 1, t) \in SUBSET Nat /\ k + 1 \in LiesAt(k + 1, t) /\ \A n \in LiesAt(k + 1, t) : n <= k + 1
      BY <1>2, <3>1
    <3>3. Max(LiesAt(k + 1, t)) \in LiesAt(k + 1, t) /\ k + 1 <= Max(LiesAt(k + 1, t))
      BY <1>2, <3>2, GreatestElement
    <3>4. Max(LiesAt(k + 1, t)) = k + 1
      BY <1>2, <3>2, <3>3
    <3>5. t \in DOMAIN out'[0] /\ out'[0][t] = <<1, block>>
      BY <1>4, <2>2
    <3> QED
      BY <3>2, <3>4, <3>5
  <2>3. CASE ~ (to = t /\ block < Len(Source(1)))
    <3>1. LiesAt(k + 1, t) = LiesAt(k, t)
      BY <1>5, <2>3
    <3>2. (t \in DOMAIN out'[0] <=> t \in DOMAIN out[0]) /\ (t \in DOMAIN out[0] => out'[0][t] = out[0][t])
      BY <1>4, <2>3
    <3> QED
      BY <2>1, <3>1, <3>2
  <2> QED
    BY <2>2, <2>3
<1>7. FromInode(k)'
  <2>1. \A t : LiesAt(k, t)' = LiesAt(k + 1, t)
    BY <1>1, <1>3 DEF LiesAt
  <2>2. Source(2)' = Source(2) /\ job' = job
    BY <1>1, <1>3
  <2> QED
    BY <1>6, <2>1, <2>2 DEF FromInode
<1>8. k' \in 0 .. Len(Source(2)) /\ status' # "done"
  BY <1>1, <1>2
<1> QED
  BY <1>1, <1>2, <1>3, <1>4, <1>7, <1>8 DEF InodeInv

LEMMA CircleStart ==
  ASSUME SearchInit PROVE CircleInv
BY SearchBegins DEF CircleInv

-----------------------------------------------------------------------------
\* Nothing that a search's invariant speaks of changes.
LEMMA QuietPlaces ==
  ASSUME NotedInv, UNCHANGED toolVars
  PROVE  NotedInv'
<1>1. UNCHANGED <<job, open, file, k, out, memo, status>>
  BY DEF toolVars
<1>2. Pages' = Pages /\ \A f : Source(f)' = Source(f)
  BY <1>1 DEF Pages, Source
<1>3. CircleInv'
  BY <1>1, <1>2 DEF NotedInv, CircleInv, FirstMatch, Cells, OnGrid
<1>4. DepthInv'
  <2>1. /\ \A n, d : OfDepth(n, d)' = OfDepth(n, d) 
        /\ \A n : Extents(n)' = Extents(n)
        /\ \A x : Id(x)' = Id(x) /\ (Deepens(x)' <=> Deepens(x)) /\ Line(x)' = Line(x)
        /\ \A n, x : Remains(n, x)' <=> Remains(n, x)
    BY <1>1, <1>2 DEF OfDepth, Extents, OnGrid, Id, Deepens, Line, Remains
  <2>2. DepthsNoted(k)' <=> DepthsNoted(k)
    BY <1>1, <2>1 DEF DepthsNoted
  <2>3. DepthsNoted(Len(Pages))' <=> DepthsNoted(Len(Pages))
    BY <1>1, <1>2, <2>1 DEF DepthsNoted
  <2>4. \A d : ClosedFile(d)' <=> ClosedFile(d)
    BY <1>1, <2>1 DEF ClosedFile
  <2> QED
    BY <1>1, <2>1, <2>2, <2>3, <2>4 DEF NotedInv, DepthInv
<1>5. PieceInv'
  <2>1. \A x, y : (Seen(x, y)' <=> Seen(x, y)) /\ (Marker(y)' <=> Marker(y)) /\ (NoneBehind(x)' <=> NoneBehind(x))
    BY <1>1, <1>2 DEF Seen, Marker, NoneBehind, Id
  <2>2. Size0' = Size0 /\ (PiecesBetween' <=> PiecesBetween)
    BY <1>1, <2>1 DEF Size0, PiecesBetween
  <2>3. NoneBehind(out[0][Size0 - 1][2] + MarkData)' <=> NoneBehind(out[0][Size0 - 1][2] + MarkData)
    BY <1>1, <2>1, <2>2
  <2> QED
    BY <1>1, <2>2, <2>3 DEF NotedInv, PieceInv
<1>6. InodeInv'
  <2>1. FromInode(k)' <=> FromInode(k)
    BY <1>1, SameInode
  <2> QED
    BY <1>1, <1>2, <2>1 DEF NotedInv, InodeInv
<1> QED
  BY <1>3, <1>4, <1>5, <1>6 DEF NotedInv

\* A search that has come to the end of what it goes through.
LEMMA InodeEnds ==
  ASSUME InodeInv, job \in Searched, job.tool = "saveByVxFSInode", k = Len(Source(2)), Ends("done")
  PROVE  InodeInv'
<1>1. UNCHANGED <<job, file, k, out>> /\ \A f : Source(f)' = Source(f)
  BY DEF Ends, Source
<1>2. FromInode(k)' <=> FromInode(k)
  BY <1>1, SameInode
<1> QED
  BY <1>1, <1>2 DEF InodeInv

LEMMA NotedSteps ==
  ASSUME KindInv, NotedInv, [ToolNext]_toolVars
  PROVE  NotedInv'
<1>1. CASE UNCHANGED toolVars
  BY <1>1, QuietPlaces
<1>2. CASE job \notin Searched
  <2>1. job' \notin Searched
    BY <1>2, KindSteps
  <2> QED
    BY <2>1 DEF NotedInv, CircleInv, DepthInv, PieceInv, InodeInv
<1>3. CASE job \in Searched /\ ~ UNCHANGED toolVars
  <2>1. status = "searching" /\ SearchNext /\ job' = job
    BY <1>3, KindSteps
  <2>2. CircleInv'
    <3>1. CASE job.tool = "searchCircle"
      BY <1>3, <2>1, <3>1, SearchSteps, CircleStep DEF NotedInv
    <3>2. CASE job.tool # "searchCircle"
      BY <2>1, <3>2 DEF CircleInv
    <3> QED
      BY <3>1, <3>2
  <2>3. DepthInv'
    <3>1. CASE job.tool = "searchExtents"
      BY <1>3, <2>1, <3>1, SearchSteps, DepthStep DEF NotedInv
    <3>2. CASE job.tool # "searchExtents"
      BY <2>1, <3>2 DEF DepthInv
    <3> QED
      BY <3>1, <3>2
  <2>4. PieceInv'
    <3>1. CASE job.tool = "saveToFile"
      BY <1>3, <2>1, <3>1, SearchSteps, PieceStep DEF NotedInv
    <3>2. CASE job.tool # "saveToFile"
      BY <2>1, <3>2 DEF PieceInv
    <3> QED
      BY <3>1, <3>2
  <2>5. InodeInv'
    <3>1. CASE job.tool = "saveByVxFSInode"
      BY <1>3, <2>1, <3>1, SearchSteps, InodeStep, InodeEnds DEF NotedInv
    <3>2. CASE job.tool # "saveByVxFSInode"
      BY <2>1, <3>2 DEF InodeInv
    <3> QED
      BY <3>1, <3>2
  <2> QED
    BY <2>2, <2>3, <2>4, <2>5 DEF NotedInv
<1> QED
  BY <1>1, <1>2, <1>3

LEMMA NotedStart == ToolInit => NotedInv
<1>1. ASSUME BlockInit PROVE NotedInv
  <2>1. job \notin Searched
    BY <1>1, SearchedFiles DEF BlockInit
  <2> QED
    BY <2>1 DEF NotedInv, CircleInv, DepthInv, PieceInv, InodeInv
<1> QED
  BY <1>1, CircleStart, DepthStart, PieceStart, InodeStart DEF ToolInit, NotedInv

\* A tool of BlockTools is none of the searches.
LEMMA FoundSearched ==
  ASSUME KindInv, NEW tool \in SearchTools, job.tool = tool
  PROVE  job \in Searched
BY SearchedAssumption DEF KindInv

\* A place is noted if it is one, under its own number, and none is missing
\* (DataFinder, searchExtents, find_8FF, saveToFile, saveByVxFSInode).
THEOREM PlacesStayNoted == ToolSpec => []PlacesAreNoted
<1>1. ToolInit => KindInv /\ NotedInv
  BY KindStart, NotedStart
<1>2. KindInv /\ NotedInv /\ [ToolNext]_toolVars => (KindInv /\ NotedInv)'
  BY KindSteps, NotedSteps
<1>3. KindInv /\ NotedInv => PlacesAreNoted
  <2> SUFFICES ASSUME KindInv, NotedInv PROVE PlacesAreNoted
    OBVIOUS
  <2>1. Found("searchCircle") => job \in Searched
    BY FoundSearched DEF Found, SearchTools
  <2>2. Found("searchExtents") => job \in Searched
    BY FoundSearched DEF Found, SearchTools
  <2>3. Found("saveToFile") => job \in Searched
    BY FoundSearched DEF Found, SearchTools
  <2>4. Found("saveByVxFSInode") => job \in Searched
    BY FoundSearched DEF Found, SearchTools
  <2>5. Found("searchCircle") /\ (job.at[3] - job.at[1]) % Grid = 0 => FirstMatch
    BY <2>1 DEF Found, NotedInv, CircleInv
  <2>6. Found("searchExtents") => DepthsNoted(Len(Pages))
    BY <2>2 DEF Found, NotedInv, DepthInv
  <2>7. Found("saveToFile") => PiecesBetween /\ (Size0 > 0 => NoneBehind(out[0][Size0 - 1][2] + MarkData))
    BY <2>3 DEF Found, NotedInv, PieceInv
  <2>8. Found("saveByVxFSInode") => FromInode(Len(Source(2)))
    BY <2>4 DEF Found, NotedInv, InodeInv
  <2> QED
    BY <2>5, <2>6, <2>7, <2>8 DEF PlacesAreNoted
<1> QED
  BY <1>1, <1>2, <1>3, PTL DEF ToolSpec

-----------------------------------------------------------------------------
(* The test of a folder's signatures                                        *)

\* What is there when a cell has been added to the target.
LEMMA CellAdded ==
  ASSUME DOMAIN out = 0 .. MaxTargets - 1, Size0 \in Nat, DOMAIN out[0] = First(Size0),
         NEW c, out' = Add(out, 0, c)
  PROVE  /\ DOMAIN out' = DOMAIN out /\ DOMAIN out'[0] = First(Size0 + 1)
         /\ Size0' = Size0 + 1 /\ Cells' = Cells \cup {c}
         /\ out'[0][Size0] = c /\ \A x \in First(Size0) : out'[0][x] = out[0][x]
<1>1. PICK p, n : p = out /\ n = Size0
  OBVIOUS
<1>2. 0 \in DOMAIN p /\ DOMAIN p[0] = First(n) /\ n \in Nat
  BY <1>1, ToolConstants
<1>3. PICK q : q = Add(p, 0, c)
  OBVIOUS
<1>4. /\ DOMAIN q = DOMAIN p /\ DOMAIN q[0] = First(n + 1) /\ q[0][n] = c
      /\ \A x \in First(n) : q[0][x] = p[0][x]
  BY <1>2, <1>3, AddsAtEnd
<1>5. Size0' = n + 1
  <2>1. n + 1 \in Nat /\ Cardinality(First(n + 1)) = n + 1
    BY <1>2, Numbered
  <2> QED
    BY <1>1, <1>3, <1>4, <2>1 DEF Size0
<1>6. {q[0][x] : x \in DOMAIN q[0]} = {p[0][x] : x \in DOMAIN p[0]} \cup {c}
  <2>1. First(n + 1) = First(n) \cup {n}
    BY <1>2, Numbered
  <2> QED
    BY <1>2, <1>4, <2>1
<1>7. Cells' = Cells \cup {c}
  BY <1>1, <1>3, <1>6, ZenonT(30) DEF Cells
<1> QED
  BY <1>1, <1>3, <1>4, <1>5, <1>7

LEMMA TestStart ==
  ASSUME SearchInit PROVE TestInv
<1> SUFFICES ASSUME job \in Searched, job.tool = "testSigantures" PROVE TestInv
  BY DEF TestInv
<1>1. file = 1 /\ memo = <<>> /\ k = 0 /\ status = "searching"
  BY SearchBegins
<1>2. Size0 = 0 /\ DOMAIN out[0] = First(Size0) /\ DOMAIN out = 0 .. MaxTargets - 1 /\ Cells = {}
  BY NothingPut
<1>3. Len(Pages) \in Nat
  BY <1>1, OneFile
<1>4. Tested(k)
  <2>1. 1 .. k = {}
    BY <1>1
  <2>2. Wrong(k) = {} /\ NotKnown(k) = {}
    BY <2>1 DEF Wrong, NotKnown
  <2> QED
    BY <1>1, <1>2, <2>2 DEF Tested
<1>5. \A i \in Unsigned : i > k
  BY <1>1, <1>3 DEF Unsigned
<1> QED
  BY <1>1, <1>2, <1>3, <1>4, <1>5 DEF TestInv

\* While a step changes neither the job nor the file, the folder is the same.
LEMMA SameFolder ==
  ASSUME UNCHANGED <<job, file>>
  PROVE  /\ Pages' = Pages /\ Unsigned' = Unsigned
         /\ \A i : FormatsAt(i)' = FormatsAt(i)
         /\ \A n : Wrong(n)' = Wrong(n) /\ NotKnown(n)' = NotKnown(n)
<1>1. Pages' = Pages
  BY DEF Pages, Source
<1>2. \A i : FormatsAt(i)' = FormatsAt(i)
  BY DEF FormatsAt, ListFormatName
<1> QED
  BY <1>1, <1>2 DEF Unsigned, Wrong, NotKnown

LEMMA TestQuiet ==
  ASSUME TestInv, UNCHANGED <<job, file, k, out, memo>>, status' = status
           \/ (status' = "done" /\ k = Len(Pages)) \/ (status' = "thrown" /\ k + 1 \in Unsigned)
  PROVE  TestInv'
<1>1. Size0' = Size0 /\ Cells' = Cells
  BY DEF Size0, Cells
<1>2. Tested(k)' <=> Tested(k)
  BY <1>1, SameFolder DEF Tested
<1> QED
  BY <1>1, <1>2, SameFolder DEF TestInv

LEMMA TestStep ==
  ASSUME TestInv, job \in Searched, status = "searching", testSigantures
  PROVE  TestInv'
<1> DEFINE ext == job.at[k + 1]
           formats == ListFormatName(ext)
           wrong == formats # <<>> /\ ~ testSignatureWithList(page, formats)
           names == {job.at[i] : i \in DOMAIN job.at}
<1>1. job.tool = "testSigantures" /\ k < Len(Pages)
  BY DEF testSigantures, Searching
<1>2. /\ file = 1 /\ DOMAIN out = 0 .. MaxTargets - 1 /\ k \in Nat /\ k + 1 \in 1 .. Len(Pages)
      /\ Size0 \in Nat /\ DOMAIN out[0] = First(Size0) /\ memo \in Seq(names) /\ Tested(k)
      /\ \A i \in Unsigned : i > k
      /\ Len(Pages) \in Nat /\ Pages[k + 1].good \in BOOLEAN
  <2>1. file = 1 /\ k \in 0 .. Len(Pages)
    BY <1>1 DEF TestInv
  <2>2. Len(Pages) \in Nat /\ \A x \in 0 .. Len(Pages) - 1 : Pages[x + 1].good \in BOOLEAN
    BY <2>1, OneFile
  <2>3. k \in 0 .. Len(Pages) - 1
    BY <1>1, <2>1, <2>2
  <2> QED
    BY <1>1, <2>1, <2>2, <2>3 DEF TestInv
<1>3. ext \in names
  <2>1. Len(job.at) = Len(job.files[1])
    BY <1>1, SearchedAssumption
  <2>2. k + 1 \in DOMAIN job.at
    BY <1>2, <2>1, SearchedFiles DEF Pages, Source
  <2> QED
    BY <2>2
<1>4. NoSignature(formats) <=> k + 1 \in Unsigned
  BY <1>2 DEF Unsigned, FormatsAt, NoSignature
<1>5. CASE NoSignature(formats) /\ Ends("thrown")
  BY <1>4, <1>5, TestQuiet DEF Ends
<1>6. CASE /\ ~ NoSignature(formats)
           /\ out' = IF wrong THEN Add(out, 0, here) ELSE out
           /\ memo' = IF formats = <<>> THEN Unknown(memo, ext) ELSE memo
           /\ k' = k + 1
           /\ UNCHANGED <<job, open, file, status>>
  <2>1. /\ Pages' = Pages /\ Unsigned' = Unsigned
        /\ \A n : Wrong(n)' = Wrong(n) /\ NotKnown(n)' = NotKnown(n)
    BY <1>6, SameFolder
  <2>2. Size0' \in Nat /\ DOMAIN out' = 0 .. MaxTargets - 1 /\ DOMAIN out'[0] = First(Size0')
        /\ Cells' = Cells \cup (IF wrong THEN {<<1, k>>} ELSE {})
    <3>1. CASE wrong
      <4>1. out' = Add(out, 0, here) /\ here = <<1, k>>
        BY <1>2, <1>6, <3>1 DEF here
      <4>2. /\ DOMAIN out' = DOMAIN out /\ DOMAIN out'[0] = First(Size0 + 1)
            /\ Size0' = Size0 + 1 /\ Cells' = Cells \cup {here}
        BY <1>2, <4>1, CellAdded
      <4> QED
        BY <1>2, <3>1, <4>1, <4>2
    <3>2. CASE ~ wrong
      <4>1. out' = out /\ Size0' = Size0 /\ Cells' = Cells
        BY <1>6, <3>2 DEF Size0, Cells
      <4> QED
        BY <1>2, <3>2, <4>1
    <3> QED
      BY <3>1, <3>2
  <2>3. wrong <=> /\ FormatsAt(k + 1) # <<>>
                  /\ Pages[k + 1].good => \A x \in DOMAIN FormatsAt(k + 1) : FormatsAt(k + 1)[x] # Pages[k + 1].id
    BY <1>2 DEF FormatsAt, testSignatureWithList, page
  <2>4. 1 .. k + 1 = (1 .. k) \cup {k + 1} /\ k + 1 \notin 1 .. k
    BY <1>2
  <2>5. Wrong(k + 1) = Wrong(k) \cup (IF wrong THEN {k + 1} ELSE {})
    <3> HIDE DEF wrong
    <3> QED
      BY <2>3, <2>4 DEF Wrong
  <2>6. NotKnown(k + 1) = NotKnown(k) \cup (IF formats = <<>> THEN {ext} ELSE {})
    BY <2>4 DEF NotKnown, FormatsAt
  <2>7. Cells' = {<<1, i - 1>> : i \in Wrong(k + 1)}
    <3>1. Cells = {<<1, i - 1>> : i \in Wrong(k)} /\ (k + 1) - 1 = k
      BY <1>2 DEF Tested
    <3>2. {<<1, i - 1>> : i \in Wrong(k) \cup {k + 1}} = {<<1, i - 1>> : i \in Wrong(k)} \cup {<<1, k>>}
      BY <3>1
    <3> HIDE DEF wrong
    <3> QED
      BY <2>2, <2>5, <3>1, <3>2
  <2>8. /\ {memo[i] : i \in DOMAIN memo} = NotKnown(k)
        /\ \A i, j \in DOMAIN memo : i # j => memo[i] # memo[j]
    BY <1>2 DEF Tested
  <2>9. /\ memo' \in Seq(names)
        /\ {memo'[i] : i \in DOMAIN memo'} = NotKnown(k + 1)
        /\ \A i, j \in DOMAIN memo' : i # j => memo'[i] # memo'[j]
    <3>1. CASE memo' = memo /\ (formats # <<>> \/ \E i \in DOMAIN memo : memo[i] = ext)
      <4>1. formats = <<>> => ext \in NotKnown(k)
        BY <2>8, <3>1
      <4> QED
        BY <1>2, <2>6, <2>8, <3>1, <4>1
    <3>2. CASE memo' = Append(memo, ext) /\ formats = <<>> /\ ~ \E i \in DOMAIN memo : memo[i] = ext
      <4>0. PICK m \in Seq(names) : m = memo
        BY <1>2
      <4>1. PICK l \in Nat : l = Len(m) /\ DOMAIN m = 1 .. l
        BY <4>0
      <4>2. PICK n : n = Append(m, ext)
        OBVIOUS
      <4>3. /\ n \in Seq(names) /\ Len(n) = l + 1 /\ n[l + 1] = ext
            /\ \A i \in 1 .. l : n[i] = m[i]
        BY <1>3, <4>0, <4>1, <4>2, Appended
      <4>4. DOMAIN n = 1 .. l + 1 /\ 1 .. l + 1 = (1 .. l) \cup {l + 1}
        BY <4>1, <4>3
      <4>5. {n[i] : i \in DOMAIN n} = {m[i] : i \in DOMAIN m} \cup {ext}
        BY <4>1, <4>3, <4>4
      <4>6. \A i, j \in DOMAIN n : i # j => n[i] # n[j]
        <5>1. ASSUME NEW i \in DOMAIN n, NEW j \in DOMAIN n, i # j PROVE n[i] # n[j]
          <6>1. (i \in 1 .. l /\ n[i] = m[i] /\ m[i] # ext) \/ (i = l + 1 /\ n[i] = ext)
            BY <3>2, <4>0, <4>1, <4>3, <4>4, <5>1
          <6>2. (j \in 1 .. l /\ n[j] = m[j] /\ m[j] # ext) \/ (j = l + 1 /\ n[j] = ext)
            BY <3>2, <4>0, <4>1, <4>3, <4>4, <5>1
          <6>3. \A x, y \in 1 .. l : x # y => m[x] # m[y]
            BY <2>8, <4>0, <4>1
          <6> QED
            BY <5>1, <6>1, <6>2, <6>3
        <5> QED
          BY <5>1
      <4>7. memo' = n /\ {m[i] : i \in DOMAIN m} = NotKnown(k)
        BY <2>8, <3>2, <4>0, <4>2
      <4>8. NotKnown(k + 1) = NotKnown(k) \cup {ext}
        BY <2>6, <3>2
      <4>9. memo' = n /\ n \in Seq(names) /\ {n[i] : i \in DOMAIN n} = NotKnown(k + 1)
        BY <4>3, <4>5, <4>7, <4>8
      <4> QED
        BY <4>6, <4>9
    <3> QED
      BY <1>6, <3>1, <3>2 DEF Unknown
  <2>10. Tested(k)'
    BY <1>6, <2>1, <2>7, <2>9 DEF Tested
  <2>11. \A i \in Unsigned : i > k + 1
    <3>1. \A i \in Unsigned : i \in Nat /\ i > k /\ i # k + 1
      BY <1>2, <1>4, <1>6 DEF Unsigned
    <3> QED
      BY <1>2, <3>1
  <2>12. k' \in 0 .. Len(Pages) /\ status' # "thrown" /\ status' # "done"
    BY <1>2, <1>6
  <2> QED
    BY <1>2, <1>6, <2>1, <2>2, <2>9, <2>10, <2>11, <2>12 DEF TestInv
<1> QED
  BY <1>5, <1>6 DEF testSigantures

\* What the folder's test has found when the program ends.
LEMMA TestEnds ==
  ASSUME KindInv, TestInv, Is("testSigantures")
  PROVE  /\ status = "done" <=> Unsigned = {}
         /\ Tested(IF Unsigned = {} THEN Len(Pages) ELSE Min(Unsigned) - 1)
<1>1. job \in Searched /\ job.tool = "testSigantures" /\ status \in {"done", "thrown"}
  BY FoundSearched DEF Is, Ended, SearchTools
<1>2. file = 1 /\ k \in 0 .. Len(Pages) /\ Tested(k) /\ Len(Pages) \in Nat /\ \A i \in Unsigned : i > k
  BY <1>1, OneFile DEF TestInv
<1>3. CASE status = "done"
  <2>1. k = Len(Pages)
    BY <1>1, <1>3 DEF TestInv
  <2>2. Unsigned = {}
    BY <1>2, <2>1 DEF Unsigned
  <2> QED
    BY <1>2, <1>3, <2>1, <2>2
<1>4. CASE status = "thrown"
  <2>1. k + 1 \in Unsigned /\ Unsigned \in SUBSET Nat
    BY <1>1, <1>4 DEF TestInv, Unsigned
  <2>2. \A i \in Unsigned : k + 1 <= i
    BY <1>2, <2>1
  <2>3. Min(Unsigned) = k + 1
    BY <2>1, <2>2, LeastIs
  <2>4. Min(Unsigned) - 1 = k
    BY <1>2, <2>3
  <2> QED
    BY <1>2, <1>4, <2>1, <2>4
<1> QED
  BY <1>1, <1>3, <1>4

-----------------------------------------------------------------------------
(* The key of a XOR                                                         *)

\* The chunks lie one behind the other; the last one has the rest.
ChunkSize(f) == IF f = Chunks THEN XorSize - chunk_size * (f - 1) ELSE chunk_size
LEMMA ChunkPlaces ==
  ASSUME NEW f \in 1 .. Chunks
  PROVE  /\ chunk_size \in Nat \ {0} /\ chunk_size * (f - 1) \in Nat /\ ChunkSize(f) \in Nat \ {0}
         /\ f < Chunks => chunk_size * (f - 1) + ChunkSize(f) = chunk_size * ((f + 1) - 1)
         /\ chunk_size * (f - 1) + ChunkSize(f) <= XorSize
         /\ f = Chunks => chunk_size * (f - 1) + ChunkSize(f) = XorSize
         /\ \A x \in 0 .. XorSize - 1 :
              ChunkOf(x) = f - 1 <=>
                x \in chunk_size * (f - 1) .. chunk_size * (f - 1) + ChunkSize(f) - 1
<1> DEFINE c == chunk_size
<1>1. XorSize \in Nat \ {0} /\ Chunks \in Nat \ {0} /\ Chunks <= XorSize
  BY SearchConstants
<1>2. PICK r \in 0 .. Chunks - 1 : c \in Nat /\ XorSize = Chunks * c + r
  BY <1>1, Division DEF chunk_size
<1>3. c \in Nat \ {0}
  <2>1. c # 0
    BY <1>1, <1>2
  <2> QED
    BY <1>2, <2>1
<1> HIDE DEF c
<1>4. PICK g \in Nat : g = f - 1 /\ g < Chunks
  BY <1>1
<1>5. PICK o \in Nat : o = c * (f - 1) /\ o = g * c
  BY <1>3, <1>4
<1>6. o + c <= Chunks * c /\ Chunks * c <= XorSize
  <2>1. g * c + c <= Chunks * c
    BY <1>1, <1>3, <1>4, OneLess
  <2> QED
    BY <1>1, <1>2, <1>5, <2>1
<1>7. f < Chunks => o + c = c * ((f + 1) - 1)
  <2>1. (f + 1) - 1 = g + 1
    BY <1>4
  <2>2. c * (g + 1) = g * c + c
    BY <1>3, <1>4
  <2> QED
    BY <1>5, <2>1, <2>2
<1>8. ASSUME NEW x \in 0 .. XorSize - 1
      PROVE  ChunkOf(x) = g <=> x \in o .. o + (IF f = Chunks THEN XorSize - o ELSE c) - 1
  <2>1. PICK q \in Nat, s \in 0 .. c - 1 : q = x \div c /\ x = c * q + s
    <3>0. x \in Nat /\ c \in Nat \ {0}
      BY <1>1, <1>3
    <3>1. x \div c \in Nat /\ x % c \in 0 .. c - 1 /\ x = c * (x \div c) + (x % c)
      BY <3>0, Division
    <3> QED
      BY <3>1
  <2>2. PICK m \in Nat : m = q * c /\ x = m + s
    BY <1>3, <2>1
  <2>3. ChunkOf(x) = IF q <= Chunks - 1 THEN q ELSE Chunks - 1
    BY <1>1, <2>1, MinOfTwo DEF ChunkOf, c
  <2>4. q < g => m + c <= o
    BY <1>3, <1>4, <1>5, <2>1, <2>2, OneLess
  <2>5. g < q => o + c <= m
    BY <1>3, <1>4, <1>5, <2>1, <2>2, OneLess
  <2>6. q = g => m = o
    BY <1>5, <2>2
  <2>7. CASE f = Chunks
    <3>1. ChunkOf(x) = g <=> q >= g
      BY <1>1, <1>4, <2>3, <2>7
    <3>2. q >= g <=> x >= o
      BY <1>3, <1>4, <1>5, <2>1, <2>2, <2>4, <2>5, <2>6
    <3> QED
      BY <1>1, <1>5, <2>7, <3>1, <3>2
  <2>8. CASE f # Chunks
    <3>1. ChunkOf(x) = g <=> q = g
      BY <1>1, <1>4, <2>3, <2>8
    <3>2. q = g <=> x >= o /\ x < o + c
      BY <1>3, <1>4, <1>5, <2>1, <2>2, <2>4, <2>5, <2>6
    <3> QED
      BY <1>1, <1>3, <1>5, <2>8, <3>1, <3>2
  <2> QED
    BY <2>7, <2>8
<1>9. PICK z \in Nat \ {0} : z = ChunkSize(f) /\ z = IF f = Chunks THEN XorSize - o ELSE c
  BY <1>1, <1>3, <1>5, <1>6 DEF ChunkSize, c
<1>10. o + z <= XorSize /\ (f = Chunks => o + z = XorSize) /\ (f < Chunks => z = c)
  BY <1>1, <1>2, <1>3, <1>6, <1>9
<1>11. \A x \in 0 .. XorSize - 1 : ChunkOf(x) = f - 1 <=> x \in o .. o + z - 1
  BY <1>4, <1>8, <1>9
<1> QED
  BY <1>3, <1>5, <1>7, <1>9, <1>10, <1>11 DEF c

\* The most frequent byte there is.
LEMMA MostFrequent ==
  ASSUME job \in Searched, NEW b
  PROVE  /\ \A v : Count(v, b) \in Nat
         /\ getMax(b) \in AllBytes /\ \A w \in AllBytes : Count(w, b) <= Count(getMax(b), b)
<1> DEFINE counts == {Count(v, b) : v \in AllBytes}
           most == {v \in AllBytes : \A w \in AllBytes : Count(w, b) <= Count(v, b)}
<1>1. IsFiniteSet(Stripes)
  <2>1. Stripes \in SUBSET (0 .. Len(Source(1))) /\ IsFiniteSet(0 .. Len(Source(1)))
    BY SearchedFiles, FS_Interval DEF Stripes
  <2> QED
    BY <2>1, FS_Subset
<1>2. ASSUME NEW v PROVE Count(v, b) \in 0 .. CountMod - 1
  <2> DEFINE T == {n \in Stripes : isNot00orFF(Bytes(n)) /\ Bytes(n)[b] = v}
  <2>1. T \in SUBSET Stripes
    OBVIOUS
  <2>2. Cardinality(T) \in Nat
    BY <1>1, <2>1, FS_Subset, FS_CardinalityType
  <2>3. PICK a \in Nat : a = Cardinality(T)
    BY <2>2
  <2>4. a % CountMod \in 0 .. CountMod - 1
    BY SearchConstants, Division
  <2> QED
    BY <2>3, <2>4 DEF Count
<1>3. counts \in SUBSET Nat /\ counts # {} /\ CountMod - 1 \in Nat /\ \A n \in counts : n <= CountMod - 1
  <2>1. CountMod \in Nat \ {0} /\ 0 \in AllBytes
    BY SearchConstants DEF AllBytes
  <2> QED
    BY <1>2, <2>1
<1>4. Max(counts) \in counts /\ \A n \in counts : n <= Max(counts)
  BY <1>3, GreatestElement
<1>5. PICK v \in AllBytes : Max(counts) = Count(v, b)
  BY <1>4
<1>6. v \in most
  BY <1>4, <1>5
<1>7. most \in SUBSET Nat /\ most # {}
  BY <1>6 DEF AllBytes, NoId
<1>8. Min(most) \in most
  BY <1>7, LeastElement
<1> QED
  BY <1>2, <1>8 DEF getMax

\* What the code sees of a chunk in a stripe.
LEMMA StripeBytes ==
  ASSUME job \in Searched, file \in 1 .. Chunks, NEW n \in Nat
  PROVE  /\ DOMAIN Bytes(n) = 1 .. buffer_size /\ buffer_size = ChunkSize(file) /\ xor_offset \in Nat
         /\ \A b \in 1 .. buffer_size : xor_offset + b - 1 \in Nat /\ Bytes(n)[b] = CellAt(n, xor_offset + b - 1)
         /\ isNot00orFF(Bytes(n)) <=>
              {CellAt(n, y) : y \in xor_offset .. xor_offset + buffer_size - 1} \notin {{0}, {NoId}}
<1>1. PICK o \in Nat : o = xor_offset
  BY ChunkPlaces DEF xor_offset
<1>2. buffer_size = ChunkSize(file)
  BY DEF buffer_size, ChunkSize, xor_offset
<1>3. PICK z \in Nat \ {0} : z = buffer_size
  BY <1>2, ChunkPlaces
<1>4. DOMAIN Bytes(n) = 1 .. z /\ \A b \in 1 .. z : Bytes(n)[b] = Source(1)[n * XorSize + o + b].id
  BY <1>1, <1>3 DEF Bytes
<1>5. ASSUME NEW b \in 1 .. z
      PROVE  o + b - 1 \in o .. o + z - 1 /\ Bytes(n)[b] = CellAt(n, o + b - 1)
  <2>1. PICK m \in Nat : m = n * XorSize
    BY SearchConstants
  <2>2. m + o + b = m + (o + b - 1) + 1
    BY <1>1
  <2> QED
    BY <1>1, <1>4, <2>1, <2>2 DEF CellAt
<1>6. ASSUME NEW y \in o .. o + z - 1
      PROVE  y - o + 1 \in 1 .. z /\ Bytes(n)[y - o + 1] = CellAt(n, y)
  <2>1. y - o + 1 \in 1 .. z /\ o + (y - o + 1) - 1 = y
    BY <1>1
  <2> QED
    BY <1>5, <2>1
<1> DEFINE bytes == {CellAt(n, y) : y \in o .. o + z - 1}
<1>7. bytes = {Bytes(n)[b] : b \in 1 .. z}
  BY <1>5, <1>6
<1>8. 1 \in 1 .. z
  BY <1>3
<1>9. isNot00orFF(Bytes(n)) <=> bytes \notin {{0}, {NoId}}
  <2>1. isNot00orFF(Bytes(n)) <=> (\E b \in 1 .. z : Bytes(n)[b] # 0) /\ (\E b \in 1 .. z : Bytes(n)[b] # NoId)
    BY <1>4 DEF isNot00orFF
  <2>2. ASSUME NEW v PROVE bytes = {v} <=> \A b \in 1 .. z : Bytes(n)[b] = v
    BY <1>7, <1>8
  <2> HIDE DEF bytes
  <2> QED
    BY <2>1, <2>2
<1>10. \A b \in 1 .. z : o + b - 1 \in Nat /\ Bytes(n)[b] = CellAt(n, o + b - 1)
  BY <1>1, <1>5
<1> HIDE DEF bytes
<1>11. bytes = {CellAt(n, y) : y \in xor_offset .. xor_offset + buffer_size - 1}
  BY <1>1, <1>3 DEF bytes
<1>12. \A b \in 1 .. buffer_size : xor_offset + b - 1 \in Nat /\ Bytes(n)[b] = CellAt(n, xor_offset + b - 1)
  BY <1>1, <1>3, <1>10
<1> QED
  BY <1>1, <1>2, <1>3, <1>4, <1>9, <1>11, <1>12

\* The key's byte for a place.
LEMMA KeyByte ==
  ASSUME job \in Searched, file \in 1 .. Chunks,
         \A n \in Stripes : n * XorSize + xor_offset + buffer_size <= Len(Source(1)),
         NEW b \in 1 .. buffer_size, NEW x, x = xor_offset + b - 1,
         Cardinality(Counted(x)) < CountMod
  PROVE  \A v \in AllBytes : Times(x, v) <= Times(x, getMax(b))
<1> DEFINE Y == xor_offset .. xor_offset + buffer_size - 1
           total == Len(Source(1))
<1>1. /\ xor_offset \in Nat /\ buffer_size \in Nat \ {0} /\ xor_offset + buffer_size <= XorSize
      /\ x \in Y /\ total \in Nat /\ XorSize \in Nat \ {0} /\ buffer_size = ChunkSize(file)
      /\ xor_offset = chunk_size * (file - 1)
  <2>1. xor_offset = chunk_size * (file - 1)
    BY DEF xor_offset
  <2>2. buffer_size = ChunkSize(file)
    BY DEF buffer_size, ChunkSize, xor_offset
  <2>3. xor_offset \in Nat /\ buffer_size \in Nat \ {0} /\ xor_offset + buffer_size <= XorSize
    BY <2>1, <2>2, ChunkPlaces
  <2>4. PICK o \in Nat, z \in Nat : o = xor_offset /\ z = buffer_size
    BY <2>3
  <2>5. b \in 1 .. z /\ x = o + b - 1
    BY <2>4
  <2>6. x \in o .. o + z - 1
    BY <2>4, <2>5
  <2>7. x \in Y
    BY <2>4, <2>6
  <2>8. total \in Nat /\ XorSize \in Nat \ {0}
    BY SearchedFiles, SearchConstants
  <2> QED
    BY <2>1, <2>2, <2>3, <2>7, <2>8
<1>2. {y \in 0 .. XorSize - 1 : ChunkOf(y) = ChunkOf(x)} = Y
  <2>1. \A y \in Y : y \in 0 .. XorSize - 1
    BY <1>1, SMTT(30)
  <2>2. \A y \in 0 .. XorSize - 1 : ChunkOf(y) = file - 1 <=> y \in Y
    BY <1>1, ChunkPlaces
  <2> HIDE DEF Y
  <2>3. ChunkOf(x) = file - 1
    BY <1>1, <2>1, <2>2
  <2> QED
    BY <2>1, <2>2, <2>3
<1>3. Counted(x) = {n \in Stripes : isNot00orFF(Bytes(n))}
  <2>1. ASSUME NEW n \in 0 .. total
        PROVE  n * XorSize + x < total <=> n * XorSize + xor_offset < total
    <3>1. PICK m \in Nat : m = n * XorSize
      BY <1>1
    <3>2. n \in Stripes => m + xor_offset + buffer_size <= total
      BY <3>1
    <3>3. n \in Stripes <=> m + xor_offset < total
      BY <3>1 DEF Stripes
    <3>4. PICK l \in Nat, o \in Nat, z \in Nat : l = total /\ o = xor_offset /\ z = buffer_size
      BY <1>1
    <3>5. x \in Int /\ o <= x /\ x < o + z
      BY <1>1, <3>4
    <3>6. m + o < l => m + o + z <= l
      BY <3>2, <3>3, <3>4
    <3>7. m + x < l <=> m + o < l
      BY <3>1, <3>4, <3>5, <3>6
    <3> QED
      BY <3>1, <3>4, <3>7
  <2>2. ASSUME NEW n \in 0 .. total
        PROVE  isNot00orFF(Bytes(n)) <=> {CellAt(n, y) : y \in Y} \notin {{0}, {NoId}}
    <3>1. n \in Nat
      BY <1>1, <2>2
    <3> QED
      BY <3>1, StripeBytes
  <2>3. Counted(x) = {n \in 0 .. total : n * XorSize + x < total /\ {CellAt(n, y) : y \in Y} \notin {{0}, {NoId}}}
    <3> HIDE DEF Y
    <3> QED
      BY <1>2 DEF Counted
  <2>4. \A n : n \in Stripes <=> n \in 0 .. total /\ n * XorSize + xor_offset < total
    BY DEF Stripes
  <2> HIDE DEF Y, total
  <2> QED
    BY <2>1, <2>2, <2>3, <2>4
<1>4. Counted(x) \in SUBSET (0 .. total) /\ IsFiniteSet(Counted(x))
  <2>1. Counted(x) \in SUBSET (0 .. total) /\ IsFiniteSet(0 .. total)
    BY <1>1, FS_Interval DEF Counted
  <2> QED
    BY <2>1, FS_Subset
<1>5. ASSUME NEW v PROVE Count(v, b) = Times(x, v)
  <2>1. \A n \in Counted(x) : Bytes(n)[b] = CellAt(n, x)
    BY <1>1, <1>4, StripeBytes, SMTT(30)
  <2>2. {n \in Stripes : isNot00orFF(Bytes(n)) /\ Bytes(n)[b] = v} = {n \in Counted(x) : CellAt(n, x) = v}
    BY <1>3, <2>1
  <2>3. Count(v, b) = Times(x, v) % CountMod
    BY <2>2 DEF Count, Times
  <2>4. Times(x, v) \in Nat /\ Times(x, v) < CountMod
    <3>1. {n \in Counted(x) : CellAt(n, x) = v} \in SUBSET Counted(x)
      OBVIOUS
    <3>2. Times(x, v) \in Nat /\ Times(x, v) <= Cardinality(Counted(x)) /\ Cardinality(Counted(x)) \in Nat
      BY <1>4, <3>1, FS_Subset, FS_CardinalityType DEF Times
    <3> QED
      BY <3>2, SearchConstants
  <2>5. PICK a \in Nat, m \in Nat \ {0} : a = Times(x, v) /\ m = CountMod /\ a < m
    BY <2>4, SearchConstants
  <2>6. (0 * m + a) % m = a
    <3>1. a \in 0 .. m - 1 /\ 0 \in Nat
      BY <2>5
    <3> QED
      BY <3>1, Quotient
  <2>7. 0 * m + a = a
    BY <2>5
  <2> QED
    BY <2>3, <2>5, <2>6, <2>7
<1>6. \A v \in AllBytes : Count(v, b) <= Count(getMax(b), b)
  BY MostFrequent
<1> QED
  BY <1>5, <1>6

LEMMA KeyStart ==
  ASSUME SearchInit PROVE KeyInv
<1> SUFFICES ASSUME job \in Searched, job.tool = "Analize" PROVE KeyInv
  BY DEF KeyInv
<1>1. file = 1 /\ status = "searching" /\ DOMAIN out = 0 .. MaxTargets - 1 /\ DOMAIN out[0] = {}
  BY SearchBegins
<1>2. Chunks \in Nat \ {0} /\ 1 \in 1 .. Chunks
  BY SearchConstants
<1>3. chunk_size * (1 - 1) = 0
  <2>1. chunk_size \in Nat
    BY <1>2, ChunkPlaces
  <2> QED
    BY <2>1
<1>4. KeyIs(0 .. (IF file <= Chunks THEN chunk_size * (file - 1) ELSE XorSize) - 1)
  <2>1. (IF file <= Chunks THEN chunk_size * (file - 1) ELSE XorSize) = 0
    BY <1>1, <1>2, <1>3
  <2>2. KeyIs({})
    BY <1>1 DEF KeyIs
  <2> QED
    BY <2>1, <2>2
<1> QED
  BY <1>1, <1>2, <1>4 DEF KeyInv

\* The key found so far depends on the job and the target alone.
LEMMA SameKey ==
  ASSUME UNCHANGED <<job, out>>, NEW S
  PROVE  KeyIs(S)' <=> KeyIs(S)
<1>1. \A n, x : CellAt(n, x)' = CellAt(n, x)
  BY DEF CellAt, Source
<1>2. Len(Source(1))' = Len(Source(1))
  BY DEF Source
<1>3. \A x : Counted(x)' = Counted(x)
  BY <1>1, <1>2 DEF Counted
<1>4. \A x, v : Times(x, v)' = Times(x, v)
  BY <1>1, <1>3 DEF Times
<1> QED
  BY <1>3, <1>4 DEF KeyIs

LEMMA KeyQuiet ==
  ASSUME KeyInv, UNCHANGED <<job, file, out>>, status' \in {status, "thrown"}
  PROVE  KeyInv'
BY SameKey DEF KeyInv

LEMMA KeyStep ==
  ASSUME KeyInv, job \in Searched, status = "searching", Analize
  PROVE  KeyInv'
<1> DEFINE key == [b \in 1 .. buffer_size |-> getMax(b)]
<1>1. job.tool = "Analize" /\ file <= Chunks
  BY DEF Analize, Searching
<1>2. CASE Ends("thrown")
  BY <1>2, KeyQuiet DEF Ends
<1>3. CASE /\ \A n \in Stripes : n * XorSize + xor_offset + buffer_size <= Len(Source(1))
           /\ out' = PutAll(out, 0, xor_offset, key)
           /\ file' = file + 1
           /\ status' = IF file = Chunks THEN "done" ELSE "searching"
           /\ UNCHANGED <<job, open, k, memo>>
  <2>1. /\ DOMAIN out = 0 .. MaxTargets - 1 /\ 0 \in DOMAIN out /\ file \in 1 .. Chunks /\ Chunks \in Nat \ {0}
        /\ KeyIs(0 .. chunk_size * (file - 1) - 1)
    BY <1>1, SearchConstants, ToolConstants DEF KeyInv
  <2>2. PICK o \in Nat, z \in Nat \ {0} : o = xor_offset /\ z = buffer_size /\ o = chunk_size * (file - 1) /\ z = ChunkSize(file)
    <3>1. xor_offset = chunk_size * (file - 1) /\ buffer_size = ChunkSize(file)
      BY DEF xor_offset, buffer_size, ChunkSize
    <3>2. xor_offset \in Nat /\ buffer_size \in Nat \ {0}
      BY <2>1, <3>1, ChunkPlaces
    <3> QED
      BY <3>1, <3>2
  <2>3. /\ file < Chunks => o + z = chunk_size * ((file + 1) - 1)
        /\ file = Chunks => o + z = XorSize
    BY <2>1, <2>2, ChunkPlaces
  <2>4. /\ DOMAIN out' = 0 .. MaxTargets - 1
        /\ out'[0] = [x \in DOMAIN out[0] \cup (o .. o + z - 1) |->
                        IF x - o + 1 \in 1 .. z THEN getMax(x - o + 1) ELSE out[0][x]]
    <3>1. PICK p : p = PutAll(out, 0, o, key)
      OBVIOUS
    <3>2. Len(key) = z /\ DOMAIN key = 1 .. z /\ \A b \in 1 .. z : key[b] = getMax(b)
      BY <2>2
    <3> HIDE DEF key
    <3>3. /\ DOMAIN p = DOMAIN out
          /\ p[0] = [x \in DOMAIN out[0] \cup (o .. o + Len(key) - 1) |->
                       IF x - o + 1 \in DOMAIN key THEN key[x - o + 1] ELSE out[0][x]]
      BY <2>1, <3>1 DEF PutAll
    <3>4. p[0] = [x \in DOMAIN out[0] \cup (o .. o + z - 1) |->
                    IF x - o + 1 \in 1 .. z THEN getMax(x - o + 1) ELSE out[0][x]]
      BY <3>2, <3>3
    <3>5. out' = p
      BY <1>3, <2>2, <3>1
    <3> QED
      BY <2>1, <3>3, <3>4, <3>5
  <2>5. DOMAIN out[0] = 0 .. o - 1
    BY <2>1, <2>2 DEF KeyIs
  <2>6. PICK new : new = out'[0]
    OBVIOUS
  <2>7. DOMAIN new = 0 .. o + z - 1
    <3>1. (0 .. o - 1) \cup (o .. o + z - 1) = 0 .. o + z - 1
      BY <2>2
    <3> QED
      BY <2>4, <2>5, <2>6, <3>1
  <2>8. ASSUME NEW x \in 0 .. o + z - 1
        PROVE  new[x] = IF x < o THEN out[0][x] ELSE getMax(x - o + 1)
    <3>1. x - o + 1 \in 1 .. z <=> ~ (x < o)
      BY <2>2
    <3>2. x \in DOMAIN out[0] \cup (o .. o + z - 1)
      BY <2>2, <2>5
    <3> QED
      BY <2>4, <2>6, <3>1, <3>2
  <2>9. ASSUME NEW x \in 0 .. o + z - 1, Cardinality(Counted(x)) < CountMod
        PROVE  \A v \in AllBytes : Times(x, v) <= Times(x, new[x])
    <3>1. CASE x < o
      <4>1. x \in 0 .. o - 1
        BY <2>2, <3>1
      <4>2. new[x] = out[0][x]
        BY <2>8, <3>1
      <4> QED
        BY <2>1, <2>2, <2>9, <4>1, <4>2 DEF KeyIs
    <3>2. CASE ~ (x < o)
      <4>1. PICK b \in 1 .. z : b = x - o + 1 /\ x = o + b - 1
        BY <2>2, <3>2
      <4>2. \A v \in AllBytes : Times(x, v) <= Times(x, getMax(b))
        <5>1. b \in 1 .. buffer_size /\ x = xor_offset + b - 1
          BY <2>2, <4>1
        <5> QED
          BY <1>3, <2>1, <2>9, <5>1, KeyByte
      <4> QED
        BY <2>8, <3>2, <4>1, <4>2
    <3> QED
      BY <3>1, <3>2
  <2>10. \A n, x : CellAt(n, x)' = CellAt(n, x)
    BY <1>3 DEF CellAt, Source
  <2>11. Len(Source(1))' = Len(Source(1))
    BY <1>3 DEF Source
  <2>12. \A x : Counted(x)' = Counted(x)
    BY <2>10, <2>11 DEF Counted
  <2>13. \A x, v : Times(x, v)' = Times(x, v)
    BY <2>10, <2>12 DEF Times
  <2>14. KeyIs(0 .. o + z - 1)'
    BY <2>6, <2>7, <2>9, <2>12, <2>13 DEF KeyIs
  <2>15. o + z = IF file' <= Chunks THEN chunk_size * (file' - 1) ELSE XorSize
    BY <1>3, <2>1, <2>2, <2>3
  <2>16. KeyIs(0 .. (IF file <= Chunks THEN chunk_size * (file - 1) ELSE XorSize) - 1)'
    BY <2>14, <2>15 DEF chunk_size
  <2>17. /\ file' \in 1 .. Chunks + 1
         /\ status' = "searching" => file' <= Chunks
         /\ status' = "done" => file' = Chunks + 1
    BY <1>3, <2>1
  <2> QED
    BY <2>4, <2>16, <2>17 DEF KeyInv
<1> QED
  BY <1>2, <1>3 DEF Analize

-----------------------------------------------------------------------------
LEMMA VerdictSteps ==
  ASSUME KindInv, VerdictInv, [ToolNext]_toolVars
  PROVE  VerdictInv'
<1>1. CASE UNCHANGED toolVars
  BY <1>1, KeyQuiet, TestQuiet DEF VerdictInv, toolVars
<1>2. CASE job \notin Searched
  <2>1. job' \notin Searched
    BY <1>2, KindSteps
  <2> QED
    BY <2>1 DEF VerdictInv, KeyInv, TestInv
<1>3. CASE job \in Searched /\ ~ UNCHANGED toolVars
  <2>1. status = "searching" /\ SearchNext /\ job' = job
    BY <1>3, KindSteps
  <2>2. KeyInv'
    <3>1. CASE job.tool = "Analize"
      BY <1>3, <2>1, <3>1, SearchSteps, KeyStep DEF VerdictInv
    <3>2. CASE job.tool # "Analize"
      BY <2>1, <3>2 DEF KeyInv
    <3> QED
      BY <3>1, <3>2
  <2>3. TestInv'
    <3>1. CASE job.tool = "testSigantures" /\ testSigantures
      BY <1>3, <2>1, <3>1, TestStep DEF VerdictInv
    <3>2. CASE job.tool = "testSigantures" /\ k = Len(Pages) /\ Ends("done")
      BY <3>2, TestQuiet DEF VerdictInv, Ends
    <3>3. CASE job.tool # "testSigantures"
      BY <2>1, <3>3 DEF TestInv
    <3> QED
      BY <2>1, <3>1, <3>2, <3>3, SearchSteps
  <2> QED
    BY <2>2, <2>3 DEF VerdictInv
<1> QED
  BY <1>1, <1>2, <1>3

LEMMA VerdictStart == ToolInit => VerdictInv
<1>1. ASSUME BlockInit PROVE VerdictInv
  <2>1. job \notin Searched
    BY <1>1, SearchedFiles DEF BlockInit
  <2> QED
    BY <2>1 DEF VerdictInv, KeyInv, TestInv
<1> QED
  BY <1>1, KeyStart, TestStart DEF ToolInit, VerdictInv

\* The key has for each place the byte that is there most often, and the test
\* of a folder renames and names the files and extensions it has to (Analize,
\* testSigantures).
THEOREM VerdictsStand == ToolSpec => []VerdictsHold
<1>1. ToolInit => KindInv /\ VerdictInv
  BY KindStart, VerdictStart
<1>2. KindInv /\ VerdictInv /\ [ToolNext]_toolVars => (KindInv /\ VerdictInv)'
  BY KindSteps, VerdictSteps
<1>3. KindInv /\ VerdictInv => VerdictsHold
  <2> SUFFICES ASSUME KindInv, VerdictInv PROVE VerdictsHold
    OBVIOUS
  <2>1. ASSUME Found("Analize") PROVE KeyIs(0 .. XorSize - 1)
    <3>1. job \in Searched /\ job.tool = "Analize" /\ status = "done"
      BY <2>1, FoundSearched DEF Found, SearchTools
    <3>2. file = Chunks + 1 /\ KeyIs(0 .. (IF file <= Chunks THEN chunk_size * (file - 1) ELSE XorSize) - 1)
      BY <3>1 DEF VerdictInv, KeyInv
    <3>3. ~ (file <= Chunks)
      BY <3>2, SearchConstants
    <3> QED
      BY <3>2, <3>3
  <2>2. Is("testSigantures") =>
          /\ status = "done" <=> Unsigned = {}
          /\ Tested(IF Unsigned = {} THEN Len(Pages) ELSE Min(Unsigned) - 1)
    BY TestEnds DEF VerdictInv
  <2> QED
    BY <2>1, <2>2 DEF VerdictsHold
<1> QED
  BY <1>1, <1>2, <1>3, PTL DEF ToolSpec

-----------------------------------------------------------------------------
(* Chains of extents                                                        *)

LEMMA ChainStart ==
  ASSUME SearchInit PROVE ChainInv
<1>1. file = 1 /\ memo = <<>> /\ status = "searching"
  BY SearchBegins
<1>2. Size0 = 0 /\ DOMAIN out[0] = First(Size0) /\ DOMAIN out = 0 .. MaxTargets - 1 /\ First(0) = {}
  BY NothingPut DEF First
<1>3. Chained
  BY <1>2 DEF Chained, First
<1> QED
  BY <1>1, <1>2, <1>3 DEF ChainInv

\* The extents of the list.
LEMMA ListIs ==
  ASSUME job \in Searched, job.tool = "searchExtends", file = 1
  PROVE  /\ DOMAIN job.at = 1 .. Len(job.at) /\ Len(job.at) \in Nat /\ 1 \in DOMAIN job.at
         /\ \A i \in 1 .. Len(job.at) :
              /\ Listed(i).offset = job.at[i]
              /\ Listed(i).first_offset = Starts(job.at[i])
              /\ Listed(i).size = CalculateExtentSize(Pages[job.at[i] + 1])
              /\ Listed(i).number_entries = Len(Pages[job.at[i] + 1].entries)
              /\ Listed(i).number_entries \in Nat
              /\ Listed(i).number_entries = 0 => Pages[job.at[i] + 1].entries = <<>>
<1>1. DOMAIN job.at = 1 .. Len(job.at) /\ Len(job.at) \in Nat /\ \A i \in 1 .. Len(job.at) : job.at[i] \in Nat
  BY SearchedFiles
<1>2. 1 \in DOMAIN job.at
  <2>1. IsList(job.at) /\ job.at # <<>>
    BY SearchedAssumption
  <2> QED
    BY <2>1, ListsHaveLength
<1>3. Pages = Source(1) /\ Len(Pages) \in Nat /\ DOMAIN Pages = 1 .. Len(Pages) /\ Pages = job.files[1]
  BY OneFile DEF Source
<1>4. ASSUME NEW i \in 1 .. Len(job.at)
      PROVE  /\ Listed(i).offset = job.at[i]
             /\ Listed(i).first_offset = Starts(job.at[i])
             /\ Listed(i).size = CalculateExtentSize(Pages[job.at[i] + 1])
             /\ Listed(i).number_entries = Len(Pages[job.at[i] + 1].entries)
             /\ Listed(i).number_entries \in Nat
             /\ Listed(i).number_entries = 0 => Pages[job.at[i] + 1].entries = <<>>
  <2>1. /\ Listed(i).offset = job.at[i]
        /\ Listed(i).first_offset = Starts(job.at[i])
        /\ Listed(i).size = CalculateExtentSize(Pages[job.at[i] + 1])
        /\ Listed(i).number_entries = Len(Pages[job.at[i] + 1].entries)
    BY DEF Listed, Extent, Starts
  <2>2. job.at[i] + 1 \in DOMAIN job.files[1]
    <3>1. job.at[i] \in Nat /\ job.at[i] < Len(job.files[1])
      BY <1>1, SearchedAssumption
    <3>2. DOMAIN job.files[1] = 1 .. Len(job.files[1]) /\ Len(job.files[1]) \in Nat
      BY <1>3
    <3> QED
      BY <3>1, <3>2
  <2>3. IsList(Pages[job.at[i] + 1].entries)
    BY <1>3, <2>2, SearchedAssumption
  <2>4. PICK s : s = Pages[job.at[i] + 1].entries
    OBVIOUS
  <2>5. Len(s) \in Nat /\ (Len(s) = 0 => s = <<>>)
    BY <2>3, <2>4, ListsHaveLength
  <2> QED
    BY <2>1, <2>4, <2>5
<1> QED
  BY <1>1, <1>2, <1>4

\* One of those that begin at a place, and it has as many entries as any.
LEMMA MostEntries ==
  ASSUME job \in Searched, job.tool = "searchExtends", file = 1,
         NEW next \in SUBSET (1 .. Len(job.at)), next # {}
  PROVE  \E i \in next : /\ findWithMaxEntries(next) = Listed(i)
                         /\ \A j \in next : Listed(j).number_entries <= Listed(i).number_entries
<1> DEFINE l == Len(job.at)
           f == [i \in 1 .. l |-> Listed(i).number_entries]
           most == {i \in next : \A j \in next : Listed(j).number_entries <= Listed(i).number_entries}
<1>1. l \in Nat /\ f \in [1 .. l -> Nat]
  BY ListIs
<1> HIDE DEF l
<1>2. next \in SUBSET (1 .. l)
  BY DEF l
<1>3. PICK i \in next : \A j \in next : f[j] <= f[i]
  <2> HIDE DEF f
  <2> QED
    BY <1>1, <1>2, GreatestAt
<1>4. i \in most
  BY <1>2, <1>3
<1>5. most \in SUBSET Nat /\ most # {}
  <2>1. next \in SUBSET Nat
    BY <1>1, <1>2
  <2> QED
    BY <1>4, <2>1
<1>6. Min(most) \in most
  BY <1>5, LeastElement
<1> QED
  BY <1>6 DEF findWithMaxEntries

\* While the job and the file stay, so does what is known of the extents.
LEMMA SameExtents ==
  ASSUME UNCHANGED <<job, file>>
  PROVE  /\ Pages' = Pages /\ InTheList' = InTheList
         /\ \A x : Starts(x)' = Starts(x) /\ Id(x)' = Id(x)
<1>1. Pages' = Pages
  BY DEF Pages, Source
<1> QED
  BY <1>1 DEF InTheList, Starts, Id

LEMMA SameChain ==
  ASSUME UNCHANGED <<job, file, out>>
  PROVE  /\ Size0' = Size0 /\ Copied' = Copied
         /\ Chained' <=> Chained
         /\ NoneGoesOn' <=> NoneGoesOn
<1>1. Size0' = Size0 /\ Copied' = Copied
  BY DEF Size0, Copied
<1>2. Pages' = Pages /\ InTheList' = InTheList /\ \A x : Starts(x)' = Starts(x) /\ Id(x)' = Id(x)
  BY SameExtents
<1> QED
  BY <1>1, <1>2 DEF Chained, NoneGoesOn

LEMMA ChainQuiet ==
  ASSUME ChainInv, UNCHANGED <<job, file, out, memo, status>>
  PROVE  ChainInv'
BY SameChain, SameExtents DEF ChainInv

LEMMA ChainRead ==
  ASSUME ChainInv, job \in Searched, status = "searching", readListExtents
  PROVE  ChainInv'
<1>1. /\ job.tool = "searchExtends" /\ memo = <<>> /\ UNCHANGED <<job, file, out>>
      /\ \/ memo' = <<>> /\ status' = "thrown"
         \/ memo' = <<2 .. Len(job.at), 0, job.at[1]>> /\ status' = status
  BY DEF readListExtents, Searching, Ends
<1>2. Size0 = 0 /\ DOMAIN out[0] = First(Size0) /\ Chained /\ file = 1 /\ DOMAIN out = 0 .. MaxTargets - 1
  BY <1>1 DEF ChainInv
<1>3. Copied = {}
  BY <1>2 DEF Copied, First
<1>4. Size0' = Size0 /\ Copied' = Copied /\ Chained'
  BY <1>1, <1>2, SameChain
<1>5. CASE memo' = <<>> /\ status' = "thrown"
  BY <1>1, <1>2, <1>4, <1>5 DEF ChainInv
<1>6. CASE memo' = <<2 .. Len(job.at), 0, job.at[1]>> /\ status' = status
  <2>1. memo'[1] = {i \in 2 .. Len(job.at) : job.at[i] \notin Copied} /\ memo'[2] = 0 /\ memo'[3] = job.at[1] /\ memo' # <<>>
    BY <1>3, <1>6
  <2> QED
    BY <1>1, <1>2, <1>4, <1>6, <2>1 DEF ChainInv
<1> QED
  BY <1>1, <1>5, <1>6

\* A leaf with two entries has no size in the code.
LEMMA TwoEntries ==
  ASSUME NEW n, n.id = 0, Len(n.entries) = 2
  PROVE  CalculateExtentSize(n) = 0
<1>1. CalculateExtentSize(n) = CalculateExtentSizeWith_0Depth(n)
  BY DEF CalculateExtentSize
<1>2. PICK l \in Nat : l = Len(n.entries) /\ l = 2
  OBVIOUS
<1>3. ~ (l = 1) /\ ~ (l > 2)
  BY <1>2
<1> QED
  BY <1>1, <1>2, <1>3 DEF CalculateExtentSizeWith_0Depth

LEMMA ChainStep ==
  ASSUME ChainInv, job \in Searched, status = "searching", searchExtends
  PROVE  ChainInv'
<1> DEFINE n == Size0
           cur == memo[3]
           current == findByOffset(memo[1], cur)
           size == IF current = {} THEN 0 ELSE Listed(Min(current)).size
           end == memo[2] + size
           left == memo[1] \ current
           next == findByFirstOffset(left, end)
           cell == <<memo[2], size, cur>>
           goesOn == IF next = {} THEN cur ELSE findWithMaxEntries(next).offset
<1>1. /\ job.tool = "searchExtends" /\ memo # <<>> /\ UNCHANGED <<job, file>>
      /\ out' = Add(out, 0, cell)
      /\ memo' = <<left, end, goesOn>>
      /\ status' = IF size = 0 \/ next = {} \/ findWithMaxEntries(next).number_entries = 0
                     THEN "done" ELSE "searching"
  BY DEF searchExtends, Searching, Add
<1>2. /\ file = 1 /\ DOMAIN out = 0 .. MaxTargets - 1 /\ n \in Nat /\ DOMAIN out[0] = First(n) /\ Chained
      /\ memo[1] = {i \in 2 .. Len(job.at) : job.at[i] \notin Copied}
      /\ n = 0 => memo[2] = 0 /\ cur = job.at[1]
      /\ n > 0 => /\ memo[2] = out[0][n - 1][1] + out[0][n - 1][2] /\ out[0][n - 1][2] # 0
                  /\ cur \in InTheList \ Copied /\ Starts(cur) = memo[2]
  BY <1>1 DEF ChainInv
<1>3. /\ DOMAIN out' = DOMAIN out /\ DOMAIN out'[0] = First(n + 1) /\ Size0' = n + 1
      /\ out'[0][n] = cell /\ \A x \in First(n) : out'[0][x] = out[0][x]
  BY <1>1, <1>2, CellAdded
<1>4. First(n + 1) = First(n) \cup {n} /\ n \notin First(n) /\ \A i \in First(n) : i \in Nat /\ i < n
  BY <1>2, Numbered
<1>5. Copied' = Copied \cup {cur}
  <2>1. PICK p, q : p = out[0] /\ q = out'[0]
    OBVIOUS
  <2>2. {q[x][3] : x \in DOMAIN q} = {p[x][3] : x \in DOMAIN p} \cup {cell[3]}
    BY <1>2, <1>3, <1>4, <2>1
  <2> QED
    BY <2>1, <2>2, ZenonT(30) DEF Copied
<1>6. cur \notin Copied
  <2>1. n = 0 => Copied = {}
    BY <1>2 DEF Copied, First
  <2> QED
    BY <1>2, <2>1
<1>7. \A i \in 1 .. Len(job.at) : Listed(i).offset = job.at[i] /\ Listed(i).first_offset = Starts(job.at[i])
  BY <1>1, <1>2, ListIs
<1>8. memo[1] \in SUBSET (1 .. Len(job.at)) /\ Len(job.at) \in Nat
  <2>1. Len(job.at) \in Nat
    BY <1>1, <1>2, ListIs
  <2> QED
    BY <1>2, <2>1
<1>9. current = {i \in memo[1] : job.at[i] = cur}
  BY <1>7, <1>8 DEF findByOffset
<1>10. left = {i \in 2 .. Len(job.at) : job.at[i] \notin Copied \cup {cur}}
  BY <1>2, <1>9
<1> HIDE DEF current
<1>11. left \in SUBSET (1 .. Len(job.at)) /\ next = {i \in left : Starts(job.at[i]) = end}
  <2>1. left \in SUBSET (1 .. Len(job.at))
    BY <1>8
  <2> HIDE DEF left
  <2> QED
    BY <1>7, <2>1 DEF findByFirstOffset
<1> HIDE DEF left
<1>12. Id(cur) = 0 /\ Len(Pages[cur + 1].entries) = 2 => size = 0
  <2> SUFFICES ASSUME Id(cur) = 0, Len(Pages[cur + 1].entries) = 2, current # {} PROVE size = 0
    OBVIOUS
  <2>1. current \in SUBSET Nat
    BY <1>8, <1>9
  <2>2. Min(current) \in current
    BY <2>1, LeastElement
  <2>3. job.at[Min(current)] = cur /\ Min(current) \in 1 .. Len(job.at)
    BY <1>8, <1>9, <2>2
  <2>4. Listed(Min(current)).size = CalculateExtentSize(Pages[cur + 1])
    BY <1>1, <1>2, <2>3, ListIs
  <2>5. CalculateExtentSize(Pages[cur + 1]) = 0
    BY TwoEntries DEF Id
  <2> QED
    BY <2>4, <2>5
<1> HIDE DEF size, end, next
<1>13. next # {} => \E m \in next : /\ findWithMaxEntries(next) = Listed(m)
                                    /\ \A j \in next : Listed(j).number_entries <= Listed(m).number_entries
  <2>1. next \in SUBSET (1 .. Len(job.at))
    BY <1>11
  <2> QED
    BY <1>1, <1>2, <2>1, MostEntries
<1>14. /\ Pages' = Pages /\ InTheList' = InTheList
       /\ \A x : Starts(x)' = Starts(x) /\ Id(x)' = Id(x)
  BY <1>1, SameExtents
<1>15. cell[1] = memo[2] /\ cell[2] = size /\ cell[3] = cur
  OBVIOUS
<1> HIDE DEF cell, goesOn
<1>16. Chained'
  <2>1. DOMAIN out'[0] = 0 .. (n + 1) - 1
    BY <1>3 DEF First
  <2>2. 0 \in DOMAIN out'[0] => out'[0][0][1] = 0 /\ out'[0][0][3] = job.at[1]
    <3>1. CASE n = 0
      BY <1>2, <1>3, <1>15, <3>1
    <3>2. CASE n # 0
      <4>1. 0 \in First(n)
        BY <1>2, <3>2 DEF First
      <4>2. out[0][0][1] = 0 /\ out[0][0][3] = job.at[1]
        BY <1>2, <4>1 DEF Chained
      <4> QED
        BY <1>3, <4>1, <4>2
    <3> QED
      BY <3>1, <3>2
  <2>3. ASSUME NEW i \in 0 .. (n + 1) - 2
        PROVE  /\ out'[0][i + 1][1] = out'[0][i][1] + out'[0][i][2] /\ out'[0][i][2] # 0
               /\ out'[0][i + 1][3] \in InTheList /\ Starts(out'[0][i + 1][3]) = out'[0][i + 1][1]
    <3>1. i \in First(n) /\ n > 0
      BY <1>2, <2>3 DEF First
    <3>2. CASE i = n - 1
      <4>1. i + 1 = n
        BY <1>2, <3>2
      <4>2. out'[0][i + 1] = cell /\ out'[0][i] = out[0][n - 1]
        BY <1>3, <3>1, <3>2, <4>1
      <4> QED
        BY <1>2, <1>15, <3>1, <4>2
    <3>3. CASE i # n - 1
      <4>1. i \in 0 .. n - 2 /\ i + 1 \in First(n)
        BY <1>2, <3>1, <3>3 DEF First
      <4>2. out'[0][i + 1] = out[0][i + 1] /\ out'[0][i] = out[0][i]
        BY <1>3, <3>1, <4>1
      <4> QED
        BY <1>2, <4>1, <4>2 DEF Chained
    <3> QED
      BY <3>2, <3>3
  <2>4. ASSUME NEW i \in First(n + 1), NEW j \in First(n + 1), i # j
        PROVE  out'[0][i][3] # out'[0][j][3]
    <3>1. ASSUME NEW x \in First(n) PROVE out'[0][x][3] = out[0][x][3] /\ out'[0][x][3] # cur
      <4>1. out'[0][x] = out[0][x] /\ out[0][x][3] \in Copied
        BY <1>2, <1>3, <3>1 DEF Copied
      <4> QED
        BY <1>6, <4>1
    <3>2. \A x, y \in First(n) : x # y => out[0][x][3] # out[0][y][3]
      BY <1>2 DEF Chained
    <3>3. out'[0][n][3] = cur
      BY <1>3, <1>15
    <3> QED
      BY <1>4, <2>4, <3>1, <3>2, <3>3
  <2>5. ASSUME NEW i \in First(n + 1), Id(out'[0][i][3]) = 0, Len(Pages[out'[0][i][3] + 1].entries) = 2
        PROVE  out'[0][i][2] = 0
    <3>1. CASE i = n
      BY <1>3, <1>12, <1>15, <2>5, <3>1
    <3>2. CASE i # n
      <4>1. i \in First(n) /\ out'[0][i] = out[0][i]
        BY <1>3, <1>4, <2>5, <3>2
      <4> QED
        BY <1>2, <2>5, <4>1 DEF Chained
    <3> QED
      BY <3>1, <3>2
  <2> QED
    BY <1>1, <1>3, <1>14, <2>1, <2>2, <2>3, <2>4, <2>5 DEF Chained
<1>17. out'[0][Size0' - 1] = cell /\ Size0' > 0 /\ Size0' # 0
  <2>1. (n + 1) - 1 = n /\ n + 1 > 0
    BY <1>2
  <2> QED
    BY <1>3, <2>1
<1>18. ASSUME status' = "searching"
       PROVE  /\ memo'[2] = cell[1] + cell[2] /\ cell[2] # 0
              /\ memo'[3] \in InTheList \ Copied' /\ Starts(memo'[3]) = memo'[2]
  <2>1. size # 0 /\ next # {}
    BY <1>1, <1>18
  <2>2. PICK m \in next : findWithMaxEntries(next) = Listed(m)
    BY <1>13, <2>1
  <2>3. m \in left /\ m \in 1 .. Len(job.at) /\ Starts(job.at[m]) = end
    BY <1>11, <2>2
  <2>4. memo'[3] = job.at[m]
    BY <1>1, <1>7, <2>1, <2>2, <2>3 DEF goesOn
  <2>5. job.at[m] \in InTheList \ Copied'
    BY <1>5, <1>10, <2>3 DEF InTheList
  <2>6. memo'[2] = end /\ end = cell[1] + cell[2]
    BY <1>1, <1>15 DEF end
  <2> QED
    BY <1>15, <2>1, <2>3, <2>4, <2>5, <2>6
<1>19. ASSUME status' = "done" PROVE NoneGoesOn'
  <2>1. ASSUME NEW x \in InTheList \ Copied', cell[2] # 0, Starts(x) = cell[1] + cell[2]
        PROVE  Pages[x + 1].entries = <<>>
    <3>1. PICK i \in 2 .. Len(job.at) : x = job.at[i]
      BY <2>1 DEF InTheList
    <3>2. i \in left
      BY <1>5, <1>10, <2>1, <3>1
    <3>3. i \in next
      BY <1>11, <1>15, <2>1, <3>1, <3>2 DEF end
    <3>4. PICK m \in next : /\ findWithMaxEntries(next) = Listed(m)
                            /\ \A j \in next : Listed(j).number_entries <= Listed(m).number_entries
      BY <1>13, <3>3
    <3>5. Listed(m).number_entries = 0
      BY <1>1, <1>15, <1>19, <2>1, <3>3, <3>4
    <3>6. i \in 1 .. Len(job.at)
      BY <1>11, <3>2
    <3>7. Listed(i).number_entries \in Nat /\ Listed(i).number_entries <= 0
      BY <1>1, <1>2, <3>3, <3>4, <3>5, <3>6, ListIs
    <3>8. Listed(i).number_entries = 0
      BY <3>7
    <3> QED
      BY <1>1, <1>2, <3>1, <3>6, <3>8, ListIs
  <2> QED
    BY <1>14, <1>17, <2>1 DEF NoneGoesOn, Copied
<1>20. memo' # <<>> /\ memo'[1] = {i \in 2 .. Len(job.at) : job.at[i] \notin Copied'}
  BY <1>1, <1>5, <1>10
<1>21. Size0' \in Nat /\ DOMAIN out'[0] = First(Size0')
  BY <1>2, <1>3
<1> QED
  BY <1>1, <1>2, <1>3, <1>14, <1>16, <1>17, <1>18, <1>19, <1>20, <1>21 DEF ChainInv

-----------------------------------------------------------------------------
(* Parts of a file                                                          *)

LEMMA PartsAre ==
  ASSUME job \in Searched, job.tool = "findFilesWithOffsets"
  PROVE  /\ PartCount \in Nat
         /\ \A f \in 1 .. PartCount + 1 : Len(Source(f)) \in Nat
         /\ Len(Pattern) \in Nat \ {0} /\ \A j \in 1 .. Len(Pattern) : job.at[j] \in Nat
         /\ DOMAIN Pattern = 1 .. Len(Pattern)
<1>1. DOMAIN job.files = 1 .. Len(job.files) /\ Len(job.files) \in Nat /\ 1 \in DOMAIN job.files
  BY SearchedFiles
<1>2. PartCount \in Nat /\ PartCount + 1 = Len(job.files) /\ Len(job.files) \in DOMAIN job.files
  BY <1>1 DEF PartCount
<1>3. \A f \in 1 .. PartCount + 1 : Len(Source(f)) \in Nat
  BY <1>1, <1>2, SearchedFiles
<1>4. Len(Pattern) \in Nat /\ DOMAIN Pattern = 1 .. Len(Pattern)
  BY <1>2, SearchedFiles DEF Pattern
<1>5. Len(Pattern) # 0 /\ Len(Pattern) <= Len(job.at)
  <2>1. job.files[Len(job.files)] # <<>> /\ Len(job.files[Len(job.files)]) <= Len(job.at)
        /\ IsList(job.files[Len(job.files)])
    BY <1>2, SearchedAssumption
  <2>2. Len(job.files[Len(job.files)]) > 0
    BY <2>1, ListsHaveLength
  <2> QED
    BY <2>1, <2>2 DEF Pattern, Source
<1>6. \A j \in 1 .. Len(Pattern) : job.at[j] \in Nat
  <2>1. Len(job.at) \in Nat /\ \A i \in 1 .. Len(job.at) : job.at[i] \in Nat
    BY SearchedFiles
  <2>2. \A j \in 1 .. Len(Pattern) : j \in 1 .. Len(job.at)
    BY <1>4, <1>5, <2>1
  <2> QED
    BY <2>1, <2>2
<1> QED
  BY <1>2, <1>3, <1>4, <1>5, <1>6

LEMMA PlacesAre ==
  ASSUME job \in Searched, job.tool = "findFilesWithOffsets", NEW f \in 1 .. PartCount + 1
  PROVE  \A p \in Places(f) : p \in Nat /\ p < Len(Source(f))
<1>1. Len(Source(f)) \in Nat
  BY PartsAre
<1> QED
  BY <1>1 DEF Places, Numbers

LEMMA PartStart ==
  ASSUME SearchInit PROVE PartInv
<1> SUFFICES ASSUME job \in Searched, job.tool = "findFilesWithOffsets" PROVE PartInv
  BY DEF PartInv
<1>1. file = 1 /\ k = 0 /\ status = "searching"
  BY SearchBegins
<1>2. Size0 = 0 /\ DOMAIN out[0] = First(Size0) /\ DOMAIN out = 0 .. MaxTargets - 1 /\ Cells = {}
  BY NothingPut
<1>3. PartCount \in Nat /\ file \in 1 .. PartCount + 1 /\ Len(Pages) \in Nat
  <2>1. PartCount \in Nat /\ file \in 1 .. PartCount + 1
    BY <1>1, PartsAre
  <2> QED
    BY <2>1, PartsAre DEF Pages
<1>4. \A p \in Places(file) : p >= k
  BY <1>1, <1>3, PlacesAre
<1>5. k % Block = 0
  <2>1. Block \in Nat \ {0} /\ 0 = 0 * Block /\ 0 \in Nat
    BY ToolConstants
  <2> QED
    BY <1>1, <2>1, Multiple
<1>6. 1 .. file - 1 = {}
  BY <1>1
<1> QED
  BY <1>1, <1>2, <1>3, <1>4, <1>5, <1>6 DEF PartInv

\* The parts are the same while the job is.
LEMMA SameParts ==
  ASSUME UNCHANGED job
  PROVE  /\ PartCount' = PartCount /\ \A f : Source(f)' = Source(f) /\ Places(f)' = Places(f)
         /\ \A f : Cells' = Cells => (PartFound(f)' <=> PartFound(f))
<1>1. PartCount' = PartCount /\ Pattern' = Pattern /\ \A f : Source(f)' = Source(f) /\ Numbers(f)' = Numbers(f)
  BY DEF PartCount, Pattern, Source, Numbers
<1>2. \A f, p : (Fits(f, p)' <=> Fits(f, p)) /\ (FirstOfBlock(f, p)' <=> FirstOfBlock(f, p))
  BY <1>1 DEF Fits, FirstOfBlock
<1>3. \A f : Places(f)' = Places(f)
  BY <1>1, <1>2 DEF Places
<1> QED
  BY <1>1, <1>3 DEF PartFound

LEMMA PartQuiet ==
  ASSUME PartInv, UNCHANGED <<job, file, k, out>>, status' \in {status, "thrown"}
           \/ (status' = "done" /\ file > PartCount)
  PROVE  PartInv'
<1>1. Size0' = Size0 /\ Cells' = Cells
  BY DEF Size0, Cells
<1>2. Pages' = Pages
  BY DEF Pages, Source
<1>3. job \in Searched /\ job.tool = "findFilesWithOffsets" /\ file \in 1 .. PartCount + 1 /\ file > PartCount => file = PartCount + 1
  BY PartsAre
<1> QED
  BY <1>1, <1>2, <1>3, SameParts DEF PartInv

\* In the block at k only the first header can begin a place.
Throughout(p) == \A j \in 2 .. Len(Pattern) : ~ (Fails(p, j) \/ Place(p, j) = Len(Pages))
LEMMA FirstHeader ==
  ASSUME PartInv, job \in Searched, job.tool = "findFilesWithOffsets", k < Len(Pages),
         NEW n, n = Clipped(file), NEW p, p = k + Min(Tried(n))
  PROVE  /\ n \in Nat \ {0} /\ k + n <= Len(Pages) /\ ((k + n) % Block = 0 \/ k + n = Len(Pages))
         /\ \A x \in Places(file) : x < k + n => Tried(n) # {} /\ x = p
         /\ Tried(n) # {} => p \in Nat /\ p < k + n /\ (p \in Places(file) <=> Throughout(p))
<1>1. /\ file \in 1 .. PartCount + 1 /\ k \in Nat /\ Len(Pages) \in Nat /\ k % Block = 0 /\ Block \in Nat \ {0}
      /\ Pages = Source(file)
  <2>1. Pages = Source(file) /\ file \in 1 .. PartCount + 1 /\ k \in 0 .. Len(Pages)
        /\ (k % Block = 0 \/ k = Len(Pages))
    BY DEF PartInv, Pages
  <2>2. Len(Pages) \in Nat
    BY <2>1, PartsAre
  <2>3. k # Len(Pages)
    BY <2>1, <2>2
  <2> QED
    BY <2>1, <2>2, <2>3, ToolConstants
<1>2. PICK l \in Nat, B \in Nat \ {0} : l = Len(Pages) /\ B = Block
  BY <1>1
<1>3. n = IF B <= l - k THEN B ELSE l - k
  BY <1>1, <1>2, MinOfTwo DEF Clipped
<1>4. n \in Nat \ {0} /\ k + n <= l /\ n <= B
  BY <1>1, <1>2, <1>3
<1>5. (k + n) % B = 0 \/ k + n = l
  <2>1. CASE n = B
    <3>1. B % B = 0
      <4>1. B = 1 * B
        OBVIOUS
      <4> QED
        BY <4>1, Multiple
    <3> QED
      BY <1>1, <1>2, <2>1, <3>1, SumOfMultiples
  <2>2. CASE n # B
    <3>1. PICK kk \in Nat : kk = k
      BY <1>1
    <3>2. n = l - kk
      BY <1>3, <2>2, <3>1
    <3>3. k + n = l
      BY <1>2, <3>1, <3>2
    <3> QED
      BY <3>3
  <2> QED
    BY <2>1, <2>2
<1>6. ASSUME NEW x \in k .. k + n - 1 PROVE (x \div Block) * Block = k
  <2>1. PICK q \in Nat : k = q * B
    <3>1. k \in Nat /\ k % B = 0
      BY <1>1, <1>2
    <3>2. k \div B \in Nat /\ k = (k \div B) * B
      BY <3>1, Multiple
    <3> QED
      BY <3>2
  <2>2. PICK j \in 0 .. B - 1 : x = k + j
    <3>1. x - k \in 0 .. B - 1 /\ x = k + (x - k)
      BY <1>1, <1>4
    <3> QED
      BY <3>1
  <2>3. x = q * B + j
    BY <2>1, <2>2
  <2>4. x \div B = q
    BY <2>3, Quotient
  <2> QED
    BY <1>2, <2>1, <2>4
<1>7. PICK id : id = Pattern[1].id
  OBVIOUS
<1>8. ASSUME NEW x \in k .. k + n - 1
      PROVE  x - k \in Tried(n) <=> id # NoId /\ Pages[x + 1].id = id
  <2>1. x - k \in 0 .. n - 1 /\ k + (x - k) + 1 = x + 1
    BY <1>1, <1>4
  <2> QED
    BY <1>7, <2>1 DEF Tried, Has
<1>9. Tried(n) \in SUBSET Nat /\ \A i \in Tried(n) : i < n /\ k + i \in k .. k + n - 1 /\ (k + i) - k = i
  <2>1. \A i \in Tried(n) : i \in 0 .. n - 1
    BY DEF Tried
  <2> QED
    BY <1>1, <1>4, <2>1
<1>10. Len(Pattern) \in Nat \ {0} /\ DOMAIN Pattern = 1 .. Len(Pattern) /\ \A j \in 1 .. Len(Pattern) : job.at[j] \in Nat
  BY PartsAre
<1>11. 1 \in DOMAIN Pattern /\ job.at[1] \in Nat
  BY <1>10
<1>12. ASSUME NEW x \in Places(file), x < k + n PROVE Tried(n) # {} /\ x = p
  <2>1. x >= k /\ x \in Nat
    <3>1. x \in Nat
      BY <1>1, <1>12, PlacesAre
    <3> QED
      BY <1>12, <3>1 DEF PartInv
  <2>2. x \in k .. k + n - 1
    BY <1>1, <1>4, <1>12, <2>1
  <2>3. id # NoId /\ Pages[x + 1].id = id
    <3>1. x + job.at[1] - job.at[1] = x
      BY <1>11, <2>1
    <3> QED
      BY <1>1, <1>7, <1>11, <1>12, <3>1 DEF Places, Fits
  <2>4. \A q \in k .. x - 1 : Pages[q + 1].id # id
    BY <1>1, <1>6, <1>7, <1>12, <2>2 DEF Places, FirstOfBlock
  <2>5. x - k \in Tried(n)
    BY <1>8, <2>2, <2>3
  <2>6. ASSUME NEW i \in Tried(n), i < x - k PROVE FALSE
    <3>1. k + i \in k .. k + n - 1 /\ (k + i) - k = i /\ i \in Nat
      BY <1>9
    <3>2. Pages[k + i + 1].id = id
      BY <1>8, <3>1
    <3>3. k + i \in k .. x - 1
      BY <1>1, <2>1, <2>6, <3>1
    <3> QED
      BY <2>4, <3>2, <3>3
  <2>7. \A i \in Tried(n) : x - k <= i
    <3>1. \A i \in Tried(n) : i \in Nat
      BY <1>9
    <3> QED
      BY <1>1, <2>1, <2>6, <3>1
  <2>8. Min(Tried(n)) = x - k
    BY <1>9, <2>5, <2>7, LeastIs
  <2> QED
    BY <1>1, <2>1, <2>5, <2>8
<1>13. ASSUME Tried(n) # {}
       PROVE  p \in Nat /\ p < k + n /\ (p \in Places(file) <=> Throughout(p))
  <2>1. Min(Tried(n)) \in Tried(n) /\ \A i \in Tried(n) : Min(Tried(n)) <= i
    BY <1>9, <1>13, LeastElement
  <2>2. p \in Nat /\ p \in k .. k + n - 1 /\ p - k = Min(Tried(n)) /\ p < k + n
    <3>1. PICK m \in Nat : m = Min(Tried(n)) /\ m < n
      BY <1>9, <2>1
    <3> QED
      BY <1>1, <1>4, <3>1
  <2>3. id # NoId /\ Pages[p + 1].id = id
    BY <1>8, <2>1, <2>2
  <2>4. p \in Numbers(file)
    BY <1>1, <1>2, <1>4, <2>2 DEF Numbers
  <2>5. FirstOfBlock(file, p)
    <3>1. ASSUME NEW q \in k .. p - 1, Pages[q + 1].id = id PROVE FALSE
      <4>1. q \in k .. k + n - 1
        BY <1>1, <1>4, <2>2
      <4>2. q - k \in Tried(n)
        BY <1>8, <2>3, <3>1, <4>1
      <4>3. p - k <= q - k
        BY <2>1, <2>2, <4>2
      <4> QED
        BY <1>1, <2>2, <4>3
    <3>2. (p \div Block) * Block = k
      BY <1>6, <2>2
    <3> QED
      BY <1>1, <1>7, <3>1, <3>2 DEF FirstOfBlock
  <2>6. ASSUME NEW j \in 2 .. Len(Pattern)
        PROVE  (Place(p, j) \in Numbers(file) /\ Pattern[j].id # NoId /\ Source(file)[Place(p, j) + 1].id = Pattern[j].id)
                 <=> ~ (Fails(p, j) \/ Place(p, j) = Len(Pages))
    <3>1. Place(p, j) \in Int
      <4>1. j \in 1 .. Len(Pattern)
        BY <1>10
      <4>2. job.at[j] \in Nat
        BY <1>10, <4>1
      <4> QED
        BY <1>11, <2>2, <4>2 DEF Place
    <3>2. PICK q \in Int : q = Place(p, j)
      BY <3>1
    <3>3. Fails(p, j) <=> q \notin 0 .. l \/ (q < l /\ ~ (Pattern[j].id # NoId /\ Pages[q + 1].id = Pattern[j].id))
      BY <1>2, <3>2 DEF Fails, Has
    <3>4. q \in Numbers(file) <=> q \in 0 .. l - 1
      BY <1>1, <1>2 DEF Numbers
    <3>5. q \in 0 .. l - 1 <=> q \in 0 .. l /\ q # l
      BY <1>2
    <3>6. q \in 0 .. l - 1 => q < l
      BY <1>2
    <3> QED
      BY <1>1, <1>2, <3>2, <3>3, <3>4, <3>5, <3>6
  <2>7. Place(p, 1) = p
    BY <1>11, <2>2 DEF Place
  <2>8. Fits(file, p) <=> \A j \in DOMAIN Pattern :
                            Place(p, j) \in Numbers(file) /\ Pattern[j].id # NoId /\ Source(file)[Place(p, j) + 1].id = Pattern[j].id
    BY DEF Fits, Place
  <2>9. DOMAIN Pattern = {1} \cup (2 .. Len(Pattern))
    BY <1>10
  <2>10. Place(p, 1) \in Numbers(file) /\ Pattern[1].id # NoId /\ Source(file)[Place(p, 1) + 1].id = Pattern[1].id
    BY <1>1, <1>7, <2>3, <2>4, <2>7
  <2>11. Fits(file, p) <=> Throughout(p)
    BY <2>6, <2>8, <2>9, <2>10 DEF Throughout
  <2> QED
    BY <2>2, <2>4, <2>5, <2>11 DEF Places
<1> QED
  BY <1>2, <1>4, <1>5, <1>12, <1>13

\* A part has been gone through: what is there of it now stays.
LEMMA PartClosed ==
  ASSUME PartInv, job \in Searched, job.tool = "findFilesWithOffsets", UNCHANGED job,
         file \in 1 .. PartCount, file' = file + 1, k' = 0, status' # "done",
         DOMAIN out' = 0 .. MaxTargets - 1, Size0' \in Nat, DOMAIN out'[0] = First(Size0'),
         NEW new, Cells' = Cells \cup new, \A c \in new : c[1] = file,
         new = IF Places(file) = {} THEN {} ELSE {<<file, Min(Places(file))>>}
  PROVE  PartInv'
<1>1. /\ \A c \in Cells : c[1] \in 1 .. file - 1
      /\ \A f \in 1 .. file - 1 : PartFound(f)
  BY DEF PartInv
<1>2. PartCount \in Nat /\ PartCount' = PartCount /\ \A f : Places(f)' = Places(f)
  BY PartsAre, SameParts
<1>3. PICK n \in Nat \ {0} : n = file
  OBVIOUS
<1>4. file' \in 1 .. PartCount' + 1 /\ 1 .. file' - 1 = (1 .. n - 1) \cup {n} /\ n \notin 1 .. n - 1
  BY <1>2, <1>3
<1>5. \A c \in Cells' : c[1] \in 1 .. file' - 1
  BY <1>1, <1>3, <1>4
<1>6. ASSUME NEW f \in 1 .. file' - 1 PROVE PartFound(f)'
  <2>1. CASE f = n
    <3>1. {c \in Cells' : c[1] = f} = new
      BY <1>1, <1>3, <1>4, <2>1
    <3> QED
      BY <1>2, <1>3, <2>1, <3>1 DEF PartFound
  <2>2. CASE f \in 1 .. n - 1
    <3>1. {c \in Cells' : c[1] = f} = {c \in Cells : c[1] = f}
      BY <1>3, <1>4, <2>2
    <3>2. PartFound(f)
      BY <1>1, <1>3, <2>2
    <3> QED
      BY <1>2, <3>1, <3>2 DEF PartFound
  <2> QED
    BY <1>4, <2>1, <2>2
<1>7. Len(Pages') \in Nat /\ k' \in 0 .. Len(Pages')
  <2>1. \A f \in 1 .. PartCount + 1 : Len(Source(f)) \in Nat
    BY PartsAre
  <2>2. Pages' = Source(file') /\ file' \in 1 .. PartCount + 1
    BY <1>2, <1>4 DEF Pages, Source
  <2>3. Len(Pages') \in Nat
    BY <2>1, <2>2
  <2> QED
    BY <2>3
<1>8. k' % Block = 0
  <2>1. Block \in Nat \ {0} /\ 0 = 0 * Block /\ 0 \in Nat
    BY ToolConstants
  <2> QED
    BY <2>1, Multiple
<1>9. (\A p \in Places(file) : p >= k)'
  <2>1. file' \in 1 .. PartCount + 1
    BY <1>2, <1>4
  <2>2. \A p \in Places(file') : p \in Nat
    BY <2>1, PlacesAre
  <2>3. (Places(file))' = Places(file')
    BY DEF Places, Numbers, Fits, FirstOfBlock, Source, Pattern
  <2> QED
    BY <2>2, <2>3
<1> QED
  BY <1>4, <1>5, <1>6, <1>7, <1>8, <1>9 DEF PartInv

LEMMA PartNext ==
  ASSUME PartInv, job \in Searched, NextPart
  PROVE  PartInv'
<1>1. /\ job.tool = "findFilesWithOffsets" /\ file <= PartCount /\ k = Len(Pages) /\ file' = file + 1 /\ k' = 0
      /\ UNCHANGED <<job, open, out, memo, status>> /\ status = "searching"
  BY DEF NextPart, Searching
<1>2. /\ DOMAIN out = 0 .. MaxTargets - 1 /\ Size0 \in Nat /\ DOMAIN out[0] = First(Size0)
      /\ file \in 1 .. PartCount + 1 /\ \A p \in Places(file) : p >= k
  BY <1>1 DEF PartInv
<1>3. PartCount \in Nat /\ Len(Source(file)) \in Nat /\ Pages = Source(file)
  BY <1>1, <1>2, PartsAre DEF Pages
<1>4. file \in 1 .. PartCount
  BY <1>1, <1>2, <1>3
<1>5. Places(file) = {}
  <2>1. \A p \in Places(file) : p \in Nat /\ p < Len(Source(file)) /\ p >= Len(Source(file))
    BY <1>1, <1>2, <1>3, PlacesAre
  <2> QED
    BY <1>3, <2>1
<1>6. Size0' = Size0 /\ Cells' = Cells \cup {}
  BY <1>1 DEF Size0, Cells
<1>7. \E new : new = {}
  OBVIOUS
<1>8. PICK new : new = {}
  BY <1>7
<1>9. DOMAIN out' = 0 .. MaxTargets - 1 /\ Size0' \in Nat /\ DOMAIN out'[0] = First(Size0')
  BY <1>1, <1>2, <1>6
<1>10. Cells' = Cells \cup new /\ (\A c \in new : c[1] = file)
       /\ new = IF Places(file) = {} THEN {} ELSE {<<file, Min(Places(file))>>}
  BY <1>5, <1>6, <1>8
<1>11. status' # "done" /\ UNCHANGED job
  BY <1>1
<1> QED
  BY <1>1, <1>4, <1>9, <1>10, <1>11, PartClosed

LEMMA PartStep ==
  ASSUME PartInv, job \in Searched, status = "searching", findFilesWithOffsets
  PROVE  PartInv'
<1>1. job.tool = "findFilesWithOffsets" /\ file <= PartCount /\ k < Len(Pages)
  BY DEF findFilesWithOffsets, Searching
<1>2. PICK n, p, ends :
        /\ n = Clipped(file) /\ p = k + Min(Tried(n))
        /\ ends = {j \in 2 .. Len(Pattern) : Fails(p, j) \/ Place(p, j) = Len(Pages)}
  OBVIOUS
<1>3. \/ /\ ~ (Tried(n) # {} /\ (ends # {} => ~ Fails(p, Min(ends))))
         /\ k' = k + n
         /\ UNCHANGED <<job, open, file, out, memo, status>>
      \/ /\ Tried(n) # {} /\ ends = {}
         /\ out' = Add(out, 0, <<file, p>>)
         /\ file' = file + 1 /\ k' = 0
         /\ UNCHANGED <<job, open, memo, status>>
      \/ Ends("thrown")
  BY <1>2 DEF findFilesWithOffsets
<1>4. /\ n \in Nat \ {0} /\ k + n <= Len(Pages) /\ ((k + n) % Block = 0 \/ k + n = Len(Pages))
      /\ \A x \in Places(file) : x < k + n => Tried(n) # {} /\ x = p
      /\ Tried(n) # {} => p \in Nat /\ p < k + n /\ (p \in Places(file) <=> ends = {})
  <2>1. n = Clipped(file) /\ p = k + Min(Tried(n))
    BY <1>2
  <2>2. ends = {} <=> Throughout(p)
    BY <1>2 DEF Throughout
  <2> QED
    BY <1>1, <2>1, <2>2, FirstHeader
<1>5. /\ DOMAIN out = 0 .. MaxTargets - 1 /\ Size0 \in Nat /\ DOMAIN out[0] = First(Size0)
      /\ file \in 1 .. PartCount + 1 /\ k \in 0 .. Len(Pages)
  BY <1>1 DEF PartInv
<1>6. PartCount \in Nat /\ Len(Source(file)) \in Nat /\ Pages = Source(file)
  BY <1>1, <1>5, PartsAre DEF Pages
<1>7. file \in 1 .. PartCount
  BY <1>1, <1>5, <1>6
<1>8. k + n \in Nat /\ \A x \in Places(file) : x \in Nat
  <2>1. k \in Nat
    BY <1>5, <1>6
  <2>2. file \in 1 .. PartCount + 1
    BY <1>5
  <2> QED
    BY <1>1, <1>4, <2>1, <2>2, PlacesAre
<1>9. CASE /\ ~ (Tried(n) # {} /\ (ends # {} => ~ Fails(p, Min(ends))))
           /\ k' = k + n
           /\ UNCHANGED <<job, open, file, out, memo, status>>
  <2>1. \A x \in Places(file) : x >= k'
    BY <1>4, <1>8, <1>9
  <2>2. Size0' = Size0 /\ Cells' = Cells /\ Pages' = Pages
    BY <1>9 DEF Size0, Cells, Pages, Source
  <2>3. k' \in 0 .. Len(Pages) /\ (k' % Block = 0 \/ k' = Len(Pages))
    BY <1>4, <1>6, <1>8, <1>9
  <2>4. (\A x \in Places(file) : x >= k)'
    <3>1. (Places(file))' = Places(file)
      BY <1>9 DEF Places, Numbers, Fits, FirstOfBlock, Source, Pattern
    <3> QED
      BY <1>9, <2>1, <3>1
  <2> QED
    BY <1>1, <1>9, <2>2, <2>3, <2>4, SameParts DEF PartInv
<1>10. CASE /\ Tried(n) # {} /\ ends = {}
            /\ out' = Add(out, 0, <<file, p>>)
            /\ file' = file + 1 /\ k' = 0
            /\ UNCHANGED <<job, open, memo, status>>
  <2>1. PICK c : c = <<file, p>>
    OBVIOUS
  <2>2. /\ DOMAIN out' = DOMAIN out /\ DOMAIN out'[0] = First(Size0 + 1)
        /\ Size0' = Size0 + 1 /\ Cells' = Cells \cup {c}
    <3>1. out' = Add(out, 0, c)
      BY <1>10, <2>1
    <3> QED
      BY <1>5, <3>1, CellAdded
  <2>3. Places(file) \in SUBSET Nat /\ p \in Places(file) /\ \A x \in Places(file) : p <= x
    <3>1. \A x \in Places(file) : x < k + n \/ x >= k + n
      BY <1>8
    <3> QED
      BY <1>4, <1>8, <1>10, <3>1
  <2>4. Min(Places(file)) = p
    BY <2>3, LeastIs
  <2>5. PICK new : new = {c}
    OBVIOUS
  <2>6. /\ Cells' = Cells \cup new /\ (\A d \in new : d[1] = file)
        /\ new = IF Places(file) = {} THEN {} ELSE {<<file, Min(Places(file))>>}
    BY <2>1, <2>2, <2>3, <2>4, <2>5
  <2>7. DOMAIN out' = 0 .. MaxTargets - 1 /\ Size0' \in Nat /\ DOMAIN out'[0] = First(Size0')
    BY <1>5, <2>2
  <2>8. status' # "done" /\ UNCHANGED job
    BY <1>10
  <2> QED
    BY <1>1, <1>7, <1>10, <2>6, <2>7, <2>8, PartClosed
<1>11. CASE Ends("thrown")
  BY <1>11, PartQuiet DEF Ends
<1> QED
  BY <1>3, <1>9, <1>10, <1>11

-----------------------------------------------------------------------------
(* An index and its media data                                              *)

\* Up to k, a multiple of the block's size, the image has full blocks.
FullPart(l, B) == (l \div B) * B
LEMMA FullBlocks ==
  ASSUME NEW l \in Nat, NEW B \in Nat \ {0}, NEW n \in Nat, n % B = 0, n <= l
  PROVE  LET f == FullPart(l, B)
         IN  /\ f \in Nat /\ f <= l /\ n <= f
             /\ n + B <= l => n + B <= f
             /\ ~ (n + B <= l) => f = n
<1>0. PICK f : f = FullPart(l, B)
  OBVIOUS
<1>1. l \div B \in Nat /\ l % B \in 0 .. B - 1 /\ l = B * (l \div B) + (l % B)
  BY Division
<1>2. PICK q \in Nat, r \in 0 .. B - 1 : q = l \div B /\ r = l % B
  BY <1>1
<1>3. f = q * B /\ l = f + r
  <2>1. f = q * B /\ l = B * q + r
    BY <1>0, <1>1, <1>2 DEF FullPart
  <2>2. B * q = q * B
    OBVIOUS
  <2> QED
    BY <2>1, <2>2
<1>4. f \in Nat /\ f % B = 0
  <2>1. f \in Nat
    BY <1>3
  <2> QED
    BY <1>3, <2>1, Multiple
<1>5. f <= l /\ l < f + B
  BY <1>3, <1>4
<1>6. B % B = 0
  <2>1. B = 1 * B
    OBVIOUS
  <2> QED
    BY <2>1, Multiple
<1>7. n + B \in Nat /\ (n + B) % B = 0
  <2>1. n + B \in Nat
    OBVIOUS
  <2>2. PICK c \in Nat : c = B
    OBVIOUS
  <2>3. c % B = 0
    BY <1>6, <2>2
  <2>4. (n + c) % B = 0
    BY <2>3, SumOfMultiples
  <2> QED
    BY <2>1, <2>2, <2>4
<1>8. n <= f
  <2>1. f < n => f + B <= n
    BY <1>4, MultiplesApart
  <2> QED
    BY <1>4, <1>5, <2>1
<1>9. n + B <= l => n + B <= f
  <2>1. f < n + B => f + B <= n + B
    BY <1>4, <1>7, MultiplesApart
  <2> QED
    BY <1>4, <1>5, <1>7, <2>1
<1>10. ~ (n + B <= l) => f = n
  <2>1. n < f => n + B <= f
    BY <1>4, MultiplesApart
  <2> QED
    BY <1>4, <1>5, <1>8, <2>1
<1> QED
  BY <1>0, <1>4, <1>5, <1>8, <1>9, <1>10

LEMMA FullPlaces ==
  ASSUME job \in Searched, file = 1
  PROVE  InFullBlock \subseteq 0 .. Len(Pages) - 1 /\ InFullBlock \subseteq Nat
<1>1. PICK l \in Nat, B \in Nat \ {0} : l = Len(Pages) /\ B = Block
  BY OneFile, ToolConstants
<1>2. 0 = 0 * B /\ 0 \in Nat
  OBVIOUS
<1>3. 0 % B = 0
  BY <1>2, Multiple
<1>4. PICK f : f = FullPart(l, B)
  OBVIOUS
<1>5. f \in Nat /\ f <= l
  BY <1>3, <1>4, FullBlocks
<1> QED
  BY <1>1, <1>4, <1>5 DEF InFullBlock, FullPart

LEMMA PairStart ==
  ASSUME SearchInit PROVE PairInv
<1> SUFFICES ASSUME job \in Searched, job.tool = "saveQtFragment" PROVE PairInv
  BY DEF PairInv
<1>1. file = 1 /\ memo = <<>> /\ k = 0 /\ status = "searching"
  BY SearchBegins
<1>2. Size0 = 0 /\ DOMAIN out[0] = First(Size0) /\ DOMAIN out = 0 .. MaxTargets - 1 /\ Cells = {}
  BY NothingPut
<1>3. Len(Pages) \in Nat
  BY <1>1, OneFile
<1>4. \A i : Noted(i) = {}
  BY <1>1 DEF Noted
<1>5. \A ids : PagesWith(k, ids) = {}
  <2>1. \A x \in InFullBlock : ~ (x < k)
    BY <1>1, FullPlaces
  <2> QED
    BY <2>1 DEF PagesWith
<1>6. k % Block = 0
  <2>1. Block \in Nat \ {0} /\ 0 = 0 * Block /\ 0 \in Nat
    BY ToolConstants
  <2> QED
    BY <1>1, <2>1, Multiple
<1>7. IsFiniteSet(Cells) /\ Cardinality(Cells) = Size0
  BY <1>2, FS_EmptySet
<1>8. Cells = {p \in Noted(3) : isContinue(p[1], p[2])}
  BY <1>2, <1>4
<1>9. k \in 0 .. Len(Pages)
  BY <1>1, <1>3
<1>10. Size0 \in Nat /\ status # "done"
  BY <1>1, <1>2
<1>11. \A p \in Noted(3) : Throwing(p[1], p[2]) = {}
  BY <1>4
<1> QED
  BY <1>1, <1>2, <1>4, <1>5, <1>6, <1>7, <1>8, <1>9, <1>10, <1>11 DEF PairInv

\* The image is the same while the job and the file are.
LEMMA SameImage ==
  ASSUME UNCHANGED <<job, file>>
  PROVE  /\ Pages' = Pages /\ InFullBlock' = InFullBlock
         /\ \A x : (IsAtom(x)' <=> IsAtom(x)) /\ Id(x)' = Id(x)
         /\ \A n, ids : PagesWith(n, ids)' = PagesWith(n, ids)
         /\ \A f, m : Throwing(f, m)' = Throwing(f, m) /\ (isContinue(f, m)' <=> isContinue(f, m))
<1>1. Pages' = Pages
  BY DEF Pages, Source
<1>2. InFullBlock' = InFullBlock
  BY <1>1 DEF InFullBlock
<1>3. \A x : (IsAtom(x)' <=> IsAtom(x)) /\ Id(x)' = Id(x)
  BY <1>1 DEF IsAtom, Id
<1>4. \A n, ids : PagesWith(n, ids)' = PagesWith(n, ids)
  BY <1>2, <1>3 DEF PagesWith
<1>5. \A f : firstPartSize(f)' = firstPartSize(f)
  BY <1>3 DEF firstPartSize
<1>6. \A f, m, i : MarkerAt(f, m, i)' = MarkerAt(f, m, i) /\ (Counts(f, i)' <=> Counts(f, i))
  BY <1>5 DEF MarkerAt, Counts
<1>9. \A f, m : Refused(f, m)' = Refused(f, m)
  BY <1>6 DEF Refused
<1>7. \A f, m : Throwing(f, m)' = Throwing(f, m)
  BY <1>1, <1>6, <1>9 DEF Throwing
<1>8. \A f, m : isContinue(f, m)' <=> isContinue(f, m)
  BY <1>1, <1>6, <1>9 DEF isContinue
<1> QED
  BY <1>1, <1>2, <1>3, <1>4, <1>7, <1>8

\* The pairs are the same while the indexes and the media data are.
LEMMA SamePairs ==
  ASSUME UNCHANGED <<job, file>>, Noted(1)' = Noted(1), Noted(2)' = Noted(2)
  PROVE  Pairs' = Pairs
<1>1. {f \in Noted(1) : IsAtom(f + 1)}' = {f \in Noted(1) : IsAtom(f + 1)}
  BY SameImage
<1> QED
  BY <1>1 DEF Pairs

LEMMA PairQuiet ==
  ASSUME PairInv, UNCHANGED <<job, file, k, out, memo>>, status' \in {status, "thrown"}
           \/ (k = Len(Pages) /\ Pairs = Noted(3))
  PROVE  PairInv'
<1>1. Size0' = Size0 /\ Cells' = Cells /\ \A i : Noted(i)' = Noted(i)
  BY DEF Size0, Cells, Noted
<1>2. Pairs' = Pairs
  BY <1>1, SamePairs
<1>3. {p \in Noted(3) : isContinue(p[1], p[2])}' = {p \in Noted(3) : isContinue(p[1], p[2])}
  BY <1>1, SameImage
<1>4. (PagesWith(k, {1}))' = PagesWith(k, {1}) /\ (PagesWith(k, {2, 3}))' = PagesWith(k, {2, 3})
  BY SameImage DEF PagesWith
<1> QED
  BY <1>1, <1>2, <1>3, <1>4, SameImage DEF PairInv

LEMMA PairsNoted ==
  ASSUME PairInv, job \in Searched, status = "searching", SavePos_ftyp_mdat
  PROVE  PairInv'
<1>1. /\ job.tool = "saveQtFragment" /\ k < Len(Pages) /\ UNCHANGED <<job, open, file, out, status>>
  BY DEF SavePos_ftyp_mdat, Searching
<1>2. /\ file = 1 /\ DOMAIN out = 0 .. MaxTargets - 1 /\ Size0 \in Nat /\ DOMAIN out[0] = First(Size0)
      /\ k \in 0 .. Len(Pages) /\ (k % Block = 0 \/ k = Len(Pages))
      /\ Noted(1) = PagesWith(k, {1}) /\ Noted(2) = PagesWith(k, {2, 3}) /\ Noted(3) = {}
      /\ Cells = {p \in Noted(3) : isContinue(p[1], p[2])}
      /\ IsFiniteSet(Cells) /\ Cardinality(Cells) = Size0
  BY <1>1 DEF PairInv
<1>3. PICK l \in Nat, B \in Nat \ {0} : l = Len(Pages) /\ B = Block
  BY <1>2, OneFile, ToolConstants
<1>4. PICK kk \in Nat : kk = k
  BY <1>2, <1>3
<1>5. kk % B = 0 /\ kk < l
  BY <1>1, <1>2, <1>3, <1>4
<1>6. PICK f : f = FullPart(l, B)
  OBVIOUS
<1>7. /\ f \in Nat /\ f <= l /\ kk <= f
      /\ kk + B <= l => kk + B <= f
      /\ ~ (kk + B <= l) => f = kk
  <2>1. kk <= l /\ kk % B = 0
    BY <1>5
  <2> QED
    BY <1>6, <2>1, FullBlocks
<1>8. InFullBlock = 0 .. f - 1
  BY <1>3, <1>6 DEF InFullBlock, FullPart
<1>9. PICK n : n = IF kk + B <= l THEN B ELSE 0
  OBVIOUS
<1>10. /\ memo' = <<Noted(1) \cup {x \in kk .. kk + n - 1 : Pages[x + 1].id \in {1}},
                    Noted(2) \cup {x \in kk .. kk + n - 1 : Pages[x + 1].id \in {2, 3}}, {}>>
       /\ k' = IF n = 0 THEN l ELSE kk + n
  BY <1>3, <1>4, <1>9 DEF SavePos_ftyp_mdat
<1>11. ASSUME NEW ids
       PROVE  PagesWith(kk, ids) \cup {x \in kk .. kk + n - 1 : Pages[x + 1].id \in ids} = PagesWith(k', ids)
  <2>1. CASE kk + B <= l
    <3>1. n = B /\ k' = kk + B
      BY <1>9, <1>10, <2>1
    <3>2. \A x \in kk .. kk + B - 1 : x \in 0 .. f - 1 /\ x < kk + B
      BY <1>7, <2>1
    <3>3. \A x \in 0 .. f - 1 : x < kk + B <=> x < kk \/ x \in kk .. kk + B - 1
      BY <1>7, <2>1
    <3> QED
      BY <1>8, <3>1, <3>2, <3>3 DEF PagesWith, Id
  <2>2. CASE ~ (kk + B <= l)
    <3>1. n = 0 /\ k' = l /\ f = kk
      BY <1>7, <1>9, <1>10, <2>2
    <3>2. kk .. kk + n - 1 = {}
      BY <3>1
    <3>3. \A x \in 0 .. f - 1 : x < kk /\ x < l
      BY <1>5, <3>1
    <3> QED
      BY <1>8, <3>1, <3>2, <3>3 DEF PagesWith, Id
  <2> QED
    BY <2>1, <2>2
<1>12. \A ids : PagesWith(k', ids) = {x \in InFullBlock : x < k' /\ Id(x) \in ids}
  BY DEF PagesWith
<1>13. (PagesWith(k, {1}))' = PagesWith(k', {1}) /\ (PagesWith(k, {2, 3}))' = PagesWith(k', {2, 3})
  BY <1>1, SameImage DEF PagesWith
<1>14. Noted(1)' = PagesWith(k', {1}) /\ Noted(2)' = PagesWith(k', {2, 3}) /\ Noted(3)' = {}
  <2>1. PICK s, t : s = PagesWith(k', {1}) /\ t = PagesWith(k', {2, 3})
    OBVIOUS
  <2>2. memo' = <<s, t, {}>>
    BY <1>2, <1>4, <1>10, <1>11, <2>1
  <2> QED
    BY <2>1, <2>2 DEF Noted
<1>15. k' \in 0 .. Len(Pages) /\ (k' % Block = 0 \/ k' = Len(Pages))
  <2>1. CASE kk + B <= l
    <3>1. k' = kk + B
      BY <1>9, <1>10, <2>1
    <3>2. PICK c \in Nat : c = B
      OBVIOUS
    <3>3. 1 \in Nat /\ c = 1 * B
      BY <3>2
    <3>4. c % B = 0
      BY <3>3, Multiple
    <3>5. (kk + c) % B = 0
      BY <1>5, <3>4, SumOfMultiples
    <3>6. kk + c \in 0 .. l
      BY <2>1, <3>2
    <3> QED
      BY <1>3, <3>1, <3>2, <3>5, <3>6
  <2>2. CASE ~ (kk + B <= l)
    BY <1>3, <1>9, <1>10, <2>2
  <2> QED
    BY <2>1, <2>2
<1>16. Pages' = Pages /\ Size0' = Size0 /\ Cells' = Cells
  BY <1>1, SameImage DEF Size0, Cells
<1>17. Cells = {}
  BY <1>2
<1>18. (Cells = {p \in Noted(3) : isContinue(p[1], p[2])})'
  BY <1>14, <1>16, <1>17
<1>19. Noted(3)' \subseteq Pairs' /\ \A p \in Noted(3)' : Throwing(p[1], p[2])' = {}
  BY <1>14
<1>20. status' # "done"
  BY <1>1
<1> QED
  BY <1>1, <1>2, <1>13, <1>14, <1>15, <1>16, <1>18, <1>19, <1>20 DEF PairInv

LEMMA PairCompared ==
  ASSUME PairInv, job \in Searched, job.tool = "saveQtFragment", k = Len(Pages), status # "done",
         NEW p \in Pairs \ Noted(3), Throwing(p[1], p[2]) = {},
         out' = IF isContinue(p[1], p[2]) THEN Add(out, 0, p) ELSE out,
         memo' = <<Noted(1), Noted(2), Noted(3) \cup {p}>>,
         UNCHANGED <<job, open, file, k, status>>
  PROVE  PairInv'
<1>1. /\ file = 1 /\ DOMAIN out = 0 .. MaxTargets - 1 /\ Size0 \in Nat /\ DOMAIN out[0] = First(Size0)
      /\ k \in 0 .. Len(Pages)
      /\ Noted(1) = PagesWith(k, {1}) /\ Noted(2) = PagesWith(k, {2, 3})
      /\ Noted(3) \subseteq Pairs
      /\ \A q \in Noted(3) : Throwing(q[1], q[2]) = {}
      /\ Cells = {q \in Noted(3) : isContinue(q[1], q[2])}
      /\ IsFiniteSet(Cells) /\ Cardinality(Cells) = Size0
  BY DEF PairInv
<1>2. Noted(1)' = Noted(1) /\ Noted(2)' = Noted(2) /\ Noted(3)' = Noted(3) \cup {p}
  <2>1. PICK s, t, u : s = Noted(1) /\ t = Noted(2) /\ u = Noted(3) \cup {p}
    OBVIOUS
  <2>2. memo' = <<s, t, u>>
    BY <2>1
  <2>3. Noted(1)' = s /\ Noted(2)' = t /\ Noted(3)' = u
    BY <2>2 DEF Noted
  <2> QED
    BY <2>1, <2>3
<1>3. Pairs' = Pairs
  BY <1>2, SamePairs
<1>4. Pages' = Pages /\ (PagesWith(k, {1}))' = PagesWith(k, {1}) /\ (PagesWith(k, {2, 3}))' = PagesWith(k, {2, 3})
  BY SameImage DEF PagesWith
<1>5. Noted(3)' \subseteq Pairs'
  BY <1>1, <1>2, <1>3
<1>6. \A q \in Noted(3)' : Throwing(q[1], q[2])' = {}
  BY <1>1, <1>2, SameImage
<1>7. p \notin Cells /\ ~ (k < Len(Pages))
  <2>1. Len(Pages) \in Nat
    BY <1>1, OneFile
  <2> QED
    BY <1>1, <2>1
<1>8. {q \in Noted(3) : isContinue(q[1], q[2])}' =
        Cells \cup (IF isContinue(p[1], p[2]) THEN {p} ELSE {})
  <2>1. \A q : isContinue(q[1], q[2])' <=> isContinue(q[1], q[2])
    BY SameImage
  <2> QED
    BY <1>1, <1>2, <2>1
<1>9. CASE isContinue(p[1], p[2])
  <2>1. out' = Add(out, 0, p)
    BY <1>9
  <2>2. /\ DOMAIN out' = DOMAIN out /\ DOMAIN out'[0] = First(Size0 + 1)
        /\ Size0' = Size0 + 1 /\ Cells' = Cells \cup {p}
    BY <1>1, <2>1, CellAdded
  <2>3. IsFiniteSet(Cells \cup {p}) /\ Cardinality(Cells \cup {p}) = Cardinality(Cells) + 1
    BY <1>1, <1>7, FS_AddElement
  <2>4. (Cells = {q \in Noted(3) : isContinue(q[1], q[2])})'
    BY <1>8, <1>9, <2>2
  <2> QED
    <3>1. DOMAIN out' = 0 .. MaxTargets - 1 /\ Size0' \in Nat /\ DOMAIN out'[0] = First(Size0')
      BY <1>1, <2>2
    <3>2. IsFiniteSet(Cells') /\ Cardinality(Cells') = Size0'
      BY <1>1, <2>2, <2>3
    <3> QED
      BY <1>1, <1>2, <1>4, <1>5, <1>6, <1>7, <2>4, <3>1, <3>2 DEF PairInv
<1>10. CASE ~ isContinue(p[1], p[2])
  <2>1. Size0' = Size0 /\ Cells' = Cells /\ out' = out
    BY <1>10 DEF Size0, Cells
  <2>2. (Cells = {q \in Noted(3) : isContinue(q[1], q[2])})'
    BY <1>8, <1>10, <2>1
  <2> QED
    BY <1>1, <1>2, <1>4, <1>5, <1>6, <1>7, <2>1, <2>2 DEF PairInv
<1> QED
  BY <1>9, <1>10

LEMMA PairStep ==
  ASSUME PairInv, job \in Searched, status = "searching", saveQtFragment
  PROVE  PairInv'
<1>1. job.tool = "saveQtFragment" /\ k = Len(Pages)
  BY DEF saveQtFragment, Searching
<1>2. CASE Pairs = Noted(3) /\ Ends("done")
  BY <1>1, <1>2, PairQuiet DEF Ends
<1>3. CASE Ends("thrown")
  BY <1>3, PairQuiet DEF Ends
<1>4. CASE \E p \in Pairs \ Noted(3) :
             /\ Throwing(p[1], p[2]) = {}
             /\ out' = IF isContinue(p[1], p[2]) THEN Add(out, 0, p) ELSE out
             /\ memo' = <<Noted(1), Noted(2), Noted(3) \cup {p}>>
             /\ UNCHANGED <<job, open, file, k, status>>
  BY <1>1, <1>4, PairCompared
<1> QED
  BY <1>2, <1>3, <1>4 DEF saveQtFragment

\* An index and media data belong together exactly if the code finds that they do.
LEMMA PairsBelong ==
  ASSUME job \in Searched, job.tool = "saveQtFragment", file = 1,
         NEW f \in InFullBlock, NEW m \in InFullBlock,
         Throwing(f, m) = {} \/ Belongs(f, m)
  PROVE  Belongs(f, m) <=> /\ Id(f) = 1 /\ IsAtom(f + 1) /\ Id(m) \in {2, 3}
                           /\ Throwing(f, m) = {} /\ isContinue(f, m)
<1>1. PICK l \in Nat : l = Len(Pages)
  BY OneFile
<1>2. f \in 0 .. l - 1 /\ m \in 0 .. l - 1
  BY <1>1, FullPlaces
<1>3. IdOf(f) = Id(f) /\ IdOf(m) = Id(m)
  BY <1>1, <1>2 DEF IdOf
<1>4. ASSUME NEW x \in Nat PROVE IdOf(x) \in {1, 2, 3, 5} <=> IsAtom(x)
  <2>1. x \in 0 .. l - 1 <=> x < l
    BY <1>1
  <2>2. 0 \notin {1, 2, 3, 5}
    OBVIOUS
  <2> QED
    BY <1>1, <2>1, <2>2 DEF IdOf, IsAtom, Id
<1>5. f + 1 \in Nat /\ f + 2 \in Nat
  BY <1>2
<1>6. PICK part \in {2, 3} : part = firstPartSize(f)
  BY DEF firstPartSize
<1>7. part = IF IdOf(f + 2) \in {1, 2, 3, 5} THEN 3 ELSE 2
  BY <1>4, <1>5, <1>6 DEF firstPartSize
<1>8. \A i \in 1 .. NumCmp : job.at[i] \in Nat
  <2>1. Len(job.at) \in Nat /\ \A i \in 1 .. Len(job.at) : job.at[i] \in Nat
    BY SearchedFiles
  <2>2. NumCmp <= Len(job.at)
    BY SearchedAssumption
  <2>3. NumCmp \in Nat
    BY SearchConstants
  <2> QED
    BY <2>1, <2>2, <2>3
<1>9. ASSUME NEW i \in 1 .. NumCmp
      PROVE  /\ (job.at[i] > part /\ IdOf(m + job.at[i] - part) = 4 /\ m + job.at[i] - part < MaxSize) <=>
                  /\ Counts(f, i) /\ MarkerAt(f, m, i) < Len(Pages) /\ Pages[MarkerAt(f, m, i) + 1].id = 4
                  /\ ~ (MarkerAt(f, m, i) >= MaxSize)
             /\ Counts(f, i) => (MarkerAt(f, m, i) >= Len(Pages) <=> ~ (MarkerAt(f, m, i) < Len(Pages)))
  <2>1. PICK a \in Nat : a = job.at[i]
    BY <1>8
  <2>2. PICK q \in Int : q = m + a - part
    BY <1>2
  <2>3. MarkerAt(f, m, i) = q /\ (Counts(f, i) <=> a > part)
    BY <1>6, <2>1, <2>2 DEF MarkerAt, Counts
  <2>4. a > part => q \in Nat
    BY <1>2, <2>2
  <2>5. IdOf(q) = IF q \in 0 .. l - 1 THEN Pages[q + 1].id ELSE 0
    BY <1>1 DEF IdOf, Id
  <2>6. a > part => (q \in 0 .. l - 1 <=> q < l)
    BY <2>2, <2>4
  <2>7. (q >= l <=> ~ (q < l)) /\ (q >= MaxSize <=> ~ (q < MaxSize))
    <3>1. MaxSize \in Nat
      BY SearchesAssumption
    <3> QED
      BY <2>2, <3>1
  <2>8. 0 # 4
    OBVIOUS
  <2>9. (a > part /\ IdOf(q) = 4) <=> Counts(f, i) /\ q < l /\ Pages[q + 1].id = 4
    BY <2>3, <2>5, <2>6, <2>8
  <2> QED
    BY <1>1, <2>1, <2>2, <2>3, <2>7, <2>9
<1>10. Belongs(f, m) <=>
         /\ Id(f) = 1 /\ IsAtom(f + 1) /\ Id(m) \in {2, 3}
         /\ \A i \in 1 .. NumCmp :
              /\ Counts(f, i) /\ MarkerAt(f, m, i) < Len(Pages) /\ Pages[MarkerAt(f, m, i) + 1].id = 4
              /\ ~ (MarkerAt(f, m, i) >= MaxSize)
  <2>1. Belongs(f, m) <=>
          /\ IdOf(f) = 1 /\ IdOf(f + 1) \in {1, 2, 3, 5} /\ IdOf(m) \in {2, 3}
          /\ \A i \in 1 .. NumCmp :
               job.at[i] > part /\ IdOf(m + job.at[i] - part) = 4 /\ m + job.at[i] - part < MaxSize
    BY <1>7 DEF Belongs
  <2> QED
    BY <1>3, <1>4, <1>5, <1>9, <2>1
<1>11. Refused(f, m) = {} <=> \A i \in 1 .. NumCmp : Counts(f, i) => ~ (MarkerAt(f, m, i) >= MaxSize)
  BY DEF Refused
<1>12. (\A i \in 1 .. NumCmp :
          /\ Counts(f, i) /\ MarkerAt(f, m, i) < Len(Pages) /\ Pages[MarkerAt(f, m, i) + 1].id = 4
          /\ ~ (MarkerAt(f, m, i) >= MaxSize))
        => Throwing(f, m) = {} /\ isContinue(f, m)
  BY <1>9, <1>11 DEF isContinue, Throwing
<1>13. ASSUME Throwing(f, m) = {}, isContinue(f, m), NEW i \in 1 .. NumCmp
       PROVE  /\ Counts(f, i) /\ MarkerAt(f, m, i) < Len(Pages) /\ Pages[MarkerAt(f, m, i) + 1].id = 4
              /\ ~ (MarkerAt(f, m, i) >= MaxSize)
  <2>1. Refused(f, m) = {} /\ Counts(f, i) /\ Pages[MarkerAt(f, m, i) + 1].id = 4
    BY <1>13 DEF isContinue
  <2>2. ~ (MarkerAt(f, m, i) >= Len(Pages))
    BY <1>13, <2>1 DEF Throwing
  <2> QED
    BY <1>9, <1>11, <2>1, <2>2
<1> QED
  BY <1>10, <1>12, <1>13

LEMMA PairEnds ==
  ASSUME PairInv, job \in Searched, job.tool = "saveQtFragment", status = "done"
  PROVE  Paired
<1>1. /\ file = 1 /\ Size0 = Cardinality(Cells) /\ k = Len(Pages) /\ Pairs = Noted(3)
      /\ Noted(1) = PagesWith(k, {1}) /\ Noted(2) = PagesWith(k, {2, 3})
      /\ \A p \in Noted(3) : Throwing(p[1], p[2]) = {}
      /\ Cells = {p \in Noted(3) : isContinue(p[1], p[2])}
  BY DEF PairInv
<1>2. \A x \in InFullBlock : x < k
  <2>1. PICK l \in Nat : l = Len(Pages)
    BY <1>1, OneFile
  <2>2. \A x \in InFullBlock : x \in 0 .. l - 1
    BY <1>1, <2>1, FullPlaces
  <2> QED
    BY <1>1, <2>1, <2>2
<1>3. \A f, m : <<f, m>> \in Pairs <=>
        /\ f \in InFullBlock /\ m \in InFullBlock
        /\ Id(f) = 1 /\ IsAtom(f + 1) /\ Id(m) \in {2, 3}
  BY <1>1, <1>2 DEF Pairs, PagesWith
<1>4. ASSUME NEW f, NEW m
      PROVE  <<f, m>> \in Cells <=> f \in InFullBlock /\ m \in InFullBlock /\ Belongs(f, m)
  <2>1. <<f, m>> \in Cells <=> <<f, m>> \in Pairs /\ isContinue(f, m)
    BY <1>1
  <2>2. <<f, m>> \in Pairs => Throwing(f, m) = {}
    BY <1>1
  <2>3. CASE f \in InFullBlock /\ m \in InFullBlock
    <3>1. Throwing(f, m) = {} \/ Belongs(f, m) =>
            (Belongs(f, m) <=> /\ Id(f) = 1 /\ IsAtom(f + 1) /\ Id(m) \in {2, 3}
                               /\ Throwing(f, m) = {} /\ isContinue(f, m))
      BY <1>1, <2>3, PairsBelong
    <3> QED
      BY <1>3, <2>1, <2>2, <2>3, <3>1
  <2>4. CASE ~ (f \in InFullBlock /\ m \in InFullBlock)
    BY <1>3, <2>1, <2>4
  <2> QED
    BY <2>3, <2>4
<1>5. Cells \subseteq InFullBlock \X InFullBlock
  <2>1. \A p \in Cells : p \in Noted(1) \X Noted(2)
    BY <1>1 DEF Pairs
  <2> QED
    BY <1>1, <2>1 DEF PagesWith
<1>6. \A p \in InFullBlock \X InFullBlock : p = <<p[1], p[2]>> /\ p[1] \in InFullBlock /\ p[2] \in InFullBlock
  OBVIOUS
<1>7. Cells = {p \in InFullBlock \X InFullBlock : Belongs(p[1], p[2])}
  BY <1>4, <1>5, <1>6
<1> QED
  BY <1>1, <1>7 DEF Paired

-----------------------------------------------------------------------------
LEMMA FollowSteps ==
  ASSUME KindInv, FollowInv, [ToolNext]_toolVars
  PROVE  FollowInv'
<1>1. CASE UNCHANGED toolVars
  BY <1>1, ChainQuiet, PartQuiet, PairQuiet DEF FollowInv, toolVars
<1>2. CASE job \notin Searched
  <2>1. job' \notin Searched
    BY <1>2, KindSteps
  <2> QED
    BY <2>1 DEF FollowInv, ChainInv, PartInv, PairInv
<1>3. CASE job \in Searched /\ ~ UNCHANGED toolVars
  <2>1. status = "searching" /\ SearchNext /\ job' = job
    BY <1>3, KindSteps
  <2>2. ChainInv'
    <3>1. CASE job.tool = "searchExtends"
      BY <1>3, <2>1, <3>1, SearchSteps, ChainRead, ChainStep DEF FollowInv
    <3>2. CASE job.tool # "searchExtends"
      BY <2>1, <3>2 DEF ChainInv
    <3> QED
      BY <3>1, <3>2
  <2>3. PartInv'
    <3>1. CASE findFilesWithOffsets
      BY <1>3, <2>1, <3>1, PartStep DEF FollowInv
    <3>2. CASE NextPart
      BY <1>3, <3>2, PartNext DEF FollowInv
    <3>3. CASE PartsDone
      BY <3>3, PartQuiet DEF FollowInv, PartsDone, Ends
    <3>4. CASE job.tool # "findFilesWithOffsets"
      BY <2>1, <3>4 DEF PartInv
    <3> QED
      BY <2>1, <3>1, <3>2, <3>3, <3>4, SearchSteps
  <2>4. PairInv'
    <3>1. CASE job.tool = "saveQtFragment"
      BY <1>3, <2>1, <3>1, SearchSteps, PairsNoted, PairStep DEF FollowInv
    <3>2. CASE job.tool # "saveQtFragment"
      BY <2>1, <3>2 DEF PairInv
    <3> QED
      BY <3>1, <3>2
  <2> QED
    BY <2>2, <2>3, <2>4 DEF FollowInv
<1> QED
  BY <1>1, <1>2, <1>3

LEMMA FollowStart == ToolInit => FollowInv
<1>1. ASSUME BlockInit PROVE FollowInv
  <2>1. job \notin Searched
    BY <1>1, SearchedFiles DEF BlockInit
  <2> QED
    BY <2>1 DEF FollowInv, ChainInv, PartInv, PairInv
<1> QED
  BY <1>1, ChainStart, PartStart, PairStart DEF ToolInit, FollowInv

\* A chain of extents goes on without a gap as far as the list goes, the parts
\* that are reported are those that have every format at its place, and an
\* index gets the media data that its entries point into (searchExtends,
\* findFilesWithOffsets, saveQtFragment).
THEOREM WhatFollowsIsFound == ToolSpec => []ChainsFollow
<1>1. ToolInit => KindInv /\ FollowInv
  BY KindStart, FollowStart
<1>2. KindInv /\ FollowInv /\ [ToolNext]_toolVars => (KindInv /\ FollowInv)'
  BY KindSteps, FollowSteps
<1>3. KindInv /\ FollowInv => ChainsFollow
  <2> SUFFICES ASSUME KindInv, FollowInv PROVE ChainsFollow
    OBVIOUS
  <2>1. ASSUME Found("searchExtends") PROVE Chained /\ NoneGoesOn
    <3>1. job \in Searched /\ job.tool = "searchExtends" /\ status = "done"
      BY <2>1, FoundSearched DEF Found, SearchTools
    <3> QED
      BY <3>1 DEF FollowInv, ChainInv
  <2>2. ASSUME Found("findFilesWithOffsets") PROVE \A f \in 1 .. PartCount : PartFound(f)
    <3>1. job \in Searched /\ job.tool = "findFilesWithOffsets" /\ status = "done"
      BY <2>2, FoundSearched DEF Found, SearchTools
    <3>2. file = PartCount + 1 /\ \A f \in 1 .. file - 1 : PartFound(f)
      BY <3>1 DEF FollowInv, PartInv
    <3>3. file - 1 = PartCount
      BY <3>1, <3>2, PartsAre
    <3> QED
      BY <3>2, <3>3
  <2>3. ASSUME Found("saveQtFragment") PROVE Paired
    <3>1. job \in Searched /\ job.tool = "saveQtFragment" /\ status = "done"
      BY <2>3, FoundSearched DEF Found, SearchTools
    <3> QED
      BY <3>1, PairEnds DEF FollowInv
  <2> QED
    BY <2>1, <2>2, <2>3 DEF ChainsFollow
<1> QED
  BY <1>1, <1>2, <1>3, PTL DEF ToolSpec

-----------------------------------------------------------------------------
(* The tools of BlockTools beside the searches                              *)

LEMMA BlockToolStart == ToolInit => BlockToolInv
<1>1. BlockInit => BlockToolInv
  BY LoopStart, DealStart, ClaimStart, RepairStart DEF BlockToolInv
<1>2. SearchInit => BlockToolInv
  BY SearchedFiles DEF SearchInit, BlockToolInv
<1> QED
  BY <1>1, <1>2 DEF ToolInit

LEMMA BlockToolSteps ==
  ASSUME KindInv, BlockToolInv, [ToolNext]_toolVars
  PROVE  BlockToolInv'
<1> SUFFICES ASSUME job' \in Jobs PROVE (LoopInv /\ DealInv /\ ClaimInv /\ RepairInv)'
  BY DEF BlockToolInv
<1>1. job \in Jobs /\ [BlockNext]_toolVars
  BY KindSteps
<1> QED
  BY <1>1, LoopSteps, DealSteps, ClaimSteps, RepairSteps DEF BlockToolInv

\* No other tool's end is one of theirs.
LEMMA SearchEnds ==
  ASSUME job \in Searched
  PROVE  PagesToTheirTargets /\ LastClaimHolds /\ RepairsAreRight
<1>1. job.tool \in SearchTools
  BY SearchedFiles
<1> QED
  BY <1>1 DEF SearchTools, Is, PagesToTheirTargets, LastClaimHolds, RepairsAreRight,
       RepairsOnlyDamage, FixedBaseCounts

LEMMA BlockToolsKeep == ToolSpec => [](KindInv /\ BlockToolInv)
<1>1. ToolInit => KindInv /\ BlockToolInv
  BY KindStart, BlockToolStart
<1>2. KindInv /\ BlockToolInv /\ [ToolNext]_toolVars => (KindInv /\ BlockToolInv)'
  BY KindSteps, BlockToolSteps
<1> QED
  BY <1>1, <1>2, PTL DEF ToolSpec

\* Each page of a dump comes once, and in its order, to the target it belongs
\* to, whatever the dump holds.
THEOREM PagesAreDealt == ToolSpec => []PagesToTheirTargets
<1>1. KindInv /\ BlockToolInv => PagesToTheirTargets
  BY DealEnds, SearchEnds DEF KindInv, BlockToolInv
<1> QED
  BY <1>1, BlockToolsKeep, PTL

\* Where several pages claim a place the last one has it, whatever the dump
\* holds and in whatever order its pages come.
THEOREM LastPageStays == ToolSpec => []LastClaimHolds
<1>1. KindInv /\ BlockToolInv => LastClaimHolds
  BY ClaimEnds, SearchEnds DEF KindInv, BlockToolInv
<1> QED
  BY <1>1, BlockToolsKeep, PTL

\* What the repairing tools leave differs from the damaged one in what was
\* damaged only, whatever the two sources hold and however long they are.
THEOREM RepairsStayRight == ToolSpec => []RepairsAreRight
<1>1. KindInv /\ BlockToolInv => RepairsAreRight
  BY RepairEnds, SearchEnds DEF KindInv, BlockToolInv
<1> QED
  BY <1>1, BlockToolsKeep, PTL
=============================================================================
