-------------------------- MODULE ChunkWalksProofs --------------------------
(***************************************************************************)
(* Proofs about Signatures and ChunkWalks, for every set of signature      *)
(* files and every device: which blocks are recognised, that a file is     *)
(* saved with the size its field or its chunks give, and that the two      *)
(* tracks of a recorder are taken apart without loss.                      *)
(***************************************************************************)
EXTENDS ChunkWalks, TLAPS, WellFoundedInduction, FiniteSetTheorems, SequenceTheorems

\* Least elements exist.
LessThan == {ss \in Nat \X Nat : ss[1] < ss[2]}
LEMMA LeastElement ==
  ASSUME NEW S \in SUBSET Nat, S # {}
  PROVE  \E m \in S : \A n \in S : m <= n
<1>1. OpToRel(<, Nat) = LessThan
  BY Zenon DEF OpToRel, LessThan
<1>2. IsWellFoundedOn(LessThan, Nat)
  BY <1>1, NatLessThanWellFounded, Zenon
<1>3. \E m \in S : \A n \in S : <<n, m>> \notin LessThan
  BY <1>2, WFMin
<1>4. PICK m \in S : \A n \in S : <<n, m>> \notin LessThan
  BY <1>3
<1>5. ASSUME NEW n \in S PROVE m <= n
  <2>1. <<n, m>> \in Nat \X Nat /\ ~(n < m)
    BY <1>4 DEF LessThan
  <2> QED
    BY <2>1
<1> QED
  BY <1>5

\* What the quotient and the remainder of natural numbers are.
LEMMA Division ==
  ASSUME NEW a \in Nat, NEW b \in Nat \ {0}
  PROVE  a \div b \in Nat /\ a % b \in 0 .. b - 1 /\ a = b * (a \div b) + (a % b)
OBVIOUS

-----------------------------------------------------------------------------
(* BlockCopy: what the loops copy                                          *)

\* The rounds of n cells: together they hold them, and without the last do not.
LEMMA RoundsHold ==
  ASSUME NEW n \in Nat, NEW b \in Nat \ {0}
  PROVE  /\ RoundUp(n, b) \in Nat
         /\ n <= RoundUp(n, b) * b
         /\ RoundUp(n, b) # 0 => (RoundUp(n, b) - 1) * b < n
<1> DEFINE a == n + b - 1
           q == a \div b
<1>1. a \in Nat /\ b \in Nat \ {0}
  OBVIOUS
<1>2. q \in Nat /\ a % b \in 0 .. b - 1 /\ a = b * q + (a % b)
  BY <1>1, Division
<1>3. b * q = q * b /\ (q - 1) * b = q * b - b
  BY <1>2
<1>4. q * b \in Nat
  BY <1>2
<1>5. n <= q * b /\ (q - 1) * b < n
  <2> HIDE DEF q
  <2> QED
    BY <1>2, <1>3, <1>4
<1> QED
  BY <1>2, <1>5 DEF RoundUp

\* Behind the end of the device a round fails, so there is a first that does.
LEMMA FirstFailure ==
  ASSUME NEW a \in Nat, NEW n \in Nat, NEW block \in Nat \ {0}, NEW bad
  PROVE  LET r == rounds_read(a, n, block, bad)
         IN /\ r \in Nat
            /\ \A j \in 0 .. r - 1 : ~Fails(a, n, block, bad, j)
<1> DEFINE K == RoundUp(Size, block)
           S == {k \in 0 .. K : Fails(a, n, block, bad, k)}
<1>1. Size \in Nat
  BY DeviceAssumption
<1>2. K \in Nat /\ Size <= K * block
  BY <1>1, RoundsHold
<1>3. Fails(a, n, block, bad, K)
  <2>1. K * block \in Nat
    BY <1>2
  <2>2. Size <= a + K * block
    BY <1>1, <1>2, <2>1
  <2> DEFINE p == a + K * block
             m == round(a, n, block, K)
  <2>3. p \in Nat /\ m \in Int
    BY <2>1 DEF round, Smaller
  <2> HIDE DEF p, m, K
  <2>4. ~(m > 0 /\ p + m <= Size)
    BY <1>1, <2>2, <2>3 DEF p
  <2> QED
    BY <2>4 DEF Fails, Readable, p, m
<1> HIDE DEF K
<1>4. S \in SUBSET Nat /\ S # {}
  BY <1>2, <1>3
<1>5. PICK k \in S : \A j \in S : k <= j
  BY <1>4, LeastElement
<1>6. k \in 0 .. K /\ Fails(a, n, block, bad, k) /\ \A j \in 0 .. k - 1 : ~Fails(a, n, block, bad, j)
  BY <1>2, <1>5
<1>7. rounds_read(a, n, block, bad) \in 0 .. K
      /\ \A j \in 0 .. rounds_read(a, n, block, bad) - 1 : ~Fails(a, n, block, bad, j)
  BY <1>6 DEF rounds_read, K
<1> QED
  BY <1>2, <1>7

\* So many rounds that do not fail lie on the device.
LEMMA RoundsLie ==
  ASSUME NEW a \in Nat, NEW n \in Nat, NEW block \in Nat \ {0}, NEW bad, NEW k \in Nat, k # 0,
         ~Fails(a, n, block, bad, k - 1)
  PROVE  /\ a + Smaller(k * block, n) <= Size
         /\ (k - 1) * block < n
<1> DEFINE p == (k - 1) * block
           m == round(a, n, block, k - 1)
<1>1. p \in Nat /\ k * block = p + block
  OBVIOUS
<1>2. m > 0 /\ a + p + m <= Size /\ m = Smaller(block, n - p)
  BY DEF Fails, Readable, round
<1>3. Size \in Nat
  BY DeviceAssumption
<1> HIDE DEF p, m
<1>4. p < n /\ Smaller(k * block, n) = p + m
  BY <1>1, <1>2 DEF Smaller
<1> QED
  BY <1>1, <1>2, <1>3, <1>4 DEF p, Smaller

\* A copy is never longer than asked for nor than the device, and has all that
\* was asked for if that lies on the device and the loop did not throw.
LEMMA CopiedIs ==
  ASSUME NEW a \in Nat, NEW n \in Nat, NEW block \in Nat \ {0}, NEW bad
  PROVE  LET c == Copied(a, n, block, bad)
         IN /\ c.count \in Nat /\ c.count <= n
            /\ c.count = 0 \/ a + c.count <= Size
            /\ ~c.throws /\ a < Size /\ a + n <= Size => c.count = n
<1> DEFINE w == to_write(a, n)
           wanted == RoundUp(w, block)
           read == rounds_read(a, n, block, bad)
           c == Copied(a, n, block, bad)
<1>1. Size \in Nat /\ Wide \in Nat /\ Size < Wide
  BY DeviceAssumption
<1>2. read \in Nat /\ \A j \in 0 .. read - 1 : ~Fails(a, n, block, bad, j)
  BY FirstFailure
<1>3. w \in Nat
  <2>1. (Size - n) % Wide \in Nat
    BY <1>1
  <2> QED
    BY <2>1 DEF to_write
<1>4. wanted \in Nat /\ w <= wanted * block
  BY <1>3, RoundsHold
<1>5. a + n <= Size => w = n
  BY <1>1 DEF to_write
<1>6. CASE a >= Size
  <2>1. c = [count |-> 0, throws |-> FALSE]
    BY <1>6 DEF Copied
  <2> QED
    BY <1>1, <1>6, <2>1
<1>7. CASE a < Size /\ wanted <= read
  <2>1. c = [count |-> Smaller(wanted * block, n), throws |-> FALSE]
    BY <1>1, <1>7 DEF Copied
  <2>2. wanted * block \in Nat
    BY <1>4
  <2>3. CASE wanted = 0
    <3>1. wanted * block = 0
      BY <2>3
    <3> HIDE DEF wanted, w
    <3> QED
      BY <1>1, <1>4, <1>5, <2>1, <2>3, <3>1 DEF Smaller
  <2>4. CASE wanted # 0
    <3>1. wanted - 1 \in 0 .. read - 1
      BY <1>2, <1>4, <1>7, <2>4
    <3>2. a + Smaller(wanted * block, n) <= Size
      BY <1>2, <1>4, <2>4, <3>1, RoundsLie
    <3> HIDE DEF wanted, w, c
    <3> QED
      BY <1>1, <1>4, <1>5, <2>1, <2>2, <3>2 DEF Smaller, c
  <2> QED
    BY <2>3, <2>4
<1>8. CASE a < Size /\ ~(wanted <= read)
  <2>1. c = [count |-> read * block, throws |-> TRUE]
    BY <1>1, <1>8 DEF Copied
  <2>2. read * block \in Nat
    BY <1>2
  <2>3. CASE read = 0
    BY <2>1, <2>3
  <2>4. CASE read # 0
    <3>1. read - 1 \in 0 .. read - 1
      BY <1>2, <2>4
    <3>2. a + Smaller(read * block, n) <= Size
      BY <1>2, <2>4, <3>1, RoundsLie
    <3>3. CASE a + n > Size
      <4> HIDE DEF read, c
      <4> QED
        BY <1>1, <2>1, <2>2, <3>2, <3>3 DEF Smaller, c
    <3>4. CASE a + n <= Size
      <4>1. wanted # 0 /\ (wanted - 1) * block < n
        BY <1>2, <1>3, <1>4, <1>5, <1>8, <3>4, RoundsHold
      <4>2. read <= wanted - 1
        BY <1>2, <1>4, <1>8
      <4>3. read * block <= (wanted - 1) * block
        <5> HIDE DEF read, wanted
        <5> QED
          BY <1>2, <1>4, <4>1, <4>2
      <4>4. (wanted - 1) * block \in Nat
        BY <1>4, <4>1
      <4> HIDE DEF read, wanted, c
      <4> QED
        BY <1>1, <2>1, <2>2, <3>2, <4>1, <4>3, <4>4 DEF Smaller, c
    <3> QED
      BY <1>1, <3>3, <3>4
  <2> QED
    BY <2>3, <2>4
<1> QED
  BY <1>1, <1>6, <1>7, <1>8

\* A copy that runs beyond the device, but begins as far from its start as it is
\* long, has what is left of the device if the loop did not throw.
LEMMA CopiedTo ==
  ASSUME NEW a \in Nat, NEW n \in Nat, NEW block \in Nat \ {0}, NEW bad,
         a < Size, n <= a \/ a + n <= Size, ~Copied(a, n, block, bad).throws
  PROVE  a + Copied(a, n, block, bad).count = Smaller(a + n, Size)
<1> DEFINE w == to_write(a, n)
           wanted == RoundUp(w, block)
           read == rounds_read(a, n, block, bad)
           c == Copied(a, n, block, bad)
<1>1. Size \in Nat /\ Wide \in Nat /\ 4 * Size < Wide
  BY DeviceAssumption
<1>2. CASE a + n <= Size
  <2>1. c.count = n
    BY <1>2, CopiedIs
  <2> HIDE DEF c
  <2> QED
    BY <1>1, <1>2, <2>1 DEF Smaller, c
<1>3. CASE a + n > Size
  <2>1. w = Size - n
    <3>1. (a + n) % Wide = a + n /\ (Size - n) % Wide = Size - n
      BY <1>1, <1>3
    <3> QED
      BY <1>3, <3>1 DEF to_write
  <2>2. w \in Nat /\ w >= Size - a /\ Size - a > 0
    BY <1>1, <1>3, <2>1
  <2>3. wanted \in Nat /\ w <= wanted * block
    BY <2>2, RoundsHold
  <2>4. read \in Nat /\ \A j \in 0 .. read - 1 : ~Fails(a, n, block, bad, j)
    BY FirstFailure
  <2>5. wanted <= read /\ c = [count |-> Smaller(wanted * block, n), throws |-> FALSE]
    BY <1>1 DEF Copied
  <2>6. wanted # 0 /\ wanted * block \in Nat
    <3> HIDE DEF wanted, w
    <3> QED
      BY <1>1, <2>2, <2>3
  <2>7. wanted - 1 \in 0 .. read - 1
    BY <2>3, <2>4, <2>5, <2>6
  <2>8. a + Smaller(wanted * block, n) <= Size
    BY <2>3, <2>4, <2>6, <2>7, RoundsLie
  <2> HIDE DEF wanted, w, c
  <2> QED
    BY <1>1, <1>3, <2>2, <2>3, <2>5, <2>6, <2>8 DEF Smaller, c
<1> QED
  BY <1>1, <1>2, <1>3

\* The cells of a range.
LEMMA CellsAre ==
  ASSUME NEW a \in Nat, NEW n \in Nat
  PROVE  /\ Cells(a, n) \in Seq(Nat) /\ Len(Cells(a, n)) = n
         /\ \A i \in 1 .. n : Cells(a, n)[i] = a + i - 1
BY DEF Cells

\* A file that is saved from a on.
LEMMA SavedIs ==
  ASSUME source \in Images, NEW a \in Nat, NEW n \in Nat
  PROVE  LET c == Copied(a, n, BlockSize, source.bad)
         IN /\ Appended(<<>>, a, n) = [file |-> Cells(a, c.count), throws |-> c.throws]
            /\ Len(Cells(a, c.count)) = c.count
<1> DEFINE c == Copied(a, n, BlockSize, source.bad)
<1>1. BlockSize \in Nat \ {0}
  BY ChunkWalksAssumption
<1>2. c.count \in Nat
  BY <1>1, CopiedIs
<1> HIDE DEF c
<1>3. Cells(a, c.count) \in Seq(Nat) /\ Len(Cells(a, c.count)) = c.count
  BY <1>2, CellsAre
<1>4. <<>> \o Cells(a, c.count) = Cells(a, c.count)
  BY <1>3
<1> QED
  BY <1>3, <1>4 DEF Appended, c

-----------------------------------------------------------------------------
(* A file is saved by its size                                             *)

\* What Specify has found when a file is saved, and where the walks are.
BySizeInv == algorithm \in BySize /\ pc = "save" => size = file_size
PlnInv ==
  algorithm = "pln_bl" =>
    /\ pc = "walk" => offset \in Nat /\ size \in Nat /\ offset = start + size
    /\ pc = "save" => size \in Nat /\ start + size <= Size
ProjectInv ==
  algorithm = "prproj" =>
    /\ pc = "walk" => offset \in Nat /\ start < offset
    /\ pc = "save" => size \in Nat /\ start + size <= Size
SizeInv == source \in Images /\ BySizeInv /\ PlnInv /\ ProjectInv /\ SavedBySize

LEMMA ImageIs ==
  ASSUME source \in Images
  PROVE  /\ start \in Nat /\ start < Size /\ Size \in Nat /\ Wide \in Nat /\ 4 * Size < Wide
         /\ source.field \in Nat /\ source.mono \in Nat
         /\ \A a \in DOMAIN source.chunks : source.chunks[a] \in Nat
         /\ {DWord, SectorSize, BlockSize, WebmShift, BlUnit, NullLength, Cluster,
             PlnHeader, BlHeader, RiffHeader} \subseteq Nat \ {0}
<1>1. source.start \in Cell
  BY SignaturesAssumption
<1>2. Size \in Nat /\ Wide \in Nat /\ 4 * Size < Wide
  BY DeviceAssumption
<1>3. /\ source.field \in 0 .. Wide - 1 /\ source.mono \in 0 .. DWord - 1
      /\ \A a \in DOMAIN source.chunks : source.chunks[a] \in 0 .. DWord - 1
  BY ChunkWalksAssumption
<1>4. {DWord, SectorSize, BlockSize, WebmShift, BlUnit, NullLength, Cluster,
       PlnHeader, BlHeader, RiffHeader} \subseteq Nat \ {0}
  BY ChunkWalksAssumption
<1> QED
  BY <1>1, <1>2, <1>3, <1>4 DEF Cell, start

\* The size that is saved is the size wanted, unless that is beyond the width.
LEMMA FileSizeIs ==
  ASSUME source \in Images, algorithm \in BySize
  PROVE  /\ file_size \in Nat /\ WantedSize \in Nat /\ Width \in Nat /\ file_size < Width
         /\ WantedSize < Width => file_size = WantedSize
<1>1. Width \in Nat \ {0}
  BY ImageIs DEF Width
<1>2. content \in Nat
  <2>1. source.field \div WebmShift \in Nat
    BY ImageIs
  <2>2. source.field % Width \in Nat
    BY <1>1, ImageIs
  <2> QED
    BY <2>1, <2>2 DEF content
<1>3. Addition[algorithm] \in Nat
  BY ChunkWalksAssumption
<1>4. PICK w \in Nat : w = content + Addition[algorithm]
  BY <1>2, <1>3
<1>5. WantedSize = w /\ file_size = w % Width
  BY <1>4 DEF WantedSize, file_size
<1> HIDE DEF Width
<1>6. w % Width \in Nat /\ w % Width < Width /\ (w < Width => w % Width = w)
  BY <1>1
<1> QED
  BY <1>1, <1>5, <1>6

\* A save of a range from the header on that returns something has saved what
\* SavedBySize says of it.
LEMMA SavedWell ==
  ASSUME source \in Images, NEW n \in Nat, NEW w \in Nat, NEW width \in Nat,
         n < width, w < width => n = w, w >= width \/ n = w,
         ~Appended(<<>>, start, n).throws
  PROVE  LET file == Appended(<<>>, start, n).file
         IN /\ file = Cells(start, Len(file)) /\ Len(file) \in Nat
            /\ Len(file) # 0 => ((start + w <= Size /\ w < width) <=> Len(file) = w)
<1> DEFINE c == Copied(start, n, BlockSize, source.bad)
           file == Appended(<<>>, start, n).file
<1>1. start \in Nat /\ start < Size /\ Size \in Nat /\ BlockSize \in Nat \ {0}
  BY ImageIs
<1>2. file = Cells(start, c.count) /\ Len(file) = c.count /\ ~c.throws
  BY <1>1, SavedIs
<1>3. /\ c.count \in Nat /\ c.count <= n
      /\ c.count = 0 \/ start + c.count <= Size
      /\ start + n <= Size => c.count = n
  BY <1>1, <1>2, CopiedIs
<1>4. PICK k \in Nat : k = c.count
  BY <1>3
<1> HIDE DEF c, file
<1>5. k # 0 => ((start + w <= Size /\ w < width) <=> k = w)
  BY <1>1, <1>3, <1>4
<1> QED
  BY <1>2, <1>4, <1>5 DEF file

LEMMA SizeInvInit == Init => SizeInv
BY DEF Init, SigInit, SizeInv, BySizeInv, PlnInv, ProjectInv, SavedBySize

\* A step that saves nothing, and one of the recorder.
LEMMA NothingSaved ==
  ASSUME source \in Images, source' = source,
         \/ pc' \notin {"save", "walk", "returned"}
         \/ pc' = "returned" /\ result' = 0
         \/ algorithm' = "ZOOMHandyRecorder"
  PROVE  SizeInv'
BY DEF SizeInv, BySizeInv, PlnInv, ProjectInv, SavedBySize, BySize

\* The save of the three that know their size beforehand.
LEMMA SaveStep ==
  ASSUME SizeInv, At("save"), algorithm \in BySize \cup {"pln_bl", "prproj"},
         LET save == Appended(<<>>, start, size)
         IN /\ target' = save.file
            /\ IF save.throws THEN Becomes("read") /\ UNCHANGED result ELSE Return(Len(save.file)),
         UNCHANGED size
  PROVE  SizeInv'
<1> DEFINE save == Appended(<<>>, start, size)
<1>1. source \in Images /\ source' = source /\ algorithm' = algorithm /\ pc = "save"
  BY DEF At, SizeInv
<1>2. CASE save.throws
  <2>1. pc' = "read"
    BY <1>2 DEF Becomes
  <2> QED
    BY <1>1, <2>1, NothingSaved
<1>3. CASE ~save.throws
  <2>1. pc' = "returned" /\ target' = save.file /\ result' = Len(save.file)
    BY <1>3 DEF Return, Becomes
  <2>2. /\ size \in Nat /\ WantedSize \in Nat /\ Width \in Nat /\ size < Width
        /\ WantedSize < Width => size = WantedSize
    <3>1. CASE algorithm \in BySize
      <4>1. size = file_size
        BY <1>1, <3>1 DEF SizeInv, BySizeInv
      <4> QED
        BY <1>1, <3>1, <4>1, FileSizeIs
    <3>2. CASE algorithm \in {"pln_bl", "prproj"}
      <4>1. size \in Nat /\ start + size <= Size
        BY <1>1, <3>2 DEF SizeInv, PlnInv, ProjectInv
      <4>2. Width = Wide /\ WantedSize = size
        BY <3>2 DEF Width, WantedSize, BySize
      <4>3. start \in Nat /\ Size \in Nat /\ Wide \in Nat /\ 4 * Size < Wide
        BY <1>1, ImageIs
      <4>4. size < Wide
        BY ONLY <4>1, <4>3
      <4> QED
        BY <4>1, <4>2, <4>3, <4>4
    <3> QED
      BY <3>1, <3>2
  <2>3. PICK n \in Nat, w \in Nat, width \in Nat : n = size /\ w = WantedSize /\ width = Width
    BY <2>2
  <2>4. n < width /\ (w < width => n = w) /\ (w >= width \/ n = w) /\ ~Appended(<<>>, start, n).throws
    BY <1>3, <2>2, <2>3
  <2>5. LET file == Appended(<<>>, start, n).file
        IN /\ file = Cells(start, Len(file)) /\ Len(file) \in Nat
           /\ Len(file) # 0 => ((start + w <= Size /\ w < width) <=> Len(file) = w)
    BY <1>1, <2>4, SavedWell
  <2>6. /\ target' = Cells(start, result')
        /\ result' # 0 => ((start + WantedSize <= Size /\ WantedSize < Width) <=> result' = WantedSize)
    BY <2>1, <2>3, <2>5
  <2>7. WantedSize' = WantedSize /\ Width' = Width /\ start' = start
    BY <1>1 DEF WantedSize, content, Width, start
  <2>8. SavedBySize'
    BY <2>6, <2>7 DEF SavedBySize
  <2> QED
    BY <1>1, <2>1, <2>8 DEF SizeInv, BySizeInv, PlnInv, ProjectInv
<1> QED
  BY <1>2, <1>3

\* The search for nulls ends in front of the end of the device, or finds none.
LEMMA FindNullsStep ==
  ASSUME SizeInv, FindNulls
  PROVE  SizeInv'
<1>1. /\ source \in Images /\ start \in Nat /\ Size \in Nat /\ BlockSize \in Nat \ {0}
      /\ source' = source /\ algorithm' = algorithm /\ algorithm = "prproj" /\ pc = "walk"
      /\ start' = start
  BY ImageIs DEF SizeInv, FindNulls, At, start
<1>2. offset \in Nat /\ start < offset
  BY <1>1 DEF SizeInv, ProjectInv
<1>3. CASE pc' \notin {"save", "walk", "returned"}
  BY <1>1, <1>3, NothingSaved
<1>4. CASE pc' = "walk"
  <2>1. offset' = offset + BlockSize
    BY <1>4 DEF FindNulls, Becomes, Throws
  <2>2. offset' \in Nat /\ start' < offset'
    BY <1>1, <1>2, <2>1
  <2> QED
    BY <1>1, <1>4, <2>2 DEF SizeInv, BySizeInv, PlnInv, ProjectInv, SavedBySize, BySize
<1>5. CASE pc' \in {"save", "returned"}
  <2>1. /\ Readable(offset, BlockSize, source.bad) /\ pc' = "save"
        /\ \E equal \in SUBSET overrun :
             LET found == (nulls_at \ overrun) \cup equal
             IN found # {} /\ size' = First(found) + 1 - start
    BY <1>1, <1>5 DEF FindNulls, Becomes, Throws
  <2>2. PICK found : found # {} /\ found \subseteq nulls_at /\ size' = First(found) + 1 - start
    BY <2>1 DEF overrun
  <2>3. offset + BlockSize <= Size
    BY <2>1 DEF Readable
  <2>4. found \in SUBSET Nat /\ \A a \in found : a \in offset .. offset + BlockSize - 1
    BY <1>1, <1>2, <2>2 DEF nulls_at
  <2>5. First(found) \in found
    <3>1. \E a \in found : \A b \in found : a <= b
      BY <2>2, <2>4, LeastElement
    <3> QED
      BY <3>1 DEF First
  <2>6. PICK a \in offset .. offset + BlockSize - 1 : a = First(found)
    BY <2>4, <2>5
  <2>7. size' \in Nat /\ start' + size' <= Size
    BY <1>1, <1>2, <2>2, <2>3, <2>6
  <2> QED
    BY <1>1, <2>1, <2>7 DEF SizeInv, BySizeInv, PlnInv, ProjectInv, SavedBySize, BySize
<1> QED
  BY <1>3, <1>4, <1>5

LEMMA SizeInvNext == SizeInv /\ [Next]_vars => SizeInv'
<1> SUFFICES ASSUME SizeInv, [Next]_vars PROVE SizeInv'
  OBVIOUS
<1>1. /\ source \in Images /\ start \in Nat /\ Size \in Nat
      /\ {PlnHeader, BlHeader, SectorSize, BlockSize, DWord, BlUnit} \subseteq Nat \ {0}
      /\ \A a \in DOMAIN source.chunks : source.chunks[a] \in Nat
  BY ImageIs DEF SizeInv
<1>2. CASE SigNext
  <2>1. source' = source /\ (pc' \in {"load", "no header", "specify", "standard"})
    BY <1>2 DEF SigNext, ReadEntry, AddFileFormat, Find, SizeInv
  <2> QED
    BY <1>1, <2>1, NothingSaved
<1>3. CASE SpecifyBySize
  <2>1. source' = source /\ algorithm' = algorithm /\ algorithm \in BySize
    BY <1>3 DEF SpecifyBySize, At
  <2>2. CASE pc' \notin {"save", "walk", "returned"}
    BY <1>1, <2>1, <2>2, NothingSaved
  <2>3. CASE pc' \in {"save", "walk", "returned"}
    <3>1. pc' = "save" /\ size' = file_size
      BY <1>3, <2>3 DEF SpecifyBySize, Throws, Becomes
    <3>2. file_size' = file_size
      BY <2>1 DEF file_size, content, Width
    <3> QED
      BY <1>1, <2>1, <3>1, <3>2 DEF SizeInv, BySizeInv, PlnInv, ProjectInv, SavedBySize, BySize
  <2> QED
    BY <2>2, <2>3
<1>4. CASE SaveBySize
  <2>1. source' = source /\ algorithm \in BySize /\ At("save")
    BY <1>4 DEF SaveBySize, At
  <2>2. CASE pc' = "read" \/ (pc' = "returned" /\ result' = 0)
    BY <1>1, <2>1, <2>2, NothingSaved
  <2>3. CASE ~(pc' = "read" \/ (pc' = "returned" /\ result' = 0))
    <3>1. LET save == Appended(<<>>, start, size)
          IN /\ target' = save.file
             /\ IF save.throws THEN Becomes("read") /\ UNCHANGED result ELSE Return(Len(save.file))
      <4>1. ASSUME algorithm = "mxf" /\ ~HeaderRead PROVE FALSE
        <5>1. Throws
          BY <1>4, <4>1, Zenon DEF SaveBySize
        <5> QED
          BY <2>3, <5>1 DEF Throws, Becomes
      <4>2. ~(size = 0 \/ (algorithm = "mxf" /\ content = 0))
        BY <1>4, <2>3, <4>1 DEF SaveBySize, Return, Becomes
      <4> QED
        BY <1>4, <4>1, <4>2 DEF SaveBySize
    <3>2. UNCHANGED size
      BY <1>4 DEF SaveBySize
    <3> QED
      BY <2>1, <3>1, <3>2, SaveStep
  <2> QED
    BY <2>2, <2>3
<1>5. CASE PlnBegin
  <2>1. source' = source /\ algorithm' = algorithm /\ algorithm = "pln_bl"
    BY <1>5 DEF PlnBegin, At
  <2>2. CASE pc' = "read"
    BY <1>1, <2>1, <2>2, NothingSaved
  <2>3. CASE pc' # "read"
    <3>1. pc' = "walk" /\ offset' = start + PlnHeader /\ size' = PlnHeader
      BY <1>5, <2>3 DEF PlnBegin, Throws, Becomes
    <3>2. offset' \in Nat /\ size' \in Nat /\ offset' = start' + size'
      BY <1>1, <2>1, <3>1 DEF start
    <3> QED
      BY <1>1, <2>1, <3>1, <3>2 DEF SizeInv, BySizeInv, PlnInv, ProjectInv, SavedBySize, BySize
  <2> QED
    BY <2>2, <2>3
<1>6. CASE WalkChunk
  <2>1. source' = source /\ algorithm' = algorithm /\ algorithm = "pln_bl" /\ pc = "walk" /\ start' = start
    BY <1>6 DEF WalkChunk, At, start
  <2>2. offset \in Nat /\ size \in Nat /\ offset = start + size
    BY <2>1 DEF SizeInv, PlnInv
  <2>3. CASE pc' = "read"
    BY <1>1, <2>1, <2>3, NothingSaved
  <2>4. CASE pc' # "read" /\ offset \notin DOMAIN source.chunks
    <3>1. Readable(offset, BlHeader, source.bad) /\ pc' = "save" /\ size' = size
      BY <1>6, <2>4 DEF WalkChunk, Throws, Becomes, walkVars
    <3>2. offset + BlHeader <= Size
      BY <3>1 DEF Readable
    <3>3. size' \in Nat /\ start + size' <= Size
      BY <1>1, <2>2, <3>1, <3>2
    <3> QED
      BY <1>1, <2>1, <3>1, <3>3 DEF SizeInv, BySizeInv, PlnInv, ProjectInv, SavedBySize, BySize
  <2>5. CASE pc' # "read" /\ offset \in DOMAIN source.chunks
    <3>1. pc' = pc /\ offset' = BehindChunk(offset) /\ size' = size + (offset' - offset)
      BY <1>6, <2>5 DEF WalkChunk, Throws, Becomes
    <3>2. PICK d \in Nat : BehindChunk(offset) = offset + d
      <4>1. source.chunks[offset] * BlUnit \in Nat
        BY <1>1, <2>5
      <4>2. (source.chunks[offset] * BlUnit) % DWord \in Nat
        BY <1>1, <4>1
      <4> QED
        BY <4>2 DEF BehindChunk
    <3>3. offset' \in Nat /\ size' \in Nat /\ offset' = start' + size'
      BY <1>1, <2>1, <2>2, <3>1, <3>2
    <3> QED
      BY <1>1, <2>1, <3>1, <3>3 DEF SizeInv, BySizeInv, PlnInv, ProjectInv, SavedBySize, BySize
  <2> QED
    BY <2>3, <2>4, <2>5
<1>7. CASE SaveChunks
  BY <1>7, SaveStep DEF SaveChunks
<1>8. CASE PrprojBegin
  <2>1. source' = source /\ algorithm' = algorithm /\ algorithm = "prproj" /\ start' = start
        /\ pc' = "walk" /\ offset' = start + SectorSize
    BY <1>8 DEF PrprojBegin, At, Becomes, start
  <2>2. offset' \in Nat /\ start' < offset'
    BY <1>1, <2>1
  <2> QED
    BY <1>1, <2>1, <2>2 DEF SizeInv, BySizeInv, PlnInv, ProjectInv, SavedBySize, BySize
<1>9. CASE FindNulls
  BY <1>9, FindNullsStep
<1>10. CASE SaveProject
  BY <1>10, SaveStep DEF SaveProject
<1>11. CASE SpecifyOther
  <2>1. source' = source /\ \/ pc' \in {"read", "standard"}
                            \/ pc' = "returned" /\ result' = 0
    BY <1>11 DEF SpecifyOther, At, Becomes, Return, Throws
  <2> QED
    BY <1>1, <2>1, NothingSaved
<1>12. CASE ZoomBegin \/ ZoomTurn \/ ZoomEnd
  <2>1. source' = source /\ algorithm' = "ZOOMHandyRecorder"
    BY <1>12 DEF ZoomBegin, ZoomTurn, ZoomEnd, At
  <2> QED
    BY <1>1, <2>1, NothingSaved
<1>13. CASE UNCHANGED vars
  BY <1>13 DEF vars, sigVars, walkVars, SizeInv, BySizeInv, PlnInv, ProjectInv, SavedBySize,
    WantedSize, content, Width, file_size, start
<1> QED
  BY <1>2, <1>3, <1>4, <1>5, <1>6, <1>7, <1>8, <1>9, <1>10, <1>11, <1>12, <1>13 DEF Next

\* A size field is taken at its word, and the chunks are added up: what is saved
\* reaches from the header to the end exactly when that is on the device and the
\* size can be counted, for every device (rawriff.h, rawmxf.h, webmraw.h, djvuraw.h,
\* rawpln.h, prproj.h).
THEOREM SizesAreKept == Spec => []SavedBySize
<1>1. SizeInv => SavedBySize
  BY DEF SizeInv
<1> QED
  BY <1>1, SizeInvInit, SizeInvNext, PTL DEF Spec

-----------------------------------------------------------------------------
(* The tracks of a recorder                                                *)

Values(file) == {file[i] : i \in DOMAIN file}
Rising(file) == \A i, k \in DOMAIN file : i < k => file[i] < file[k]

\* Cells behind a file's own.
Added(file, a, c) == file \o Cells(a, c)
LEMMA AddedIs ==
  ASSUME NEW file \in Seq(Cell), NEW a \in Nat, NEW c \in Nat, c = 0 \/ a + c <= Size
  PROVE  /\ Added(file, a, c) \in Seq(Cell) /\ Len(Added(file, a, c)) = Len(file) + c
         /\ Values(Added(file, a, c)) = Values(file) \cup (a .. a + c - 1)
         /\ Rising(file) /\ (\A x \in Values(file) : x < a) => Rising(Added(file, a, c))
<1> DEFINE g == Cells(a, c)
           u == file \o g
           m == Len(file)
<1>1. Size \in Nat /\ m \in Nat
  BY DeviceAssumption
<1>2. /\ g \in Seq(Nat) /\ Len(g) = c
      /\ \A i \in 1 .. c : g[i] = a + i - 1
  BY CellsAre
<1>3. g \in Seq(Cell)
  <2>1. \A i \in 1 .. c : g[i] \in Cell
    BY <1>1, <1>2 DEF Cell
  <2> HIDE DEF g
  <2> QED
    BY <1>2, <2>1
<1> HIDE DEF g
<1>4. u \in Seq(Cell) /\ Len(u) = m + c /\ DOMAIN u = 1 .. m + c
  <2>1. u \in Seq(Cell) /\ Len(u) = m + c
    BY ONLY <1>1, <1>2, <1>3, file \in Seq(Cell), SMTT(30)
  <2> HIDE DEF u
  <2>2. DOMAIN u = 1 .. Len(u)
    BY ONLY <2>1
  <2> QED
    BY <2>1, <2>2
<1>5. \A i \in 1 .. m : u[i] = file[i]
  BY <1>2, <1>3
<1>6. \A i \in m + 1 .. m + c : u[i] = a + (i - m) - 1
  <2>1. ASSUME NEW i \in m + 1 .. m + c PROVE u[i] = a + (i - m) - 1
    <3>1. i - m \in 1 .. c
      BY <1>1
    <3>2. u[i] = g[i - m]
      BY <1>1, <1>2, <1>3, <2>1
    <3> QED
      BY <1>2, <3>1, <3>2
  <2> QED
    BY <2>1
<1> HIDE DEF u
<1>7. Values(u) = Values(file) \cup (a .. a + c - 1)
  <2>1. ASSUME NEW i \in 1 .. m + c PROVE u[i] \in Values(file) \cup (a .. a + c - 1)
    <3>1. CASE i <= m
      BY <1>1, <1>5, <3>1 DEF Values
    <3>2. CASE i > m
      BY <1>1, <1>6, <3>2
    <3> QED
      BY <1>1, <3>1, <3>2
  <2>2. ASSUME NEW i \in 1 .. m PROVE file[i] \in Values(u)
    <3>1. i \in DOMAIN u /\ u[i] = file[i]
      BY <1>1, <1>4, <1>5
    <3> QED
      BY <3>1 DEF Values
  <2>3. ASSUME NEW x \in a .. a + c - 1 PROVE x \in Values(u)
    <3>1. x \in Int /\ a <= x /\ x <= (a + c) - 1
      BY <2>3
    <3>2. PICK k \in Nat : a + k = x /\ k < c
      <4>1. x - a \in Nat /\ a + (x - a) = x /\ x - a < c
        BY <3>1
      <4> QED
        BY <4>1
    <3>3. (m + 1) + k \in m + 1 .. m + c /\ a + (((m + 1) + k) - m) - 1 = x
      BY <1>1, <3>2
    <3>4. u[(m + 1) + k] = x /\ (m + 1) + k \in DOMAIN u
      BY <1>1, <1>4, <1>6, <3>3
    <3> QED
      BY <3>4 DEF Values
  <2>4. Values(u) \subseteq Values(file) \cup (a .. a + c - 1)
    BY <1>4, <2>1 DEF Values
  <2>5. Values(file) \subseteq Values(u)
    BY <2>2 DEF Values
  <2> QED
    BY <2>3, <2>4, <2>5
<1>8. ASSUME Rising(file), \A x \in Values(file) : x < a PROVE Rising(u)
  <2> SUFFICES ASSUME NEW i \in 1 .. m + c, NEW k \in 1 .. m + c, i < k PROVE u[i] < u[k]
    BY <1>4 DEF Rising
  <2>1. CASE k <= m
    <3>1. u[i] = file[i] /\ u[k] = file[k] /\ i \in DOMAIN file /\ k \in DOMAIN file
      BY <1>1, <1>5, <2>1
    <3> QED
      BY <1>8, <3>1 DEF Rising
  <2>2. CASE i <= m /\ k > m
    <3>1. u[i] = file[i] /\ file[i] \in Values(file) /\ file[i] \in Nat /\ u[k] = a + (k - m) - 1
      BY <1>1, <1>5, <1>6, <2>2 DEF Values, Cell
    <3>2. file[i] < a
      BY <1>8, <3>1
    <3> QED
      BY <1>1, <2>2, <3>1, <3>2
  <2>3. CASE i > m
    BY <1>1, <1>6, <2>3
  <2> QED
    BY <1>1, <2>1, <2>2, <2>3
<1> QED
  BY <1>4, <1>7, <1>8 DEF u, g, Added

\* The tracks hold no cell twice, and the cells of the first ascend.
Split(t, m) ==
  /\ t \in Seq(Cell) /\ m \in Seq(Cell)
  /\ Values(t) \cap Values(m) = {} /\ Rising(t)

\* Two appendToFiles take the cells of the device in turn, as far as it goes.
LEMMA BothTracksStep ==
  ASSUME source \in Images, NEW a \in Nat, NEW n \in Nat,
         Split(target, monoFile), Values(target) \cup Values(monoFile) = start .. a - 1,
         start <= a, a < Size, Cluster <= n, n <= a \/ a + n <= Size, BothTracks(a, n)
  PROVE  /\ Split(target', monoFile') /\ Len(target') <= Len(target) + n
         /\ pc' \in {"read", "walk"}
         /\ pc' = "walk" =>
              Values(target') \cup Values(monoFile') = start .. Smaller(a + n + Cluster, Size) - 1
<1> DEFINE s == Copied(a, n, BlockSize, source.bad)
           r == Copied(a + n, Cluster, BlockSize, source.bad)
<1>1. /\ start \in Nat /\ Size \in Nat /\ BlockSize \in Nat \ {0} /\ Cluster \in Nat \ {0}
      /\ a + n \in Nat
  BY ImageIs
<1>2. /\ s.count \in Nat /\ s.count <= n /\ (s.count = 0 \/ a + s.count <= Size)
      /\ ~s.throws => a + s.count = Smaller(a + n, Size)
  BY <1>1, CopiedIs, CopiedTo
<1>3. /\ r.count \in Nat /\ r.count <= Cluster /\ (r.count = 0 \/ a + n + r.count <= Size)
      /\ ~r.throws /\ a + n < Size => a + n + r.count = Smaller(a + n + Cluster, Size)
  <2>1. Cluster <= a + n
    BY <1>1
  <2>2. /\ r.count \in Nat /\ r.count <= Cluster /\ (r.count = 0 \/ a + n + r.count <= Size)
    BY <1>1, CopiedIs
  <2>3. ASSUME ~r.throws, a + n < Size PROVE a + n + r.count = Smaller(a + n + Cluster, Size)
    BY <1>1, <2>1, <2>3, CopiedTo
  <2> QED
    BY <2>2, <2>3
<1>4. PICK c \in Nat, d \in Nat : c = s.count /\ d = r.count
  BY <1>2, <1>3
<1> DEFINE t == Added(target, a, c)
           m == Added(monoFile, a + n, d)
<1>5. /\ target' = t
      /\ monoFile' = (IF s.throws THEN monoFile ELSE m)
      /\ pc' = IF s.throws \/ r.throws THEN "read" ELSE "walk"
  BY <1>4 DEF BothTracks, Appended, Becomes, Added
<1> HIDE DEF s, r
<1>6. target \in Seq(Cell) /\ monoFile \in Seq(Cell)
      /\ Values(target) \cap Values(monoFile) = {} /\ Rising(target)
  BY DEF Split
<1>7. /\ t \in Seq(Cell) /\ Len(t) = Len(target) + c
      /\ Values(t) = Values(target) \cup (a .. a + c - 1)
      /\ Rising(target) /\ (\A x \in Values(target) : x < a) => Rising(t)
  <2>1. c = 0 \/ a + c <= Size
    BY <1>2, <1>4
  <2> QED
    BY <1>6, <2>1, AddedIs, Zenon
<1>8. m \in Seq(Cell) /\ Values(m) = Values(monoFile) \cup (a + n .. a + n + d - 1)
  <2>1. d = 0 \/ (a + n) + d <= Size
    BY <1>3, <1>4
  <2>2. PICK b \in Nat : b = a + n
    BY <1>1
  <2>3. d = 0 \/ b + d <= Size
    BY <2>1, <2>2
  <2>4. /\ Added(monoFile, b, d) \in Seq(Cell) /\ Len(Added(monoFile, b, d)) = Len(monoFile) + d
        /\ Values(Added(monoFile, b, d)) = Values(monoFile) \cup (b .. b + d - 1)
        /\ Rising(monoFile) /\ (\A x \in Values(monoFile) : x < b) => Rising(Added(monoFile, b, d))
    BY <1>6, <2>3, AddedIs, Zenon
  <2> QED
    BY <2>2, <2>4, Zenon
<1> HIDE DEF t, m
<1>9. \A x \in Values(target) \cup Values(monoFile) : x \in Nat /\ start <= x /\ x < a
  BY <1>1
<1>10. Rising(t)
  BY <1>6, <1>7, <1>9
<1>11. /\ Values(t) \cap Values(monoFile) = {}
       /\ Values(t) \cap Values(m) = {}
  <2>1. ASSUME NEW x \in Values(t) PROVE x \notin Values(monoFile) /\ x \notin a + n .. a + n + d - 1
    <3>1. CASE x \in Values(target)
      BY <1>1, <1>4, <1>6, <1>9, <3>1
    <3>2. CASE x \in a .. a + c - 1
      BY <1>1, <1>2, <1>4, <1>9, <3>2
    <3> QED
      BY <1>7, <3>1, <3>2
  <2> QED
    BY <1>8, <2>1
<1>12. Split(target', monoFile')
  BY <1>5, <1>6, <1>7, <1>8, <1>10, <1>11 DEF Split
<1>13. Len(target') <= Len(target) + n
  BY <1>2, <1>4, <1>5, <1>6, <1>7
<1>14. ASSUME pc' = "walk"
       PROVE  Values(target') \cup Values(monoFile') = start .. Smaller(a + n + Cluster, Size) - 1
  <2>1. ~s.throws /\ ~r.throws /\ monoFile' = m
    BY <1>5, <1>14
  <2>2. Values(t) \cup Values(m) = (start .. a - 1) \cup (a .. a + c - 1) \cup (a + n .. a + n + d - 1)
    BY <1>7, <1>8
  <2>3. a + c = Smaller(a + n, Size)
    BY <1>2, <1>4, <2>1
  <2>4. CASE a + n < Size
    <3>1. c = n
      BY <1>1, <2>3, <2>4 DEF Smaller
    <3>2. a + n + d = Smaller(a + n + Cluster, Size)
      BY <1>3, <1>4, <2>1, <2>4
    <3>3. (start .. a - 1) \cup (a .. a + n - 1) \cup (a + n .. a + n + d - 1) = start .. a + n + d - 1
      BY <1>1
    <3> QED
      BY <1>5, <2>1, <2>2, <3>1, <3>2, <3>3
  <2>5. CASE a + n >= Size
    <3>1. d = 0
      BY <1>1, <1>3, <1>4, <2>5
    <3>2. a + c = Size /\ Smaller(a + n + Cluster, Size) = Size
      BY <1>1, <2>3, <2>5 DEF Smaller
    <3>3. (start .. a - 1) \cup (a .. a + c - 1) \cup (a + n .. a + n - 1) = start .. a + c - 1
      BY <1>1
    <3>4. a + n + d = a + n
      BY <1>1, <3>1
    <3> QED
      BY <1>5, <2>1, <2>2, <3>2, <3>3, <3>4
  <2> QED
    BY <1>1, <2>4, <2>5
<1> QED
  BY <1>5, <1>12, <1>13, <1>14

\* What is dealt when the loop begins a turn, and that nothing is before.
Dealt ==
  /\ Split(target, monoFile)
  /\ offset \in Nat /\ start + 2 * Cluster <= offset
  /\ Len(target) <= (offset - start) - Cluster
  /\ Values(target) \cup Values(monoFile) = start .. Smaller(offset, Size) - 1
RecorderInv ==
  /\ source \in Images
  /\ pc \in {"load", "specify"} => target = <<>> /\ monoFile = <<>>
  /\ pc = "load" => algorithm = "none"
  /\ pc = "walk" /\ algorithm = "ZOOMHandyRecorder" => Dealt
  /\ TakenApart

\* Files that are split are taken apart.
LEMMA SplitApart ==
  ASSUME NEW t, NEW m, Split(t, m)
  PROVE  /\ Copies(t) = Values(t) /\ Copies(m) = Values(m)
         /\ Copies(t) \cap Copies(m) = {}
         /\ \A i, k \in DOMAIN t : i < k /\ t[k] # Blank => t[i] < t[k]
<1>1. t \in Seq(Cell) /\ m \in Seq(Cell) /\ Blank \notin Cell
  BY DEF Split, Blank, Cell
<1>2. Values(t) \subseteq Cell /\ Values(m) \subseteq Cell
  BY <1>1 DEF Values
<1>3. Copies(t) = Values(t) /\ Copies(m) = Values(m)
  BY <1>1, <1>2 DEF Copies, Values
<1> QED
  BY <1>3 DEF Split, Rising

LEMMA NothingIsSplit ==
  Split(<<>>, <<>>) /\ Values(<<>>) = {} /\ Len(<<>>) = 0
BY DEF Split, Values, Rising

LEMMA RecorderInvInit == Init => RecorderInv
BY DEF Init, SigInit, RecorderInv, TakenApart, TracksApart, StereoIsWhole

\* A turn that has dealt two clusters of cells.
LEMMA DealtStep ==
  ASSUME source \in Images, source' = source, algorithm' = "ZOOMHandyRecorder",
         NEW a \in Nat, NEW n \in Nat,
         Split(target, monoFile), Values(target) \cup Values(monoFile) = start .. a - 1,
         start <= a, a < Size, Cluster <= n, n <= a \/ a + n <= Size, BothTracks(a, n),
         offset' = a + n + Cluster, start + 2 * Cluster <= offset',
         Len(target) + n <= (offset' - start) - Cluster
  PROVE  RecorderInv'
<1>1. /\ start' = start /\ start \in Nat /\ Cluster \in Nat \ {0}
  BY ImageIs DEF start
<1>2. /\ Split(target', monoFile') /\ Len(target') <= Len(target) + n
      /\ pc' \in {"read", "walk"}
      /\ pc' = "walk" =>
           Values(target') \cup Values(monoFile') = start .. Smaller(a + n + Cluster, Size) - 1
  BY BothTracksStep
<1>3. /\ Copies(target)' = Values(target') /\ Copies(monoFile)' = Values(monoFile')
      /\ Copies(target)' \cap Copies(monoFile)' = {}
      /\ \A i, k \in DOMAIN target' : i < k /\ target'[k] # Blank => target'[i] < target'[k]
  BY <1>2, SplitApart DEF Copies
<1>4. offset' \in Nat /\ Len(target') <= (offset' - start') - Cluster
  <2>1. Len(target) \in Nat /\ Len(target') \in Nat
    BY <1>2 DEF Split
  <2>2. offset' \in Nat
    BY <1>1
  <2> QED
    BY <1>1, <1>2, <2>1, <2>2
<1>5. pc' = "walk" => Dealt'
  BY <1>1, <1>2, <1>4 DEF Dealt, Split, Rising, Values
<1>6. TracksApart'
  BY <1>1, <1>2, <1>3 DEF TracksApart
<1>7. StereoIsWhole'
  BY <1>2 DEF StereoIsWhole
<1> QED
  BY <1>2, <1>5, <1>6, <1>7 DEF RecorderInv, TakenApart

\* The end of the loop: the size of the files is set.
LEMMA EndStep ==
  ASSUME RecorderInv, ZoomEnd
  PROVE  RecorderInv'
<1> DEFINE stereo == source.field % DWord
           L == Len(target)
           n == WithHeader(stereo)
<1>1. /\ source \in Images /\ source' = source /\ algorithm' = algorithm /\ pc' = "returned"
      /\ algorithm = "ZOOMHandyRecorder" /\ pc = "walk" /\ start' = start /\ offset' = offset
      /\ stereo_size >= stereo /\ result' = stereo_size
      /\ target' = SetSize(target, n)
      /\ monoFile' = monoFile \/ monoFile' = SetSize(monoFile, WithHeader(source.mono))
  BY DEF RecorderInv, ZoomEnd, At, Return, Becomes, start
<1>2. Dealt
  BY <1>1 DEF RecorderInv
<1>3. /\ start \in Nat /\ offset \in Nat /\ Cluster \in Nat \ {0} /\ DWord \in Nat \ {0}
      /\ RiffHeader \in Nat \ {0} /\ source.field \in Nat /\ source.mono \in Nat /\ L <= (offset - start) - Cluster
  BY <1>1, <1>2, ImageIs DEF Dealt
<1>4. DWord > RiffHeader + 1
  BY ChunkWalksAssumption
<1>5. target \in Seq(Cell) /\ monoFile \in Seq(Cell) /\ L \in Nat
      /\ Values(target) \cap Values(monoFile) = {} /\ Rising(target)
  BY <1>2 DEF Dealt, Split
<1>6. stereo \in Nat /\ stereo < DWord
  BY <1>3
<1> HIDE DEF stereo, L
<1>7. n \in Nat /\ n = (stereo + RiffHeader) % DWord
  BY <1>3, <1>6 DEF WithHeader
<1> HIDE DEF n
<1>8. DOMAIN target' = 1 .. n
      /\ \A i \in 1 .. n : target'[i] = IF i <= L THEN target[i] ELSE Blank
  BY <1>1 DEF SetSize, L
<1>9. \A i \in 1 .. L : target[i] \in Cell /\ target[i] \in Values(target)
  BY <1>5 DEF L, Values
<1>10. Blank \notin Cell /\ Cell \subseteq Nat
  BY DEF Blank, Cell
<1>11. Copies(target)' \subseteq Values(target)
  <2>1. ASSUME NEW i \in 1 .. n, target'[i] # Blank PROVE target'[i] \in Values(target)
    BY <1>5, <1>7, <1>8, <1>9, <2>1
  <2> QED
    BY <1>8, <2>1 DEF Copies
<1>12. Copies(monoFile)' \subseteq Values(monoFile)
  <2>1. CASE monoFile' = monoFile
    BY <2>1 DEF Copies, Values
  <2>2. CASE monoFile' # monoFile
    <3> DEFINE l == WithHeader(source.mono)
    <3>1. monoFile' = SetSize(monoFile, l)
      BY <1>1, <2>2
    <3>2. l \in Int
      <4>1. PICK k \in Nat : k = source.mono + RiffHeader
        BY <1>3
      <4>2. k % DWord \in Int
        BY <1>3
      <4> QED
        BY <4>1, <4>2 DEF WithHeader
    <3> HIDE DEF l
    <3>3. ASSUME NEW i \in 1 .. l, monoFile'[i] # Blank PROVE monoFile'[i] \in Values(monoFile)
      <4>1. i <= Len(monoFile) /\ monoFile'[i] = monoFile[i]
        BY <3>1, <3>3 DEF SetSize
      <4>2. i \in DOMAIN monoFile
        BY <1>5, <3>2, <4>1
      <4> QED
        BY <4>1, <4>2 DEF Values
    <3>4. DOMAIN monoFile' = 1 .. l
      BY <3>1 DEF SetSize
    <3> QED
      BY <3>3, <3>4 DEF Copies
  <2> QED
    BY <2>1, <2>2
<1>13. ASSUME NEW i \in 1 .. n, NEW k \in 1 .. n, i < k, target'[k] # Blank
       PROVE  target'[i] < target'[k]
  <2>1. i \in 1 .. L /\ k \in 1 .. L /\ target'[i] = target[i] /\ target'[k] = target[k]
    BY <1>5, <1>7, <1>8, <1>13
  <2>2. i \in DOMAIN target /\ k \in DOMAIN target
    BY <1>5, <2>1 DEF L
  <2> QED
    BY <1>5, <1>13, <2>1, <2>2 DEF Rising
<1>14. TracksApart'
  BY <1>1, <1>5, <1>8, <1>11, <1>12, <1>13 DEF TracksApart
<1>15. (\A i \in DOMAIN target' : target'[i] # Blank) <=> n <= L
  <2>1. ASSUME n <= L PROVE \A i \in DOMAIN target' : target'[i] # Blank
    BY <1>5, <1>7, <1>8, <1>9, <1>10, <2>1
  <2>2. ASSUME ~(n <= L) PROVE n \in DOMAIN target' /\ target'[n] = Blank
    BY <1>5, <1>7, <1>8, <2>2
  <2> QED
    BY <2>1, <2>2
<1>16. ASSUME offset - start <= DWord
       PROVE  n <= L <=> stereo + RiffHeader <= stereo_size \/ stereo + RiffHeader >= DWord
  <2>1. L < DWord
    BY <1>3, <1>5, <1>16
  <2>2. stereo_size = L
    <3>1. L % DWord = L
      BY ONLY <1>3, <1>5, <2>1
    <3> QED
      BY <3>1 DEF stereo_size, L
  <2>3. CASE stereo + RiffHeader < DWord
    <3>1. n = stereo + RiffHeader
      BY ONLY <1>3, <1>6, <1>7, <2>3
    <3> QED
      BY <1>3, <1>5, <1>6, <2>2, <2>3, <3>1
  <2>4. CASE stereo + RiffHeader >= DWord
    <3>1. n = (stereo + RiffHeader) - DWord
      BY ONLY <1>3, <1>4, <1>6, <1>7, <2>4
    <3>2. n < stereo /\ stereo <= L
      BY <1>1, <1>3, <1>4, <1>5, <1>6, <2>2, <3>1
    <3> QED
      BY <1>5, <1>6, <1>7, <2>4, <3>2
  <2> QED
    BY <1>3, <1>6, <2>3, <2>4
<1>17. StereoIsWhole'
  <2>1. (source.field % DWord)' = stereo
    BY <1>1 DEF stereo
  <2> QED
    BY <1>1, <1>15, <1>16, <2>1 DEF StereoIsWhole, stereo
<1> QED
  BY <1>1, <1>14, <1>17 DEF RecorderInv, TakenApart

LEMMA RecorderInvNext == RecorderInv /\ [Next]_vars => RecorderInv'
<1> SUFFICES ASSUME RecorderInv, [Next]_vars PROVE RecorderInv'
  OBVIOUS
<1>1. /\ source \in Images /\ start \in Nat /\ Size \in Nat /\ start < Size
      /\ Cluster \in Nat \ {0} /\ RiffHeader \in Nat \ {0}
  BY ImageIs DEF RecorderInv
<1>2. CASE SigNext /\ UNCHANGED walkVars
  <2>1. /\ source' = source /\ pc = "load" /\ pc' \in {"load", "no header", "specify", "standard"}
        /\ pc' = "load" => algorithm' = algorithm
    BY <1>2 DEF SigNext, ReadEntry, AddFileFormat, Find
  <2>2. target' = <<>> /\ monoFile' = <<>> /\ (pc' = "load" => algorithm' = "none")
    BY <1>2, <2>1 DEF RecorderInv, walkVars
  <2>3. TracksApart'
    <3>1. Copies(target)' = {} /\ Copies(monoFile)' = {} /\ DOMAIN target' = {}
      BY <2>2 DEF Copies
    <3>2. pc' # "walk"
      BY <2>1
    <3> QED
      BY <3>1, <3>2 DEF TracksApart
  <2> QED
    BY <1>1, <2>1, <2>2, <2>3 DEF RecorderInv, TakenApart, StereoIsWhole
<1>3. CASE \/ SpecifyBySize \/ SaveBySize \/ PlnBegin \/ WalkChunk \/ SaveChunks
           \/ PrprojBegin \/ FindNulls \/ SaveProject \/ SpecifyOther
  <2>1. source' = source /\ algorithm' = algorithm /\ algorithm # "ZOOMHandyRecorder"
        /\ pc' \notin {"load", "specify"}
    BY <1>3 DEF SpecifyBySize, SaveBySize, PlnBegin, WalkChunk, SaveChunks, PrprojBegin,
      FindNulls, SaveProject, SpecifyOther, At, BySize, Throws, Becomes, Return, walkVars
  <2> QED
    BY <1>1, <2>1 DEF RecorderInv, TakenApart, TracksApart, StereoIsWhole
<1>4. CASE ZoomBegin
  <2>1. /\ source' = source /\ algorithm' = "ZOOMHandyRecorder" /\ start' = start
        /\ target = <<>> /\ monoFile = <<>>
    BY <1>4 DEF ZoomBegin, At, RecorderInv, start
  <2>2. CASE Throws
    <3>1. pc' = "read" /\ target' = <<>> /\ monoFile' = <<>>
      BY <2>1, <2>2 DEF Throws, Becomes
    <3> QED
      BY <1>1, <2>1, <3>1 DEF RecorderInv, TakenApart, TracksApart, StereoIsWhole, Copies
  <2>3. CASE ~Throws
    <3>1. /\ Readable(start + Cluster, RiffHeader, source.bad)
          /\ BothTracks(start, Cluster) /\ offset' = start + 2 * Cluster
      BY <1>4, <2>3, Zenon DEF ZoomBegin
    <3>2. start + Cluster <= Size
      BY <1>1, <3>1 DEF Readable
    <3>3. Split(target, monoFile) /\ Values(target) \cup Values(monoFile) = start .. start - 1
          /\ Len(target) = 0
      BY <1>1, <2>1, NothingIsSplit
    <3>4. offset' = start + Cluster + Cluster /\ start + 2 * Cluster <= offset'
          /\ Len(target) + Cluster <= (offset' - start) - Cluster /\ start <= start
      BY <1>1, <3>1, <3>3
    <3> QED
      BY <1>1, <2>1, <3>1, <3>2, <3>3, <3>4, DealtStep
  <2> QED
    BY <2>2, <2>3
<1>5. CASE ZoomTurn
  <2>1. /\ source' = source /\ algorithm = "ZOOMHandyRecorder" /\ algorithm' = algorithm
        /\ pc = "walk" /\ start' = start
    BY <1>5 DEF ZoomTurn, At, start
  <2>2. Dealt
    BY <2>1 DEF RecorderInv
  <2>3. CASE offset >= Size
    <3>1. pc' = "returned" /\ result' = 0 /\ target' = target /\ monoFile' = monoFile
      BY <1>5, <2>3 DEF ZoomTurn, Return, Becomes
    <3> QED
      BY <1>1, <2>1, <3>1 DEF RecorderInv, TakenApart, TracksApart, StereoIsWhole, Copies
  <2>4. CASE ~(offset >= Size)
    <3>1. BothTracks(offset, 2 * Cluster) /\ offset' = offset + 3 * Cluster
      BY <1>5, <2>4 DEF ZoomTurn, AfterMono
    <3>2. Split(target, monoFile) /\ offset \in Nat /\ start + 2 * Cluster <= offset
          /\ Len(target) <= (offset - start) - Cluster /\ Len(target) \in Nat
      BY <2>2 DEF Dealt, Split
    <3>3. Smaller(offset, Size) = offset /\ offset < Size
      BY <1>1, <2>4, <3>2 DEF Smaller
    <3>4. Values(target) \cup Values(monoFile) = start .. offset - 1
      BY <2>2, <3>3 DEF Dealt
    <3>5. PICK n \in Nat : n = 2 * Cluster
      BY <1>1
    <3>6. /\ start <= offset /\ Cluster <= n /\ n <= offset
          /\ offset' = offset + n + Cluster /\ start + 2 * Cluster <= offset'
          /\ Len(target) + n <= (offset' - start) - Cluster
      BY <1>1, <3>1, <3>2, <3>5
    <3>7. BothTracks(offset, n)
      BY <3>1, <3>5
    <3> QED
      BY <1>1, <2>1, <3>2, <3>3, <3>4, <3>6, <3>7, DealtStep
  <2> QED
    BY <2>3, <2>4
<1>6. CASE ZoomEnd
  BY <1>6, EndStep
<1>7. CASE UNCHANGED vars
  BY <1>7 DEF vars, sigVars, walkVars, RecorderInv, TakenApart, TracksApart, StereoIsWhole,
    Dealt, start, Copies, Values
<1> QED
  BY <1>2, <1>3, <1>4, <1>5, <1>6, <1>7 DEF Next

\* On every device and for every size of a cluster, the recorder's file comes apart
\* into its tracks: no cell is lost as long as the walk goes on, none is in both,
\* and the stereo file lacks at most what is to be behind its last whole turn.
THEOREM TracksAreWhole == Spec => []TakenApart
<1>1. RecorderInv => TakenApart
  BY DEF RecorderInv
<1> QED
  BY <1>1, RecorderInvInit, RecorderInvNext, PTL DEF Spec

-----------------------------------------------------------------------------
(* The texts of the signature files                                        *)

Header == [offset : Nat, signatures : Seq(Seq(Byte))]
Bytes(k, i) == JsonToDataArray(Given(k)[i])
Place(k, i) == Given(k)[i].offset
Before(k, n) == {i \in Texts(k) : i < n}

\* What has been made of the entries of a format before the n-th: no offset twice,
\* nothing that is not given, and nothing given that is not kept, but for what may
\* be taken for known.
Begins(signature, bytes) ==
  Len(signature) <= Len(bytes) /\ \A m \in DOMAIN signature : bytes[m] = signature[m]
Apart(hs) == \A x, y \in DOMAIN hs : hs[x].offset = hs[y].offset => x = y
IsGiven(h, k, n) ==
  /\ \E i \in Before(k, n) : Place(k, i) = h.offset
  /\ \A s \in DOMAIN h.signatures : \E i \in Before(k, n) :
       Place(k, i) = h.offset /\ Bytes(k, i) # <<>> /\ h.signatures[s] = Bytes(k, i)
Certain(k, i) ==
  /\ Bytes(k, i) # <<>>
  /\ Place(k, i) = 0 \/ \A j \in Texts(k) : j < i => Place(k, j) # Place(k, i)
IsKept(h, k, i) ==
  /\ h.offset = Place(k, i)
  /\ Certain(k, i) => \E s \in DOMAIN h.signatures : Begins(h.signatures[s], Bytes(k, i))
FormatRead(hs, k, n) ==
  /\ hs \in Seq(Header)
  /\ Apart(hs)
  /\ \A x \in DOMAIN hs : IsGiven(hs[x], k, n)
  /\ \A i \in Before(k, n) : \E x \in DOMAIN hs : IsKept(hs[x], k, i)

LEMMA TextIs ==
  ASSUME source \in Images, NEW k \in DOMAIN source.formats
  PROVE  /\ Given(k) \in Seq(Entry) /\ Len(Given(k)) \in Nat
         /\ DOMAIN Given(k) = 1 .. Len(Given(k))
         /\ \A i \in DOMAIN Given(k) :
              /\ Bytes(k, i) \in Seq(Byte) /\ Place(k, i) \in Nat
              /\ Bytes(k, i) # <<>> => Bytes(k, i) = Given(k)[i].bytes
<1>1. source.formats \in Seq([algorithm : STRING, header : Seq(Entry)])
  BY SignaturesAssumption
<1>2. Given(k) \in Seq(Entry)
  <2> DEFINE T == [algorithm : STRING, header : Seq(Entry)]
  <2>1. \A u \in T : u.header \in Seq(Entry)
    OBVIOUS
  <2>2. source.formats \in Seq(T)
    BY <1>1
  <2> HIDE DEF T
  <2>3. source.formats[k] \in T
    BY <2>2
  <2> QED
    BY <2>1, <2>3 DEF Given
<1>3. \A i \in DOMAIN Given(k) : Given(k)[i] \in Entry
  BY <1>2
<1>4. <<>> \in Seq(Byte)
  OBVIOUS
<1>5. \A e \in Entry : /\ JsonToDataArray(e) \in Seq(Byte) /\ e.offset \in Nat
                       /\ JsonToDataArray(e) # <<>> => JsonToDataArray(e) = e.bytes
  BY <1>4 DEF Entry, JsonToDataArray
<1> HIDE DEF Given
<1> QED
  BY <1>2, <1>3, <1>5 DEF Bytes, Place

\* A format that is read is recognised by what is given for it.
LEMMA RecognisedIs ==
  ASSUME source \in Images, NEW k \in DOMAIN source.formats, NEW f,
         FormatRead(f.headers, k, Len(Given(k)) + 1)
  PROVE  LET found == compareWithAllHeaders(f)
         IN /\ found => Listed(k)
            /\ Listed(k) /\ ~Doubtful(k) => found
<1> DEFINE hs == f.headers
           n == Len(Given(k)) + 1
<1>1. Before(k, n) = Texts(k) /\ Texts(k) \subseteq DOMAIN Given(k) /\ DOMAIN Given(k) \subseteq Nat
  <2>1. DOMAIN Given(k) = 1 .. Len(Given(k)) /\ Len(Given(k)) \in Nat
    BY TextIs
  <2>2. Texts(k) \subseteq DOMAIN Given(k)
    BY DEF Texts
  <2> QED
    BY <2>1, <2>2 DEF Before
<1>2. \A i \in Texts(k) : Bytes(k, i) # <<>> => Bytes(k, i) = Given(k)[i].bytes
  BY <1>1, TextIs
<1>3. /\ hs \in Seq(Header) /\ Apart(hs)
      /\ \A x \in DOMAIN hs : IsGiven(hs[x], k, n)
      /\ \A i \in Texts(k) : \E x \in DOMAIN hs : IsKept(hs[x], k, i)
  BY <1>1 DEF FormatRead
<1> HIDE DEF hs, n
<1>4. ASSUME \A x \in DOMAIN hs : findSignature(hs[x]) PROVE Listed(k)
  <2> SUFFICES ASSUME NEW i \in Texts(k)
               PROVE  \E j \in Texts(k) :
                        /\ Given(k)[j].offset = Given(k)[i].offset /\ Bytes(k, j) # <<>>
                        /\ IsAt(Given(k)[j].bytes, Given(k)[j].offset)
    BY DEF Listed, Bytes
  <2>1. PICK x \in DOMAIN hs : hs[x].offset = Given(k)[i].offset
    BY <1>3 DEF IsKept, Place
  <2>2. PICK s \in DOMAIN hs[x].signatures : IsAt(hs[x].signatures[s], hs[x].offset)
    BY <1>4 DEF findSignature
  <2>3. PICK j \in Texts(k) : Place(k, j) = hs[x].offset /\ Bytes(k, j) # <<>>
                              /\ hs[x].signatures[s] = Bytes(k, j)
    BY <1>1, <1>3 DEF IsGiven
  <2> QED
    BY <1>2, <2>1, <2>2, <2>3 DEF Place
<1>5. ASSUME Listed(k), ~Doubtful(k), NEW x \in DOMAIN hs PROVE findSignature(hs[x])
  <2>1. PICK i \in Texts(k) : Place(k, i) = hs[x].offset
    BY <1>1, <1>3 DEF IsGiven
  <2>2. PICK j \in Texts(k) : /\ Place(k, j) = hs[x].offset /\ Bytes(k, j) # <<>>
                              /\ IsAt(Given(k)[j].bytes, Place(k, j))
    BY <1>5, <2>1 DEF Listed, Place, Bytes
  <2>3. Certain(k, j)
    BY <1>5, <2>2 DEF Certain, Doubtful, Place
  <2>4. PICK y \in DOMAIN hs : IsKept(hs[y], k, j)
    BY <1>3
  <2>5. y = x
    BY <1>3, <2>2, <2>4 DEF IsKept, Apart
  <2>6. PICK s \in DOMAIN hs[x].signatures : Begins(hs[x].signatures[s], Bytes(k, j))
    BY <2>3, <2>4, <2>5 DEF IsKept
  <2>7. hs[x] \in Header
    BY <1>3
  <2>8. hs[x].signatures[s] \in Seq(Byte) /\ Bytes(k, j) \in Seq(Byte)
    BY <1>1, <2>6, <2>7, TextIs DEF Header
  <2>9. \A m \in DOMAIN hs[x].signatures[s] :
          m \in DOMAIN Bytes(k, j) /\ Bytes(k, j)[m] = hs[x].signatures[s][m]
    BY <2>6, <2>8 DEF Begins
  <2>10. IsAt(Bytes(k, j), hs[x].offset)
    BY <1>2, <2>2
  <2>11. IsAt(hs[x].signatures[s], hs[x].offset)
    BY <2>9, <2>10 DEF IsAt
  <2> QED
    BY <2>6, <2>11 DEF findSignature
<1> QED
  BY <1>4, <1>5 DEF compareWithAllHeaders, hs

\* What AddHeader does: a header of its own for a new offset, and for an old one
\* nothing more, if the text begins with one that is there and is looked for at 0.
LEMMA AddHeaderIs ==
  ASSUME headers \in Seq(Header), NEW bytes, NEW o, AddHeader(bytes, o)
  PROVE  \/ /\ \A x \in DOMAIN headers : headers[x].offset # o
            /\ headers' = Append(headers, [offset |-> o, signatures |-> Signature(bytes)])
         \/ \E x \in DOMAIN headers :
              /\ headers[x].offset = o
              /\ \/ /\ headers' = headers
                    /\ \E s \in DOMAIN headers[x].signatures :
                         Agrees(headers[x].signatures[s], bytes, o)
                 \/ headers' = [headers EXCEPT ![x].signatures = @ \o Signature(bytes)]
<1> DEFINE same == SelectInSeq(headers, LAMBDA h : h.offset = o)
           S == {x \in 1 .. Len(headers) : headers[x].offset = o}
<1>1. DOMAIN headers = 1 .. Len(headers) /\ S \subseteq DOMAIN headers /\ Len(headers) \in Nat
  OBVIOUS
<1>2. same = IF S # {} THEN Min(S) ELSE 0
  BY DEF SelectInSeq
<1>3. S # {} => same \in S
  <2>1. ASSUME S # {} PROVE Min(S) \in S
    <3>1. S \in SUBSET Nat
      OBVIOUS
    <3>2. \E x \in S : \A y \in S : x <= y
      BY <2>1, <3>1, LeastElement
    <3> HIDE DEF S
    <3> QED
      BY <3>2 DEF Min
  <2> HIDE DEF S, same
  <2> QED
    BY <1>2, <2>1
<1>4. IF same = 0
      THEN headers' = Append(headers, [offset |-> o, signatures |-> Signature(bytes)])
      ELSE \E known \in MayFind(headers[same], bytes) :
             headers' = IF known THEN headers
                        ELSE [headers EXCEPT ![same].signatures = @ \o Signature(bytes)]
  BY DEF AddHeader
<1> HIDE DEF same
<1>5. CASE S = {}
  <2>1. same = 0
    BY <1>2, <1>5
  <2>2. \A x \in DOMAIN headers : headers[x].offset # o
    BY <1>1, <1>5
  <2> QED
    BY <1>4, <2>1, <2>2
<1>6. CASE S # {}
  <2>1. same \in DOMAIN headers /\ headers[same].offset = o /\ same # 0
    BY <1>1, <1>3, <1>6
  <2>2. PICK known \in MayFind(headers[same], bytes) :
          headers' = IF known THEN headers
                     ELSE [headers EXCEPT ![same].signatures = @ \o Signature(bytes)]
    BY <1>4, <2>1
  <2>3. CASE known
    <3>1. \E s \in DOMAIN headers[same].signatures : Agrees(headers[same].signatures[s], bytes, o)
      BY <2>1, <2>3 DEF MayFind
    <3> QED
      BY <2>1, <2>2, <2>3, <3>1
  <2>4. CASE ~known
    BY <2>1, <2>2, <2>4
  <2> QED
    BY <2>3, <2>4
<1> QED
  BY <1>5, <1>6

\* One text more.
LEMMA TextStep ==
  ASSUME source \in Images, NEW k \in DOMAIN source.formats, NEW n \in Texts(k),
         FormatRead(headers, k, n), AddHeader(Bytes(k, n), Place(k, n))
  PROVE  FormatRead(headers', k, n + 1)
<1>0. PICK b, o : b = Bytes(k, n) /\ o = Place(k, n)
  OBVIOUS
<1>1. /\ Texts(k) \subseteq Nat /\ n \in Nat
      /\ \A i \in Texts(k) : Bytes(k, i) \in Seq(Byte) /\ Place(k, i) \in Nat
  <2>1. Texts(k) \subseteq DOMAIN Given(k)
    BY DEF Texts
  <2>2. DOMAIN Given(k) = 1 .. Len(Given(k)) /\ Len(Given(k)) \in Nat
    BY TextIs
  <2> QED
    BY <2>1, <2>2, TextIs
<1>2. b \in Seq(Byte) /\ o \in Nat /\ Len(b) \in Nat
  BY <1>0, <1>1
<1>3. /\ Before(k, n) \subseteq Before(k, n + 1) /\ n \in Before(k, n + 1)
      /\ \A i \in Before(k, n + 1) : i = n \/ i \in Before(k, n)
      /\ \A i \in Before(k, n) : i < n /\ i \in Texts(k)
  BY <1>1 DEF Before
<1>4. /\ headers \in Seq(Header) /\ Apart(headers)
      /\ \A x \in DOMAIN headers : IsGiven(headers[x], k, n)
      /\ \A i \in Before(k, n) : \E x \in DOMAIN headers : IsKept(headers[x], k, i)
  BY DEF FormatRead
<1>5. /\ Signature(b) \in Seq(Seq(Byte))
      /\ \A s \in DOMAIN Signature(b) : b # <<>> /\ Signature(b)[s] = b
      /\ b # <<>> => 1 \in DOMAIN Signature(b)
  <2>1. CASE b = <<>>
    BY <2>1 DEF Signature
  <2>2. CASE b # <<>>
    <3>1. Signature(b) = <<b>>
      BY <2>2 DEF Signature
    <3> QED
      BY <1>2, <2>2, <3>1
  <2> QED
    BY <2>1, <2>2
<1>6. Begins(b, b)
  BY <1>2 DEF Begins
<1>7. \A h : IsGiven(h, k, n) => IsGiven(h, k, n + 1)
  BY <1>3 DEF IsGiven
<1>8. CASE /\ \A x \in DOMAIN headers : headers[x].offset # o
           /\ headers' = Append(headers, [offset |-> o, signatures |-> Signature(b)])
  <2> DEFINE h == [offset |-> o, signatures |-> Signature(b)]
             l == Len(headers)
  <2>1. h \in Header /\ h.offset = o /\ h.signatures = Signature(b)
    BY <1>2, <1>5 DEF Header
  <2> HIDE DEF h
  <2>2. /\ headers' = Append(headers, h)
        /\ \A x \in DOMAIN headers : headers[x].offset # o
    BY <1>8 DEF h
  <2>3. /\ headers' \in Seq(Header) /\ l \in Nat
        /\ DOMAIN headers = 1 .. l /\ DOMAIN headers' = 1 .. l + 1
        /\ headers'[l + 1] = h /\ \A x \in 1 .. l : headers'[x] = headers[x]
    BY <1>4, <2>1, <2>2
  <2> HIDE DEF l
  <2>4. Apart(headers')
    <3> SUFFICES ASSUME NEW x \in 1 .. l + 1, NEW y \in 1 .. l + 1,
                        headers'[x].offset = headers'[y].offset
                 PROVE  x = y
      BY <2>3 DEF Apart
    <3>1. CASE x \in 1 .. l /\ y \in 1 .. l
      BY <1>4, <2>3, <3>1 DEF Apart
    <3>2. CASE x \in 1 .. l /\ y = l + 1
      BY <2>1, <2>2, <2>3, <3>2
    <3>3. CASE x = l + 1 /\ y \in 1 .. l
      BY <2>1, <2>2, <2>3, <3>3
    <3> QED
      BY <2>3, <3>1, <3>2, <3>3
  <2>5. IsGiven(h, k, n + 1)
    BY <1>0, <1>3, <1>5, <2>1 DEF IsGiven
  <2>6. \A x \in DOMAIN headers' : IsGiven(headers'[x], k, n + 1)
    BY <1>4, <1>7, <2>3, <2>5
  <2>7. IsKept(h, k, n)
    BY <1>0, <1>5, <1>6, <2>1 DEF IsKept, Certain
  <2>8. \A i \in Before(k, n + 1) : \E x \in DOMAIN headers' : IsKept(headers'[x], k, i)
    <3> SUFFICES ASSUME NEW i \in Before(k, n + 1)
                 PROVE  \E x \in DOMAIN headers' : IsKept(headers'[x], k, i)
      OBVIOUS
    <3>1. CASE i = n
      BY <2>3, <2>7, <3>1
    <3>2. CASE i \in Before(k, n)
      <4>1. PICK x \in DOMAIN headers : IsKept(headers[x], k, i)
        BY <1>4, <3>2
      <4>2. x \in DOMAIN headers' /\ headers'[x] = headers[x]
        BY <2>3
      <4> QED
        BY <4>1, <4>2
    <3> QED
      BY <1>3, <3>1, <3>2
  <2> QED
    BY <2>3, <2>4, <2>6, <2>8 DEF FormatRead
<1>9. ASSUME NEW x \in DOMAIN headers, headers[x].offset = o, headers' = headers,
             \E s \in DOMAIN headers[x].signatures : Agrees(headers[x].signatures[s], b, o)
      PROVE  FormatRead(headers', k, n + 1)
  <2>1. PICK j \in Before(k, n) : Place(k, j) = o
    BY <1>4, <1>9 DEF IsGiven
  <2>2. Certain(k, n) => o = 0
    BY <1>0, <1>3, <2>1 DEF Certain
  <2>3. PICK s \in DOMAIN headers[x].signatures : Agrees(headers[x].signatures[s], b, o)
    BY <1>9
  <2>4. headers[x].signatures[s] \in Seq(Byte)
    <3>1. headers[x] \in Header
      BY <1>4
    <3> QED
      BY <3>1 DEF Header
  <2>5. ASSUME o = 0 PROVE Begins(headers[x].signatures[s], b)
    <3> DEFINE g == headers[x].signatures[s]
    <3>1. g \in Seq(Byte) /\ Len(b) >= Len(g)
          /\ \A i \in DOMAIN g : o + i <= Len(b) => b[o + i] = g[i]
      BY <2>3, <2>4 DEF Agrees
    <3> HIDE DEF g
    <3>2. \A i \in DOMAIN g : i \in Nat /\ i <= Len(b) /\ o + i = i
      BY <1>2, <2>5, <3>1
    <3>3. Begins(g, b)
      BY <3>1, <3>2 DEF Begins
    <3> QED
      BY <3>3 DEF g
  <2>6. IsKept(headers[x], k, n)
    BY <1>0, <1>9, <2>2, <2>3, <2>5 DEF IsKept, Certain
  <2>7. \A y \in DOMAIN headers : IsGiven(headers[y], k, n + 1)
    BY <1>4, <1>7
  <2>8. \A i \in Before(k, n + 1) : \E y \in DOMAIN headers : IsKept(headers[y], k, i)
    BY <1>3, <1>4, <2>6
  <2> QED
    BY <1>4, <1>9, <2>7, <2>8 DEF FormatRead
<1>10. ASSUME NEW x \in DOMAIN headers, headers[x].offset = o,
              headers' = [headers EXCEPT ![x].signatures = @ \o Signature(b)]
       PROVE  FormatRead(headers', k, n + 1)
  <2> DEFINE old == headers[x].signatures
             new == old \o Signature(b)
             h == [headers[x] EXCEPT !.signatures = new]
  <2>1. headers[x] \in Header /\ old \in Seq(Seq(Byte))
    <3>1. headers[x] \in Header
      BY <1>4
    <3> QED
      BY <3>1 DEF Header
  <2>2. /\ new \in Seq(Seq(Byte)) /\ Len(old) \in Nat
        /\ \A s \in DOMAIN old : s \in DOMAIN new /\ new[s] = old[s]
        /\ (\A s \in DOMAIN new : s \in DOMAIN old \/ (b # <<>> /\ new[s] = b))
        /\ (b # <<>> => \E s \in DOMAIN new : new[s] = b)
    <3> DEFINE g == Signature(b)
    <3> HIDE DEF old, g
    <3>1. /\ old \in Seq(Seq(Byte)) /\ g \in Seq(Seq(Byte))
          /\ \A s \in DOMAIN g : b # <<>> /\ g[s] = b
          /\ b # <<>> => 1 \in DOMAIN g
      BY <1>5, <2>1 DEF g, old
    <3>2. /\ old \o g \in Seq(Seq(Byte)) /\ Len(old) \in Nat /\ Len(g) \in Nat
          /\ DOMAIN old = 1 .. Len(old) /\ DOMAIN g = 1 .. Len(g)
          /\ DOMAIN (old \o g) = 1 .. Len(old) + Len(g)
          /\ \A s \in 1 .. Len(old) : (old \o g)[s] = old[s]
          /\ \A s \in Len(old) + 1 .. Len(old) + Len(g) : (old \o g)[s] = g[s - Len(old)]
      BY <3>1
    <3>3. \A s \in DOMAIN (old \o g) : s \in DOMAIN old \/ (b # <<>> /\ (old \o g)[s] = b)
      <4> SUFFICES ASSUME NEW s \in 1 .. Len(old) + Len(g), ~(s <= Len(old))
                   PROVE  b # <<>> /\ (old \o g)[s] = b
        BY <3>2
      <4>1. s \in Len(old) + 1 .. Len(old) + Len(g) /\ s - Len(old) \in DOMAIN g
        BY <3>2
      <4> QED
        BY <3>1, <3>2, <4>1
    <3>4. ASSUME b # <<>> PROVE \E s \in DOMAIN (old \o g) : (old \o g)[s] = b
      <4>1. 1 \in DOMAIN g /\ g[1] = b
        BY <3>1, <3>4
      <4>2. Len(old) + 1 \in Len(old) + 1 .. Len(old) + Len(g) /\ (Len(old) + 1) - Len(old) = 1
        BY <3>2, <4>1
      <4>3. Len(old) + 1 \in DOMAIN (old \o g) /\ (old \o g)[Len(old) + 1] = b
        BY <3>2, <4>1, <4>2
      <4> QED
        BY <4>3
    <3> QED
      BY <3>2, <3>3, <3>4 DEF g
  <2> HIDE DEF new
  <2>3. h \in Header /\ h.offset = o /\ h.signatures = new
    BY <1>10, <2>1, <2>2 DEF Header
  <2>4. /\ headers' \in Seq(Header) /\ DOMAIN headers' = DOMAIN headers
        /\ headers'[x] = h /\ \A y \in DOMAIN headers : y # x => headers'[y] = headers[y]
    <3>1. headers' = [headers EXCEPT ![x] = h]
      BY <1>10, <2>1 DEF new, Header
    <3> HIDE DEF h
    <3> QED
      BY <1>4, <2>3, <3>1
  <2> HIDE DEF h
  <2>5. Apart(headers')
    BY <1>4, <1>10, <2>3, <2>4 DEF Apart
  <2>6. IsGiven(h, k, n + 1)
    <3>1. IsGiven(headers[x], k, n + 1)
      BY <1>4, <1>7
    <3>2. ASSUME NEW s \in DOMAIN new
          PROVE  \E i \in Before(k, n + 1) :
                   Place(k, i) = o /\ Bytes(k, i) # <<>> /\ new[s] = Bytes(k, i)
      <4>1. CASE s \in DOMAIN old
        BY <1>10, <2>2, <3>1, <4>1 DEF IsGiven
      <4>2. CASE b # <<>> /\ new[s] = b
        BY <1>0, <1>3, <4>2
      <4> QED
        BY <2>2, <4>1, <4>2
    <3> QED
      BY <1>0, <1>3, <2>3, <3>2 DEF IsGiven
  <2>7. \A y \in DOMAIN headers' : IsGiven(headers'[y], k, n + 1)
    BY <1>4, <1>7, <2>4, <2>6
  <2>8. IsKept(h, k, n)
    BY <1>0, <1>6, <2>2, <2>3 DEF IsKept, Certain
  <2>9. \A i : IsKept(headers[x], k, i) => IsKept(h, k, i)
    BY <1>10, <2>2, <2>3 DEF IsKept
  <2>10. \A i \in Before(k, n + 1) : \E y \in DOMAIN headers' : IsKept(headers'[y], k, i)
    BY <1>3, <1>4, <2>4, <2>8, <2>9
  <2> QED
    BY <2>4, <2>5, <2>7, <2>10 DEF FormatRead
<1> QED
  <2>1. headers \in Seq(Header) /\ AddHeader(b, o)
    BY <1>0, <1>4
  <2>2. \/ /\ \A x \in DOMAIN headers : headers[x].offset # o
           /\ headers' = Append(headers, [offset |-> o, signatures |-> Signature(b)])
        \/ \E x \in DOMAIN headers :
             /\ headers[x].offset = o
             /\ \/ /\ headers' = headers
                   /\ \E s \in DOMAIN headers[x].signatures :
                        Agrees(headers[x].signatures[s], b, o)
                \/ headers' = [headers EXCEPT ![x].signatures = @ \o Signature(b)]
    BY <2>1, AddHeaderIs
  <2> QED
    BY <1>8, <1>9, <1>10, <2>2, Zenon

\* Where the reader is: the formats before are in the base, and of this one all
\* entries before, none of which ends the array.
FormatInv(k, n) ==
  /\ FormatRead(headers, k, n)
  /\ n \in DOMAIN Given(k) => \A j \in 1 .. n - 1 : Given(k)[j].kind # "no text"
HeadersInv ==
  /\ source \in Images
  /\ base \in Seq([algorithm : STRING, headers : Seq(Header)])
  /\ \A k \in DOMAIN base :
       k \in DOMAIN source.formats /\ FormatRead(base[k].headers, k, Len(Given(k)) + 1)
  /\ pc = "load" =>
       /\ next[1] = Len(base) + 1 /\ next[2] \in Nat \ {0}
       /\ next[1] \in DOMAIN source.formats => FormatInv(next[1], next[2])
  /\ pc = "load" /\ next[1] \notin DOMAIN source.formats => headers = <<>>

\* The signature files stay as they are.
LEMMA FilesStay ==
  ASSUME source' = source
  PROVE  /\ \A k : Given(k)' = Given(k)
         /\ \A hs, k, n : FormatRead(hs, k, n)' <=> FormatRead(hs, k, n)
<1>1. \A k : Given(k)' = Given(k)
  BY DEF Given
<1>2. \A k : Texts(k)' = Texts(k)
  BY <1>1 DEF Texts
<1>3. \A k, i : Bytes(k, i)' = Bytes(k, i) /\ Place(k, i)' = Place(k, i)
  BY <1>1 DEF Bytes, Place
<1>4. \A k, n : Before(k, n)' = Before(k, n)
  BY <1>2 DEF Before
<1>5. \A h, k, n : IsGiven(h, k, n)' <=> IsGiven(h, k, n)
  BY <1>3, <1>4 DEF IsGiven
<1>6. \A k, i : Certain(k, i)' <=> Certain(k, i)
  BY <1>2, <1>3 DEF Certain
<1>7. \A h, k, i : IsKept(h, k, i)' <=> IsKept(h, k, i)
  BY <1>3, <1>6 DEF IsKept
<1>8. \A hs, k, n : FormatRead(hs, k, n)' <=> FormatRead(hs, k, n)
  BY <1>4, <1>5, <1>7 DEF FormatRead
<1> QED
  BY <1>1, <1>8

\* A step that leaves the base as it is.
LEMMA BaseStays ==
  ASSUME HeadersInv, source' = source, base' = base,
         pc' = "load" =>
           /\ next'[1] = Len(base) + 1 /\ next'[2] \in Nat \ {0}
           /\ IF next'[1] \in DOMAIN source.formats
              THEN /\ FormatRead(headers', next'[1], next'[2])
                   /\ next'[2] \in DOMAIN Given(next'[1]) =>
                        \A j \in 1 .. next'[2] - 1 : Given(next'[1])[j].kind # "no text"
              ELSE headers' = <<>>
  PROVE  HeadersInv'
<1>1. /\ \A k : Given(k)' = Given(k)
      /\ \A hs, k, n : FormatRead(hs, k, n)' <=> FormatRead(hs, k, n)
  BY FilesStay
<1>2. (\A k \in DOMAIN base :
         k \in DOMAIN source.formats /\ FormatRead(base[k].headers, k, Len(Given(k)) + 1))'
  <2>1. \A k \in DOMAIN base :
          /\ k \in DOMAIN source.formats
          /\ FormatRead(base[k].headers, k, Len(Given(k)) + 1)'
    BY <1>1 DEF HeadersInv
  <2> QED
    BY <2>1
<1>3. ASSUME pc' = "load", next'[1] \in DOMAIN source.formats
      PROVE  FormatInv(next[1], next[2])'
  <2>1. FormatRead(headers, next[1], next[2])'
    BY <1>1, <1>3
  <2>2. Given(next[1])' = Given(next'[1])
    BY DEF Given
  <2> QED
    BY <1>3, <2>1, <2>2 DEF FormatInv
<1> QED
  BY <1>2, <1>3 DEF HeadersInv

LEMMA NothingRead ==
  ASSUME source \in Images, NEW k \in DOMAIN source.formats
  PROVE  /\ FormatRead(<<>>, k, 1)
         /\ \A j \in 1 .. 1 - 1 : Given(k)[j].kind # "no text"
<1>1. Before(k, 1) = {}
  <2>1. Texts(k) \subseteq 1 .. Len(Given(k)) /\ Len(Given(k)) \in Nat
    BY TextIs DEF Texts
  <2> QED
    BY <2>1 DEF Before
<1> QED
  BY <1>1 DEF FormatRead, Apart

\* An entry that is no text of the format adds nothing.
LEMMA NoTextStep ==
  ASSUME NEW k, NEW n \in Nat, NEW m \in Nat, NEW hs, FormatRead(hs, k, n), n <= m,
         \A i \in Texts(k) : i \in Nat /\ ~(n <= i /\ i < m)
  PROVE  FormatRead(hs, k, m)
<1>1. Before(k, m) = Before(k, n)
  BY DEF Before
<1> QED
  BY <1>1 DEF FormatRead, IsGiven

LEMMA HeadersInvInit == Init => HeadersInv
<1> SUFFICES ASSUME Init PROVE HeadersInv
  OBVIOUS
<1>1. source \in Images /\ base = <<>> /\ headers = <<>> /\ next = <<1, 1>>
  BY DEF Init, SigInit
<1>2. next[1] = 1 /\ next[2] = 1 /\ Len(base) = 0 /\ DOMAIN base = {}
  BY <1>1
<1>3. base \in Seq([algorithm : STRING, headers : Seq(Header)])
  BY <1>1
<1>4. 1 \in DOMAIN source.formats => FormatInv(1, 1)
  BY <1>1, NothingRead DEF FormatInv
<1> QED
  BY <1>1, <1>2, <1>3, <1>4 DEF HeadersInv

LEMMA ReadEntryStep ==
  ASSUME HeadersInv, ReadEntry
  PROVE  HeadersInv'
<1>1. PICK k \in DOMAIN source.formats, n \in Nat \ {0} :
        /\ k = next[1] /\ n = next[2] /\ n \in DOMAIN Given(k) /\ pc = "load"
        /\ k = Len(base) + 1
  BY DEF HeadersInv, ReadEntry, format, Given
<1> DEFINE entry == Given(k)[n]
           l == Len(Given(k))
<1>2. /\ next' = <<k, IF entry.kind = "no text" THEN l + 1 ELSE n + 1>>
      /\ entry.kind \in {"no text", "no object"} => headers' = headers
      /\ entry.kind \notin {"no text", "no object"} => AddHeader(Bytes(k, n), Place(k, n))
      /\ source' = source /\ base' = base /\ pc' = "load"
  BY <1>1 DEF ReadEntry, format, Given, Bytes, Place
<1>3. /\ source \in Images
      /\ FormatRead(headers, k, n)
      /\ \A j \in 1 .. n - 1 : Given(k)[j].kind # "no text"
  BY <1>1 DEF HeadersInv, FormatInv
<1>4. l \in Nat /\ DOMAIN Given(k) = 1 .. l
  BY <1>3, TextIs
<1>5. Texts(k) \subseteq 1 .. l
  BY <1>4 DEF Texts
<1> HIDE DEF l
<1>6. CASE entry.kind = "no text"
  <2>1. next'[1] = k /\ next'[2] = l + 1
    BY <1>2, <1>6
  <2>2. \A i \in Texts(k) : i \in Nat /\ ~(n <= i /\ i < l + 1)
    <3> SUFFICES ASSUME NEW i \in Texts(k), n <= i PROVE FALSE
      BY <1>4, <1>5
    <3>1. n \in 1 .. i
      BY <1>1, <1>4, <1>5
    <3> QED
      BY <1>6, <3>1 DEF Texts
  <2>3. FormatRead(headers', k, l + 1)
    <3>1. n <= l + 1 /\ l + 1 \in Nat
      BY <1>1, <1>4
    <3> QED
      BY <1>2, <1>3, <1>6, <2>2, <3>1, NoTextStep
  <2>4. l + 1 \notin DOMAIN Given(k)
    BY <1>4
  <2>5. l + 1 \in Nat \ {0} /\ k = Len(base) + 1
    BY <1>1, <1>4
  <2> QED
    BY <1>1, <1>2, <2>1, <2>3, <2>4, <2>5, BaseStays
<1>7. CASE entry.kind # "no text"
  <2>1. next'[1] = k /\ next'[2] = n + 1
    BY <1>2, <1>7
  <2>2. FormatRead(headers', k, n + 1)
    <3>1. CASE entry.kind = "no object"
      <4>1. \A i \in Texts(k) : i \in Nat /\ ~(n <= i /\ i < n + 1)
        <5>1. n \notin Texts(k)
          BY <3>1 DEF Texts
        <5> QED
          BY <1>4, <1>5, <5>1
      <4> QED
        <5>1. headers' = headers
          BY <1>2, <3>1
        <5>2. n \in Nat /\ n + 1 \in Nat /\ n <= n + 1
          OBVIOUS
        <5> QED
          BY <1>3, <4>1, <5>1, <5>2, NoTextStep
    <3>2. CASE entry.kind # "no object"
      <4>1. n \in Texts(k)
        <5>1. \A j \in 1 .. n : j = n \/ j \in 1 .. n - 1
          OBVIOUS
        <5> QED
          BY <1>1, <1>3, <1>7, <3>2, <5>1 DEF Texts
      <4>2. AddHeader(Bytes(k, n), Place(k, n))
        BY <1>2, <1>7, <3>2
      <4> QED
        BY <1>3, <4>1, <4>2, TextStep
    <3> QED
      BY <3>1, <3>2
  <2>3. \A j \in 1 .. (n + 1) - 1 : Given(k)[j].kind # "no text"
    <3>1. \A j \in 1 .. (n + 1) - 1 : j = n \/ j \in 1 .. n - 1
      OBVIOUS
    <3> QED
      BY <1>3, <1>7, <3>1
  <2>4. n + 1 \in Nat \ {0}
    OBVIOUS
  <2> QED
    BY <1>1, <1>2, <2>1, <2>2, <2>3, <2>4, BaseStays
<1> QED
  BY <1>6, <1>7

LEMMA AddFileFormatStep ==
  ASSUME HeadersInv, AddFileFormat
  PROVE  HeadersInv'
<1>1. PICK k \in DOMAIN source.formats, n \in Nat \ {0} :
        /\ k = next[1] /\ n = next[2] /\ n \notin DOMAIN Given(k) /\ pc = "load"
        /\ k = Len(base) + 1
  BY DEF HeadersInv, AddFileFormat, format, Given
<1> DEFINE f == [algorithm |-> source.formats[k].algorithm, headers |-> headers]
           l == Len(Given(k))
<1>2. base' = Append(base, f) /\ headers' = <<>> /\ next' = <<k + 1, 1>>
      /\ source' = source /\ pc' = "load"
  BY <1>1 DEF AddFileFormat, format
<1>3. /\ source \in Images /\ FormatRead(headers, k, n)
      /\ base \in Seq([algorithm : STRING, headers : Seq(Header)])
      /\ \A j \in DOMAIN base :
           j \in DOMAIN source.formats /\ FormatRead(base[j].headers, j, Len(Given(j)) + 1)
  BY <1>1 DEF HeadersInv, FormatInv
<1>4. l \in Nat /\ DOMAIN Given(k) = 1 .. l /\ Texts(k) \subseteq 1 .. l
  BY <1>3, TextIs DEF Texts
<1>5. f \in [algorithm : STRING, headers : Seq(Header)] /\ f.headers = headers
  <2> DEFINE T == [algorithm : STRING, header : Seq(Entry)]
  <2>1. \A u \in T : u.algorithm \in STRING
    OBVIOUS
  <2>2. source.formats \in Seq(T)
    BY <1>3, SignaturesAssumption
  <2> HIDE DEF T
  <2>3. source.formats[k] \in T
    BY <2>2
  <2>4. headers \in Seq(Header)
    BY <1>3 DEF FormatRead
  <2> QED
    BY <2>1, <2>3, <2>4
<1> HIDE DEF l
<1>6. FormatRead(f.headers, k, l + 1)
  <2>1. n > l
    BY <1>1, <1>4
  <2>2. Before(k, n) = Before(k, l + 1)
    BY <1>4, <2>1 DEF Before
  <2> QED
    BY <1>3, <1>5, <2>2 DEF FormatRead, IsGiven
<1> HIDE DEF f
<1> DEFINE T == [algorithm : STRING, headers : Seq(Header)]
<1>7. base \in Seq(T) /\ f \in T
  BY <1>3, <1>5
<1> HIDE DEF T
<1>8. /\ base' \in Seq(T) /\ Len(base') = Len(base) + 1
      /\ DOMAIN base = 1 .. Len(base) /\ DOMAIN base' = 1 .. Len(base) + 1 /\ Len(base) \in Nat
      /\ base'[Len(base) + 1] = f /\ \A j \in 1 .. Len(base) : base'[j] = base[j]
  BY <1>2, <1>7
<1>9. \A j \in DOMAIN base' :
        j \in DOMAIN source.formats /\ FormatRead(base'[j].headers, j, Len(Given(j)) + 1)
  <2> SUFFICES ASSUME NEW j \in 1 .. Len(base) + 1
               PROVE  j \in DOMAIN source.formats
                      /\ FormatRead(base'[j].headers, j, Len(Given(j)) + 1)
    BY <1>8
  <2>1. CASE j = Len(base) + 1
    BY <1>1, <1>6, <1>8, <2>1 DEF l
  <2>2. CASE j # Len(base) + 1
    <3>1. j \in DOMAIN base /\ base'[j] = base[j]
      BY <1>8, <2>2
    <3> QED
      BY <1>3, <3>1
  <2> QED
    BY <2>1, <2>2
<1>10. next'[1] = Len(base') + 1 /\ next'[2] = 1
  BY <1>1, <1>2, <1>8
<1>11. k + 1 \in DOMAIN source.formats =>
         FormatRead(<<>>, k + 1, 1) /\ \A j \in 1 .. 1 - 1 : Given(k + 1)[j].kind # "no text"
  BY <1>3, NothingRead
<1>12. next'[1] \in DOMAIN source'.formats => FormatInv(next[1], next[2])'
  <2>1. next'[1] = k + 1 /\ next'[2] = 1
    BY <1>2
  <2>2. /\ \A j : Given(j)' = Given(j)
        /\ \A hs, j, m : FormatRead(hs, j, m)' <=> FormatRead(hs, j, m)
    BY <1>2, FilesStay
  <2> SUFFICES ASSUME k + 1 \in DOMAIN source.formats PROVE FormatInv(next[1], next[2])'
    BY <1>2, <2>1
  <2>3. FormatRead(headers, next[1], next[2])'
    BY <1>2, <1>11, <2>1, <2>2
  <2>4. ~(\E j \in 1 .. 1 - 1 : TRUE)
    OBVIOUS
  <2> QED
    BY <2>1, <2>3, <2>4 DEF FormatInv
<1>13. (\A j \in DOMAIN base :
          j \in DOMAIN source.formats /\ FormatRead(base[j].headers, j, Len(Given(j)) + 1))'
  <2>1. /\ \A j : Given(j)' = Given(j)
        /\ \A hs, j, m : FormatRead(hs, j, m)' <=> FormatRead(hs, j, m)
    BY <1>2, FilesStay
  <2>2. \A j \in DOMAIN base' :
          /\ j \in DOMAIN source'.formats
          /\ FormatRead(base[j].headers, j, Len(Given(j)) + 1)'
    BY <1>2, <1>9, <2>1
  <2> QED
    BY <2>2
<1> QED
  BY <1>2, <1>3, <1>8, <1>10, <1>12, <1>13 DEF HeadersInv, T

LEMMA HeadersInvNext == HeadersInv /\ [Next]_vars => HeadersInv'
<1> SUFFICES ASSUME HeadersInv, [Next]_vars PROVE HeadersInv'
  OBVIOUS
<1>1. CASE ReadEntry
  BY <1>1, ReadEntryStep
<1>2. CASE AddFileFormat
  BY <1>2, AddFileFormatStep
<1>3. CASE source' = source /\ base' = base /\ pc' # "load"
  BY <1>3, BaseStays
<1>4. CASE UNCHANGED vars
  <2>1. source' = source /\ base' = base /\ pc' = pc /\ next' = next /\ headers' = headers
    BY <1>4 DEF vars, sigVars
  <2>2. pc = "load" =>
          /\ next[1] = Len(base) + 1 /\ next[2] \in Nat \ {0}
          /\ IF next[1] \in DOMAIN source.formats THEN FormatInv(next[1], next[2])
             ELSE headers = <<>>
    BY DEF HeadersInv
  <2> QED
    BY <2>1, <2>2, BaseStays DEF FormatInv
<1>5. CASE Find
  <2>1. source' = source /\ base' = base /\ pc' # "load"
    BY <1>5 DEF Find
  <2> QED
    BY <1>3, <2>1
<1>6. CASE \/ SpecifyBySize \/ SaveBySize \/ PlnBegin \/ WalkChunk \/ SaveChunks
           \/ PrprojBegin \/ FindNulls \/ SaveProject \/ SpecifyOther
           \/ ZoomBegin \/ ZoomTurn \/ ZoomEnd
  <2>1. source' = source /\ base' = base /\ pc' # "load"
    BY <1>6 DEF SpecifyBySize, SaveBySize, PlnBegin, WalkChunk, SaveChunks, PrprojBegin,
      FindNulls, SaveProject, SpecifyOther, ZoomBegin, ZoomTurn, ZoomEnd, BothTracks,
      At, Throws, Becomes, Return, walkVars
  <2> QED
    BY <1>3, <2>1
<1> QED
  BY <1>1, <1>2, <1>4, <1>5, <1>6 DEF Next, SigNext

\* Whatever the signature files say, a block is taken for a file of a format only if
\* it has one of the texts at each of its offsets, and it is if no text is doubtful
\* (filestruct.h, HeaderBase; libjsonreader).
THEOREM BlocksAreRecognised == Spec => []HeadersRecognised
<1>1. HeadersInv => HeadersRecognised
  BY RecognisedIs DEF HeadersInv, HeadersRecognised
<1> QED
  BY <1>1, HeadersInvInit, HeadersInvNext, PTL DEF Spec

=============================================================================
