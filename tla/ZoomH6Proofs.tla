---------------------------- MODULE ZoomH6Proofs ----------------------------
(***************************************************************************)
(* Proofs about ZoomH6, for every device, cluster size and number of       *)
(* tracks: each cluster goes to the track whose turn it is, and a save     *)
(* that returns is complete.                                               *)
(*                                                                         *)
(* The invariant counts rounds: after r of them each track has r clusters, *)
(* or one more if its turn of the running round is over, each of them full *)
(* but the last of a track, and the position is behind them all.  A track  *)
(* so large that the sums of WriteBlock wrap gets whole clusters for ever; *)
(* one of them is never ready, so that the save cannot return.             *)
(***************************************************************************)
EXTENDS ZoomH6, TLAPS, WellFoundedInduction

\* A track that has been given c clusters, each of which found it not full; and
\* one so large that the sum of WriteBlock wraps before it is full.
Full(t, c) ==
  /\ Len(t.content) = Smaller(c * BlockSize, t.size)
  /\ (c - 1) * BlockSize < t.size
  /\ t.bReady_ <=> Len(t.content) = t.size
Past(t, c) ==
  /\ Len(t.content) = c * BlockSize
  /\ t.bReady_ <=> ~NeverReady(t) /\ c * BlockSize >= t.size
Holds(t, c) == IF t.size < Limit THEN Full(t, c) ELSE Past(t, c)
Given(k, c) == Holds(files[k], c)

\* A track is written past its size only while another one is never ready.
NoOverrun ==
  (\A k \in DOMAIN files : ~NeverReady(files[k])) =>
    \A k \in DOMAIN files : Len(files[k].content) <= files[k].size

\* Every track has had its first cluster.
Created ==
  /\ position = start + Len(files) * BlockSize
  /\ \A k \in DOMAIN files : Given(k, 1)

\* r rounds are over, and the tracks before fileCounter have had their cluster
\* of the next one.
Turns(k, r) == IF k < fileCounter THEN r + 1 ELSE r
Dealt(r) ==
  /\ files # <<>> => fileCounter <= Len(files)
  /\ position = start + (r * Len(files) + fileCounter - 1) * BlockSize
  /\ \A k \in DOMAIN files : Given(k, Turns(k, r))

RoundsInv ==
  /\ source \in Sources
  /\ pc \in {"execute", "measure"} => files = <<>>
  /\ pc \in {"execute", "measure", "create"} => fileCounter = 1
  /\ pc = "measure" => position = start
  /\ pc = "create" => Created
  /\ pc = "save" => NoOverrun /\ \E r \in Nat \ {0} : Dealt(r)

IInv == WholeOrThrown /\ TracksAreDealt /\ RoundsInv

-----------------------------------------------------------------------------
(* Arithmetic                                                              *)

\* A set of numbers that is not empty has a least one.
LessThan == {ss \in Nat \X Nat : ss[1] < ss[2]}

\* A set of numbers that is not empty has a least one.
LEMMA LeastElement ==
  ASSUME NEW S \in SUBSET Nat, S # {}
  PROVE  \E m \in S : \A n \in S : m <= n
<1>1. OpToRel(<, Nat) = LessThan
  BY Zenon DEF OpToRel, LessThan
<1>2. IsWellFoundedOn(LessThan, Nat)
  BY <1>1, NatLessThanWellFounded, Zenon
<1>3. \E m \in S : \A n \in S : <<n, m>> \notin LessThan
  BY <1>2, WFMin
<1>4. PICK m \in S : \A n \in S : <<n, m>> \notin LessThan
  BY <1>3
<1>5. ASSUME NEW n \in S PROVE m <= n
  <2>1. <<n, m>> \in Nat \X Nat /\ ~(n < m)
    BY <1>4 DEF LessThan
  <2> QED
    BY <2>1
<1> QED
  BY <1>5

\* What the quotient and the remainder of natural numbers are.
LEMMA Division ==
  ASSUME NEW a \in Nat, NEW b \in Nat \ {0}
  PROVE  a \div b \in Nat /\ a % b \in 0 .. b - 1 /\ a = b * (a \div b) + (a % b)
OBVIOUS

\* Of two numbers the smaller one has at least one block less.
LEMMA OneBlockLess ==
  ASSUME NEW m \in Int, NEW n \in Int, NEW b \in Nat \ {0}, m < n
  PROVE  m * b + b <= n * b
OBVIOUS

\* A number written as a multiple of b and a rest has them as its quotient
\* and remainder.
LEMMA Quotient ==
  ASSUME NEW b \in Nat \ {0}, NEW q \in Nat, NEW j \in 0 .. b - 1
  PROVE  (q * b + j) \div b = q /\ (q * b + j) % b = j
<1> DEFINE a == q * b + j
           d == a \div b
           m == a % b
<1>1. a \in Nat
  OBVIOUS
<1>2. d \in Nat /\ m \in 0 .. b - 1 /\ a = b * d + m
  BY <1>1, Division
<1>3. d * b = b * d
  BY <1>2
<1>4. a = q * b + j
  OBVIOUS
<1> HIDE DEF a, d, m
<1>5. CASE d < q
  BY <1>2, <1>3, <1>4, <1>5, OneBlockLess
<1>6. CASE q < d
  BY <1>2, <1>3, <1>4, <1>6, OneBlockLess
<1> QED
  BY <1>2, <1>3, <1>4, <1>5, <1>6 DEF a, d, m

\* The clusters a track of n cells needs are c when c of them hold it and one
\* less does not.
LEMMA ClustersNeeded ==
  ASSUME NEW b \in Nat \ {0}, NEW c \in Nat, NEW n \in Nat,
         (c - 1) * b < n, n <= c * b
  PROVE  (n + b - 1) \div b = c
<1> DEFINE j == n + b - 1 - c * b
<1>1. c * b \in Nat /\ (c - 1) * b = c * b - b
  OBVIOUS
<1>2. j \in 0 .. b - 1 /\ n + b - 1 = c * b + j
  BY <1>1
<1> HIDE DEF j
<1> QED
  BY <1>2, Quotient

\* More than c clusters are needed for more than c clusters hold.
LEMMA MoreClustersNeeded ==
  ASSUME NEW b \in Nat \ {0}, NEW c \in Nat, NEW n \in Nat, c * b < n
  PROVE  (n + b - 1) \div b > c
<1> DEFINE a == n + b - 1
           d == a \div b
           m == a % b
<1>1. a \in Nat
  OBVIOUS
<1>2. d \in Nat /\ m \in 0 .. b - 1 /\ a = b * d + m
  BY <1>1, Division
<1>3. a = n + b - 1 /\ d * b = b * d
  BY <1>2
<1> HIDE DEF a, d, m
<1>4. CASE d <= c
  <2>1. d * b <= c * b
    BY <1>2, <1>4, OneBlockLess
  <2> QED
    BY <1>2, <1>3, <2>1
<1> QED
  BY <1>2, <1>4 DEF a, d

\* A number that is smaller than a block is in block 0.
LEMMA FirstBlock ==
  ASSUME NEW b \in Nat \ {0}, NEW j \in 0 .. b - 1
  PROVE  j \div b = 0 /\ j % b = j
<1>1. 0 * b + j = j
  OBVIOUS
<1> QED
  BY <1>1, Quotient

-----------------------------------------------------------------------------
(* The counting of headers, and the writing of a cluster                   *)

Track == [size : 0 .. DWord - 1, bReady_ : BOOLEAN, content : Seq(Cell)]

\* The device: its sizes, its cells, and where the tracks begin.
LEMMA StartIsNat ==
  ASSUME source \in Sources
  PROVE  /\ source.header \in Cell
         /\ source.riff \in [Cell -> {NoRiff} \cup 0 .. DWord - 1]
         /\ source.later \subseteq Cell
         /\ Cell \subseteq Nat
         /\ start \in Nat
  BY SizesAssumption, SourcesAssumption DEF start, Cell

\* The first loop stops at the first cluster without a header.
LEMMA HeadersCounted == headers \in 0 .. MAXZOOMFILES
<1> DEFINE Stops == {n \in 0 .. MAXZOOMFILES : n < MAXZOOMFILES => ~IsHeader(n)}
<1>1. MAXZOOMFILES \in Stops /\ Stops \in SUBSET Nat
  BY SizesAssumption
<1>2. PICK n \in Stops : \A m \in Stops : n <= m
  BY <1>1, LeastElement
<1>3. \A k \in 0 .. n - 1 : IsHeader(k)
  BY <1>1, <1>2
<1>4. \E m \in 0 .. MAXZOOMFILES :
        /\ \A k \in 0 .. m - 1 : IsHeader(k)
        /\ m < MAXZOOMFILES => ~IsHeader(m)
  BY <1>2, <1>3
<1> QED
  BY <1>4 DEF headers

\* The distance to the next recording is that of the first one behind start.
LEMMA DistanceIsNat ==
  ASSUME source \in Sources
  PROVE  findAllFilesSize \in Nat
<1>1. CASE found = {}
  BY <1>1 DEF findAllFilesSize
<1>2. CASE found # {}
  <2>1. found \in SUBSET Nat
    BY StartIsNat DEF found
  <2>2. \E a \in found : \A b \in found : a <= b
    BY <1>2, <2>1, LeastElement
  <2>3. next_zoom \in found
    BY <2>2 DEF next_zoom
  <2>4. next_zoom \in Nat /\ next_zoom >= start
    BY <2>1, <2>3 DEF found
  <2> QED
    BY <1>2, <2>4, StartIsNat DEF findAllFilesSize, Distance
<1> QED
  BY <1>1, <1>2

\* What two sequences are, one behind the other.
LEMMA Joined ==
  ASSUME NEW S, NEW s \in Seq(S), NEW t \in Seq(S)
  PROVE  /\ s \o t \in Seq(S) /\ Len(s \o t) = Len(s) + Len(t)
         /\ \A i \in 1 .. Len(s) : (s \o t)[i] = s[i]
         /\ \A i \in 1 .. Len(t) : (s \o t)[Len(s) + i] = t[i]
OBVIOUS

\* 2^32 is a number of clusters, two at least.
LEMMA LimitIs ==
  \E D \in Nat : D >= 2 /\ DWord = D * BlockSize /\ Limit = (D - 1) * BlockSize /\ Limit >= BlockSize
<1>1. BlockSize \in Nat \ {0} /\ DWord \in Nat \ {0} /\ DWord % BlockSize = 0 /\ BlockSize < DWord
  BY SizesAssumption
<1>2. PICK D \in Nat : D = DWord \div BlockSize
  BY <1>1, Division
<1>3. DWord = D * BlockSize
  <2>1. DWord = BlockSize * (DWord \div BlockSize) + (DWord % BlockSize)
    BY <1>1, Division
  <2> QED
    BY <1>1, <1>2, <2>1
<1>4. D # 0 /\ D # 1
  BY <1>1, <1>3
<1>5. (D - 1) * BlockSize = D * BlockSize - BlockSize /\ (D - 1) * BlockSize >= BlockSize
  BY <1>1, <1>4
<1> QED
  BY <1>1, <1>3, <1>4, <1>5 DEF Limit

\* The sizes of a track are numbers.
LEMMA SizesTyped ==
  /\ BlockSize \in Nat \ {0} /\ DWord \in Nat \ {0} /\ Limit \in Nat
  /\ \A t \in Track : t.size \in Nat
  /\ \A c \in Int : c * BlockSize \in Int /\ (c - 1) * BlockSize = c * BlockSize - BlockSize
<1>1. /\ BlockSize \in Nat \ {0} /\ DWord \in Nat \ {0} /\ BlockSize < DWord
  BY SizesAssumption
<1>2. Limit \in Nat
  BY <1>1 DEF Limit
<1>3. \A t \in Track : t.size \in Nat
  BY <1>1 DEF Track
<1>4. \A c \in Int : c * BlockSize \in Int /\ (c - 1) * BlockSize = c * BlockSize - BlockSize
  BY <1>1
<1> QED
  BY <1>1, <1>2, <1>3, <1>4

\* What currentSize_ is of c whole clusters, and what the sum of the next write.
LEMMA CurrentSize ==
  ASSUME NEW c \in Nat, NEW z \in Limit .. DWord - 1
  PROVE  /\ (((c * BlockSize) % DWord) + BlockSize) % DWord <= z
         /\ (c * BlockSize) % DWord = z => z = Limit /\ c * BlockSize >= z
         /\ z = Limit /\ c * BlockSize >= z =>
              (c - 1) * BlockSize >= z \/ (c * BlockSize) % DWord = z
<1>1. PICK D \in Nat : D >= 2 /\ DWord = D * BlockSize /\ Limit = (D - 1) * BlockSize
  BY LimitIs
<1>b. BlockSize \in Nat \ {0} /\ DWord \in Nat \ {0}
  BY SizesAssumption
<1>2. PICK q \in Nat, m \in 0 .. D - 1 : c = q * D + m
  <2>1. D \in Nat \ {0}
    BY <1>1
  <2>2. c \div D \in Nat /\ c % D \in 0 .. D - 1 /\ c = D * (c \div D) + (c % D)
    BY <2>1, Division
  <2>3. PICK q \in Nat, m \in 0 .. D - 1 : q = c \div D /\ m = c % D
    BY <2>2
  <2>4. c = D * q + m /\ D * q = q * D
    BY <2>2, <2>3
  <2> QED
    BY <2>4
<1>3. (c * BlockSize) % DWord = m * BlockSize /\ m * BlockSize \in 0 .. DWord - 1
  <2>1. m * BlockSize \in 0 .. DWord - 1
    <3>1. m * BlockSize + BlockSize <= D * BlockSize /\ m * BlockSize \in Nat
      BY <1>1, <1>b, OneBlockLess
    <3> QED
      BY <1>1, <1>b, <3>1
  <2>2. c * BlockSize = q * DWord + m * BlockSize
    <3>1. (q * D + m) * BlockSize = q * (D * BlockSize) + m * BlockSize
      BY <1>1, <1>b
    <3> QED
      BY <1>1, <1>2, <3>1
  <2> QED
    BY <1>b, <2>1, <2>2, Quotient
<1>4. (((c * BlockSize) % DWord) + BlockSize) % DWord <= Limit
  <2>1. CASE m = D - 1
    <3>1. m * BlockSize + BlockSize = DWord
      BY <1>1, <1>b, <2>1
    <3>2. DWord % DWord = 0
      <4>1. 1 * DWord + 0 = DWord /\ 0 \in 0 .. DWord - 1
        BY <1>b
      <4> QED
        BY <1>b, <4>1, Quotient
    <3>3. Limit >= 0
      BY <1>1, <1>b
    <3> QED
      BY <1>3, <3>1, <3>2, <3>3
  <2>2. CASE m < D - 1
    <3>1. m * BlockSize + BlockSize <= (D - 1) * BlockSize
      BY <1>1, <1>b, <2>2, OneBlockLess
    <3>2. PICK x \in Nat : x = m * BlockSize + BlockSize
      BY <1>3, <1>b
    <3>3. x <= Limit /\ x < DWord
      BY <1>1, <1>b, <3>1, <3>2 DEF Limit
    <3>4. x % DWord = x
      BY <1>b, <3>3
    <3> QED
      BY <1>3, <3>2, <3>3, <3>4
  <2> QED
    BY <1>1, <2>1, <2>2
<1>l. Limit \in Nat
  BY <1>1, <1>b
<1>5. (((c * BlockSize) % DWord) + BlockSize) % DWord \in Nat
  <2>1. m * BlockSize + BlockSize \in Nat
    BY <1>3, <1>b
  <2>2. (m * BlockSize + BlockSize) % DWord \in Nat
    BY <1>b, <2>1
  <2> QED
    BY <1>3, <2>2
<1>6. (((c * BlockSize) % DWord) + BlockSize) % DWord <= z
  BY <1>4, <1>5, <1>l
<1>7. ASSUME (c * BlockSize) % DWord = z PROVE z = Limit /\ c * BlockSize >= z
  <2>1. m * BlockSize <= (D - 1) * BlockSize
    BY <1>b, <1>1
  <2>2. z = Limit
    BY <1>1, <1>3, <1>7, <1>l, <2>1
  <2>3. c * BlockSize \in Nat
    BY <1>b
  <2>4. c * BlockSize = DWord * ((c * BlockSize) \div DWord) + z /\ (c * BlockSize) \div DWord \in Nat
    BY <1>7, <1>b, <2>3, Division
  <2>5. PICK x \in Nat : x = (c * BlockSize) \div DWord
    BY <2>4
  <2>6. DWord * x \in Nat
    BY <1>b
  <2>7. c * BlockSize = DWord * x + z
    BY <2>4, <2>5
  <2> QED
    BY <1>l, <2>2, <2>6, <2>7
<1>8. ASSUME z = Limit, c * BlockSize >= z, ~((c - 1) * BlockSize >= z)
      PROVE  (c * BlockSize) % DWord = z
  <2>1. c >= D - 1
    <3> SUFFICES ASSUME c < D - 1 PROVE FALSE
      BY <1>1
    <3>1. c * BlockSize + BlockSize <= (D - 1) * BlockSize
      BY <1>1, <1>b, OneBlockLess
    <3> QED
      BY <1>1, <1>8, <1>b, <3>1
  <2>2. ~(c - 1 >= D - 1)
    <3> SUFFICES ASSUME c - 1 >= D - 1 PROVE FALSE
      OBVIOUS
    <3>1. (c - 1) * BlockSize >= (D - 1) * BlockSize
      BY <1>1, <1>b
    <3> QED
      BY <1>1, <1>8, <3>1
  <2>3. c = D - 1
    BY <1>1, <2>1, <2>2
  <2>4. c * BlockSize = z /\ z < DWord /\ z \in Nat
    BY <1>1, <1>8, <1>l, <2>3
  <2>5. z % DWord = z
    BY <1>b, <2>4
  <2> QED
    BY <2>4, <2>5
<1> QED
  BY <1>6, <1>7, <1>8

\* A write takes the whole cluster, or what the track lacks.
LEMMA WriteSize ==
  ASSUME NEW t \in Track, NEW c \in Nat, Holds(t, c)
  PROVE  LET w == ToWrite(t)
             l == Len(t.content)
         IN /\ w \in 0 .. BlockSize
            /\ t.size < Limit => /\ l <= t.size /\ (w = 0 <=> l = t.size)
                                 /\ w # 0 => l = c * BlockSize
                                 /\ l + w = Smaller(l + BlockSize, t.size)
            /\ ~(t.size < Limit) => w = BlockSize /\ l = c * BlockSize
<1> DEFINE w == ToWrite(t)
<1>b. BlockSize \in Nat \ {0} /\ DWord \in Nat \ {0} /\ Limit \in Nat /\ Limit = DWord - BlockSize
  BY SizesAssumption DEF Limit
<1>1. PICK l \in Nat, z \in 0 .. DWord - 1 : l = Len(t.content) /\ z = t.size
  <2>1. t.content \in Seq(Cell) /\ t.size \in 0 .. DWord - 1
    BY DEF Track
  <2>2. Len(t.content) \in Nat
    BY <2>1
  <2> QED
    BY <2>1, <2>2
<1>e. PICK e \in Nat : e = c * BlockSize /\ (c - 1) * BlockSize = e - BlockSize
  <2>1. c * BlockSize \in Nat /\ (c - 1) * BlockSize = c * BlockSize - BlockSize
    BY <1>b
  <2> QED
    BY <2>1
<1>w. w = IF ((l % DWord) + BlockSize) % DWord > z THEN z - (l % DWord) ELSE BlockSize
  BY <1>1 DEF ToWrite, currentSize_
<1> HIDE DEF w
<1>2. CASE z < Limit
  <2>1. l = Smaller(e, z) /\ e - BlockSize < z
    BY <1>1, <1>2, <1>e DEF Holds, Full
  <2>2. l <= z /\ l + BlockSize < DWord
    BY <1>2, <1>b, <2>1 DEF Smaller
  <2>3. \A x \in Nat : x < DWord => x % DWord = x
    BY <1>b
  <2>4. l % DWord = l /\ (l + BlockSize) % DWord = l + BlockSize
    <3>1. l + BlockSize \in Nat /\ l < DWord
      BY <1>b, <2>2
    <3> QED
      BY <2>2, <2>3, <3>1
  <2>5. w = IF l + BlockSize > z THEN z - l ELSE BlockSize
    BY <1>w, <2>4
  <2>6. w \in 0 .. BlockSize /\ (w = 0 <=> l = z) /\ (w # 0 => l = e) /\ l + w = Smaller(l + BlockSize, z)
    BY <1>b, <2>1, <2>2, <2>5 DEF Smaller
  <2> QED
    BY <1>1, <1>2, <1>e, <2>2, <2>6 DEF w
<1>3. CASE ~(z < Limit)
  <2>1. l = e
    BY <1>1, <1>3, <1>e DEF Holds, Past
  <2>2. z \in Limit .. DWord - 1
    BY <1>3, <1>b
  <2>3. ((l % DWord) + BlockSize) % DWord <= z
    BY <1>e, <2>1, <2>2, CurrentSize
  <2>4. ((l % DWord) + BlockSize) % DWord \in Nat
    <3>1. l % DWord \in Nat
      BY <1>b
    <3>2. PICK x \in Nat : x = (l % DWord) + BlockSize
      BY <1>b, <3>1
    <3>3. x % DWord \in Nat
      BY <1>b
    <3> QED
      BY <3>2, <3>3
  <2>5. w = BlockSize
    BY <1>w, <2>3, <2>4
  <2> QED
    BY <1>1, <1>3, <1>b, <1>e, <2>1, <2>5 DEF w
<1> QED
  BY <1>2, <1>3

\* What a written track is: the cluster's cells behind those that are there.
LEMMA BlockWritten ==
  ASSUME NEW t \in Track, ToWrite(t) \in 0 .. BlockSize, NEW p \in Nat, p + BlockSize <= Size
  PROVE  LET w == ToWrite(t)
             u == WriteBlock(t, p)
         IN /\ u \in Track
            /\ u.size = t.size
            /\ Len(u.content) = Len(t.content) + w
            /\ u.bReady_ <=> t.bReady_ \/ Len(u.content) % DWord = t.size
            /\ \A i \in 1 .. Len(t.content) : u.content[i] = t.content[i]
            /\ \A j \in 1 .. w : u.content[Len(t.content) + j] = p + j - 1
<1> DEFINE w == ToWrite(t)
           u == WriteBlock(t, p)
           s == [i \in 1 .. w |-> p + i - 1]
           d == t.content \o s
           v == t.bReady_ \/ Len(d) % DWord = t.size
<1>1. \A i \in 1 .. w : p + i - 1 \in Cell
  BY SizesAssumption DEF Cell
<1>2. s \in Seq(Cell) /\ Len(s) = w /\ \A j \in 1 .. w : s[j] = p + j - 1
  <2> HIDE DEF w
  <2>1. w \in Nat
    BY SizesAssumption DEF w
  <2> QED
    BY <1>1, <2>1
<1>3. Written(t, p) = [size |-> t.size, bReady_ |-> t.bReady_, content |-> d]
  <2>1. Written(t, p) = [t EXCEPT !.content = d]
    BY Zenon DEF Written
  <2> HIDE DEF d
  <2> QED
    BY <2>1 DEF Track
<1>4. u = [size |-> t.size, bReady_ |-> v, content |-> d]
  <2> DEFINE x == Written(t, p)
  <2>1. u = [x EXCEPT !.bReady_ = x.bReady_ \/ currentSize_(x) = t.size]
    BY Zenon DEF WriteBlock
  <2>2. x = [size |-> t.size, bReady_ |-> t.bReady_, content |-> d]
    BY <1>3
  <2> HIDE DEF x, d, u, v
  <2>3. x.bReady_ = t.bReady_ /\ currentSize_(x) = Len(d) % DWord
    BY <2>2 DEF currentSize_
  <2>4. u = [x EXCEPT !.bReady_ = v]
    BY <2>1, <2>3, Zenon DEF v
  <2> QED
    BY <2>2, <2>4
<1>5. /\ d \in Seq(Cell)
      /\ Len(d) = Len(t.content) + w
      /\ \A i \in 1 .. Len(t.content) : d[i] = t.content[i]
      /\ \A j \in 1 .. w : d[Len(t.content) + j] = p + j - 1
  <2> DEFINE c == t.content
  <2>1. c \in Seq(Cell)
    BY DEF Track
  <2> HIDE DEF c, s, w
  <2>2. /\ c \o s \in Seq(Cell)
        /\ Len(c \o s) = Len(c) + Len(s)
        /\ \A i \in 1 .. Len(c) : (c \o s)[i] = c[i]
        /\ \A j \in 1 .. Len(s) : (c \o s)[Len(c) + j] = s[j]
    <3>1. s \in Seq(Cell)
      BY <1>2
    <3> QED
      BY <2>1, <3>1, Joined
  <2> QED
    BY <1>2, <2>2 DEF c
<1> HIDE DEF w, u, s, d, v
<1>6. v \in BOOLEAN /\ t.size \in 0 .. DWord - 1
  BY DEF v, Track
<1>7. u \in Track /\ u.size = t.size /\ u.content = d /\ u.bReady_ = v
  BY <1>4, <1>5, <1>6 DEF Track
<1>8. u.bReady_ <=> t.bReady_ \/ Len(u.content) % DWord = t.size
  BY <1>7 DEF v
<1> QED
  BY <1>5, <1>7, <1>8 DEF w, u

\* A track that is written has one cluster more.
LEMMA ClusterWritten ==
  ASSUME NEW t \in Track, NEW c \in Nat, Holds(t, c),
         NEW p \in Nat, p + BlockSize <= Size
  PROVE  LET w == ToWrite(t)
             u == WriteBlock(t, p)
         IN /\ w \in 0 .. BlockSize
            /\ w = 0 <=> t.size < Limit /\ Len(t.content) = t.size
            /\ u \in Track
            /\ u.size = t.size
            /\ Len(u.content) = Len(t.content) + w
            /\ w # 0 => Len(t.content) = c * BlockSize /\ Holds(u, c + 1)
            /\ \A i \in 1 .. Len(t.content) : u.content[i] = t.content[i]
            /\ \A j \in 1 .. w : u.content[Len(t.content) + j] = p + j - 1
<1> DEFINE w == ToWrite(t)
           u == WriteBlock(t, p)
<1>b. BlockSize \in Nat \ {0} /\ DWord \in Nat \ {0} /\ Limit \in Nat /\ Limit = DWord - BlockSize
  BY SizesAssumption DEF Limit
<1>1. PICK l \in Nat, z \in 0 .. DWord - 1 : l = Len(t.content) /\ z = t.size
  <2>1. t.content \in Seq(Cell) /\ t.size \in 0 .. DWord - 1
    BY DEF Track
  <2>2. Len(t.content) \in Nat
    BY <2>1
  <2> QED
    BY <2>1, <2>2
<1>e. PICK e \in Nat : e = c * BlockSize /\ (c - 1) * BlockSize = e - BlockSize
                       /\ (c + 1) * BlockSize = e + BlockSize
  <2>1. /\ c * BlockSize \in Nat /\ (c - 1) * BlockSize = c * BlockSize - BlockSize
        /\ (c + 1) * BlockSize = c * BlockSize + BlockSize
    BY <1>b
  <2> QED
    BY <2>1
<1>2. /\ w \in 0 .. BlockSize
      /\ z < Limit => l <= z /\ (w = 0 <=> l = z) /\ (w # 0 => l = e) /\ l + w = Smaller(l + BlockSize, z)
      /\ ~(z < Limit) => w = BlockSize /\ l = e
  BY <1>1, <1>e, WriteSize
<1>3. /\ u \in Track /\ u.size = t.size /\ Len(u.content) = Len(t.content) + w
      /\ u.bReady_ <=> t.bReady_ \/ Len(u.content) % DWord = t.size
      /\ \A i \in 1 .. Len(t.content) : u.content[i] = t.content[i]
      /\ \A j \in 1 .. w : u.content[Len(t.content) + j] = p + j - 1
  BY <1>2, BlockWritten
<1> HIDE DEF w, u
<1>4. w = 0 <=> z < Limit /\ l = z
  BY <1>b, <1>2
<1>5. ASSUME w # 0 PROVE l = e /\ Holds(u, c + 1)
  <2>1. CASE z < Limit
    <3>1. l = e /\ l + w = Smaller(l + BlockSize, z) /\ l < z /\ c + 1 - 1 = c
      BY <1>2, <1>5, <2>1
    <3>2. Len(u.content) = Smaller(e + BlockSize, z) /\ Len(u.content) \in Nat /\ Len(u.content) < DWord
      BY <1>1, <1>2, <1>3, <1>b, <2>1, <3>1 DEF Smaller
    <3>3. Len(u.content) % DWord = Len(u.content)
      BY <1>b, <3>2
    <3>4. ~t.bReady_
      BY <1>1, <2>1, <3>1 DEF Holds, Full
    <3>5. u.bReady_ <=> Len(u.content) = z
      BY <1>1, <1>3, <3>3, <3>4
    <3>6. e < z
      BY <3>1
    <3>7. Full(u, c + 1)
      BY <1>1, <1>3, <1>e, <3>1, <3>2, <3>5, <3>6 DEF Full
    <3> QED
      BY <1>1, <1>3, <2>1, <3>1, <3>7 DEF Holds
  <2>2. CASE ~(z < Limit)
    <3>a. l = e /\ w = BlockSize
      BY <1>2, <2>2
    <3>b. Len(u.content) = e + BlockSize
      BY <1>1, <1>3, <3>a
    <3>c. z \in Limit .. DWord - 1
      BY <1>b, <2>2
    <3>1. l = e /\ Len(u.content) = e + BlockSize /\ z \in Limit .. DWord - 1
      BY <3>a, <3>b, <3>c
    <3>2. t.bReady_ <=> z <= Limit /\ e >= z
      BY <1>1, <1>b, <1>e, <2>2 DEF Holds, Past, NeverReady
    <3>3. /\ (e + BlockSize) % DWord = z => z = Limit /\ e + BlockSize >= z
          /\ z = Limit /\ e + BlockSize >= z => e >= z \/ (e + BlockSize) % DWord = z
      <4>1. c + 1 \in Nat /\ c + 1 - 1 = c
        OBVIOUS
      <4> QED
        BY <1>e, <3>1, <4>1, CurrentSize
    <3>4. u.bReady_ <=> z <= Limit /\ e + BlockSize >= z
      <4>1. u.bReady_ <=> t.bReady_ \/ (e + BlockSize) % DWord = z
        BY <1>1, <1>3, <3>1
      <4>2. z >= Limit /\ z \in Nat
        BY <3>1, <1>b
      <4> QED
        BY <1>b, <3>2, <3>3, <4>1, <4>2
    <3>5. Past(u, c + 1)
      BY <1>1, <1>3, <1>b, <1>e, <3>1, <3>4 DEF Past, NeverReady
    <3> QED
      BY <1>1, <1>3, <2>2, <3>1, <3>5 DEF Holds
  <2> QED
    BY <2>1, <2>2
<1> QED
  BY <1>1, <1>2, <1>3, <1>4, <1>5, <1>e DEF w, u

-----------------------------------------------------------------------------
(* Steps that change the tracks                                            *)

\* What a track must hold, for N tracks of which it is the k-th.
DealtTo(k, t, N) ==
  \A i \in DOMAIN t.content :
    t.content[i] = start + (N * ((i - 1) \div BlockSize) + k - 1) * BlockSize
                         + ((i - 1) % BlockSize)

\* TracksAreDealt, track by track.
LEMMA TracksAreTheirs == TracksAreDealt <=> \A k \in DOMAIN files : DealtTo(k, files[k], Len(files))
BY DEF TracksAreDealt, DealtTo

\* With one cluster in a track it does not matter how many tracks there are.
LEMMA OneClusterIsDealt ==
  ASSUME NEW t \in Track, Len(t.content) <= BlockSize, NEW k \in Nat, NEW N \in Nat,
         start \in Nat,
         \A i \in 1 .. Len(t.content) : t.content[i] = start + (k - 1) * BlockSize + i - 1
  PROVE  DealtTo(k, t, N)
<1> SUFFICES ASSUME NEW i \in DOMAIN t.content
             PROVE  t.content[i] = start + (N * ((i - 1) \div BlockSize) + k - 1) * BlockSize
                                         + ((i - 1) % BlockSize)
  BY DEF DealtTo
<1>1. i \in 1 .. Len(t.content) /\ i - 1 \in 0 .. BlockSize - 1
  <2>1. t.content \in Seq(Cell)
    BY DEF Track
  <2>2. i \in 1 .. Len(t.content) /\ Len(t.content) \in Nat /\ BlockSize \in Nat
    BY <2>1, SizesAssumption
  <2> QED
    BY <2>2
<1>2. (i - 1) \div BlockSize = 0 /\ (i - 1) % BlockSize = i - 1
  BY <1>1, FirstBlock, SizesAssumption
<1>3. (N * ((i - 1) \div BlockSize) + k - 1) * BlockSize = (k - 1) * BlockSize
  BY <1>2
<1> HIDE DEF Track
<1>4. (k - 1) * BlockSize \in Int
  BY SizesAssumption
<1> QED
  BY <1>1, <1>2, <1>3, <1>4

\* A track of r clusters that is not full takes the next one.
LEMMA NextClusterIsDealt ==
  ASSUME NEW t \in Track, NEW k \in Nat, NEW N \in Nat, NEW r \in Nat,
         start \in Nat, position + BlockSize <= Size, ToWrite(t) # 0,
         position = start + (N * r + k - 1) * BlockSize, position \in Nat,
         Holds(t, r), DealtTo(k, t, N)
  PROVE  LET u == WriteBlock(t, position)
         IN u \in Track /\ u.size = t.size /\ Holds(u, r + 1) /\ DealtTo(k, u, N)
<1> DEFINE u == WriteBlock(t, position)
           w == ToWrite(t)
           l == Len(t.content)
<1>1. /\ w \in 0 .. BlockSize
      /\ u \in Track
      /\ u.size = t.size
      /\ Len(u.content) = l + w
      /\ l = r * BlockSize /\ Holds(u, r + 1)
      /\ \A i \in 1 .. l : u.content[i] = t.content[i]
      /\ \A j \in 1 .. w : u.content[l + j] = position + j - 1
  BY ClusterWritten
<1>b. BlockSize \in Nat \ {0} /\ DWord \in Nat
  BY SizesAssumption
<1>2. l \in Nat /\ DOMAIN t.content = 1 .. l /\ DOMAIN u.content = 1 .. l + w
  <2>1. t.content \in Seq(Cell) /\ u.content \in Seq(Cell)
    BY <1>1 DEF Track
  <2> HIDE DEF u, w
  <2>2. DOMAIN u.content = 1 .. Len(u.content)
    BY <2>1
  <2> QED
    BY <1>1, <2>1, <2>2
<1> HIDE DEF u, w, l
<1>3. ASSUME NEW i \in DOMAIN u.content
      PROVE  u.content[i] = start + (N * ((i - 1) \div BlockSize) + k - 1) * BlockSize
                                  + ((i - 1) % BlockSize)
  <2>1. CASE i \in 1 .. l
    BY <1>1, <1>2, <2>1 DEF DealtTo
  <2>2. CASE i \notin 1 .. l
    <3> DEFINE j == i - l
    <3>1. j \in 1 .. w /\ i = l + j
      BY <1>1, <1>2, <2>2
    <3> HIDE DEF j
    <3>2. u.content[i] = position + (j - 1) /\ j - 1 \in 0 .. BlockSize - 1
      <4>1. u.content[l + j] = position + j - 1
        BY <1>1, <3>1, Zenon
      <4>2. w <= BlockSize /\ w \in Nat /\ j \in Nat
        BY <1>1, <1>b, <3>1
      <4> QED
        BY <1>b, <3>1, <4>1, <4>2
    <3>3. i - 1 = r * BlockSize + (j - 1)
      BY <1>1, <1>2, <3>1
    <3>4. (i - 1) \div BlockSize = r /\ (i - 1) % BlockSize = j - 1
      <4>1. PICK m \in 0 .. BlockSize - 1 : m = j - 1
        BY <3>2
      <4>2. (r * BlockSize + m) \div BlockSize = r /\ (r * BlockSize + m) % BlockSize = m
        BY <1>b, Quotient
      <4>3. i - 1 = r * BlockSize + m
        BY <3>3, <4>1
      <4> QED
        BY <4>1, <4>2, <4>3
    <3> QED
      BY <3>2, <3>4
  <2> QED
    BY <2>1, <2>2
<1>4. DealtTo(k, u, N)
  BY <1>3 DEF DealtTo
<1> QED
  BY <1>1, <1>4 DEF u

\* A track of one cluster is within its size.
LEMMA FirstClusterFits ==
  ASSUME NEW t \in Track, Holds(t, 1)
  PROVE  Len(t.content) <= t.size /\ Len(t.content) <= BlockSize
<1>1. t.size \in Nat /\ BlockSize \in Nat \ {0} /\ 1 * BlockSize = BlockSize /\ Limit >= BlockSize
      /\ Limit \in Nat
  <2>1. t.size \in Nat /\ BlockSize \in Nat \ {0}
    BY SizesAssumption DEF Track
  <2>2. Limit >= BlockSize
    BY LimitIs
  <2>3. Limit \in Nat
    BY SizesAssumption DEF Limit
  <2> QED
    BY <2>1, <2>2, <2>3
<1>2. CASE t.size < Limit
  BY <1>1, <1>2 DEF Holds, Full, Smaller
<1>3. CASE ~(t.size < Limit)
  BY <1>1, <1>3 DEF Holds, Past
<1> QED
  BY <1>2, <1>3

-----------------------------------------------------------------------------
(* The invariant is inductive                                              *)

\* A new Execute has no track yet.
LEMMA InitIInv == Init => IInv
<1> SUFFICES ASSUME Init PROVE IInv
  OBVIOUS
<1>1. /\ source \in Sources /\ pc = "execute" /\ numFiles = 0 /\ full_size = 0
      /\ files = <<>> /\ fileCounter = 1
      /\ DOMAIN files = {} /\ Len(files) = 0
  BY DEF Init
<1>2. position \in Nat
  BY <1>1, StartIsNat DEF Init
<1>3. TypeOK
  BY <1>1, <1>2, SizesAssumption DEF TypeOK, Smaller
<1>4. TracksAreDealt
  BY <1>1 DEF TracksAreDealt
<1>5. ReturnsComplete /\ UnevenTracksThrow
  BY <1>1 DEF ReturnsComplete, UnevenTracksThrow
<1>6. RoundsInv
  BY <1>1 DEF RoundsInv
<1> QED
  BY <1>3, <1>4, <1>5, <1>6 DEF IInv, WholeOrThrown

\* A step that only ends the program.
LEMMA EndsWell ==
  ASSUME IInv, pc' \in Ended,
         UNCHANGED <<source, position, numFiles, full_size, files, fileCounter>>,
         pc' = "returned" => Even /\ \A k \in DOMAIN files : Len(files[k].content) = files[k].size,
         pc' = "returned 0" => files = <<>>,
         pc' = "empty write" => ~Even
  PROVE  IInv'
<1>1. TypeOK'
  BY DEF IInv, WholeOrThrown, TypeOK
<1>2. TracksAreDealt'
  BY DEF IInv, TracksAreDealt, start
<1>3. Even' <=> Even
  BY DEF Even, need, NeverReady
<1>4. ReturnsComplete' /\ UnevenTracksThrow'
  BY <1>3 DEF ReturnsComplete, UnevenTracksThrow
<1>5. RoundsInv'
  BY DEF RoundsInv, IInv, Ended
<1> QED
  BY <1>1, <1>2, <1>4, <1>5 DEF IInv, WholeOrThrown

\* A step on the way to the end that leaves the tracks alone.
LEMMA GoesOn ==
  ASSUME IInv, UNCHANGED <<source, files, fileCounter>>,
         pc' \in {"measure", "create", "save"},
         {position', numFiles', full_size'} \subseteq Nat,
         RoundsInv'
  PROVE  IInv'
<1>1. TypeOK'
  BY DEF IInv, WholeOrThrown, TypeOK
<1>2. TracksAreDealt'
  BY DEF IInv, TracksAreDealt, start
<1>3. ReturnsComplete' /\ UnevenTracksThrow'
  BY DEF ReturnsComplete, UnevenTracksThrow
<1> QED
  BY <1>1, <1>2, <1>3 DEF IInv, WholeOrThrown

\* Reading the project's header makes no track.
LEMMA ReadZoomHeaderStep ==
  ASSUME IInv, ReadZoomHeader
  PROVE  IInv'
<1>1. pc = "execute" /\ files = <<>> /\ fileCounter = 1
  BY DEF ReadZoomHeader, IInv, RoundsInv
<1>2. CASE pc' \in {"read", "returned 0"} /\ UNCHANGED position
  BY <1>1, <1>2, EndsWell DEF ReadZoomHeader, Ended
<1>3. CASE pc' = "measure" /\ position' = start
  <2>1. source \in Sources /\ start \in Nat /\ {numFiles, full_size} \subseteq Nat
    BY StartIsNat DEF IInv, RoundsInv, WholeOrThrown, TypeOK
  <2>2. UNCHANGED <<source, numFiles, full_size, files, fileCounter>>
    BY DEF ReadZoomHeader
  <2>3. RoundsInv'
    BY <1>1, <1>3, <2>1, <2>2 DEF RoundsInv, start
  <2> QED
    BY <1>3, <2>1, <2>2, <2>3, GoesOn
<1> QED
  BY <1>2, <1>3 DEF ReadZoomHeader, Throws

\* Counting headers and looking for the next recording make no track.
LEMMA MeasureStep ==
  ASSUME IInv, Measure
  PROVE  IInv'
<1>1. /\ pc = "measure" /\ files = <<>> /\ fileCounter = 1 /\ position = start
      /\ source \in Sources /\ position \in Nat
  BY DEF Measure, IInv, RoundsInv, WholeOrThrown, TypeOK
<1>2. UNCHANGED <<source, position, files, fileCounter>>
  BY DEF Measure
<1>3. numFiles' \in Nat /\ full_size' \in Nat
  <2>1. numFiles' \in Nat
    BY HeadersCounted, SizesAssumption DEF Measure
  <2>2. findAllFilesSize \in Nat
    BY <1>1, DistanceIsNat
  <2>3. DWord * DWord \in Nat \ {0} /\ Size - start \in Int
    BY <1>1, SizesAssumption
  <2>4. (Size - start) % (DWord * DWord) \in Nat
    BY <2>3
  <2> QED
    BY <2>1, <2>2, <2>4 DEF Measure
<1>4. CASE pc' = "read"
  <2>1. TypeOK'
    BY <1>1, <1>2, <1>3, <1>4 DEF TypeOK, IInv, WholeOrThrown, Ended
  <2>2. TracksAreDealt'
    BY <1>2 DEF IInv, TracksAreDealt, start
  <2>3. ReturnsComplete' /\ UnevenTracksThrow' /\ RoundsInv'
    BY <1>1, <1>2, <1>4 DEF ReturnsComplete, UnevenTracksThrow, RoundsInv
  <2> QED
    BY <2>1, <2>2, <2>3 DEF IInv, WholeOrThrown
<1>5. CASE pc' = "create"
  <2>1. Created
    BY <1>1, SizesAssumption DEF Created
  <2>2. Created'
    BY <1>2, <2>1 DEF Created, start, Given
  <2>3. RoundsInv'
    BY <1>1, <1>2, <1>5, <2>2 DEF RoundsInv
  <2> QED
    BY <1>1, <1>2, <1>3, <1>5, <2>3, GoesOn
<1> QED
  BY <1>4, <1>5 DEF Measure, Throws

\* The first round is over when all tracks are created.
LEMMA CreatedIsDealt ==
  ASSUME IInv, Created, fileCounter = 1,
         UNCHANGED <<source, position, files, fileCounter>>
  PROVE  Dealt(1)' /\ NoOverrun'
<1>1. Len(files) \in Nat /\ (files # <<>> => 1 <= Len(files))
  BY DEF IInv, WholeOrThrown, TypeOK
<1>2. (1 * Len(files) + fileCounter - 1) * BlockSize = Len(files) * BlockSize
  BY <1>1
<1>3. position = start + (1 * Len(files) + fileCounter - 1) * BlockSize
  BY <1>2 DEF Created
<1>4. ASSUME NEW k \in DOMAIN files PROVE Given(k, Turns(k, 1))
  <2>1. k >= 1
    BY DEF IInv, WholeOrThrown, TypeOK
  <2> QED
    BY <2>1 DEF Created, Turns
<1>5. Dealt(1)
  BY <1>1, <1>3, <1>4 DEF Dealt
<1>6. NoOverrun
  <2> SUFFICES ASSUME NEW k \in DOMAIN files PROVE Len(files[k].content) <= files[k].size
    BY DEF NoOverrun
  <2>1. files \in Seq(Track)
    BY DEF IInv, WholeOrThrown, TypeOK, Track
  <2> HIDE DEF Track
  <2>2. files[k] \in Track
    BY <2>1
  <2> QED
    BY <2>2, FirstClusterFits DEF Created, Given
<1> QED
  BY <1>5, <1>6 DEF Dealt, start, Turns, Given, NoOverrun

\* With as many tracks as there are headers, dealing begins.
LEMMA EndCreateStep ==
  ASSUME IInv, EndCreate
  PROVE  IInv'
<1>1. /\ Created /\ fileCounter = 1 /\ pc' = "save" /\ source \in Sources
      /\ UNCHANGED <<source, position, numFiles, full_size, files, fileCounter>>
      /\ {position, numFiles, full_size} \subseteq Nat
  BY DEF EndCreate, IInv, RoundsInv, WholeOrThrown, TypeOK
<1>2. Dealt(1)' /\ NoOverrun'
  BY <1>1, CreatedIsDealt
<1>3. RoundsInv'
  BY <1>1, <1>2 DEF RoundsInv
<1> QED
  BY <1>1, <1>3, GoesOn

\* Without a track, Execute returns 0.
LEMMA NoTrackStep ==
  ASSUME IInv, NoTrack
  PROVE  IInv'
BY EndsWell DEF NoTrack, Ended

\* What a sequence is with one element more.
LEMMA Appended ==
  ASSUME NEW S, NEW s \in Seq(S), NEW e \in S
  PROVE  /\ Append(s, e) \in Seq(S)
         /\ DOMAIN s = 1 .. Len(s) /\ Len(s) \in Nat
         /\ Len(Append(s, e)) = Len(s) + 1
         /\ DOMAIN Append(s, e) = 1 .. Len(s) + 1
         /\ \A k \in 1 .. Len(s) : Append(s, e)[k] = s[k] /\ s[k] \in S
         /\ Append(s, e)[Len(s) + 1] = e
OBVIOUS

\* A new track with no more than its first cluster leaves the others as they
\* were dealt.
Adds(t) ==
  /\ pc = "create" /\ Len(files) < MAXZOOMFILES
  /\ Len(t.content) <= t.size /\ Len(t.content) <= BlockSize
  /\ \A i \in 1 .. Len(t.content) : t.content[i] = position + i - 1
  /\ files' = Append(files, t)
  /\ UNCHANGED <<source, numFiles, full_size, fileCounter>>
  /\ position' \in Nat /\ pc' \in {"create", "empty write", "full"}

\* A new track leaves the others as they are.
LEMMA TrackCreated ==
  ASSUME IInv, NEW t \in Track, Adds(t)
  PROVE  /\ TypeOK' /\ TracksAreDealt' /\ ReturnsComplete'
         /\ Len(files') = Len(files) + 1 /\ DOMAIN files' = 1 .. Len(files) + 1
         /\ \A k \in 1 .. Len(files) : files'[k] = files[k]
         /\ files'[Len(files) + 1] = t
<1> DEFINE N == Len(files)
<1>1. /\ source \in Sources /\ fileCounter = 1 /\ Created
      /\ files \in Seq(Track) /\ {numFiles, full_size} \subseteq Nat
  BY DEF Adds, IInv, WholeOrThrown, TypeOK, RoundsInv, Track
<1>2. start \in Nat /\ start' = start /\ position = start + N * BlockSize
  BY <1>1, StartIsNat DEF Adds, start, Created
<1>3. /\ N \in Nat /\ DOMAIN files = 1 .. N /\ Len(files') = N + 1
      /\ DOMAIN files' = 1 .. N + 1 /\ files' \in Seq(Track)
      /\ \A k \in 1 .. N : files'[k] = files[k] /\ files[k] \in Track
      /\ files'[N + 1] = t
  <2>1. files' = Append(files, t)
    BY DEF Adds
  <2>2. files \in Seq(Track)
    BY <1>1
  <2> HIDE DEF Track
  <2>3. /\ N \in Nat /\ DOMAIN files = 1 .. N
        /\ files' \in Seq(Track) /\ Len(files') = N + 1 /\ DOMAIN files' = 1 .. N + 1
        /\ \A k \in 1 .. N : files'[k] = files[k] /\ files[k] \in Track
        /\ files'[N + 1] = t
    BY <2>1, <2>2, Appended
  <2> QED
    BY <2>3
<1> HIDE DEF N
<1>b. BlockSize \in Nat \ {0} /\ MAXZOOMFILES \in Nat \ {0}
  BY SizesAssumption
<1>4. ASSUME NEW k \in 1 .. N + 1
      PROVE  /\ files'[k] \in Track
             /\ Len(files'[k].content) <= files'[k].size
             /\ DealtTo(k, files'[k], N + 1)
  <2>1. CASE k = N + 1
    <3>1. position = start + (k - 1) * BlockSize
      BY <1>2, <1>3, <2>1
    <3>2. (k - 1) * BlockSize \in Int
      BY <1>b
    <3>3. \A i \in 1 .. Len(t.content) : t.content[i] = start + (k - 1) * BlockSize + i - 1
      BY <1>2, <3>1, <3>2 DEF Adds
    <3>4. k \in Nat /\ N + 1 \in Nat
      BY <1>3
    <3>5. DealtTo(k, t, N + 1)
      BY <1>2, <3>3, <3>4, OneClusterIsDealt DEF Adds
    <3> QED
      BY <1>3, <2>1, <3>5 DEF Adds
  <2>2. CASE k \in 1 .. N
    <3> DEFINE u == files[k]
               l == Len(u.content)
    <3>1. u \in Track /\ files'[k] = u /\ l <= u.size /\ l <= BlockSize
      <4>1. Holds(u, 1) /\ u \in Track
        BY <1>1, <1>3, <2>2 DEF Created, Given
      <4> HIDE DEF Track
      <4> QED
        BY <1>3, <2>2, <4>1, FirstClusterFits
    <3>2. DealtTo(k, u, N)
      BY <1>3, <2>2, TracksAreTheirs DEF IInv, N
    <3>3. u.content \in Seq(Cell) /\ l \in Nat /\ u.size \in Int
      BY <3>1, SizesAssumption DEF Track
    <3> HIDE DEF u
    <3>4. l <= BlockSize
      BY <3>1 DEF u
    <3>5. ASSUME NEW i \in 1 .. l PROVE u.content[i] = start + (k - 1) * BlockSize + i - 1
      <4>1. i \in DOMAIN u.content /\ i - 1 \in 0 .. BlockSize - 1
        BY <1>b, <3>3, <3>4
      <4>2. u.content[i] = start + (N * ((i - 1) \div BlockSize) + k - 1) * BlockSize
                                 + ((i - 1) % BlockSize)
        BY <3>2, <4>1 DEF DealtTo
      <4>3. (i - 1) \div BlockSize = 0 /\ (i - 1) % BlockSize = i - 1
        BY <1>b, <4>1, FirstBlock
      <4>4. (N * ((i - 1) \div BlockSize) + k - 1) * BlockSize = (k - 1) * BlockSize
        BY <1>3, <4>3
      <4>5. (k - 1) * BlockSize \in Int
        BY <1>b
      <4> QED
        BY <1>2, <4>2, <4>3, <4>4, <4>5
    <3>6. k \in Nat /\ N + 1 \in Nat
      BY <1>3
    <3>7. DealtTo(k, u, N + 1)
      <4> HIDE DEF l
      <4>1. Len(u.content) <= BlockSize
        BY <3>4 DEF l
      <4>2. \A i \in 1 .. Len(u.content) : u.content[i] = start + (k - 1) * BlockSize + i - 1
        BY <3>5 DEF l
      <4> QED
        BY <1>2, <3>1, <3>6, <4>1, <4>2, OneClusterIsDealt
    <3> QED
      BY <3>1, <3>7
  <2> QED
    BY <1>3, <2>1, <2>2
<1>5. TypeOK'
  <2>1. Smaller(MAXZOOMFILES, Len(files') + 1) >= 1
    BY <1>3, <1>b DEF Smaller
  <2>2. fileCounter' = 1 /\ fileCounter' \in 1 .. Smaller(MAXZOOMFILES, Len(files') + 1)
    <3>1. fileCounter' = 1
      BY <1>1 DEF Adds
    <3>2. Smaller(MAXZOOMFILES, Len(files') + 1) \in Nat
      BY <1>3, <1>b DEF Smaller
    <3> QED
      BY <2>1, <3>1, <3>2
  <2>3. Len(files') <= MAXZOOMFILES
    <3>1. N < MAXZOOMFILES
      BY DEF Adds, N
    <3> QED
      BY <1>3, <1>b, <3>1
  <2> QED
    BY <1>1, <1>3, <1>4, <2>2, <2>3 DEF Adds, TypeOK, Ended, Track
<1>6. TracksAreDealt'
  <2>1. TracksAreDealt' <=> \A k \in DOMAIN files' :
          \A i \in DOMAIN files'[k].content :
            files'[k].content[i] =
              start' + (Len(files') * ((i - 1) \div BlockSize) + k - 1) * BlockSize
                     + ((i - 1) % BlockSize)
    BY DEF TracksAreDealt
  <2> QED
    BY <1>2, <1>3, <1>4, <2>1 DEF DealtTo
<1>7. ReturnsComplete'
  BY DEF Adds, ReturnsComplete
<1> QED
  BY <1>3, <1>5, <1>6, <1>7 DEF N

\* The track CreateTrack makes for the header at position, before its first
\* cluster is written.
NewTrack(k) == [size |-> TrackSize(SizeField(k, source.riff[position])),
                bReady_ |-> FALSE, content |-> <<>>]

\* A new track has its size from its header, and nothing in it.
LEMMA NewTrackIsEmpty ==
  ASSUME IInv, NEW k \in Nat, position + BlockSize <= Size, source.riff[position] # NoRiff
  PROVE  /\ NewTrack(k) \in Track /\ NewTrack(k).content = <<>> /\ NewTrack(k).size \in Nat
         /\ ~NewTrack(k).bReady_
<1>1. /\ source \in Sources /\ position \in Nat /\ full_size \in Nat
  BY DEF IInv, RoundsInv, WholeOrThrown, TypeOK
<1>b. /\ BlockSize \in Nat \ {0} /\ Size \in Nat /\ RiffHeader \in Nat
      /\ DWord \in Nat \ {0}
  BY SizesAssumption
<1>2. source.riff[position] \in 0 .. DWord - 1
  <2>1. position \in Cell
    BY <1>1, <1>b DEF Cell
  <2>2. source.riff \in [Cell -> {NoRiff} \cup 0 .. DWord - 1]
    BY <1>1, StartIsNat
  <2> QED
    BY <2>1, <2>2
<1>3. SizeField(k, source.riff[position]) \in Nat
  <2>1. firstFileSize \in Nat
    BY <1>1 DEF firstFileSize
  <2>2. file_size \in Nat
    BY <1>1, <2>1 DEF file_size
  <2>3. firstFileSize % DWord \in Nat /\ file_size % DWord \in Nat
    BY <1>b, <2>1, <2>2
  <2> QED
    BY <1>b, <1>2, <2>3 DEF SizeField
<1>4. TrackSize(SizeField(k, source.riff[position])) \in 0 .. DWord - 1
  <2>1. ASSUME NEW n \in Nat PROVE TrackSize(n) \in 0 .. DWord - 1
    BY <1>b DEF TrackSize
  <2> QED
    BY <1>3, <2>1
<1>5. <<>> \in Seq(Cell)
  OBVIOUS
<1> QED
  BY <1>b, <1>4, <1>5 DEF NewTrack, Track

\* A new track takes the cluster its header lies in.
LEMMA CreateTrackStep ==
  ASSUME IInv, CreateTrack
  PROVE  IInv'
<1> DEFINE N == Len(files)
           t == NewTrack(N + 1)
           u == WriteBlock(t, position)
<1>1. /\ pc = "create" /\ N < MAXZOOMFILES /\ fileCounter = 1 /\ Created
      /\ source \in Sources /\ {position, numFiles, full_size} \subseteq Nat
      /\ UNCHANGED <<source, numFiles, full_size, fileCounter>>
      /\ N \in Nat
  <2>1. /\ pc = "create" /\ N < MAXZOOMFILES
        /\ UNCHANGED <<source, numFiles, full_size, fileCounter>>
    BY Zenon DEF CreateTrack
  <2>2. N \in Nat
    BY DEF IInv, WholeOrThrown, TypeOK
  <2> HIDE DEF N
  <2> QED
    BY <2>1, <2>2 DEF IInv, RoundsInv, WholeOrThrown, TypeOK
<1>b. BlockSize \in Nat \ {0} /\ Size \in Nat
  BY SizesAssumption
<1>2. CASE pc' \in {"read", "create file"} /\ UNCHANGED <<files, position>>
  BY <1>1, <1>2, EndsWell DEF Ended
<1>3. CASE pc' = "save" /\ UNCHANGED <<files, position>>
  <2>1. Dealt(1)' /\ NoOverrun'
    BY <1>1, <1>3, CreatedIsDealt
  <2>2. RoundsInv'
    BY <1>1, <1>3, <2>1 DEF RoundsInv
  <2> QED
    BY <1>1, <1>3, <2>2, GoesOn
<1>4. ASSUME position + BlockSize <= Size, source.riff[position] # NoRiff
      PROVE  /\ t \in Track /\ t.content = <<>> /\ Len(t.content) = 0 /\ t.size \in Nat
             /\ ToWrite(t) = 0 <=> t.size = 0
             /\ t.size # 0 => /\ u \in Track /\ u.size = t.size /\ Holds(u, 1)
                              /\ \A i \in 1 .. Len(u.content) : u.content[i] = position + i - 1
  <2>1. t \in Track /\ t.content = <<>> /\ t.size \in Nat /\ ~t.bReady_
    BY <1>1, <1>4, NewTrackIsEmpty
  <2> HIDE DEF t
  <2>2. Len(t.content) = 0
    BY <2>1
  <2>3. CASE t.size = 0
    <3>1. 0 % DWord = 0 /\ BlockSize % DWord = BlockSize /\ 0 + BlockSize = BlockSize
      BY <1>b, SizesAssumption
    <3>2. ToWrite(t) = IF ((0 % DWord) + BlockSize) % DWord > 0 THEN 0 - (0 % DWord) ELSE BlockSize
      BY <2>2, <2>3 DEF ToWrite, currentSize_
    <3>3. ToWrite(t) = 0
      BY <1>b, <3>1, <3>2
    <3> QED
      BY <2>1, <2>2, <2>3, <3>3
  <2>4. CASE t.size # 0
    <3>1. Holds(t, 0)
      <4>1. 0 * BlockSize = 0 /\ (0 - 1) * BlockSize < t.size /\ Smaller(0, t.size) = 0
        BY <1>b, <2>1 DEF Smaller
      <4> QED
        BY <2>1, <2>2, <2>4, <4>1 DEF Holds, Full, Past
    <3>2. /\ ToWrite(t) \in 0 .. BlockSize
          /\ ToWrite(t) = 0 <=> t.size < Limit /\ Len(t.content) = t.size
          /\ u \in Track /\ u.size = t.size
          /\ Len(u.content) = Len(t.content) + ToWrite(t)
          /\ ToWrite(t) # 0 => Holds(u, 0 + 1)
          /\ \A j \in 1 .. ToWrite(t) : u.content[Len(t.content) + j] = position + j - 1
      <4>1. t \in Track /\ position \in Nat /\ 0 \in Nat
        BY <1>1, <2>1
      <4> HIDE DEF Track
      <4> QED
        BY <1>4, <3>1, <4>1, ClusterWritten
    <3> HIDE DEF u
    <3>a. ToWrite(t) # 0 /\ 0 + 1 = 1
      <4>1. ToWrite(t) = 0 => Len(t.content) = t.size
        BY <3>2, Zenon
      <4> QED
        BY <2>2, <2>4, <4>1
    <3>b. 0 + ToWrite(t) = ToWrite(t)
      BY <1>b, <3>2
    <3>3. ToWrite(t) # 0 /\ 0 + 1 = 1 /\ Len(u.content) = ToWrite(t)
      BY <2>2, <3>2, <3>a, <3>b
    <3>4. ASSUME NEW i \in 1 .. Len(u.content) PROVE u.content[i] = position + i - 1
      BY <2>2, <3>2, <3>3
    <3> QED
      BY <2>1, <2>2, <2>4, <3>2, <3>3, <3>4
  <2> QED
    BY <2>3, <2>4
<1>5. ASSUME position + BlockSize <= Size, source.riff[position] # NoRiff,
             files' = Append(files, t), UNCHANGED position,
             pc' = "full" \/ (pc' = "empty write" /\ ToWrite(t) = 0)
      PROVE  IInv'
  <2>1. Adds(t)
    <3>1. t \in Track /\ Len(t.content) = 0 /\ t.size \in Nat
      BY <1>4, <1>5
    <3> HIDE DEF t, N
    <3>2. \A i \in 1 .. Len(t.content) : t.content[i] = position + i - 1
      BY <3>1
    <3>3. /\ files' = Append(files, t) /\ position' \in Nat
          /\ pc' \in {"create", "empty write", "full"}
      BY <1>1, <1>5
    <3>4. Len(t.content) <= t.size /\ Len(t.content) <= BlockSize
      BY <1>b, <3>1
    <3>5. pc = "create" /\ Len(files) < MAXZOOMFILES
      BY <1>1 DEF N
    <3> QED
      BY <1>1, <3>2, <3>3, <3>4, <3>5 DEF Adds
  <2>2. /\ TypeOK' /\ TracksAreDealt' /\ ReturnsComplete'
        /\ DOMAIN files' = 1 .. N + 1 /\ files'[N + 1] = t
    BY <1>4, <1>5, <2>1, TrackCreated
  <2>3. pc' = "empty write" => ~Even'
    <3>1. SUFFICES ASSUME ToWrite(t) = 0 PROVE ~Even'
      BY <1>5
    <3>2. t.size = 0
      BY <1>4, <1>5, <3>1
    <3> HIDE DEF t
    <3>3. N + 1 \in DOMAIN files' /\ files'[N + 1].size = 0
      BY <1>1, <2>2, <3>2
    <3> HIDE DEF N
    <3>4. (0 + BlockSize - 1) \div BlockSize = 0
      <4>1. BlockSize - 1 \in 0 .. BlockSize - 1 /\ 0 + BlockSize - 1 = BlockSize - 1
        BY <1>b
      <4> QED
        BY <1>b, <4>1, FirstBlock
    <3> QED
      BY <3>3, <3>4 DEF Even, need
  <2>4. UnevenTracksThrow' /\ RoundsInv'
    BY <1>1, <1>5, <2>3 DEF UnevenTracksThrow, RoundsInv
  <2> QED
    BY <2>2, <2>4 DEF IInv, WholeOrThrown
<1>6. ASSUME position + BlockSize <= Size, source.riff[position] # NoRiff, ToWrite(t) # 0,
             files' = Append(files, u), position' = position + BlockSize, UNCHANGED pc
      PROVE  IInv'
  <2>1. /\ u \in Track /\ u.size \in Nat /\ u.size # 0
        /\ Holds(u, 1)
        /\ \A i \in 1 .. Len(u.content) : u.content[i] = position + i - 1
    BY <1>4, <1>6
  <2> HIDE DEF u, t
  <2>2. Adds(u)
    <3>1. Len(u.content) <= u.size /\ Len(u.content) <= BlockSize
      BY <2>1, FirstClusterFits
    <3>2. position' \in Nat
      BY <1>1, <1>6, <1>b
    <3> QED
      BY <1>1, <1>6, <2>1, <3>1, <3>2 DEF Adds
  <2>3. /\ TypeOK' /\ TracksAreDealt' /\ ReturnsComplete'
        /\ Len(files') = N + 1 /\ DOMAIN files' = 1 .. N + 1
        /\ \A k \in 1 .. N : files'[k] = files[k]
        /\ files'[N + 1] = u
    BY <2>1, <2>2, TrackCreated
  <2>4. start' = start /\ start \in Nat
    BY <1>1, StartIsNat DEF start
  <2>5. position' = start' + Len(files') * BlockSize
    <3>1. position = start + N * BlockSize
      BY <1>1 DEF Created
    <3> HIDE DEF N
    <3>2. (N + 1) * BlockSize = N * BlockSize + BlockSize /\ N * BlockSize \in Nat
      BY <1>1, <1>b
    <3> QED
      BY <1>b, <1>6, <2>3, <2>4, <3>1, <3>2
  <2>6. ASSUME NEW k \in DOMAIN files' PROVE Holds(files'[k], 1)
    <3>1. CASE k \in 1 .. N
      <4>1. k \in DOMAIN files
        BY <3>1 DEF IInv, WholeOrThrown, TypeOK
      <4> QED
        BY <1>1, <2>3, <3>1, <4>1 DEF Created, Given
    <3>2. CASE k = N + 1
      BY <2>1, <2>3, <3>2
    <3> QED
      BY <1>1, <2>3, <3>1, <3>2
  <2>7. Created'
    BY <2>5, <2>6 DEF Created, Given
  <2>8. UnevenTracksThrow' /\ RoundsInv'
    BY <1>1, <1>6, <2>7 DEF UnevenTracksThrow, RoundsInv
  <2> QED
    BY <2>3, <2>8 DEF IInv, WholeOrThrown
<1>7. CannotRead(position, BlockSize) \/ position + BlockSize <= Size
  BY <1>1, <1>b DEF CannotRead
<1> HIDE DEF t, u
<1>8. t = [size |-> TrackSize(SizeField(Len(files) + 1, source.riff[position])),
           bReady_ |-> FALSE, content |-> <<>>]
      /\ u = WriteBlock(t, position) /\ NextCluster = position + BlockSize
  BY DEF t, u, NewTrack, NextCluster
<1> HIDE DEF N
<1> QED
  BY <1>1, <1>2, <1>3, <1>5, <1>6, <1>7, <1>8 DEF CreateTrack, Throws

\* The types of the tracks, one fact each.
LEMMA TracksTyped ==
  ASSUME IInv
  PROVE  /\ files \in Seq(Track) /\ Len(files) \in Nat
         /\ DOMAIN files = 1 .. Len(files) /\ DOMAIN files \subseteq Nat
         /\ \A k \in DOMAIN files : files[k] \in Track
         /\ fileCounter \in Nat /\ fileCounter >= 1
<1>1. files \in Seq(Track)
  BY DEF IInv, WholeOrThrown, TypeOK, Track
<1>2. Smaller(MAXZOOMFILES, Len(files) + 1) \in Nat
  BY <1>1, SizesAssumption DEF Smaller
<1>3. fileCounter \in 1 .. Smaller(MAXZOOMFILES, Len(files) + 1)
  BY DEF IInv, WholeOrThrown, TypeOK
<1> HIDE DEF Track
<1> QED
  BY <1>1, <1>2, <1>3

\* A track that is never ready is not.
LEMMA NeverIsNot ==
  ASSUME NEW t \in Track, NEW c \in Nat, Holds(t, c), NeverReady(t)
  PROVE  ~isReady(t)
<1>1. ~(t.size < Limit)
  BY SizesAssumption DEF NeverReady, Track, Limit
<1> QED
  BY <1>1 DEF Holds, Past, isReady

\* A track within its size has been given full clusters.
LEMMA FullWithin ==
  ASSUME NEW t \in Track, NEW c \in Nat, Holds(t, c), ~NeverReady(t), Len(t.content) <= t.size
  PROVE  Full(t, c)
<1>1. /\ t.size \in Nat /\ BlockSize \in Nat \ {0} /\ Limit \in Nat /\ c * BlockSize \in Nat
      /\ (c - 1) * BlockSize = c * BlockSize - BlockSize
  <2> HIDE DEF Track
  <2>1. c * BlockSize \in Nat
    BY SizesTyped
  <2> QED
    BY <2>1, SizesTyped
<1>2. CASE t.size < Limit
  BY <1>2 DEF Holds
<1>3. CASE ~(t.size < Limit)
  <2>1. PICK e \in Nat : e = c * BlockSize
    BY <1>1
  <2>2. Len(t.content) = e /\ (t.bReady_ <=> e >= t.size)
    BY <1>3, <2>1 DEF Holds, Past
  <2>3. e <= t.size /\ Smaller(e, t.size) = e /\ e - BlockSize < t.size
    BY <1>1, <2>2 DEF Smaller
  <2>4. t.bReady_ <=> e = t.size
    BY <1>1, <2>2, <2>3
  <2> QED
    BY <1>1, <2>1, <2>2, <2>3, <2>4 DEF Full
<1> QED
  BY <1>2, <1>3

\* A full track needed what it was given, and another one needs more.
LEMMA NeedOfTrack ==
  ASSUME IInv, NEW k \in DOMAIN files, NEW c \in Nat, Full(files[k], c)
  PROVE  /\ isReady(files[k]) => need(k) = c
         /\ ~isReady(files[k]) => need(k) > c
         /\ need(k) \in Nat
<1> DEFINE l == Len(files[k].content)
           n == files[k].size
<1>1. l \in Nat /\ n \in Nat
  <2>1. files[k] \in Track /\ DWord \in Nat
    BY TracksTyped, SizesAssumption
  <2> QED
    BY <2>1 DEF Track
<1>2. l = Smaller(c * BlockSize, n) /\ (c - 1) * BlockSize < n /\ (isReady(files[k]) <=> l = n)
  BY DEF Full, isReady
<1> HIDE DEF l, n
<1>b. BlockSize \in Nat \ {0}
  BY SizesAssumption
<1>3. need(k) = (n + BlockSize - 1) \div BlockSize
  BY DEF need, n
<1>4. c * BlockSize \in Nat /\ n + BlockSize - 1 \in Nat
  BY <1>1, <1>b
<1>5. CASE l = n
  <2>1. n <= c * BlockSize
    BY <1>1, <1>2, <1>4, <1>5 DEF Smaller
  <2>2. (n + BlockSize - 1) \div BlockSize = c
    BY <1>1, <1>2, <1>b, <2>1, ClustersNeeded
  <2> QED
    BY <1>2, <1>3, <1>5, <2>2
<1>6. CASE l # n
  <2>1. c * BlockSize < n
    BY <1>1, <1>2, <1>4, <1>6 DEF Smaller
  <2>2. (n + BlockSize - 1) \div BlockSize > c
    BY <1>1, <1>b, <2>1, MoreClustersNeeded
  <2>3. (n + BlockSize - 1) \div BlockSize \in Nat
    BY <1>4, <1>b, Division
  <2> QED
    BY <1>2, <1>3, <1>6, <2>2, <2>3
<1> QED
  BY <1>5, <1>6

\* Unless a track is never ready, all have been given full clusters.
LEMMA AllFull ==
  ASSUME IInv, pc = "save", NEW r \in Nat \ {0}, Dealt(r),
         \A k \in DOMAIN files : ~NeverReady(files[k])
  PROVE  \A k \in DOMAIN files : Full(files[k], Turns(k, r)) /\ Turns(k, r) \in Nat \ {0}
<1> SUFFICES ASSUME NEW k \in DOMAIN files
             PROVE  Full(files[k], Turns(k, r)) /\ Turns(k, r) \in Nat \ {0}
  OBVIOUS
<1>1. files[k] \in Track /\ Turns(k, r) \in Nat \ {0}
  BY TracksTyped DEF Turns
<1>2. Holds(files[k], Turns(k, r))
  BY DEF Dealt, Given
<1>3. Len(files[k].content) <= files[k].size
  BY DEF IInv, RoundsInv, NoOverrun
<1> HIDE DEF Track
<1> QED
  BY <1>1, <1>2, <1>3, FullWithin

\* Execute returns when each track has its size.
LEMMA AllReadyStep ==
  ASSUME IInv, AllReady
  PROVE  IInv'
<1>1. /\ pc = "save" /\ files # <<>> /\ isAllReady /\ pc' = "returned"
      /\ UNCHANGED <<source, position, numFiles, full_size, files, fileCounter>>
  BY DEF AllReady
<1>2. PICK r \in Nat \ {0} : Dealt(r)
  BY <1>1 DEF IInv, RoundsInv
<1>3. \A k \in DOMAIN files : ~NeverReady(files[k])
  <2> SUFFICES ASSUME NEW k \in DOMAIN files, NeverReady(files[k]) PROVE FALSE
    OBVIOUS
  <2>1. files[k] \in Track /\ Turns(k, r) \in Nat /\ Holds(files[k], Turns(k, r))
    BY <1>2, TracksTyped DEF Dealt, Given, Turns
  <2> HIDE DEF Track
  <2> QED
    BY <1>1, <2>1, NeverIsNot DEF isAllReady
<1>4. \A k \in DOMAIN files : Full(files[k], Turns(k, r)) /\ Turns(k, r) \in Nat
  BY <1>1, <1>2, <1>3, AllFull
<1>5. \A k \in DOMAIN files : need(k) = Turns(k, r)
  BY <1>1, <1>4, NeedOfTrack DEF isAllReady
<1>6. DOMAIN files \subseteq Nat /\ fileCounter \in Nat
  BY TracksTyped
<1>7. Even
  <2>1. \A j, k \in DOMAIN files :
          /\ Turns(k, r) > 0
          /\ j <= k => Turns(j, r) \in {Turns(k, r), Turns(k, r) + 1}
    BY <1>6 DEF Turns
  <2> QED
    BY <1>3, <1>5, <2>1 DEF Even
<1>8. \A k \in DOMAIN files : Len(files[k].content) = files[k].size
  BY <1>1, <1>4 DEF Full, isAllReady, isReady
<1> QED
  BY <1>1, <1>7, <1>8, EndsWell DEF Ended

\* A track whose turn it is and which is full, while another one is not.
LEMMA FullTrackIsUneven ==
  ASSUME IInv, pc = "save", files # <<>>, ~isAllReady, isReady(files[fileCounter])
  PROVE  ~Even
<1> SUFFICES ASSUME \A k \in DOMAIN files : ~NeverReady(files[k]) PROVE ~Even
  BY DEF Even
<1>1. PICK r \in Nat \ {0} : Dealt(r)
  BY DEF IInv, RoundsInv
<1>2. /\ DOMAIN files \subseteq Nat /\ fileCounter \in DOMAIN files
  BY <1>1, TracksTyped DEF Dealt
<1>a. \A k \in DOMAIN files : Full(files[k], Turns(k, r)) /\ Turns(k, r) \in Nat
  BY <1>1, AllFull
<1>3. ~(fileCounter < fileCounter)
  BY <1>2
<1>4. need(fileCounter) = r
  BY <1>2, <1>3, <1>a, NeedOfTrack DEF Turns
<1>5. PICK k \in DOMAIN files : ~isReady(files[k])
  BY DEF isAllReady
<1>6. Turns(k, r) \in Nat /\ Full(files[k], Turns(k, r)) /\ k \in Nat /\ k # fileCounter
  BY <1>2, <1>5, <1>a
<1>7. need(k) > Turns(k, r) /\ need(k) \in Nat
  BY <1>5, <1>6, NeedOfTrack
<1>8. CASE k < fileCounter
  BY <1>2, <1>4, <1>7, <1>8 DEF Even, Turns
<1>9. CASE fileCounter < k
  BY <1>2, <1>4, <1>7, <1>9 DEF Even, Turns
<1> QED
  BY <1>2, <1>6, <1>8, <1>9

\* A ready track that takes a cluster more is as large as can be; one that has
\* been given as many clusters is ready, or is never.
LEMMA AtLimit ==
  ASSUME NEW t \in Track, NEW r \in Nat, Holds(t, r), ~NeverReady(t), isReady(t), ToWrite(t) # 0,
         NEW v \in Track, NEW c \in Nat, Holds(v, c), r <= c, ~NeverReady(v)
  PROVE  isReady(v)
<1>1. /\ t.size \in Nat /\ v.size \in Nat /\ v.size <= Limit /\ Limit \in Nat /\ t.size <= Limit
      /\ BlockSize \in Nat \ {0}
  <2> HIDE DEF Track
  <2>1. t.size \in Nat /\ v.size \in Nat /\ BlockSize \in Nat \ {0} /\ Limit \in Nat
    BY SizesTyped
  <2> QED
    BY <2>1 DEF NeverReady
<1>2. ~(t.size < Limit)
  <2>1. t.size < Limit => (ToWrite(t) = 0 <=> Len(t.content) = t.size)
    <3> HIDE DEF Track
    <3> QED
      BY WriteSize
  <2> QED
    BY <2>1 DEF Holds, Full, isReady
<1>3. r * BlockSize >= Limit
  BY <1>1, <1>2 DEF Holds, Past, isReady
<1>4. c * BlockSize >= r * BlockSize /\ c * BlockSize \in Nat /\ r * BlockSize \in Nat
  BY <1>1
<1>5. c * BlockSize >= v.size /\ c * BlockSize >= Limit
  BY <1>1, <1>3, <1>4
<1>6. CASE v.size < Limit
  BY <1>1, <1>4, <1>5, <1>6 DEF Holds, Full, isReady, Smaller
<1>7. CASE ~(v.size < Limit)
  BY <1>5, <1>7 DEF Holds, Past, isReady
<1> QED
  BY <1>6, <1>7

\* The track whose turn it is takes the cluster at position.
Deals(r) ==
  /\ pc = "save" /\ files # <<>> /\ ~isAllReady /\ ToWrite(files[fileCounter]) # 0
  /\ position + BlockSize <= Size
  /\ Dealt(r)
  /\ files' = [files EXCEPT ![fileCounter] = WriteBlock(@, position)]
  /\ position' = position + BlockSize
  /\ fileCounter' = NextTrack
  /\ UNCHANGED <<source, pc, numFiles, full_size>>

\* A cluster goes to the track whose turn it is.
LEMMA ClusterDealt ==
  ASSUME IInv, NEW r \in Nat \ {0}, Deals(r)
  PROVE  IInv'
<1> DEFINE N == Len(files)
           f == fileCounter
           t == files[f]
           u == WriteBlock(t, position)
<1>1. /\ source \in Sources /\ {position, numFiles, full_size} \subseteq Nat
      /\ files \in Seq(Track) /\ N <= MAXZOOMFILES /\ N \in Nat /\ N # 0
  BY DEF Deals, IInv, WholeOrThrown, TypeOK, RoundsInv, Track
<1>2. start \in Nat /\ start' = start
  BY <1>1, StartIsNat DEF Deals, start
<1>b. BlockSize \in Nat \ {0} /\ MAXZOOMFILES \in Nat \ {0}
  BY SizesAssumption
<1>3. DOMAIN files = 1 .. N /\ f \in 1 .. N
  <2>1. f <= Len(files) /\ f \in Nat /\ f >= 1
    BY TracksTyped DEF Deals, Dealt
  <2> QED
    BY <1>1, <2>1
<1>4. /\ files' \in Seq(Track) /\ Len(files') = N /\ DOMAIN files' = 1 .. N
      /\ files'[f] = u
      /\ \A k \in 1 .. N : k # f => files'[k] = files[k]
      /\ u \in Track /\ u.size = t.size /\ t \in Track
      /\ Holds(t, r) /\ Holds(u, r + 1) /\ DealtTo(f, u, N)
  <2>1. t \in Track /\ ToWrite(t) # 0 /\ position + BlockSize <= Size
    BY <1>1, <1>3 DEF Deals
  <2>2. position = start + (N * r + f - 1) * BlockSize
    <3>1. r * N = N * r
      BY <1>1
    <3> QED
      BY <3>1 DEF Deals, Dealt
  <2>3. Holds(t, r)
    <3>1. ~(f < f) /\ f \in DOMAIN files
      BY <1>3
    <3>2. Given(f, r)
      BY <3>1 DEF Deals, Dealt, Turns
    <3> QED
      BY <3>2 DEF Given
  <2>4. DealtTo(f, t, N)
    BY <1>3, TracksAreTheirs DEF IInv
  <2>5. f \in Nat /\ position \in Nat
    BY <1>1, <1>3
  <2> HIDE DEF N, f, t
  <2>6. u \in Track /\ u.size = t.size /\ Holds(u, r + 1) /\ DealtTo(f, u, N)
    BY <1>1, <1>2, <2>1, <2>2, <2>3, <2>4, <2>5, NextClusterIsDealt
  <2> HIDE DEF u
  <2>7. files' = [files EXCEPT ![f] = u]
    BY DEF Deals, f, t, u
  <2> HIDE DEF Track
  <2>8. /\ files' \in Seq(Track) /\ Len(files') = N /\ DOMAIN files' = 1 .. N
        /\ files'[f] = u
        /\ \A k \in 1 .. N : k # f => files'[k] = files[k]
    BY <1>1, <1>3, <2>6, <2>7 DEF N
  <2> QED
    BY <2>1, <2>3, <2>6, <2>8
<1>5. /\ fileCounter' = (IF f = N THEN 1 ELSE f + 1) /\ fileCounter' \in 1 .. N
  <2>1. fileCounter' = (IF f = N THEN 1 ELSE f + 1)
    BY DEF Deals, NextTrack
  <2> HIDE DEF f, N
  <2> QED
    BY <1>1, <1>3, <2>1
<1>6. TypeOK'
  <2>1. \A k \in DOMAIN files' :
          files'[k].size < Limit => Len(files'[k].content) <= files'[k].size
    <3>1. u.size < Limit => Len(u.content) <= u.size
      <4>1. u.size \in Nat /\ (r + 1) * BlockSize \in Nat
        BY <1>b, <1>4, SizesAssumption DEF Track
      <4> QED
        BY <1>4, <4>1 DEF Holds, Full, Smaller
    <3>2. \A k \in DOMAIN files : files[k].size < Limit => Len(files[k].content) <= files[k].size
      BY DEF IInv, WholeOrThrown, TypeOK
    <3> QED
      BY <1>3, <1>4, <3>1, <3>2
  <2>2. fileCounter' \in 1 .. Smaller(MAXZOOMFILES, Len(files') + 1)
    BY <1>1, <1>b, <1>4, <1>5 DEF Smaller
  <2>3. /\ pc' \in {"execute", "measure", "create", "save"} \cup Ended
        /\ {position', numFiles', full_size'} \subseteq Nat
    BY <1>1, <1>b DEF Deals
  <2> QED
    BY <1>1, <1>4, <2>1, <2>2, <2>3 DEF TypeOK, Track
<1>7. TracksAreDealt'
  <2>1. \A k \in 1 .. N : DealtTo(k, files'[k], N)
    BY <1>3, <1>4, TracksAreTheirs DEF IInv
  <2>2. TracksAreDealt' <=> \A k \in DOMAIN files' :
          \A i \in DOMAIN files'[k].content :
            files'[k].content[i] =
              start' + (Len(files') * ((i - 1) \div BlockSize) + k - 1) * BlockSize
                     + ((i - 1) % BlockSize)
    BY DEF TracksAreDealt
  <2> QED
    BY <1>2, <1>4, <2>1, <2>2 DEF DealtTo
<1>8. \E q \in Nat \ {0} : Dealt(q)'
  <2>q. PICK q \in Nat \ {0} : q = IF f = N THEN r + 1 ELSE r
    OBVIOUS
  <2>1. position' = start' + (q * N + fileCounter' - 1) * BlockSize
    <3>1. position' = start + (r * N + f - 1) * BlockSize + BlockSize
      BY DEF Deals, Dealt
    <3> HIDE DEF N, f
    <3>2. (r * N + f - 1) * BlockSize + BlockSize = (r * N + f) * BlockSize
      <4>1. r * N \in Nat /\ f \in Nat
        BY <1>1, <1>3
      <4> QED
        BY <1>b, <4>1
    <3>3. q * N + fileCounter' - 1 = r * N + f
      <4>1. (r + 1) * N = r * N + N /\ r * N \in Nat
        BY <1>1
      <4> QED
        BY <1>1, <1>3, <1>5, <2>q, <4>1
    <3>4. start + (r * N + f - 1) * BlockSize + BlockSize
            = start + ((r * N + f - 1) * BlockSize + BlockSize)
      <4>1. (r * N + f - 1) * BlockSize \in Int
        <5>1. r * N + f - 1 \in Int
          BY <1>1, <1>3
        <5> QED
          BY <1>b, <5>1
      <4> QED
        BY <1>2, <1>b, <4>1
    <3> QED
      BY <1>2, <3>1, <3>2, <3>3, <3>4
  <2>2. ASSUME NEW k \in 1 .. N
        PROVE  Holds(files'[k], IF k < fileCounter' THEN q + 1 ELSE q)
    <3>f. Turns(k, r) = IF k < f THEN r + 1 ELSE r
      BY DEF Turns
    <3> HIDE DEF f, N
    <3>1. CASE k = f
      <4>1. (IF k < fileCounter' THEN q + 1 ELSE q) = r + 1
        BY <1>1, <1>3, <1>5, <2>q, <3>1
      <4> QED
        BY <1>4, <3>1, <4>1
    <3>2. CASE k # f
      <4>1. (IF k < fileCounter' THEN q + 1 ELSE q) = Turns(k, r)
        BY <1>1, <1>3, <1>5, <2>q, <3>2, <3>f
      <4>2. Given(k, Turns(k, r))
        BY <1>3 DEF Deals, Dealt
      <4> QED
        BY <1>4, <3>2, <4>1, <4>2 DEF Given
    <3> QED
      BY <3>1, <3>2
  <2>3. files' # <<>> => fileCounter' <= Len(files')
    BY <1>4, <1>5
  <2> HIDE DEF N
  <2>4. position' = start' + (q * Len(files') + fileCounter' - 1) * BlockSize
    BY <1>4, <2>1
  <2>5. \A k \in DOMAIN files' : Given(k, Turns(k, q))'
    BY <1>4, <2>2 DEF Given, Turns
  <2>6. Dealt(q)'
    BY <2>3, <2>4, <2>5 DEF Dealt
  <2> QED
    BY <2>6
<1>10. NoOverrun'
  <2> SUFFICES ASSUME \A k \in 1 .. N : ~NeverReady(files'[k])
               PROVE  \A k \in 1 .. N : Len(files'[k].content) <= files'[k].size
    BY <1>4 DEF NoOverrun, NeverReady
  <2>1. \A k \in 1 .. N : files'[k].size = files[k].size
    BY <1>4
  <2>2. \A k \in 1 .. N : ~NeverReady(files[k])
    BY <2>1 DEF NeverReady
  <2>3. \A k \in 1 .. N : Len(files[k].content) <= files[k].size
    BY <1>3, <2>2 DEF NoOverrun, IInv, RoundsInv, Deals
  <2>4. ~isReady(t)
    <3> SUFFICES ASSUME isReady(t) PROVE FALSE
      OBVIOUS
    <3>1. PICK k \in 1 .. N : ~isReady(files[k])
      BY <1>3 DEF Deals, isAllReady
    <3>2. Holds(files[k], Turns(k, r)) /\ Turns(k, r) \in Nat /\ r <= Turns(k, r) /\ files[k] \in Track
      BY <1>1, <1>3 DEF Deals, Dealt, Given, Turns
    <3>3. ~NeverReady(t) /\ ToWrite(t) # 0 /\ r \in Nat /\ ~NeverReady(files[k])
      BY <1>3, <2>2 DEF Deals
    <3> HIDE DEF t, N, Track
    <3> QED
      BY <1>4, <3>1, <3>2, <3>3, AtLimit
  <2>5. Len(u.content) <= u.size
    <3>1. u.size \in Nat /\ Limit \in Nat /\ (r + 1) * BlockSize = r * BlockSize + BlockSize
          /\ r * BlockSize \in Nat
      BY <1>b, <1>4, LimitIs, SizesAssumption DEF Track, Limit
    <3>2. CASE u.size < Limit
      BY <1>4, <3>1, <3>2 DEF Holds, Full, Smaller
    <3>3. CASE ~(u.size < Limit)
      <4>1. u.size = Limit
        BY <1>3, <1>4, <2>2, <3>1, <3>3 DEF NeverReady
      <4>2. r * BlockSize < Limit
        BY <1>3, <1>4, <2>2, <2>4, <3>1, <3>3, <4>1 DEF Holds, Past, isReady
      <4>3. PICK D \in Nat : D >= 2 /\ Limit = (D - 1) * BlockSize
        BY LimitIs
      <4>4. r < D - 1
        <5> SUFFICES ASSUME r >= D - 1 PROVE FALSE
          BY <4>3
        <5>1. r * BlockSize >= (D - 1) * BlockSize
          BY <1>b, <4>3
        <5> QED
          BY <3>1, <4>2, <4>3, <5>1
      <4>5. r * BlockSize + BlockSize <= Limit
        BY <1>b, <4>3, <4>4, OneBlockLess
      <4>6. Len(u.content) = (r + 1) * BlockSize
        BY <1>4, <3>3 DEF Holds, Past
      <4> QED
        BY <3>1, <4>1, <4>5, <4>6
    <3> QED
      BY <3>2, <3>3
  <2> QED
    BY <1>4, <2>3, <2>5
<1>9. ReturnsComplete' /\ UnevenTracksThrow' /\ RoundsInv'
  <2>1. pc' = "save" /\ source' \in Sources
    BY <1>1 DEF Deals
  <2> QED
    BY <1>8, <1>10, <2>1 DEF ReturnsComplete, UnevenTracksThrow, RoundsInv
<1> QED
  BY <1>6, <1>7, <1>9 DEF IInv, WholeOrThrown

\* A turn of saveZoomFiles deals a cluster out, or throws.
LEMMA DealClusterStep ==
  ASSUME IInv, DealCluster
  PROVE  IInv'
<1> DEFINE t == files[fileCounter]
<1>1. /\ pc = "save" /\ files # <<>> /\ ~isAllReady
      /\ UNCHANGED <<source, numFiles, full_size>>
  BY DEF DealCluster
<1>2. PICK r \in Nat \ {0} : Dealt(r)
  BY <1>1 DEF IInv, RoundsInv
<1>3. CASE pc' \in {"read", "full"} /\ UNCHANGED <<files, position, fileCounter>>
  BY <1>1, <1>3, EndsWell DEF Ended
<1>4. ASSUME position + BlockSize <= Size
      PROVE  ToWrite(t) = 0 => isReady(t)
  <2>1. fileCounter \in DOMAIN files
    BY <1>1, <1>2, TracksTyped DEF Dealt
  <2>2. t \in Track /\ position \in Nat /\ Holds(t, Turns(fileCounter, r)) /\ Turns(fileCounter, r) \in Nat
    BY <1>2, <2>1, TracksTyped DEF IInv, WholeOrThrown, TypeOK, Dealt, Given, Turns
  <2> HIDE DEF t, Track
  <2>3. ToWrite(t) = 0 => t.size < Limit /\ Len(t.content) = t.size
    BY <1>4, <2>2, ClusterWritten
  <2> QED
    BY <2>2, <2>3 DEF isReady, Holds, Full
<1>5. CASE /\ position + BlockSize <= Size /\ ToWrite(t) = 0
           /\ pc' = "empty write" /\ UNCHANGED <<files, position, fileCounter>>
  <2>1. ~Even
    BY <1>1, <1>4, <1>5, FullTrackIsUneven
  <2> QED
    BY <1>1, <1>5, <2>1, EndsWell DEF Ended
<1>6. CASE /\ position + BlockSize <= Size /\ ToWrite(t) # 0
           /\ files' = [files EXCEPT ![fileCounter] = WriteBlock(@, position)]
           /\ position' = NextCluster /\ fileCounter' = NextTrack /\ UNCHANGED pc
  <2>2. Deals(r)
    BY <1>1, <1>2, <1>6 DEF Deals, NextCluster
  <2> QED
    BY <1>2, <2>2, ClusterDealt
<1>7. CannotRead(position, BlockSize) \/ position + BlockSize <= Size
  <2>1. position \in Nat
    BY DEF IInv, WholeOrThrown, TypeOK
  <2> QED
    BY <2>1, SizesAssumption DEF CannotRead
<1> HIDE DEF t
<1>8. t = files[fileCounter]
  BY DEF t
<1> QED
  BY <1>3, <1>5, <1>6, <1>7, <1>8 DEF DealCluster, Throws

\* Every step preserves the invariant.
LEMMA StepIInv == IInv /\ [Next]_vars => IInv'
<1> SUFFICES ASSUME IInv, [Next]_vars PROVE IInv'
  OBVIOUS
<1>1. CASE ReadZoomHeader
  BY <1>1, ReadZoomHeaderStep
<1>2. CASE Measure
  BY <1>2, MeasureStep
<1>3. CASE CreateTrack
  BY <1>3, CreateTrackStep
<1>4. CASE EndCreate
  BY <1>4, EndCreateStep
<1>5. CASE NoTrack
  BY <1>5, NoTrackStep
<1>6. CASE AllReady
  BY <1>6, AllReadyStep
<1>7. CASE DealCluster
  BY <1>7, DealClusterStep
<1>8. CASE UNCHANGED vars
  <2>1. UNCHANGED <<source, pc, position, numFiles, full_size, files, fileCounter>>
    BY <1>8 DEF vars
  <2>2. (TypeOK' <=> TypeOK) /\ (TracksAreDealt' <=> TracksAreDealt)
    BY <2>1 DEF TypeOK, TracksAreDealt, start
  <2>3. (ReturnsComplete' <=> ReturnsComplete) /\ (UnevenTracksThrow' <=> UnevenTracksThrow)
    BY <2>1 DEF ReturnsComplete, UnevenTracksThrow, Even, need, NeverReady
  <2>4. RoundsInv' <=> RoundsInv
    BY <2>1 DEF RoundsInv, Created, Dealt, Turns, Given, start, NoOverrun
  <2> QED
    BY <2>2, <2>3, <2>4 DEF IInv, WholeOrThrown
<1> QED
  BY <1>1, <1>2, <1>3, <1>4, <1>5, <1>6, <1>7, <1>8 DEF Next

-----------------------------------------------------------------------------
(* Theorems                                                                *)

\* The invariant holds at any time.
LEMMA Invariance == Spec => []IInv
<1>1. Init => IInv
  BY InitIInv
<1>2. IInv /\ [Next]_vars => IInv'
  BY StepIInv
<1> QED
  BY <1>1, <1>2, PTL DEF Spec

\* The clusters behind the project file are dealt out in turn, and none is left
\* out or given twice (createZoomFiles, saveZoomFiles).
THEOREM ClustersGoInTurn == Spec => []TracksAreDealt
<1>1. IInv => TracksAreDealt
  BY DEF IInv
<1> QED
  BY <1>1, Invariance, PTL

\* Execute returns complete tracks or nothing; a full track whose turn comes
\* makes it throw, exactly when the tracks do not come out even.
THEOREM SavesWholeOrThrows == Spec => []WholeOrThrown
<1>1. IInv => WholeOrThrown
  BY DEF IInv
<1> QED
  BY <1>1, Invariance, PTL
=============================================================================
