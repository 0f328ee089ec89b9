---------------------------- MODULE GoProProofs ----------------------------
(***************************************************************************)
(* Proofs about QuickTime and GoPro, for every device: what the copying    *)
(* loops copy, that the walk over the atoms goes forward, that what is     *)
(* saved parses again, and what the GoPro recovery leaves out and takes.   *)
(***************************************************************************)
EXTENDS GoPro, TLAPS, WellFoundedInduction, FiniteSetTheorems, SequenceTheorems

\* Least elements exist.
LessThan == {ss \in Nat \X Nat : ss[1] < ss[2]}
LEMMA LeastElement ==
  ASSUME NEW S \in SUBSET Nat, S # {}
  PROVE  \E m \in S : \A n \in S : m <= n
<1>1. OpToRel(<, Nat) = LessThan
  BY Zenon DEF OpToRel, LessThan
<1>2. IsWellFoundedOn(LessThan, Nat)
  BY <1>1, NatLessThanWellFounded, Zenon
<1>3. \E m \in S : \A n \in S : <<n, m>> \notin LessThan
  BY <1>2, WFMin
<1>4. PICK m \in S : \A n \in S : <<n, m>> \notin LessThan
  BY <1>3
<1>5. ASSUME NEW n \in S PROVE m <= n
  <2>1. <<n, m>> \in Nat \X Nat /\ ~(n < m)
    BY <1>4 DEF LessThan
  <2> QED
    BY <2>1
<1> QED
  BY <1>5

\* What the quotient and the remainder of natural numbers are.
LEMMA Division ==
  ASSUME NEW a \in Nat, NEW b \in Nat \ {0}
  PROVE  a \div b \in Nat /\ a % b \in 0 .. b - 1 /\ a = b * (a \div b) + (a % b)
OBVIOUS

\* Of two numbers the smaller one has at least one block less.
LEMMA OneLess ==
  ASSUME NEW m \in Int, NEW n \in Int, NEW b \in Nat \ {0}, m < n
  PROVE  m * b + b <= n * b
OBVIOUS

\* A number written as a multiple of b and a rest has them as its quotient
\* and remainder.
LEMMA Quotient ==
  ASSUME NEW b \in Nat \ {0}, NEW q \in Nat, NEW j \in 0 .. b - 1
  PROVE  (q * b + j) \div b = q /\ (q * b + j) % b = j
<1> DEFINE a == q * b + j
           d == a \div b
           m == a % b
<1>1. a \in Nat
  OBVIOUS
<1>2. d \in Nat /\ m \in 0 .. b - 1 /\ a = b * d + m
  BY <1>1, Division
<1>3. d * b = b * d
  BY <1>2
<1>4. a = q * b + j
  OBVIOUS
<1> HIDE DEF a, d, m
<1>5. CASE d < q
  BY <1>2, <1>3, <1>4, <1>5, OneLess
<1>6. CASE q < d
  BY <1>2, <1>3, <1>4, <1>6, OneLess
<1> QED
  BY <1>2, <1>3, <1>4, <1>5, <1>6 DEF a, d, m

\* Wrapping a part of a sum does not change how the sum wraps.
LEMMA WrapSum ==
  ASSUME NEW x \in Nat, NEW y \in Nat, NEW w \in Nat \ {0}
  PROVE  ((x % w) + y) % w = (x + y) % w
<1> DEFINE q == x \div w
           r == x % w
           z == r + y
           p == z \div w
           j == z % w
<1>1. q \in Nat /\ r \in 0 .. w - 1 /\ x = w * q + r
  BY Division
<1>2. z \in Nat
  BY <1>1
<1>3. p \in Nat /\ j \in 0 .. w - 1 /\ z = w * p + j
  BY <1>2, Division
<1>4. x + y = (q + p) * w + j
  <2>1. x + y = (w * q) + ((w * p) + j)
    <3> HIDE DEF p, j, q
    <3> QED
      BY <1>1, <1>3
  <2>2. (q + p) * w = (w * q) + (w * p)
    <3> HIDE DEF p, q
    <3> QED
      BY <1>1, <1>3
  <2>3. w * q \in Nat /\ w * p \in Nat /\ j \in Nat
    <3> HIDE DEF p, q, j
    <3> QED
      BY <1>1, <1>3
  <2> HIDE DEF p, q, j
  <2> QED
    BY <2>1, <2>2, <2>3
<1>5. ((q + p) * w + j) % w = j
  <2>1. q + p \in Nat
    BY <1>1, <1>3
  <2> HIDE DEF p, q, j
  <2> QED
    BY <1>3, <2>1, Quotient
<1> QED
  BY <1>4, <1>5

-----------------------------------------------------------------------------
(* BlockCopy: what the loops copy                                          *)

\* The rounds of n cells: together they hold them, and without the last do not.
LEMMA RoundsHold ==
  ASSUME NEW n \in Nat, NEW b \in Nat \ {0}
  PROVE  /\ RoundUp(n, b) \in Nat
         /\ n <= RoundUp(n, b) * b
         /\ RoundUp(n, b) # 0 => (RoundUp(n, b) - 1) * b < n
<1> DEFINE a == n + b - 1
           q == a \div b
<1>1. a \in Nat /\ b \in Nat \ {0}
  OBVIOUS
<1>2. q \in Nat /\ a % b \in 0 .. b - 1 /\ a = b * q + (a % b)
  BY <1>1, Division
<1>3. b * q = q * b /\ (q - 1) * b = q * b - b
  BY <1>2
<1>4. q * b \in Nat
  BY <1>2
<1>5. n <= q * b /\ (q - 1) * b < n
  <2> HIDE DEF q
  <2> QED
    BY <1>2, <1>3, <1>4
<1> QED
  BY <1>2, <1>5 DEF RoundUp

\* Behind the end of the device a round fails, so there is a first that does.
LEMMA FirstFailure ==
  ASSUME NEW a \in Nat, NEW n \in Nat, NEW block \in Nat \ {0}, NEW bad
  PROVE  LET r == rounds_read(a, n, block, bad)
         IN /\ r \in Nat
            /\ \A j \in 0 .. r - 1 : ~Fails(a, n, block, bad, j)
<1> DEFINE K == RoundUp(Size, block)
           S == {k \in 0 .. K : Fails(a, n, block, bad, k)}
<1>1. Size \in Nat
  BY DeviceAssumption
<1>2. K \in Nat /\ Size <= K * block
  BY <1>1, RoundsHold
<1>3. Fails(a, n, block, bad, K)
  <2>1. K * block \in Nat
    BY <1>2
  <2>2. Size <= a + K * block
    BY <1>1, <1>2, <2>1
  <2> DEFINE p == a + K * block
             m == round(a, n, block, K)
  <2>3. p \in Nat /\ m \in Int
    BY <2>1 DEF round, Smaller
  <2> HIDE DEF p, m, K
  <2>4. ~(m > 0 /\ p + m <= Size)
    BY <1>1, <2>2, <2>3 DEF p
  <2> QED
    BY <2>4 DEF Fails, Readable, p, m
<1> HIDE DEF K
<1>4. S \in SUBSET Nat /\ S # {}
  BY <1>2, <1>3
<1>5. PICK k \in S : \A j \in S : k <= j
  BY <1>4, LeastElement
<1>6. k \in 0 .. K /\ Fails(a, n, block, bad, k) /\ \A j \in 0 .. k - 1 : ~Fails(a, n, block, bad, j)
  BY <1>2, <1>5
<1>7. rounds_read(a, n, block, bad) \in 0 .. K
      /\ \A j \in 0 .. rounds_read(a, n, block, bad) - 1 : ~Fails(a, n, block, bad, j)
  BY <1>6 DEF rounds_read, K
<1> QED
  BY <1>2, <1>7

\* So many rounds that do not fail lie on the device.
LEMMA RoundsLie ==
  ASSUME NEW a \in Nat, NEW n \in Nat, NEW block \in Nat \ {0}, NEW bad, NEW k \in Nat, k # 0,
         ~Fails(a, n, block, bad, k - 1)
  PROVE  /\ a + Smaller(k * block, n) <= Size
         /\ (k - 1) * block < n
<1> DEFINE p == (k - 1) * block
           m == round(a, n, block, k - 1)
<1>1. p \in Nat /\ k * block = p + block
  OBVIOUS
<1>2. m > 0 /\ a + p + m <= Size /\ m = Smaller(block, n - p)
  BY DEF Fails, Readable, round
<1>3. Size \in Nat
  BY DeviceAssumption
<1> HIDE DEF p, m
<1>4. p < n /\ Smaller(k * block, n) = p + m
  BY <1>1, <1>2 DEF Smaller
<1> QED
  BY <1>1, <1>2, <1>3, <1>4 DEF p, Smaller

\* A copy is never longer than asked for nor than the device, and has all that
\* was asked for if that lies on the device and the loop did not throw.
LEMMA CopiedIs ==
  ASSUME NEW a \in Nat, NEW n \in Nat, NEW block \in Nat \ {0}, NEW bad
  PROVE  LET c == Copied(a, n, block, bad)
         IN /\ c.count \in Nat /\ c.count <= n
            /\ c.count = 0 \/ a + c.count <= Size
            /\ ~c.throws /\ a < Size /\ a + n <= Size => c.count = n
<1> DEFINE w == to_write(a, n)
           wanted == RoundUp(w, block)
           read == rounds_read(a, n, block, bad)
           c == Copied(a, n, block, bad)
<1>1. Size \in Nat /\ Wide \in Nat /\ Size < Wide
  BY DeviceAssumption
<1>2. read \in Nat /\ \A j \in 0 .. read - 1 : ~Fails(a, n, block, bad, j)
  BY FirstFailure
<1>3. w \in Nat
  <2>1. (Size - n) % Wide \in Nat
    BY <1>1
  <2> QED
    BY <2>1 DEF to_write
<1>4. wanted \in Nat /\ w <= wanted * block
  BY <1>3, RoundsHold
<1>5. a + n <= Size => w = n
  BY <1>1 DEF to_write
<1>6. CASE a >= Size
  <2>1. c = [count |-> 0, throws |-> FALSE]
    BY <1>6 DEF Copied
  <2> QED
    BY <1>1, <1>6, <2>1
<1>7. CASE a < Size /\ wanted <= read
  <2>1. c = [count |-> Smaller(wanted * block, n), throws |-> FALSE]
    BY <1>1, <1>7 DEF Copied
  <2>2. wanted * block \in Nat
    BY <1>4
  <2>3. CASE wanted = 0
    <3>1. wanted * block = 0
      BY <2>3
    <3> HIDE DEF wanted, w
    <3> QED
      BY <1>1, <1>4, <1>5, <2>1, <2>3, <3>1 DEF Smaller
  <2>4. CASE wanted # 0
    <3>1. wanted - 1 \in 0 .. read - 1
      BY <1>2, <1>4, <1>7, <2>4
    <3>2. a + Smaller(wanted * block, n) <= Size
      BY <1>2, <1>4, <2>4, <3>1, RoundsLie
    <3> HIDE DEF wanted, w, c
    <3> QED
      BY <1>1, <1>4, <1>5, <2>1, <2>2, <3>2 DEF Smaller, c
  <2> QED
    BY <2>3, <2>4
<1>8. CASE a < Size /\ ~(wanted <= read)
  <2>1. c = [count |-> read * block, throws |-> TRUE]
    BY <1>1, <1>8 DEF Copied
  <2>2. read * block \in Nat
    BY <1>2
  <2>3. CASE read = 0
    BY <2>1, <2>3
  <2>4. CASE read # 0
    <3>1. read - 1 \in 0 .. read - 1
      BY <1>2, <2>4
    <3>2. a + Smaller(read * block, n) <= Size
      BY <1>2, <2>4, <3>1, RoundsLie
    <3>3. CASE a + n > Size
      <4> HIDE DEF read, c
      <4> QED
        BY <1>1, <2>1, <2>2, <3>2, <3>3 DEF Smaller, c
    <3>4. CASE a + n <= Size
      <4>1. wanted # 0 /\ (wanted - 1) * block < n
        BY <1>2, <1>3, <1>4, <1>5, <1>8, <3>4, RoundsHold
      <4>2. read <= wanted - 1
        BY <1>2, <1>4, <1>8
      <4>3. read * block <= (wanted - 1) * block
        <5> HIDE DEF read, wanted
        <5> QED
          BY <1>2, <1>4, <4>1, <4>2
      <4>4. (wanted - 1) * block \in Nat
        BY <1>4, <4>1
      <4> HIDE DEF read, wanted, c
      <4> QED
        BY <1>1, <2>1, <2>2, <3>2, <4>1, <4>3, <4>4 DEF Smaller, c
    <3> QED
      BY <1>1, <3>3, <3>4
  <2> QED
    BY <2>3, <2>4
<1> QED
  BY <1>1, <1>6, <1>7, <1>8

\* Short sequences, element by element.
LEMMA Pair ==
  ASSUME NEW S, NEW x \in S, NEW y \in S
  PROVE  Append(<<x>>, y) = <<x, y>>
<1> DEFINE u == Append(<<x>>, y)
           v == <<x, y>>
<1>1. u \in Seq(S) /\ v \in Seq(S) /\ Len(u) = 2 /\ Len(v) = 2
  OBVIOUS
<1>2. u[1] = x /\ u[2] = y /\ v[1] = x /\ v[2] = y
  OBVIOUS
<1>3. \A i \in 1 .. Len(u) : u[i] = v[i]
  <2>1. \A i \in 1 .. Len(u) : i = 1 \/ i = 2
    BY <1>1
  <2> QED
    BY <1>2, <2>1
<1> HIDE DEF u, v
<1>4. u = v
  BY <1>1, <1>3, SeqEqual
<1> QED
  BY <1>4 DEF u, v

LEMMA Triple ==
  ASSUME NEW S, NEW x \in S, NEW y \in S, NEW z \in S
  PROVE  Append(<<x, y>>, z) = <<x, y, z>>
<1> DEFINE u == Append(<<x, y>>, z)
           v == <<x, y, z>>
<1>1. u \in Seq(S) /\ v \in Seq(S) /\ Len(u) = 3 /\ Len(v) = 3
  OBVIOUS
<1>2. u[1] = x /\ u[2] = y /\ u[3] = z /\ v[1] = x /\ v[2] = y /\ v[3] = z
  OBVIOUS
<1>3. \A i \in 1 .. Len(u) : u[i] = v[i]
  <2>1. \A i \in 1 .. Len(u) : i = 1 \/ i = 2 \/ i = 3
    BY <1>1
  <2> QED
    BY <1>2, <2>1
<1> HIDE DEF u, v
<1>4. u = v
  BY <1>1, <1>3, SeqEqual
<1> QED
  BY <1>4 DEF u, v

-----------------------------------------------------------------------------
(* QuickTime: sizes of lists of atoms                                      *)

AtomRecord == [offset : Nat, size : Nat]
AtomList == Seq(AtomRecord)

\* The two sums over the sizes of the first m atoms, that of the code, which
\* wraps around, and the true one.
Wrapped(f, s, m) ==
  f = [k \in 0 .. m |-> IF k = 0 THEN 0 ELSE (f[k - 1] + s[k].size) % Wide]
Summed(f, s, m) ==
  f = [k \in 0 .. m |-> IF k = 0 THEN 0 ELSE f[k - 1] + s[k].size]

LEMMA WrappedExists ==
  ASSUME NEW s, NEW m \in Nat
  PROVE  \E f : Wrapped(f, s, m)
<1> DEFINE S == {k \in Nat : ~\E f : Wrapped(f, s, k)}
<1> SUFFICES ASSUME S # {} PROVE FALSE
  OBVIOUS
<1>1. PICK k \in S : \A j \in S : k <= j
  BY LeastElement
<1>2. k \in Nat /\ ~\E f : Wrapped(f, s, k)
  BY <1>1
<1>3. CASE k = 0
  <2>1. Wrapped([j \in 0 .. k |-> 0], s, k)
    BY <1>3 DEF Wrapped
  <2> QED
    BY <1>2, <2>1
<1>4. CASE k # 0
  <2>1. k - 1 \in Nat /\ k - 1 \notin S
    BY <1>1, <1>4
  <2>2. PICK g : Wrapped(g, s, k - 1)
    BY <2>1
  <2> DEFINE f == [j \in 0 .. k |-> IF j = k THEN (g[k - 1] + s[k].size) % Wide ELSE g[j]]
  <2>3. Wrapped(f, s, k)
    <3>1. \A j \in 0 .. k - 1 : g[j] = IF j = 0 THEN 0 ELSE (g[j - 1] + s[j].size) % Wide
      BY <2>2 DEF Wrapped
    <3>2. \A j \in 0 .. k : f[j] = IF j = 0 THEN 0 ELSE (f[j - 1] + s[j].size) % Wide
      BY <1>2, <1>4, <3>1
    <3> QED
      BY <3>2 DEF Wrapped
  <2> QED
    BY <1>2, <2>3
<1> QED
  BY <1>3, <1>4

LEMMA SummedExists ==
  ASSUME NEW s, NEW m \in Nat
  PROVE  \E f : Summed(f, s, m)
<1> DEFINE S == {k \in Nat : ~\E f : Summed(f, s, k)}
<1> SUFFICES ASSUME S # {} PROVE FALSE
  OBVIOUS
<1>1. PICK k \in S : \A j \in S : k <= j
  BY LeastElement
<1>2. k \in Nat /\ ~\E f : Summed(f, s, k)
  BY <1>1
<1>3. CASE k = 0
  <2>1. Summed([j \in 0 .. k |-> 0], s, k)
    BY <1>3 DEF Summed
  <2> QED
    BY <1>2, <2>1
<1>4. CASE k # 0
  <2>1. k - 1 \in Nat /\ k - 1 \notin S
    BY <1>1, <1>4
  <2>2. PICK g : Summed(g, s, k - 1)
    BY <2>1
  <2> DEFINE f == [j \in 0 .. k |-> IF j = k THEN g[k - 1] + s[k].size ELSE g[j]]
  <2>3. Summed(f, s, k)
    <3>1. \A j \in 0 .. k - 1 : g[j] = IF j = 0 THEN 0 ELSE g[j - 1] + s[j].size
      BY <2>2 DEF Summed
    <3>2. \A j \in 0 .. k : f[j] = IF j = 0 THEN 0 ELSE f[j - 1] + s[j].size
      BY <1>2, <1>4, <3>1
    <3> QED
      BY <3>2 DEF Summed
  <2> QED
    BY <1>2, <2>3
<1> QED
  BY <1>3, <1>4

\* Sums over the same atoms agree.
SameSizes(s, t, n) == \A j \in 1 .. n : s[j].size = t[j].size
LEMMA SumsAgree ==
  ASSUME NEW s, NEW t, NEW m \in Nat, NEW n \in Nat, m <= n, NEW f, NEW g,
         Summed(f, s, m), Summed(g, t, n), SameSizes(s, t, m)
  PROVE  f[m] = g[m]
<1> SUFFICES ASSUME f[m] # g[m] PROVE FALSE
  OBVIOUS
<1> DEFINE S == {k \in 0 .. m : f[k] # g[k]}
<1>1. S \in SUBSET Nat /\ S # {}
  OBVIOUS
<1>2. PICK k \in S : \A j \in S : k <= j
  BY <1>1, LeastElement
<1>3. k \in 0 .. m /\ f[k] # g[k] /\ k \in 0 .. n
  BY <1>2
<1>4. /\ f[k] = IF k = 0 THEN 0 ELSE f[k - 1] + s[k].size
      /\ g[k] = IF k = 0 THEN 0 ELSE g[k - 1] + t[k].size
  BY <1>3 DEF Summed
<1>5. k # 0
  BY <1>3, <1>4
<1>6. f[k - 1] = g[k - 1] /\ s[k].size = t[k].size
  <2>1. k \in 1 .. m /\ k - 1 \in 0 .. m /\ ~(k <= k - 1)
    BY <1>3, <1>5
  <2> QED
    BY <1>2, <2>1 DEF SameSizes
<1> QED
  BY <1>3, <1>4, <1>5, <1>6

\* Both are such sums.
LEMMA TotalIs ==
  ASSUME NEW s, Len(s) \in Nat
  PROVE  /\ \E f : Wrapped(f, s, Len(s)) /\ Total(s) = f[Len(s)]
         /\ \E f : Summed(f, s, Len(s)) /\ Length(s) = f[Len(s)]
<1>1. \E f : Wrapped(f, s, Len(s))
  BY WrappedExists
<1>2. \E f : Summed(f, s, Len(s))
  BY SummedExists
<1> DEFINE f == CHOOSE h : Wrapped(h, s, Len(s))
           g == CHOOSE h : Summed(h, s, Len(s))
<1>3. Wrapped(f, s, Len(s)) /\ Summed(g, s, Len(s))
  BY <1>1, <1>2
<1>4. Total(s) = f[Len(s)] /\ Length(s) = g[Len(s)]
  BY DEF Total, Length, Wrapped, Summed
<1> QED
  BY <1>3, <1>4

\* The sum of the sizes of the first k atoms, for every k at once.
Prefix(s, k) == Length(SubSeq(s, 1, k))
LEMMA PrefixSums ==
  ASSUME NEW s \in AtomList
  PROVE  /\ Prefix(s, 0) = 0 /\ Prefix(s, Len(s)) = Length(s) /\ Length(s) \in Nat
         /\ \A k \in 1 .. Len(s) : Prefix(s, k) = Prefix(s, k - 1) + s[k].size
         /\ \A k \in 0 .. Len(s) : Prefix(s, k) \in Nat /\ Prefix(s, k) <= Length(s)
         /\ Total(s) = Length(s) % Wide
<1> DEFINE n == Len(s)
<1>1. n \in Nat /\ \A k \in 1 .. n : s[k] \in AtomRecord /\ s[k].size \in Nat
  <2>1. n \in Nat /\ \A k \in 1 .. n : s[k] \in AtomRecord
    BY DEF AtomList
  <2> QED
    BY <2>1 DEF AtomRecord
<1>2. PICK f : Summed(f, s, n) /\ Length(s) = f[n]
  BY <1>1, TotalIs
<1>3. PICK h : Wrapped(h, s, n) /\ Total(s) = h[n]
  BY <1>1, TotalIs
<1>4. /\ f[0] = 0 /\ h[0] = 0
      /\ \A k \in 1 .. n : f[k] = f[k - 1] + s[k].size /\ h[k] = (h[k - 1] + s[k].size) % Wide
  BY <1>1, <1>2, <1>3 DEF Summed, Wrapped
<1>5. ASSUME NEW k \in 0 .. n PROVE Prefix(s, k) = f[k]
  <2> DEFINE u == SubSeq(s, 1, k)
  <2>1. Len(u) = k /\ k \in Nat /\ \A j \in 1 .. k : u[j].size = s[j].size
    BY <1>1, <1>5 DEF AtomList
  <2>2. PICK g : Summed(g, u, k) /\ Length(u) = g[k]
    BY <2>1, TotalIs
  <2> HIDE DEF u
  <2>3. k \in Nat /\ n \in Nat /\ k <= n /\ SameSizes(u, s, k)
    BY <1>1, <2>1 DEF SameSizes
  <2>4. g[k] = f[k]
    <3>1. Summed(g, u, k) /\ Summed(f, s, n)
      BY <1>2, <2>2
    <3> HIDE DEF n
    <3> QED
      BY ONLY <2>3, <3>1, SumsAgree
  <2> QED
    BY <2>2, <2>4 DEF Prefix, u
<1>6. Wide \in Nat \ {0}
  BY DeviceAssumption
<1>7. ASSUME NEW k \in 0 .. n PROVE f[k] \in Nat /\ h[k] = f[k] % Wide
  <2> DEFINE S == {j \in 0 .. n : ~(f[j] \in Nat /\ h[j] = f[j] % Wide)}
  <2> SUFFICES ASSUME S # {} PROVE FALSE
    BY <1>7
  <2>1. PICK j \in S : \A i \in S : j <= i
    <3>1. S \in SUBSET Nat
      BY <1>1
    <3> QED
      BY <3>1, LeastElement
  <2>2. j \in 0 .. n /\ ~(f[j] \in Nat /\ h[j] = f[j] % Wide)
    BY <2>1
  <2>3. j # 0
    BY <1>4, <1>6, <2>2
  <2>4. j - 1 \in 0 .. n /\ j \in 1 .. n /\ f[j - 1] \in Nat /\ h[j - 1] = f[j - 1] % Wide
    BY <2>1, <2>2, <2>3
  <2>5. f[j] = f[j - 1] + s[j].size /\ h[j] = (h[j - 1] + s[j].size) % Wide /\ s[j].size \in Nat
    BY <1>1, <1>4, <2>4
  <2>6. h[j] = f[j] % Wide
    <3>1. ((f[j - 1] % Wide) + s[j].size) % Wide = (f[j - 1] + s[j].size) % Wide
      BY <1>6, <2>4, <2>5, WrapSum
    <3> QED
      BY <2>4, <2>5, <3>1
  <2>7. f[j] \in Nat
    BY <2>4, <2>5
  <2> QED
    BY <2>2, <2>6, <2>7
<1>8. ASSUME NEW k \in 0 .. n PROVE f[k] <= f[n]
  <2> DEFINE S == {j \in Nat : j <= n /\ ~(f[n - j] <= f[n])}
  <2> SUFFICES ASSUME S # {} PROVE FALSE
    <3>1. n - k \in Nat /\ n - k <= n /\ n - (n - k) = k
      BY <1>1, <1>8
    <3> QED
      BY <3>1
  <2>1. PICK j \in S : \A i \in S : j <= i
    BY LeastElement
  <2>2. j \in Nat /\ j <= n /\ ~(f[n - j] <= f[n])
    BY <2>1
  <2>3. j # 0
    BY <1>1, <1>7, <2>2
  <2>4. f[n - (j - 1)] <= f[n]
    BY <2>1, <2>2, <2>3
  <2>5. n - j + 1 \in 1 .. n /\ n - (j - 1) = n - j + 1 /\ (n - j + 1) - 1 = n - j /\ n - j \in 0 .. n
    BY <1>1, <2>2, <2>3
  <2>6. f[n - j + 1] = f[n - j] + s[n - j + 1].size
    BY <1>4, <2>5
  <2>7. f[n - j] \in Nat /\ f[n - j + 1] \in Nat /\ f[n] \in Nat /\ s[n - j + 1].size \in Nat
    BY <1>1, <1>7, <2>5
  <2> QED
    BY <2>2, <2>4, <2>5, <2>6, <2>7
<1>9. Prefix(s, n) = f[n] /\ f[n] \in Nat /\ h[n] = f[n] % Wide
  BY <1>1, <1>5, <1>7
<1>10. ASSUME NEW k \in 1 .. n PROVE Prefix(s, k) = Prefix(s, k - 1) + s[k].size
  <2>1. k \in 0 .. n /\ k - 1 \in 0 .. n
    BY <1>1
  <2> QED
    BY <1>4, <1>5, <2>1
<1>11. ASSUME NEW k \in 0 .. n PROVE Prefix(s, k) \in Nat /\ Prefix(s, k) <= Length(s)
  BY <1>2, <1>5, <1>7, <1>8
<1>12. Prefix(s, 0) = 0
  BY <1>1, <1>4, <1>5
<1> QED
  BY <1>2, <1>3, <1>9, <1>10, <1>11, <1>12

\* One atom more.
LEMMA AppendSums ==
  ASSUME NEW s \in AtomList, NEW e \in AtomRecord
  PROVE  /\ Append(s, e) \in AtomList /\ Len(Append(s, e)) = Len(s) + 1
         /\ \A k \in 1 .. Len(s) : Append(s, e)[k] = s[k]
         /\ Append(s, e)[Len(s) + 1] = e
         /\ \A k \in 0 .. Len(s) : Prefix(Append(s, e), k) = Prefix(s, k)
         /\ Length(Append(s, e)) = Length(s) + e.size
<1> DEFINE t == Append(s, e)
<1>1. t \in AtomList /\ Len(t) = Len(s) + 1 /\ Len(s) \in Nat
  BY DEF AtomList
<1>2. (\A k \in 1 .. Len(s) : t[k] = s[k]) /\ t[Len(s) + 1] = e
  BY DEF AtomList
<1>3. ASSUME NEW k \in 0 .. Len(s) PROVE Prefix(t, k) = Prefix(s, k)
  <2>1. SubSeq(t, 1, k) = SubSeq(s, 1, k)
    BY <1>1, <1>2, <1>3 DEF AtomList
  <2> QED
    BY <2>1 DEF Prefix
<1>4. Length(t) = Length(s) + e.size
  <2>1. Len(s) + 1 \in 1 .. Len(t)
    BY <1>1
  <2>2. Prefix(t, Len(s) + 1) = Prefix(t, Len(s) + 1 - 1) + e.size /\ Prefix(t, Len(t)) = Length(t)
    <3>1. Prefix(t, Len(s) + 1) = Prefix(t, Len(s) + 1 - 1) + t[Len(s) + 1].size
      <4> HIDE DEF t
      <4> QED
        BY <1>1, <2>1, PrefixSums
    <3>2. Prefix(t, Len(t)) = Length(t)
      BY <1>1, PrefixSums
    <3> QED
      BY <1>1, <1>2, <3>1, <3>2
  <2>3. Prefix(t, Len(s) + 1 - 1) = Length(s)
    BY <1>1, <1>3, PrefixSums
  <2> QED
    BY <1>1, <2>2, <2>3
<1> QED
  BY <1>1, <1>2, <1>3, <1>4

-----------------------------------------------------------------------------
(* QuickTime: atoms that lie one behind the other                          *)

Inside(s) == \A k \in DOMAIN s : s[k].offset + s[k].size <= Size
Chain(s, a) == \A k \in 1 .. Len(s) : s[k].offset = (a + Prefix(s, k - 1)) % Wide

\* Small numbers do not wrap around.
LEMMA NoWrap ==
  ASSUME NEW n \in 0 .. Size
  PROVE  n % Wide = n
BY DeviceAssumption

LEMMA BelowWide ==
  ASSUME NEW n \in Nat, n < Wide
  PROVE  n % Wide = n
BY DeviceAssumption

\* A chain whose atoms all lie on the device lies there as a whole, and where
\* the sizes say; and a chain is inside if the whole of it is.
LEMMA ChainInside ==
  ASSUME NEW s \in AtomList, NEW a \in Cell, Chain(s, a)
  PROVE  /\ Inside(s) => /\ a + Length(s) <= Size
                         /\ \A k \in 1 .. Len(s) : s[k].offset = a + Prefix(s, k - 1)
         /\ a + Length(s) <= Size => Inside(s)
<1>1. Size \in Nat /\ a \in 0 .. Size - 1 /\ Len(s) \in Nat
  BY DeviceAssumption DEF Cell, AtomList
<1>2. /\ Prefix(s, 0) = 0 /\ Prefix(s, Len(s)) = Length(s)
      /\ \A k \in 1 .. Len(s) : Prefix(s, k) = Prefix(s, k - 1) + s[k].size
      /\ \A k \in 0 .. Len(s) : Prefix(s, k) \in Nat /\ Prefix(s, k) <= Length(s)
      /\ Length(s) \in Nat
  BY PrefixSums
<1>3. \A k \in 1 .. Len(s) : k - 1 \in 0 .. Len(s) /\ s[k].size \in Nat
  <2>1. \A k \in 1 .. Len(s) : s[k] \in AtomRecord
    BY DEF AtomList
  <2> QED
    BY <1>1, <2>1 DEF AtomRecord
<1>4. ASSUME NEW k \in 1 .. Len(s), a + Prefix(s, k - 1) <= Size
      PROVE  s[k].offset = a + Prefix(s, k - 1)
  <2>1. a + Prefix(s, k - 1) \in 0 .. Size
    BY <1>1, <1>2, <1>3, <1>4
  <2> QED
    BY <2>1, NoWrap DEF Chain
<1>5. ASSUME Inside(s), NEW k \in 0 .. Len(s) PROVE a + Prefix(s, k) <= Size
  <2> DEFINE S == {j \in 0 .. Len(s) : ~(a + Prefix(s, j) <= Size)}
  <2> SUFFICES ASSUME S # {} PROVE FALSE
    BY <1>5
  <2>1. PICK j \in S : \A i \in S : j <= i
    <3>1. S \in SUBSET Nat
      BY <1>1
    <3> QED
      BY <3>1, LeastElement
  <2>2. j \in 0 .. Len(s) /\ ~(a + Prefix(s, j) <= Size)
    BY <2>1
  <2>3. j # 0
    BY <1>1, <1>2, <2>2
  <2>4. j - 1 \in 0 .. Len(s) /\ j \in 1 .. Len(s) /\ a + Prefix(s, j - 1) <= Size
    BY <1>1, <2>1, <2>2, <2>3
  <2>5. s[j].offset = a + Prefix(s, j - 1)
    BY <1>4, <2>4
  <2>6. s[j].offset + s[j].size <= Size
    BY <1>1, <1>5, <2>4 DEF Inside, AtomList
  <2>7. Prefix(s, j) = Prefix(s, j - 1) + s[j].size /\ Prefix(s, j - 1) \in Nat /\ s[j].size \in Nat
    BY <1>2, <1>3, <2>4
  <2>8. a \in Nat
    BY <1>1 DEF Cell
  <2>9. ~(a + Prefix(s, j) <= Size)
    BY <2>2
  <2>10. a + Prefix(s, j) = s[j].offset + s[j].size
    BY ONLY <2>5, <2>7, <2>8
  <2> QED
    BY ONLY <2>6, <2>9, <2>10
<1>6. ASSUME a + Length(s) <= Size, NEW k \in 1 .. Len(s)
      PROVE  s[k].offset + s[k].size <= Size
  <2>1. a + Prefix(s, k) <= Size /\ Prefix(s, k) = Prefix(s, k - 1) + s[k].size
    BY <1>1, <1>2, <1>3, <1>6
  <2>2. a + Prefix(s, k - 1) <= Size
    <3>1. s[k].size \in Nat /\ Prefix(s, k - 1) \in Nat /\ a \in Nat /\ Size \in Nat
      BY <1>1, <1>2, <1>3
    <3> QED
      BY ONLY <2>1, <3>1
  <2>3. s[k].offset = a + Prefix(s, k - 1)
    BY <1>4, <2>2
  <2>4. Prefix(s, k - 1) \in Nat /\ s[k].size \in Nat
    BY <1>2, <1>3
  <2> QED
    BY <1>1, <2>1, <2>3, <2>4
<1>7. DOMAIN s = 1 .. Len(s)
  BY DEF AtomList
<1>8. ASSUME Inside(s)
      PROVE  /\ a + Length(s) <= Size
             /\ \A k \in 1 .. Len(s) : s[k].offset = a + Prefix(s, k - 1)
  <2>1. \A k \in 0 .. Len(s) : a + Prefix(s, k) <= Size
    BY <1>5, <1>8
  <2> QED
    BY <1>1, <1>2, <1>3, <1>4, <2>1
<1>9. a + Length(s) <= Size => Inside(s)
  BY <1>6, <1>7 DEF Inside
<1> QED
  BY <1>8, <1>9

\* The atoms of s follow one another in t, unless one lies beyond the device.
Parses(s, t) ==
  IF Inside(s)
  THEN /\ Len(t) = Length(s)
       /\ \A k \in DOMAIN s : \A i \in 0 .. s[k].size - 1 :
            t[Prefix(s, k - 1) + 1 + i] = s[k].offset + i
  ELSE Len(t) < Length(s)

\* How much a save of a chain copies: all of it when it lies on the device,
\* less when it does not.
LEMMA ChainCopied ==
  ASSUME NEW s \in AtomList, NEW a \in Cell, Chain(s, a), NEW block \in Nat \ {0}, NEW bad,
         ~Copied(a, Total(s), block, bad).throws
  PROVE  LET n == Copied(a, Total(s), block, bad).count
         IN /\ n \in Nat
            /\ Inside(s) => n = Length(s)
            /\ ~Inside(s) => n < Length(s)
<1> DEFINE c == Copied(a, Total(s), block, bad)
<1>1. Size \in Nat /\ a \in Nat /\ a < Size /\ Wide \in Nat \ {0}
  BY DeviceAssumption DEF Cell
<1>2. Length(s) \in Nat /\ Total(s) = Length(s) % Wide
  BY PrefixSums
<1>3. Total(s) \in Nat /\ Total(s) <= Length(s)
  BY <1>1, <1>2
<1>4. /\ c.count \in Nat /\ c.count <= Total(s)
      /\ c.count = 0 \/ a + c.count <= Size
      /\ a + Total(s) <= Size => c.count = Total(s)
  BY <1>1, <1>3, CopiedIs
<1>5. ASSUME Inside(s) PROVE c.count = Length(s)
  <2>1. a + Length(s) <= Size
    BY <1>5, ChainInside
  <2>2. Total(s) = Length(s)
    BY <1>1, <1>2, <2>1, NoWrap
  <2> QED
    BY <1>4, <2>1, <2>2
<1>6. ASSUME ~Inside(s) PROVE c.count < Length(s)
  <2>1. ~(a + Length(s) <= Size)
    BY <1>6, ChainInside
  <2> HIDE DEF c
  <2> QED
    BY <1>1, <1>2, <1>3, <1>4, <2>1
<1> QED
  BY <1>4, <1>5, <1>6

\* A chain that is saved parses in the target.
LEMMA ChainSaved ==
  ASSUME NEW s \in AtomList, NEW a \in Cell, Chain(s, a), NEW block \in Nat \ {0}, NEW bad,
         ~Copied(a, Total(s), block, bad).throws
  PROVE  LET n == Copied(a, Total(s), block, bad).count
         IN Parses(s, Cells(a, n)) /\ Len(Cells(a, n)) = n
<1> DEFINE n == Copied(a, Total(s), block, bad).count
<1>1. n \in Nat /\ (Inside(s) => n = Length(s)) /\ (~Inside(s) => n < Length(s))
  BY ChainCopied
<1> HIDE DEF n
<1>2. Len(Cells(a, n)) = n /\ \A i \in 1 .. n : Cells(a, n)[i] = a + i - 1
  BY <1>1 DEF Cells
<1>3. ASSUME Inside(s), NEW k \in DOMAIN s, NEW i \in 0 .. s[k].size - 1
      PROVE  Cells(a, n)[Prefix(s, k - 1) + 1 + i] = s[k].offset + i
  <2>1. k \in 1 .. Len(s) /\ k - 1 \in 0 .. Len(s) /\ k \in 0 .. Len(s) /\ s[k] \in AtomRecord
    BY DEF AtomList
  <2>2. /\ Prefix(s, k - 1) \in Nat /\ s[k].size \in Nat
        /\ Prefix(s, k - 1) + s[k].size <= Length(s)
    <3>1. Prefix(s, k) = Prefix(s, k - 1) + s[k].size /\ Prefix(s, k) <= Length(s)
      BY <2>1, PrefixSums
    <3>2. Prefix(s, k - 1) \in Nat
      BY <2>1, PrefixSums
    <3> QED
      BY <2>1, <3>1, <3>2 DEF AtomRecord
  <2>3. s[k].offset = a + Prefix(s, k - 1)
    BY <1>3, <2>1, ChainInside
  <2>4. Prefix(s, k - 1) + 1 + i \in 1 .. n
    BY <1>1, <1>3, <2>2
  <2> QED
    BY <1>2, <2>2, <2>3, <2>4 DEF Cell
<1> QED
  BY <1>1, <1>2, <1>3 DEF Parses, n

\* What a concatenation is made of.
LEMMA Joined ==
  ASSUME NEW u \in Seq(Int), NEW v \in Seq(Int)
  PROVE  /\ Len(u \o v) = Len(u) + Len(v) /\ u \o v \in Seq(Int)
         /\ \A i \in 1 .. Len(u) : (u \o v)[i] = u[i]
         /\ \A i \in 1 .. Len(v) : (u \o v)[Len(u) + i] = v[i]
OBVIOUS

\* A chain, and behind it in the target an atom from somewhere else.
LEMMA JoinedSaved ==
  ASSUME NEW s \in AtomList, NEW a \in Cell, Chain(s, a), NEW e \in AtomRecord, e.offset \in Cell,
         NEW block \in Nat \ {0}, NEW bad,
         ~Copied(a, Total(s), block, bad).throws, ~Copied(e.offset, e.size, block, bad).throws
  PROVE  LET n == Copied(a, Total(s), block, bad).count
             m == Copied(e.offset, e.size, block, bad).count
             t == Cells(a, n) \o Cells(e.offset, m)
         IN Parses(Append(s, e), t) /\ Len(t) = n + m
<1> DEFINE n == Copied(a, Total(s), block, bad).count
           m == Copied(e.offset, e.size, block, bad).count
           t == Cells(a, n) \o Cells(e.offset, m)
           u == Append(s, e)
<1>1. n \in Nat /\ (Inside(s) => n = Length(s)) /\ (~Inside(s) => n < Length(s))
  BY ChainCopied
<1>2. Parses(s, Cells(a, n)) /\ Len(Cells(a, n)) = n
  BY ChainSaved
<1>3. Size \in Nat /\ e.offset \in Nat /\ e.size \in Nat /\ e.offset < Size
  BY DeviceAssumption DEF Cell, AtomRecord
<1>4. /\ m \in Nat /\ m <= e.size /\ (m = 0 \/ e.offset + m <= Size)
      /\ e.offset + e.size <= Size => m = e.size
  BY <1>3, CopiedIs
<1> HIDE DEF n, m
<1>5. /\ Len(u) = Len(s) + 1 /\ Len(s) \in Nat /\ (\A k \in 1 .. Len(s) : u[k] = s[k])
      /\ u[Len(s) + 1] = e /\ (\A k \in 0 .. Len(s) : Prefix(u, k) = Prefix(s, k))
      /\ Length(u) = Length(s) + e.size /\ DOMAIN u = 1 .. Len(s) + 1 /\ DOMAIN s = 1 .. Len(s)
  <2>1. u \in AtomList /\ Len(u) = Len(s) + 1 /\ DOMAIN s = 1 .. Len(s)
    BY AppendSums DEF AtomList
  <2>2. DOMAIN u = 1 .. Len(u)
    BY <2>1 DEF AtomList
  <2> QED
    BY <2>1, <2>2, AppendSums DEF AtomList
<1>6. Inside(u) <=> Inside(s) /\ e.offset + e.size <= Size
  <2>1. Inside(u) <=> \A k \in 1 .. Len(s) + 1 : u[k].offset + u[k].size <= Size
    BY <1>5 DEF Inside
  <2>2. Inside(s) <=> \A k \in 1 .. Len(s) : s[k].offset + s[k].size <= Size
    BY <1>5 DEF Inside
  <2> HIDE DEF u
  <2>3. \A k \in 1 .. Len(s) + 1 : k \in 1 .. Len(s) \/ k = Len(s) + 1
    BY <1>5
  <2>4. \A k \in 1 .. Len(s) : k \in 1 .. Len(s) + 1
    BY <1>5
  <2>5. Len(s) + 1 \in 1 .. Len(s) + 1
    BY <1>5
  <2> QED
    BY <1>5, <2>1, <2>2, <2>3, <2>4, <2>5
<1>7. Len(t) = n + m /\ (\A i \in 1 .. n : t[i] = Cells(a, n)[i])
      /\ (\A i \in 1 .. m : t[n + i] = e.offset + i - 1)
  <2>1. Cells(a, n) \in Seq(Int) /\ Cells(e.offset, m) \in Seq(Int)
    BY <1>1, <1>3, <1>4 DEF Cells, Cell
  <2>2. Len(Cells(e.offset, m)) = m /\ \A i \in 1 .. m : Cells(e.offset, m)[i] = e.offset + i - 1
    BY <1>4 DEF Cells
  <2> DEFINE x == Cells(a, n)
             y == Cells(e.offset, m)
  <2>3. /\ Len(t) = Len(x) + Len(y) /\ (\A i \in 1 .. Len(x) : t[i] = x[i])
        /\ (\A i \in 1 .. Len(y) : t[Len(x) + i] = y[i])
    <3> HIDE DEF x, y
    <3>1. x \in Seq(Int) /\ y \in Seq(Int) /\ t = x \o y
      BY <2>1 DEF x, y
    <3> HIDE DEF t
    <3> QED
      BY <3>1, Joined
  <2> HIDE DEF t
  <2> QED
    BY <1>2, <2>2, <2>3
<1> HIDE DEF t, u
<1>8. CASE Inside(u)
  <2>1. Inside(s) /\ n = Length(s) /\ m = e.size
    BY <1>1, <1>4, <1>6, <1>8
  <2>2. ASSUME NEW k \in DOMAIN u, NEW i \in 0 .. u[k].size - 1
        PROVE  t[Prefix(u, k - 1) + 1 + i] = u[k].offset + i
    <3>1. CASE k \in 1 .. Len(s)
      <4>1. u[k] = s[k] /\ k \in DOMAIN s /\ k - 1 \in 0 .. Len(s) /\ k \in 0 .. Len(s)
        BY <1>5, <3>1
      <4>2. Cells(a, n)[Prefix(s, k - 1) + 1 + i] = s[k].offset + i
        BY <1>2, <2>1, <2>2, <4>1 DEF Parses
      <4>3. Prefix(s, k) = Prefix(s, k - 1) + s[k].size /\ Prefix(s, k) <= Length(s)
            /\ Prefix(s, k - 1) \in Nat
        BY <3>1, <4>1, PrefixSums
      <4>4. s[k].size \in Nat
        <5>1. s[k] \in AtomRecord
          BY <4>1 DEF AtomList
        <5> QED
          BY <5>1 DEF AtomRecord
      <4>5. Prefix(s, k - 1) + 1 + i \in 1 .. n
        <5>1. n = Length(s) /\ i \in 0 .. s[k].size - 1 /\ n \in Nat
          BY <1>1, <2>1, <2>2, <4>1
        <5> QED
          BY ONLY <4>3, <4>4, <5>1
      <4>6. Prefix(u, k - 1) = Prefix(s, k - 1)
        BY <1>5, <4>1
      <4> QED
        BY <1>7, <4>1, <4>2, <4>5, <4>6
    <3>2. CASE k = Len(s) + 1
      <4>1. u[k] = e /\ k - 1 = Len(s) /\ Prefix(u, k - 1) = Length(s)
        <5>1. k - 1 = Len(s) /\ Len(s) \in 0 .. Len(s)
          BY <1>5, <3>2
        <5> QED
          BY <1>5, <3>2, <5>1, PrefixSums
      <4>2. i + 1 \in 1 .. m /\ Length(s) + 1 + i = n + (i + 1)
        BY <1>1, <1>3, <2>1, <2>2, <4>1
      <4> QED
        BY <1>3, <1>7, <2>2, <4>1, <4>2
    <3> QED
      BY <1>5, <3>1, <3>2
  <2> QED
    BY <1>5, <1>7, <1>8, <2>1, <2>2 DEF Parses, t, u, n, m
<1>9. CASE ~Inside(u)
  <2>1. Length(s) \in Nat /\ n <= Length(s) /\ m <= e.size
    <3>1. Length(s) \in Nat
      BY PrefixSums
    <3> QED
      BY <1>1, <1>4, <3>1
  <2>2. n + m < Length(u)
    <3>1. CASE ~Inside(s)
      BY <1>1, <1>3, <1>4, <1>5, <2>1, <3>1
    <3>2. CASE ~(e.offset + e.size <= Size)
      <4>1. m < e.size
        BY <1>3, <1>4, <3>2
      <4> QED
        BY <1>1, <1>3, <1>4, <1>5, <2>1, <4>1
    <3> QED
      BY <1>6, <1>9, <3>1, <3>2
  <2> QED
    BY <1>7, <1>9, <2>2 DEF Parses, t, u, n, m
<1> QED
  BY <1>8, <1>9

\* Nothing is a chain, and one more atom behind the last makes a longer one.
LEMMA ChainGrows ==
  ASSUME NEW a \in Cell
  PROVE  /\ <<>> \in AtomList /\ Chain(<<>>, a) /\ (a + Length(<<>>)) % Wide = a
         /\ \A s \in AtomList : \A e \in AtomRecord :
              Chain(s, a) /\ e.offset = (a + Length(s)) % Wide =>
                /\ Append(s, e) \in AtomList /\ Chain(Append(s, e), a)
                /\ (e.offset + e.size) % Wide = (a + Length(Append(s, e))) % Wide
<1>1. a \in Nat /\ a \in 0 .. Size /\ Wide \in Nat \ {0}
  BY DeviceAssumption DEF Cell
<1>2. <<>> \in AtomList /\ Len(<<>>) = 0
  BY DEF AtomList
<1>3. Length(<<>>) = 0
  BY <1>2, PrefixSums
<1>4. Chain(<<>>, a) /\ (a + Length(<<>>)) % Wide = a
  BY <1>1, <1>2, <1>3, NoWrap DEF Chain
<1>5. ASSUME NEW s \in AtomList, NEW e \in AtomRecord, Chain(s, a), e.offset = (a + Length(s)) % Wide
      PROVE  /\ Append(s, e) \in AtomList /\ Chain(Append(s, e), a)
             /\ (e.offset + e.size) % Wide = (a + Length(Append(s, e))) % Wide
  <2> DEFINE u == Append(s, e)
  <2>1. /\ u \in AtomList /\ Len(u) = Len(s) + 1 /\ Len(s) \in Nat
        /\ (\A k \in 1 .. Len(s) : u[k] = s[k]) /\ u[Len(s) + 1] = e
        /\ (\A k \in 0 .. Len(s) : Prefix(u, k) = Prefix(s, k))
        /\ Length(u) = Length(s) + e.size
    BY AppendSums DEF AtomList
  <2> HIDE DEF u
  <2>2. ASSUME NEW k \in 1 .. Len(u) PROVE u[k].offset = (a + Prefix(u, k - 1)) % Wide
    <3>1. CASE k \in 1 .. Len(s)
      <4>1. k - 1 \in 0 .. Len(s)
        BY <2>1, <3>1
      <4> QED
        BY <1>5, <2>1, <3>1, <4>1 DEF Chain
    <3>2. CASE k = Len(s) + 1
      <4>1. k - 1 = Len(s) /\ Len(s) \in 0 .. Len(s)
        BY <2>1, <3>2
      <4>2. Prefix(s, Len(s)) = Length(s)
        BY PrefixSums
      <4> QED
        BY <1>5, <2>1, <3>2, <4>1, <4>2
    <3> QED
      BY <2>1, <2>2, <3>1, <3>2
  <2>3. (e.offset + e.size) % Wide = (a + Length(u)) % Wide
    <3>1. Length(s) \in Nat /\ a + Length(s) \in Nat /\ e.size \in Nat
      BY <1>1, PrefixSums DEF AtomRecord
    <3>2. (((a + Length(s)) % Wide) + e.size) % Wide = ((a + Length(s)) + e.size) % Wide
      BY <1>1, <3>1, WrapSum
    <3>3. (a + Length(s)) + e.size = a + Length(u)
      BY <1>1, <2>1, <3>1
    <3> QED
      BY <1>5, <3>2, <3>3
  <2> QED
    BY <2>1, <2>2, <2>3 DEF Chain, u
<1> QED
  BY <1>2, <1>4, <1>5

-----------------------------------------------------------------------------
(* QuickTime: the walk goes forward, and what is saved parses              *)

GoProPlaces == {"find LRV", "find moov", "temp", "classify", "write", "find table", "undefined"}
Places == GoProPlaces \cup
  {"specify", "save", "find ftyp", "join", "find mdat", "endless", "not specified", "read", "returned"}

\* Where each algorithm may be.
PlaceInv ==
  /\ source \in Images /\ pc \in Places
  /\ pc \in {"find ftyp", "join"} => algorithm = "canonfragment"
  /\ pc = "find mdat" => algorithm = "canonstartfragment"
  /\ pc \in {"find LRV", "find moov", "temp", "classify", "write"} => algorithm = "go_pro"
  /\ pc = "find table" => algorithm = "go_pro_new"
  /\ pc = "undefined" => algorithm \in {"go_pro", "go_pro_new"}
  /\ pc \in {"endless", "not specified"} => algorithm = "quicktime"
  /\ pc = "save" => algorithm \in {"quicktime", "go_pro_new"}

\* The atoms of the walk lie one behind the other, and forward unless one wraps.
WalkInv ==
  /\ algorithm = "quicktime" /\ pc \in {"specify", "save"} =>
       /\ list \in AtomList /\ Chain(list, source.start)
       /\ offset = (source.start + Length(list)) % Wide
       /\ \/ \E k \in DOMAIN list : list[k].offset + list[k].size >= Wide
          \/ \A k \in DOMAIN list : list[k].offset < offset
  /\ EndlessOnlyByWrap

\* What the parts of a video that lies apart are.
FragmentInv ==
  /\ pc = "specify" /\ algorithm # "quicktime" => offset = source.start
  /\ pc = "find ftyp" => offset \in Nat /\ list = <<Atom(source.start)>>
  /\ pc = "join" => \E a \in Cell : list = <<Atom(source.start), Atom(a)>> /\ offset = Behind(Atom(a))
  /\ pc = "find mdat" => offset \in Nat /\ list \in AtomList /\ Chain(list, source.start)

Saved == pc = "returned" /\ result # 0 => result = Len(target) /\ Parses(list, target)
QtInv ==
  /\ PlaceInv /\ WalkInv /\ FragmentInv
  /\ algorithm \in {"quicktime", "canonfragment", "canonstartfragment"} => Saved

LEMMA AtomIs ==
  ASSUME source \in Images
  PROVE  /\ source.start \in Cell /\ source.start \in Nat
         /\ \A a : readQtAtom(a) \in Nat
         /\ \A a \in Nat : Atom(a) \in AtomRecord /\ Atom(a).offset = a
         /\ \A a \in Nat : Behind(Atom(a)) \in Nat
         /\ {SectorSize, BlockSize, FragmentBlock} \subseteq Nat \ {0}
<1>1. Size \in Nat /\ Wide \in Nat \ {0} /\ {SectorSize, BlockSize, FragmentBlock} \subseteq Nat \ {0}
  BY DeviceAssumption, QuickTimeAssumption
<1>2. source.start \in Cell /\ source.start \in Nat
  BY <1>1, QuickTimeAssumption DEF Cell
<1>3. ASSUME NEW a PROVE readQtAtom(a) \in Nat
  <2>1. CASE a \in DOMAIN source.atoms
    <3>1. source.atoms[a].size \in 0 .. Size + 2 \cup {Extended} /\ source.atoms[a].ext \in 0 .. Wide - 1
      BY <2>1, QuickTimeAssumption
    <3> QED
      BY <1>1, <2>1, <3>1 DEF readQtAtom, Field
  <2>2. CASE a \notin DOMAIN source.atoms
    BY <2>2 DEF readQtAtom, Field, NoAtom, AtomTypes
  <2> QED
    BY <2>1, <2>2
<1>4. ASSUME NEW a \in Nat
      PROVE  Atom(a) \in AtomRecord /\ Atom(a).offset = a /\ Behind(Atom(a)) \in Nat
  BY <1>1, <1>3 DEF Atom, AtomRecord, Behind
<1> QED
  BY <1>1, <1>2, <1>3, <1>4

LEMMA QtInvInit == Init => QtInv
<1> SUFFICES ASSUME Init PROVE QtInv
  OBVIOUS
<1>1. source \in Images /\ pc = "specify" /\ offset = source.start /\ list = <<>>
  BY DEF Init, QtInit
<1>2. /\ <<>> \in AtomList /\ Chain(<<>>, source.start)
      /\ (source.start + Length(<<>>)) % Wide = source.start
  BY <1>1, AtomIs, ChainGrows
<1>3. PlaceInv
  BY <1>1 DEF PlaceInv, Places
<1>4. WalkInv
  BY <1>1, <1>2 DEF WalkInv, EndlessOnlyByWrap
<1>5. FragmentInv /\ Saved
  BY <1>1 DEF FragmentInv, Saved
<1> QED
  BY <1>3, <1>4, <1>5 DEF QtInv

\* The steps of GoPro leave what the other algorithms keep.
LEMMA GoProSteps ==
  ASSUME PlaceInv,
         \/ ReadMp4 \/ FindLrv \/ FindMoov \/ CopyTable \/ MakeTemp \/ Classify \/ SpreadGroups
         \/ WriteCluster \/ WriteMoov \/ ReadHeader \/ FindTable \/ TakeCluster \/ FinishByMarkers
  PROVE  /\ algorithm \in {"go_pro", "go_pro_new"} /\ UNCHANGED <<source, algorithm, list>>
         /\ algorithm = "go_pro" =>
              pc' \in {"find LRV", "find moov", "temp", "classify", "write", "undefined", "read", "returned"}
         /\ algorithm = "go_pro_new" =>
              pc' \in {"find table", "undefined", "save", "read", "returned"}
<1>1. CASE ReadMp4
  BY <1>1 DEF ReadMp4, Throws
<1>2. CASE FindLrv
  BY <1>2 DEF FindLrv, Throws, Return, PlaceInv
<1>3. CASE FindMoov
  BY <1>3 DEF FindMoov, Throws, Return, PlaceInv
<1>4. CASE MakeTemp
  BY <1>4 DEF MakeTemp, Throws, Return, PlaceInv
<1>5. CASE Classify
  BY <1>5 DEF Classify, Throws, Return, PlaceInv
<1>6. CASE SpreadGroups
  BY <1>6 DEF SpreadGroups, Throws, Return, PlaceInv
<1>7. CASE WriteCluster
  BY <1>7 DEF WriteCluster, Throws, Return, PlaceInv
<1>8. CASE WriteMoov
  BY <1>8 DEF WriteMoov, Throws, Return, PlaceInv
<1>9. CASE ReadHeader
  BY <1>9 DEF ReadHeader, Throws, Return, PlaceInv
<1>10. CASE FindTable
  BY <1>10 DEF FindTable, Throws, Return, PlaceInv
<1>11. CASE TakeCluster
  BY <1>11 DEF TakeCluster, Throws, Return, PlaceInv
<1>12. CASE FinishByMarkers
  BY <1>12 DEF FinishByMarkers, Throws, Return, PlaceInv
<1>13. CASE CopyTable
  BY <1>13 DEF CopyTable, Throws, PlaceInv
<1> QED
  BY <1>1, <1>2, <1>3, <1>4, <1>5, <1>6, <1>7, <1>8, <1>9, <1>10, <1>11, <1>12, <1>13

\* A step that leaves the walk's state and does not return a size keeps it all.
LEMMA KeepsQtInv ==
  ASSUME QtInv, UNCHANGED <<source, algorithm>>, PlaceInv', EndlessOnlyByWrap',
         pc' \in {"read", "not specified", "endless", "undefined"}
         \/ (pc' = "returned" /\ result' = 0)
  PROVE  QtInv'
<1>1. Saved'
  BY DEF Saved
<1>2. WalkInv'
  BY DEF WalkInv
<1>3. FragmentInv'
  BY DEF FragmentInv
<1> QED
  BY <1>1, <1>2, <1>3 DEF QtInv

LEMMA ReadKeywordStep ==
  ASSUME QtInv, ReadKeyword
  PROVE  QtInv'
<1> DEFINE e == Atom(offset)
           a == source.start
<1>1. /\ source \in Images /\ pc = "specify" /\ algorithm = "quicktime" /\ readQtAtom(offset) # 0
      /\ list \in AtomList /\ Chain(list, a) /\ offset = (a + Length(list)) % Wide
      /\ \/ \E k \in DOMAIN list : list[k].offset + list[k].size >= Wide
         \/ \A k \in DOMAIN list : list[k].offset < offset
      /\ list' = Append(list, e) /\ offset' = (e.offset + e.size) % Wide
      /\ UNCHANGED <<source, algorithm, pc, target, result>>
  BY DEF QtInv, PlaceInv, WalkInv, ReadKeyword, NextKeyword, Behind
<1>2. a \in Cell /\ a \in Nat /\ Wide \in Nat \ {0} /\ Length(list) \in Nat
  BY <1>1, AtomIs, DeviceAssumption, PrefixSums
<1>3. offset \in Nat
  BY <1>1, <1>2
<1>4. e \in AtomRecord /\ e.offset = offset /\ e.size # 0 /\ e.size \in Nat
  BY <1>1, <1>3, AtomIs DEF Atom
<1> HIDE DEF e
<1>5. /\ list' \in AtomList /\ Chain(list', a)
      /\ offset' = (a + Length(list')) % Wide
  BY <1>1, <1>2, <1>4, ChainGrows
<1>6. \/ \E k \in DOMAIN list' : list'[k].offset + list'[k].size >= Wide
      \/ \A k \in DOMAIN list' : list'[k].offset < offset'
  <2>1. /\ Len(list) \in Nat /\ DOMAIN list = 1 .. Len(list) /\ DOMAIN list' = 1 .. Len(list) + 1
        /\ (\A k \in 1 .. Len(list) : list'[k] = list[k]) /\ list'[Len(list) + 1] = e
        /\ \A k \in 1 .. Len(list) : list[k].offset \in Nat
    <3>1. Len(list) \in Nat /\ DOMAIN list = 1 .. Len(list) /\ \A k \in 1 .. Len(list) : list[k] \in AtomRecord
      BY <1>1 DEF AtomList
    <3>2. DOMAIN list' = 1 .. Len(list) + 1
      BY <1>1, <1>4, <1>5, AppendSums DEF AtomList
    <3>3. (\A k \in 1 .. Len(list) : list'[k] = list[k]) /\ list'[Len(list) + 1] = e
      BY <1>1, <1>4, AppendSums
    <3> QED
      BY <3>1, <3>2, <3>3 DEF AtomRecord
  <2>2. CASE \E k \in DOMAIN list : list[k].offset + list[k].size >= Wide
    <3>1. PICK k \in DOMAIN list : list[k].offset + list[k].size >= Wide
      BY <2>2
    <3>2. k \in DOMAIN list' /\ list'[k] = list[k]
      BY <2>1
    <3> QED
      BY <3>1, <3>2
  <2>3. CASE e.offset + e.size >= Wide
    <3>1. Len(list) + 1 \in DOMAIN list'
      BY <2>1
    <3> QED
      BY <2>1, <2>3, <3>1
  <2>4. CASE ~(e.offset + e.size >= Wide) /\ \A k \in DOMAIN list : list[k].offset < offset
    <3>1. offset' = offset + e.size
      <4>1. e.offset + e.size \in Nat /\ e.offset + e.size < Wide
        BY <1>2, <1>3, <1>4, <2>4
      <4>2. (e.offset + e.size) % Wide = e.offset + e.size
        BY <4>1, BelowWide
      <4> QED
        BY <1>1, <1>4, <4>2
    <3>2. offset < offset'
      BY <1>3, <1>4, <3>1
    <3>3. ASSUME NEW k \in DOMAIN list' PROVE list'[k].offset < offset'
      <4>1. CASE k \in 1 .. Len(list)
        <5>1. list'[k].offset \in Nat /\ list'[k].offset < offset /\ offset' \in Nat
          BY <1>3, <1>4, <2>1, <2>4, <3>1, <4>1
        <5> QED
          BY <1>3, <3>2, <5>1
      <4>2. CASE k = Len(list) + 1
        BY <1>4, <2>1, <3>2, <4>2
      <4> QED
        BY <2>1, <4>1, <4>2
    <3> QED
      BY <3>3
  <2> QED
    BY <1>1, <2>2, <2>3, <2>4
<1>7. WalkInv'
  BY <1>1, <1>5, <1>6 DEF WalkInv, EndlessOnlyByWrap
<1>8. PlaceInv' /\ FragmentInv' /\ Saved'
  BY <1>1 DEF QtInv, PlaceInv, FragmentInv, Saved
<1> QED
  BY <1>7, <1>8 DEF QtInv

\* Back at an atom, one must have wrapped.
LEMMA EndlessStep ==
  ASSUME QtInv, Endless
  PROVE  QtInv'
<1>1. /\ pc' = "endless" /\ UNCHANGED <<source, algorithm, offset, list, target, result>>
      /\ pc = "specify" /\ algorithm = "quicktime"
      /\ \E k \in DOMAIN list : list[k].offset = offset
  BY DEF Endless
<1>2. PICK k \in DOMAIN list : list[k].offset = offset
  BY <1>1
<1>3. \/ \E j \in DOMAIN list : list[j].offset + list[j].size >= Wide
      \/ \A j \in DOMAIN list : list[j].offset < offset
  BY <1>1 DEF QtInv, WalkInv
<1>4. offset \in Nat
  <2>1. source \in Images /\ list \in AtomList
    BY <1>1 DEF QtInv, PlaceInv, WalkInv
  <2>2. source.start \in Nat /\ Length(list) \in Nat /\ Wide \in Nat \ {0}
    <3>1. source.start \in Nat
      BY <2>1, AtomIs
    <3>2. Length(list) \in Nat
      BY <2>1, PrefixSums
    <3> QED
      BY <3>1, <3>2, DeviceAssumption
  <2> QED
    BY <1>1, <2>2 DEF QtInv, WalkInv
<1>5. ~(offset < offset)
  BY <1>4
<1>6. \E j \in DOMAIN list : list[j].offset + list[j].size >= Wide
  BY <1>2, <1>3, <1>5
<1>7. EndlessOnlyByWrap'
  BY <1>1, <1>6 DEF EndlessOnlyByWrap
<1>8. PlaceInv'
  BY <1>1 DEF QtInv, PlaceInv, Places
<1> QED
  BY <1>1, <1>7, <1>8, KeepsQtInv

LEMMA SpecifyThrowsStep ==
  ASSUME QtInv, SpecifyThrows
  PROVE  QtInv'
<1>1. pc' = "read" /\ UNCHANGED <<source, algorithm>>
  BY DEF SpecifyThrows, Throws
<1>2. PlaceInv' /\ EndlessOnlyByWrap'
  BY <1>1 DEF QtInv, PlaceInv, Places, EndlessOnlyByWrap
<1> QED
  BY <1>1, <1>2, KeepsQtInv

LEMMA SpecifiedStep ==
  ASSUME QtInv, Specified
  PROVE  QtInv'
<1>1. /\ pc = "specify" /\ algorithm = "quicktime" /\ pc' \in {"save", "not specified"}
      /\ UNCHANGED <<source, algorithm, offset, list, target, result>>
  BY DEF Specified
<1>2. PlaceInv'
  BY <1>1 DEF QtInv, PlaceInv, Places
<1>3. WalkInv' /\ FragmentInv' /\ Saved'
  BY <1>1 DEF QtInv, WalkInv, FragmentInv, Saved, EndlessOnlyByWrap
<1> QED
  BY <1>2, <1>3 DEF QtInv

\* The save of a walk, and of the two kinds of fragments.
LEMMA SaveRawFileStep ==
  ASSUME QtInv, SaveRawFile
  PROVE  QtInv'
<1> DEFINE a == source.start
           c == Copied(a, Total(list), BlockSize, source.bad)
<1>1. /\ source \in Images /\ pc = "save" /\ algorithm = "quicktime"
      /\ list \in AtomList /\ Chain(list, a)
      /\ UNCHANGED <<source, algorithm, offset, list>>
  BY DEF QtInv, PlaceInv, WalkInv, SaveRawFile
<1>2. a \in Cell /\ BlockSize \in Nat \ {0}
  BY <1>1, AtomIs
<1>3. \/ pc' = "returned" /\ result' = 0
      \/ pc' = "read"
      \/ /\ ~c.throws /\ pc' = "returned"
         /\ target' = Cells(a, c.count) /\ result' = c.count
  BY DEF SaveRawFile, AppendToFile, Throws, Return, Part, sizeKeywords
<1>4. PlaceInv' /\ EndlessOnlyByWrap'
  BY <1>1, <1>3 DEF QtInv, PlaceInv, Places, EndlessOnlyByWrap
<1>5. CASE pc' = "read" \/ (pc' = "returned" /\ result' = 0)
  BY <1>1, <1>4, <1>5, KeepsQtInv
<1>6. CASE /\ ~c.throws /\ pc' = "returned"
           /\ target' = Cells(a, c.count) /\ result' = c.count
  <2>1. Parses(list, Cells(a, c.count)) /\ Len(Cells(a, c.count)) = c.count
    BY <1>1, <1>2, <1>6, ChainSaved
  <2>2. Saved'
    BY <1>1, <1>6, <2>1 DEF Saved
  <2> QED
    BY <1>1, <1>4, <1>6, <2>2 DEF QtInv, WalkInv, FragmentInv
<1> QED
  BY <1>3, <1>5, <1>6

LEMMA ReadMediaStep ==
  ASSUME QtInv, ReadMedia
  PROVE  QtInv'
<1> DEFINE e == Atom(offset)
           next == BehindMedia((offset + readQtAtom(offset)) % Wide) % Wide
<1>1. /\ source \in Images /\ pc = "specify" /\ algorithm = "canonfragment"
      /\ offset = source.start
      /\ UNCHANGED <<source, algorithm, target>>
  BY DEF QtInv, PlaceInv, FragmentInv, ReadMedia
<1>2. \/ pc' = "read" \/ (pc' = "returned" /\ result' = 0)
      \/ list' = <<e>> /\ offset' = next /\ pc' = "find ftyp"
  BY DEF ReadMedia, Throws, Return
<1>3. CASE pc' = "read" \/ (pc' = "returned" /\ result' = 0)
  <2>1. PlaceInv' /\ EndlessOnlyByWrap'
    BY <1>1, <1>3 DEF QtInv, PlaceInv, Places, EndlessOnlyByWrap
  <2> QED
    BY <1>1, <1>3, <2>1, KeepsQtInv
<1>4. CASE list' = <<e>> /\ offset' = next /\ pc' = "find ftyp"
  <2>1. next \in Nat
    <3>1. offset \in Nat /\ readQtAtom(offset) \in Nat /\ Wide \in Nat \ {0}
          /\ SectorSize \in Nat \ {0}
      BY <1>1, AtomIs, DeviceAssumption
    <3> DEFINE m == (offset + readQtAtom(offset)) % Wide
    <3>2. m \in Nat
      BY <3>1
    <3> HIDE DEF m
    <3>3. m \div SectorSize \in Nat
      BY <3>1, <3>2, Division
    <3>4. BehindMedia(m) \in Nat
      BY <3>1, <3>3 DEF BehindMedia, alingToSector
    <3>5. BehindMedia(m) % Wide \in Nat
      BY <3>1, <3>4
    <3> QED
      BY <3>5 DEF m
  <2>2. Atom(source.start)' = e
    BY <1>1 DEF Atom, readQtAtom, NoHeaderFits, Field
  <2> HIDE DEF next, e
  <2>3. PlaceInv' /\ WalkInv' /\ FragmentInv' /\ Saved'
    BY <1>1, <1>4, <2>1, <2>2 DEF PlaceInv, Places, WalkInv, EndlessOnlyByWrap, FragmentInv, Saved
  <2> QED
    BY <2>3 DEF QtInv
<1> QED
  BY <1>2, <1>3, <1>4

\* A step that leaves the device leaves what its atoms are.
LEMMA SameAtoms ==
  ASSUME source' = source
  PROVE  \A a : Atom(a)' = Atom(a) /\ Behind(Atom(a))' = Behind(Atom(a))
BY DEF Atom, readQtAtom, NoHeaderFits, Field, Behind

LEMMA FindFtypStep ==
  ASSUME QtInv, FindFtyp
  PROVE  QtInv'
<1>1. /\ source \in Images /\ pc = "find ftyp" /\ algorithm = "canonfragment"
      /\ offset \in Nat /\ list = <<Atom(source.start)>>
      /\ UNCHANGED <<source, algorithm, target>>
  BY DEF QtInv, PlaceInv, FragmentInv, FindFtyp
<1>2. block_end \in Nat /\ block_end <= Size
  <2>1. FragmentBlock \in Nat \ {0}
    BY <1>1, AtomIs
  <2>2. Size \in Nat
    BY DeviceAssumption
  <2>3. offset \in Nat
    BY <1>1
  <2> QED
    BY ONLY <2>1, <2>2, <2>3 DEF block_end, Smaller
<1>3. \/ pc' = "read" \/ (pc' = "returned" /\ result' = 0)
      \/ \E a \in candidates : list' = Append(list, Atom(a)) /\ offset' = Behind(Atom(a)) /\ pc' = "join"
      \/ offset < Size /\ offset' = block_end /\ UNCHANGED <<pc, list, result>>
  BY DEF FindFtyp, Throws, Return
<1>4. CASE pc' = "read" \/ (pc' = "returned" /\ result' = 0)
  <2>1. PlaceInv' /\ EndlessOnlyByWrap'
    BY <1>1, <1>4 DEF QtInv, PlaceInv, Places, EndlessOnlyByWrap
  <2> QED
    BY <1>1, <1>4, <2>1, KeepsQtInv
<1>5. ASSUME NEW a \in candidates,
             list' = Append(list, Atom(a)), offset' = Behind(Atom(a)), pc' = "join"
      PROVE  QtInv'
  <2>1. a \in Cell
    <3>1. Size \in Nat /\ a \in offset .. block_end - 1
      BY DeviceAssumption DEF candidates
    <3>2. offset \in Nat
      BY <1>1
    <3> QED
      BY ONLY <1>2, <3>1, <3>2 DEF Cell
  <2>2. list' = <<Atom(source.start), Atom(a)>>
    <3>1. list' = Append(<<Atom(source.start)>>, Atom(a))
      BY <1>1, <1>5
    <3>2. Atom(source.start) \in AtomRecord /\ Atom(a) \in AtomRecord
      <4>1. a \in Nat /\ source \in Images
        <5>1. a \in Nat
          BY ONLY <2>1, DeviceAssumption DEF Cell
        <5> QED
          BY <1>1, <5>1
      <4>2. source.start \in Nat
        BY <4>1, AtomIs
      <4> QED
        BY <4>1, <4>2, AtomIs
    <3> HIDE DEF Atom
    <3> QED
      BY <3>1, <3>2, Pair
  <2>3. FragmentInv'
    <3>1. list' = <<Atom(source.start)', Atom(a)'>> /\ offset' = Behind(Atom(a))'
      BY <1>1, <1>5, <2>2, SameAtoms
    <3> QED
      BY <1>1, <1>5, <2>1, <3>1 DEF FragmentInv
  <2> QED
    BY <1>1, <1>5, <2>3 DEF QtInv, PlaceInv, Places, WalkInv, EndlessOnlyByWrap, Saved
<1>6. CASE offset < Size /\ offset' = block_end /\ UNCHANGED <<pc, list, result>>
  <2>1. offset' \in Nat
    BY <1>2, <1>6
  <2>2. FragmentInv'
    BY <1>1, <1>6, <2>1, SameAtoms DEF FragmentInv
  <2> QED
    BY <1>1, <1>6, <2>2 DEF QtInv, PlaceInv, Places, WalkInv, EndlessOnlyByWrap, Saved
<1> QED
  BY <1>3, <1>4, <1>5, <1>6

LEMMA JoinFragmentsStep ==
  ASSUME QtInv, JoinFragments
  PROVE  QtInv'
<1>1. /\ source \in Images /\ pc = "join" /\ algorithm = "canonfragment"
      /\ UNCHANGED <<source, algorithm, offset>>
  BY DEF QtInv, PlaceInv, JoinFragments
<1>2. PICK a \in Cell : list = <<Atom(source.start), Atom(a)>> /\ offset = Behind(Atom(a))
  BY <1>1 DEF QtInv, FragmentInv
<1> DEFINE media == Atom(source.start)
           ftyp == Atom(a)
           moovAt == Atom(offset)
           free == Atom(Behind(moovAt))
           s == first_part
           bad == source.bad
           c == Copied(a, Total(s), FragmentBlock, bad)
           d == Copied(media.offset, media.size, FragmentBlock, bad)
<1>3. list[1] = media /\ list[2] = ftyp
  BY <1>2
<1>4. a \in Nat /\ source.start \in Cell /\ source.start \in Nat /\ FragmentBlock \in Nat \ {0}
  BY <1>1, AtomIs, DeviceAssumption DEF Cell
<1>5. offset \in Nat /\ Behind(moovAt) \in Nat
  BY <1>1, <1>2, <1>4, AtomIs
<1>6. /\ media \in AtomRecord /\ media.offset = source.start
      /\ ftyp \in AtomRecord /\ ftyp.offset = a
      /\ moovAt \in AtomRecord /\ moovAt.offset = offset
      /\ free \in AtomRecord /\ free.offset = Behind(moovAt)
  BY <1>1, <1>4, <1>5, AtomIs
<1>7. s = <<ftyp, moovAt, free>> \/ s = <<ftyp, moovAt>>
  BY <1>3 DEF first_part
<1>8. offset = (ftyp.offset + ftyp.size) % Wide /\ free.offset = (moovAt.offset + moovAt.size) % Wide
  BY <1>2, <1>6 DEF Behind
<1> HIDE DEF media, ftyp, moovAt, free
<1>9. s \in AtomList /\ Chain(s, a)
  <2>1. /\ <<>> \in AtomList /\ Chain(<<>>, a) /\ ftyp.offset = (a + Length(<<>>)) % Wide
    BY <1>6, ChainGrows
  <2>2. /\ Append(<<>>, ftyp) \in AtomList /\ Chain(Append(<<>>, ftyp), a)
        /\ offset = (a + Length(Append(<<>>, ftyp))) % Wide
    BY <1>6, <1>8, <2>1, ChainGrows
  <2>3. /\ Append(Append(<<>>, ftyp), moovAt) \in AtomList
        /\ Chain(Append(Append(<<>>, ftyp), moovAt), a)
        /\ free.offset = (a + Length(Append(Append(<<>>, ftyp), moovAt))) % Wide
    BY <1>6, <1>8, <2>2, ChainGrows
  <2>4. /\ Append(Append(Append(<<>>, ftyp), moovAt), free) \in AtomList
        /\ Chain(Append(Append(Append(<<>>, ftyp), moovAt), free), a)
    BY <1>6, <2>3, ChainGrows
  <2>5. /\ Append(<<>>, ftyp) = <<ftyp>>
        /\ Append(<<ftyp>>, moovAt) = <<ftyp, moovAt>>
        /\ Append(<<ftyp, moovAt>>, free) = <<ftyp, moovAt, free>>
    BY <1>6, Pair, Triple
  <2> HIDE DEF s
  <2> QED
    BY <1>7, <2>3, <2>4, <2>5
<1>10. \/ pc' = "read" \/ (pc' = "returned" /\ result' = 0)
       \/ /\ ~c.throws /\ ~d.throws /\ pc' = "returned" /\ list' = s \o <<media>>
          /\ target' = Cells(a, c.count) \o Cells(media.offset, d.count)
          /\ result' = c.count + d.count
  <2>1. /\ Part(list[2].offset, Total(first_part)).offset = a
        /\ Part(list[2].offset, Total(first_part)).size = Total(s)
        /\ Part(source.start, list[1].size).offset = media.offset
        /\ Part(source.start, list[1].size).size = media.size
    BY <1>3, <1>6 DEF Part
  <2> DEFINE p == Part(list[2].offset, Total(first_part))
             q == Part(source.start, list[1].size)
  <2>2. \/ pc' = "read" \/ (pc' = "returned" /\ result' = 0)
        \/ list' = s \o <<media>> /\ AppendBoth(p, q, FragmentBlock)
    BY <1>3 DEF JoinFragments, Throws, Return
  <2> HIDE DEF p, q, s
  <2>3. AppendBoth(p, q, FragmentBlock) =>
          \/ pc' = "read"
          \/ /\ ~c.throws /\ ~d.throws /\ pc' = "returned"
             /\ target' = Cells(a, c.count) \o Cells(media.offset, d.count)
             /\ result' = c.count + d.count
    BY <2>1 DEF AppendBoth, AppendToFile, Throws, Return, p, q, s
  <2> QED
    BY <2>2, <2>3
<1>11. PlaceInv' /\ EndlessOnlyByWrap'
  BY <1>1, <1>10 DEF QtInv, PlaceInv, Places, EndlessOnlyByWrap
<1>12. CASE pc' = "read" \/ (pc' = "returned" /\ result' = 0)
  BY <1>1, <1>11, <1>12, KeepsQtInv
<1>13. CASE /\ ~c.throws /\ ~d.throws /\ pc' = "returned" /\ list' = s \o <<media>>
            /\ target' = Cells(a, c.count) \o Cells(media.offset, d.count)
            /\ result' = c.count + d.count
  <2> HIDE DEF s
  <2>1. s \o <<media>> = Append(s, media)
    BY <1>6, <1>9 DEF AtomList
  <2>2. media.offset \in Cell
    BY <1>4, <1>6
  <2>3. /\ Parses(Append(s, media), Cells(a, c.count) \o Cells(media.offset, d.count))
        /\ Len(Cells(a, c.count) \o Cells(media.offset, d.count)) = c.count + d.count
    BY <1>4, <1>6, <1>9, <1>13, <2>2, JoinedSaved
  <2>4. Saved'
    BY <1>13, <2>1, <2>3 DEF Saved
  <2> QED
    BY <1>1, <1>11, <1>13, <2>4 DEF QtInv, WalkInv, FragmentInv
<1> QED
  BY <1>10, <1>12, <1>13

LEMMA ReadIndexStep ==
  ASSUME QtInv, ReadIndex
  PROVE  QtInv'
<1> DEFINE a == source.start
           ftyp == Atom(a)
           index == Atom(Behind(ftyp))
<1>1. /\ source \in Images /\ pc = "specify" /\ algorithm = "canonstartfragment"
      /\ UNCHANGED <<source, algorithm, target>>
  BY DEF QtInv, PlaceInv, ReadIndex
<1>2. \/ pc' = "read" \/ (pc' = "returned" /\ result' = 0)
      \/ list' = <<ftyp, index>> /\ offset' = 0 /\ pc' = "find mdat"
  BY DEF ReadIndex, Throws, Return
<1>3. CASE pc' = "read" \/ (pc' = "returned" /\ result' = 0)
  <2>1. PlaceInv' /\ EndlessOnlyByWrap'
    BY <1>1, <1>3 DEF QtInv, PlaceInv, Places, EndlessOnlyByWrap
  <2> QED
    BY <1>1, <1>3, <2>1, KeepsQtInv
<1>4. CASE list' = <<ftyp, index>> /\ offset' = 0 /\ pc' = "find mdat"
  <2>1. a \in Cell /\ a \in Nat
    BY <1>1, AtomIs
  <2>2. ftyp \in AtomRecord /\ ftyp.offset = a /\ Behind(ftyp) \in Nat
    BY <1>1, <2>1, AtomIs
  <2>3. index \in AtomRecord /\ index.offset = (ftyp.offset + ftyp.size) % Wide
    BY <1>1, <2>2, AtomIs DEF Behind
  <2> HIDE DEF ftyp, index
  <2>4. /\ <<>> \in AtomList /\ Chain(<<>>, a) /\ ftyp.offset = (a + Length(<<>>)) % Wide
    BY <2>1, <2>2, ChainGrows
  <2>5. /\ Append(<<>>, ftyp) \in AtomList /\ Chain(Append(<<>>, ftyp), a)
        /\ index.offset = (a + Length(Append(<<>>, ftyp))) % Wide
    BY <2>1, <2>2, <2>3, <2>4, ChainGrows
  <2>6. /\ Append(Append(<<>>, ftyp), index) \in AtomList
        /\ Chain(Append(Append(<<>>, ftyp), index), a)
    BY <2>1, <2>3, <2>5, ChainGrows
  <2>7. Append(<<>>, ftyp) = <<ftyp>> /\ Append(<<ftyp>>, index) = <<ftyp, index>>
    BY <2>2, <2>3, Pair
  <2>8. list' \in AtomList /\ Chain(list', source'.start)
    BY <1>1, <1>4, <2>6, <2>7
  <2>9. FragmentInv' /\ PlaceInv'
    BY <1>1, <1>4, <2>8 DEF FragmentInv, QtInv, PlaceInv, Places
  <2> QED
    BY <1>1, <1>4, <2>9 DEF QtInv, WalkInv, EndlessOnlyByWrap, Saved
<1> QED
  BY <1>2, <1>3, <1>4

LEMMA FindSecondPartStep ==
  ASSUME QtInv, FindSecondPart
  PROVE  QtInv'
<1> DEFINE a == source.start
           bad == source.bad
           Found(mdat) ==
             LET e == Atom(mdat)
                 c == Copied(a, Total(list), BlockSize, bad)
                 d == Copied(e.offset, e.size, BlockSize, bad)
             IN /\ ~c.throws /\ ~d.throws /\ pc' = "returned" /\ list' = Append(list, e)
                /\ target' = Cells(a, c.count) \o Cells(e.offset, d.count)
                /\ result' = c.count + d.count
<1>1. /\ source \in Images /\ pc = "find mdat" /\ algorithm = "canonstartfragment"
      /\ offset \in Nat /\ list \in AtomList /\ Chain(list, a)
      /\ UNCHANGED <<source, algorithm>>
  BY DEF QtInv, PlaceInv, FragmentInv, FindSecondPart
<1>2. a \in Cell /\ a \in Nat /\ BlockSize \in Nat \ {0}
  BY <1>1, AtomIs
<1>0. offset \in Nat /\ Size \in Nat
  BY <1>1, DeviceAssumption
<1>3. \/ pc' = "read" \/ (pc' = "returned" /\ result' = 0)
      \/ offset' = offset + BlockSize /\ UNCHANGED <<pc, list, target, result>>
      \/ \E mdat \in Cell : Found(mdat)
  <2>1. CASE offset >= Size
    BY <2>1 DEF FindSecondPart, Return
  <2>2. CASE offset < Size /\ ~Readable(offset, BlockSize, source.bad)
    <3>1. ~(offset >= Size)
      BY ONLY <1>0, <2>2
    <3> QED
      BY <2>2, <3>1 DEF FindSecondPart, Throws
  <2>3. CASE /\ offset < Size /\ Readable(offset, BlockSize, source.bad) /\ second_parts = {}
    <3>1. ~(offset >= Size)
      BY ONLY <1>0, <2>3
    <3> QED
      BY <2>3, <3>1 DEF FindSecondPart
  <2>4. CASE /\ offset < Size /\ Readable(offset, BlockSize, source.bad) /\ second_parts # {}
    <3> DEFINE mdat == CHOOSE x \in second_parts : \A y \in second_parts : x <= y
               e == Atom(mdat)
    <3>1. ~(offset >= Size)
      BY ONLY <1>0, <2>4
    <3>2. list' = Append(list, e) /\ AppendBoth(Part(a, Total(list)), e, BlockSize)
      BY <2>4, <3>1 DEF FindSecondPart
    <3>3. second_parts \in SUBSET Nat
      <4>1. \A x \in offset .. offset + BlockSize - 1 : x \in Nat
        BY ONLY <1>0, <1>2
      <4> QED
        BY <4>1 DEF second_parts
    <3>4. mdat \in second_parts
      <4>1. \E x \in second_parts : \A y \in second_parts : x <= y
        BY <2>4, <3>3, LeastElement
      <4> QED
        BY <4>1
    <3> HIDE DEF mdat
    <3>5. mdat \in Cell
      <4>1. mdat \in offset .. offset + BlockSize - 1 /\ offset + BlockSize <= Size
        BY <2>4, <3>4 DEF second_parts, Readable
      <4> QED
        BY ONLY <1>0, <1>2, <4>1 DEF Cell
    <3>6. Part(a, Total(list)).offset = a /\ Part(a, Total(list)).size = Total(list)
      BY DEF Part
    <3>7. pc' = "read" \/ Found(mdat)
      <4> HIDE DEF e
      <4> DEFINE p == Part(a, Total(list))
      <4> HIDE DEF p
      <4>1. p.offset = a /\ p.size = Total(list) /\ AppendBoth(p, e, BlockSize)
        BY <3>2, <3>6 DEF p
      <4> QED
        BY <3>2, <4>1 DEF AppendBoth, AppendToFile, Throws, Return, e
    <3> QED
      BY <3>5, <3>7
  <2> QED
    <3>1. offset >= Size \/ offset < Size
      BY ONLY <1>0
    <3> QED
      BY <2>1, <2>2, <2>3, <2>4, <3>1, Zenon
<1>4. CASE pc' = "read" \/ (pc' = "returned" /\ result' = 0)
  <2>1. PlaceInv' /\ EndlessOnlyByWrap'
    BY <1>1, <1>4 DEF QtInv, PlaceInv, Places, EndlessOnlyByWrap
  <2> QED
    BY <1>1, <1>4, <2>1, KeepsQtInv
<1>5. CASE offset' = offset + BlockSize /\ UNCHANGED <<pc, list, target, result>>
  <2>1. offset' \in Nat
    BY ONLY <1>0, <1>2, <1>5
  <2> QED
    BY <1>1, <1>5, <2>1 DEF QtInv, PlaceInv, WalkInv, EndlessOnlyByWrap, FragmentInv, Saved
<1>6. ASSUME NEW mdat \in Cell, Found(mdat) PROVE QtInv'
  <2> DEFINE e == Atom(mdat)
             c == Copied(a, Total(list), BlockSize, bad)
             d == Copied(e.offset, e.size, BlockSize, bad)
  <2>1. mdat \in Nat
    BY DeviceAssumption DEF Cell
  <2>2. e \in AtomRecord /\ e.offset \in Cell
    BY <1>1, <2>1, AtomIs
  <2>3. /\ ~c.throws /\ ~d.throws /\ pc' = "returned" /\ list' = Append(list, e)
        /\ target' = Cells(a, c.count) \o Cells(e.offset, d.count)
        /\ result' = c.count + d.count
    BY <1>6
  <2> HIDE DEF e
  <2>4. /\ Parses(Append(list, e), Cells(a, c.count) \o Cells(e.offset, d.count))
        /\ Len(Cells(a, c.count) \o Cells(e.offset, d.count)) = c.count + d.count
    <3>1. list \in AtomList /\ Chain(list, a) /\ ~c.throws /\ ~d.throws
      BY <1>1, <2>3
    <3> QED
      BY ONLY <1>2, <2>2, <3>1, JoinedSaved
  <2>5. Saved' /\ PlaceInv'
    BY <1>1, <2>3, <2>4 DEF Saved, PlaceInv, Places
  <2> QED
    BY <1>1, <2>3, <2>5 DEF QtInv, WalkInv, EndlessOnlyByWrap, FragmentInv
<1> QED
  BY <1>3, <1>4, <1>5, <1>6

LEMMA QtInvNext == QtInv /\ [Next]_vars => QtInv'
<1> SUFFICES ASSUME QtInv, [Next]_vars PROVE QtInv'
  OBVIOUS
<1>1. CASE QtNext
  BY <1>1, ReadKeywordStep, EndlessStep, SpecifyThrowsStep, SpecifiedStep, SaveRawFileStep,
     ReadMediaStep, FindFtypStep, JoinFragmentsStep, ReadIndexStep, FindSecondPartStep DEF QtNext
<1>2. CASE \/ ReadMp4 \/ FindLrv \/ FindMoov \/ CopyTable \/ MakeTemp \/ Classify \/ SpreadGroups
           \/ WriteCluster \/ WriteMoov \/ ReadHeader \/ FindTable \/ TakeCluster
           \/ FinishByMarkers
  <2>1. /\ algorithm \in {"go_pro", "go_pro_new"} /\ UNCHANGED <<source, algorithm, list>>
        /\ algorithm = "go_pro" =>
             pc' \in {"find LRV", "find moov", "temp", "classify", "write", "undefined", "read", "returned"}
        /\ algorithm = "go_pro_new" =>
             pc' \in {"find table", "undefined", "save", "read", "returned"}
    BY <1>2, GoProSteps DEF QtInv
  <2>2. PlaceInv' /\ EndlessOnlyByWrap'
    BY <2>1 DEF QtInv, PlaceInv, Places, GoProPlaces, EndlessOnlyByWrap
  <2>3. WalkInv' /\ FragmentInv'
    BY <2>1, <2>2 DEF WalkInv, FragmentInv
  <2> QED
    BY <2>1, <2>2, <2>3 DEF QtInv
<1>3. CASE UNCHANGED vars
  <2>1. UNCHANGED <<source, algorithm, pc, offset, list, target, result>>
    BY <1>3 DEF vars, qtVars
  <2>2. \A a : Atom(a)' = Atom(a) /\ Behind(Atom(a))' = Behind(Atom(a))
    BY <2>1, SameAtoms
  <2> QED
    BY <2>1, <2>2 DEF QtInv, PlaceInv, WalkInv, EndlessOnlyByWrap, FragmentInv, Saved
<1> QED
  BY <1>1, <1>2, <1>3 DEF Next

LEMMA QtInvAlways == Spec => []QtInv
BY QtInvInit, QtInvNext, PTL DEF Spec

\* The walk over the atoms comes back to one of them only when a size wrapped
\* the offset around, for every device (readAllQtAtoms).
THEOREM WalkGoesForward == Spec => []EndlessOnlyByWrap
<1>1. QtInv => EndlessOnlyByWrap
  BY DEF QtInv, WalkInv
<1> QED
  BY <1>1, QtInvAlways, PTL

\* Whatever the sizes, the order of the parts and the bad places: a save that
\* returns a size has written the atoms one behind the other, or less than they
\* are long when one runs beyond the device (SaveRawFile of the three classes).
THEOREM SavedVideoParses == Spec => []SavedFileParses
<1>1. QtInv => SavedFileParses
  BY DEF QtInv, Saved, SavedFileParses, Parses, Inside, InsideDevice, Prefix
<1> QED
  BY <1>1, QtInvAlways, PTL

-----------------------------------------------------------------------------
(* GoPro: the temporary file                                               *)

\* Two indices are found before the temporary file is made, not more, and it
\* is there until the last step.
Short == moov = <<>> \/ \E m : moov = <<m>>
TempInv ==
  /\ pc \in {"classify", "write"} => tempFile = TRUE
  /\ pc \notin {"classify", "write", "read"} => tempFile = FALSE
  /\ pc = "read" /\ Len(moov) = 2 => tempFile = TRUE
  /\ pc \notin {"temp", "classify", "write", "returned", "read"} => Short

LEMMA TempInvInit == Init => TempInv
BY DEF Init, QtInit, TempInv, Short

LEMMA ShortIs == Short => Len(moov) # 2
BY DEF Short

LEMMA TempInvNext == QtInv /\ TempInv /\ [Next]_vars => TempInv'
<1> SUFFICES ASSUME QtInv, TempInv, [Next]_vars PROVE TempInv'
  OBVIOUS
<1>1. ASSUME UNCHANGED <<moov, tempFile>>, pc = pc' PROVE TempInv'
  BY <1>1 DEF TempInv, Short
<1>2. ASSUME UNCHANGED <<moov, tempFile>>,
             pc \notin {"temp", "classify", "write", "returned", "read"},
             pc' \notin {"classify", "write"}
      PROVE  TempInv'
  BY <1>2, ShortIs DEF TempInv, Short
<1>3. ASSUME UNCHANGED <<moov, tempFile>>,
             pc \in {"classify", "write"}, pc' \in {"classify", "write", "read"}
      PROVE  TempInv'
  BY <1>3 DEF TempInv
<1>4. CASE QtNext /\ UNCHANGED gpVars
  <2>1. /\ pc \in {"specify", "save", "find ftyp", "join", "find mdat"}
        /\ pc' \in {"specify", "save", "find ftyp", "join", "find mdat", "endless",
                    "not specified", "read", "returned"}
    <3>1. CASE ReadKeyword
      BY <3>1 DEF ReadKeyword
    <3>2. CASE Endless
      BY <3>2 DEF Endless
    <3>3. CASE SpecifyThrows
      BY <3>3 DEF SpecifyThrows, Throws
    <3>4. CASE Specified
      BY <3>4 DEF Specified
    <3>5. CASE SaveRawFile
      BY <3>5 DEF SaveRawFile, AppendToFile, Throws, Return
    <3>6. CASE ReadMedia
      BY <3>6 DEF ReadMedia, Throws, Return
    <3>7. CASE FindFtyp
      BY <3>7 DEF FindFtyp, Throws, Return
    <3>8. CASE JoinFragments
      BY <3>8 DEF JoinFragments, AppendBoth, AppendToFile, Throws, Return
    <3>9. CASE ReadIndex
      BY <3>9 DEF ReadIndex, Throws, Return
    <3>10. CASE FindSecondPart
      BY <3>10 DEF FindSecondPart, AppendBoth, AppendToFile, Throws, Return
    <3> QED
      BY <1>4, <3>1, <3>2, <3>3, <3>4, <3>5, <3>6, <3>7, <3>8, <3>9, <3>10 DEF QtNext
  <2> QED
    BY <1>2, <1>4, <2>1 DEF gpVars
<1>5. CASE ReadMp4
  BY <1>2, <1>5 DEF ReadMp4, Throws
<1>6. CASE FindLrv
  BY <1>2, <1>6 DEF FindLrv, Throws, Return
<1>7. CASE FindMoov
  <2>1. CASE UNCHANGED moov
    BY <1>2, <1>7, <2>1 DEF FindMoov, Throws, Return
  <2>2. CASE moov # moov'
    <3>1. /\ pc = "find moov" /\ UNCHANGED tempFile
          /\ moov' = Append(moov, Index(signature))
          /\ pc' = IF moov = <<>> THEN "find moov" ELSE "temp"
      BY <1>7, <2>2 DEF FindMoov
    <3>2. moov = <<>> => moov' = <<Index(signature)>>
      <4>1. \A x : Append(<<>>, x) = <<x>>
        OBVIOUS
      <4> QED
        BY <3>1, <4>1
    <3> QED
      BY <3>1, <3>2 DEF TempInv, Short
  <2> QED
    BY <2>1, <2>2
<1>8. CASE MakeTemp
  BY <1>8 DEF MakeTemp, Throws, TempInv
<1>9. CASE Classify
  BY <1>3, <1>9 DEF Classify, Throws
<1>10. CASE SpreadGroups
  BY <1>3, <1>10 DEF SpreadGroups
<1>11. CASE WriteCluster
  BY <1>3, <1>11 DEF WriteCluster, Throws
<1>12. CASE WriteMoov
  <2>1. CASE pc' = "read"
    BY <1>3, <1>12, <2>1 DEF WriteMoov, Throws, Return
  <2>2. CASE pc' # "read"
    BY <1>12, <2>2 DEF WriteMoov, Throws, Return, Removed, TempInv
  <2> QED
    BY <2>1, <2>2
<1>13. CASE ReadHeader
  BY <1>2, <1>13 DEF ReadHeader, Throws, Return, gpVars
<1>14. CASE FindTable
  <2>1. /\ pc = "find table" /\ UNCHANGED tempFile
        /\ pc' \in {"find table", "undefined", "read", "save"}
        /\ UNCHANGED moov \/ moov' = <<Index(signature)>>
    BY <1>14 DEF FindTable, Throws
  <2>2. Short'
    BY <2>1 DEF Short, TempInv
  <2>3. Len(moov') # 2
    BY <2>2 DEF Short
  <2> QED
    BY <2>1, <2>2, <2>3 DEF TempInv
<1>15. CASE TakeCluster
  BY <1>2, <1>15 DEF TakeCluster, Throws
<1>16. CASE FinishByMarkers
  BY <1>2, <1>16 DEF FinishByMarkers, Throws, Return, gpVars
<1>17. CASE UNCHANGED vars
  BY <1>1, <1>17 DEF vars, qtVars, gpVars
<1>18. CASE CopyTable
  BY <1>2, <1>18 DEF CopyTable, Throws, gpVars
<1> QED
  BY <1>4, <1>5, <1>6, <1>7, <1>8, <1>9, <1>10, <1>11, <1>12, <1>13, <1>14, <1>15, <1>16, <1>17, <1>18 DEF Next

\* The temporary file of GP_Analyzer is removed by every call that returns, and
\* left behind by every exception after its creation.
THEOREM TempFileGoes == Spec => []TempFileRemoved
<1>1. Spec => []TempInv
  BY TempInvInit, TempInvNext, QtInvAlways, PTL DEF Spec
<1>2. TempInv => TempFileRemoved
  BY DEF TempInv, TempFileRemoved
<1> QED
  BY <1>1, <1>2, PTL

-----------------------------------------------------------------------------
(* GoPro: the groups of clusters that are left out                         *)

\* The state of the loop that spreads the marks, after n turns of it.
Spreads(f, map, m) ==
  f = [n \in 0 .. m |-> IF n = 0 THEN [next |-> 0, map |-> map] ELSE SpreadFrom(f[n - 1], n - 1)]

LEMMA SpreadsExists ==
  ASSUME NEW map, NEW m \in Nat
  PROVE  \E f : Spreads(f, map, m)
<1> DEFINE S == {k \in Nat : ~\E f : Spreads(f, map, k)}
<1> SUFFICES ASSUME S # {} PROVE FALSE
  OBVIOUS
<1>1. PICK k \in S : \A j \in S : k <= j
  BY LeastElement
<1>2. k \in Nat /\ ~\E f : Spreads(f, map, k)
  BY <1>1
<1>3. CASE k = 0
  <2>1. Spreads([j \in 0 .. k |-> [next |-> 0, map |-> map]], map, k)
    BY <1>3 DEF Spreads
  <2> QED
    BY <1>2, <2>1
<1>4. CASE k # 0
  <2>1. k - 1 \in Nat /\ k - 1 \notin S
    BY <1>1, <1>4
  <2>2. PICK g : Spreads(g, map, k - 1)
    BY <2>1
  <2> DEFINE f == [j \in 0 .. k |-> IF j = k THEN SpreadFrom(g[k - 1], k - 1) ELSE g[j]]
  <2>3. Spreads(f, map, k)
    <3>1. \A j \in 0 .. k - 1 : g[j] = IF j = 0 THEN [next |-> 0, map |-> map]
                                       ELSE SpreadFrom(g[j - 1], j - 1)
      BY <2>2 DEF Spreads
    <3>2. \A j \in 0 .. k : f[j] = IF j = 0 THEN [next |-> 0, map |-> map]
                                   ELSE SpreadFrom(f[j - 1], j - 1)
      BY <1>2, <1>4, <3>1
    <3> QED
      BY <3>2 DEF Spreads
  <2> QED
    BY <1>2, <2>3
<1> QED
  BY <1>3, <1>4

\* What the marks of s are, spread from those of map by the turns before n: each
\* group begins at a mark of map, and behind the groups there are only marks of map.
SpreadInv(s, map, n, N) ==
  /\ s.next \in Nat /\ s.map \in [0 .. N - 1 -> BOOLEAN]
  /\ \A i \in 0 .. N - 1 : map[i] => s.map[i]
  /\ \A i \in 0 .. N - 1 : s.map[i] => \E k \in 0 .. N - 1 : map[k] /\ k <= i /\ i < k + Together
  /\ \A i \in 0 .. N - 1 : s.map[i] /\ i >= s.next => map[i]
  /\ s.next = 0 \/ \E j \in 0 .. n - 1 :
       s.next = j + Together + 1 /\ \A m \in 0 .. N - 1 : j <= m /\ m < j + Together => s.map[m]
  /\ \A i \in 0 .. n - 1 : map[i] =>
       \/ \A m \in 0 .. N - 1 : i <= m /\ m < i + Together => s.map[m]
       \/ i > 0 /\ s.map[i - 1] /\ s.map[i]

LEMMA SpreadStep ==
  ASSUME NEW N \in Nat, NEW map \in [0 .. N - 1 -> BOOLEAN], NEW n \in 0 .. N - 1, NEW s,
         SpreadInv(s, map, n, N)
  PROVE  SpreadInv(SpreadFrom(s, n), map, n + 1, N)
<1> DEFINE t == SpreadFrom(s, n)
<1>1. /\ s.next \in Nat /\ s.map \in [0 .. N - 1 -> BOOLEAN] /\ Together \in Nat \ {0}
      /\ n \in Nat /\ n < N
  BY GoProAssumption DEF SpreadInv
<1>2. /\ \A i \in 0 .. N - 1 : map[i] => s.map[i]
      /\ \A i \in 0 .. N - 1 : s.map[i] =>
           \E k \in 0 .. N - 1 : map[k] /\ k <= i /\ i < k + Together
      /\ \A i \in 0 .. N - 1 : s.map[i] /\ i >= s.next => map[i]
      /\ s.next = 0 \/ \E j \in 0 .. n - 1 :
           s.next = j + Together + 1 /\ \A m \in 0 .. N - 1 : j <= m /\ m < j + Together => s.map[m]
      /\ \A i \in 0 .. n - 1 : map[i] =>
           \/ \A m \in 0 .. N - 1 : i <= m /\ m < i + Together => s.map[m]
           \/ i > 0 /\ s.map[i - 1] /\ s.map[i]
  BY DEF SpreadInv
<1>3. CASE n < s.next
  <2>1. t = s
    BY <1>3 DEF SpreadFrom
  <2>2. PICK j \in 0 .. n - 1 :
          s.next = j + Together + 1 /\ \A m \in 0 .. N - 1 : j <= m /\ m < j + Together => s.map[m]
    BY <1>1, <1>2, <1>3
  <2>3. j \in 0 .. n + 1 - 1
    BY <1>1
  <2>4. map[n] => n > 0 /\ s.map[n - 1] /\ s.map[n]
    <3>1. n > 0 /\ n - 1 \in 0 .. N - 1 /\ j <= n - 1 /\ n - 1 < j + Together
      BY <1>1, <1>3, <2>2
    <3> QED
      BY <1>2, <2>2, <3>1
  <2>5. \A i \in 0 .. n + 1 - 1 : map[i] =>
           \/ \A m \in 0 .. N - 1 : i <= m /\ m < i + Together => s.map[m]
           \/ i > 0 /\ s.map[i - 1] /\ s.map[i]
    <3>1. \A i \in 0 .. n + 1 - 1 : i \in 0 .. n - 1 \/ i = n
      BY <1>1
    <3> QED
      BY <1>2, <2>4, <3>1
  <2>6. SpreadInv(s, map, n + 1, N)
    BY <1>1, <1>2, <2>2, <2>3, <2>5 DEF SpreadInv
  <2> QED
    BY <2>1, <2>6
<1>4. CASE ~(n < s.next) /\ ~s.map[n]
  <2>1. t = s
    BY <1>4 DEF SpreadFrom
  <2>2. ~map[n]
    BY <1>2, <1>4
  <2>3. s.next = 0 \/ \E j \in 0 .. n + 1 - 1 :
           s.next = j + Together + 1 /\ \A m \in 0 .. N - 1 : j <= m /\ m < j + Together => s.map[m]
    <3>1. \A j \in 0 .. n - 1 : j \in 0 .. n + 1 - 1
      BY <1>1
    <3> QED
      BY <1>2, <3>1
  <2>4. \A i \in 0 .. n + 1 - 1 : map[i] =>
           \/ \A m \in 0 .. N - 1 : i <= m /\ m < i + Together => s.map[m]
           \/ i > 0 /\ s.map[i - 1] /\ s.map[i]
    <3>1. \A i \in 0 .. n + 1 - 1 : i \in 0 .. n - 1 \/ i = n
      BY <1>1
    <3> QED
      BY <1>2, <2>2, <3>1
  <2>5. SpreadInv(s, map, n + 1, N)
    <3>1. CASE s.next = 0
      BY <1>1, <1>2, <2>4, <3>1 DEF SpreadInv
    <3>2. CASE s.next # 0
      <4>1. PICK j \in 0 .. n + 1 - 1 :
              s.next = j + Together + 1 /\ \A m \in 0 .. N - 1 : j <= m /\ m < j + Together => s.map[m]
        BY <2>3, <3>2
      <4> QED
        BY <1>1, <1>2, <2>4, <4>1 DEF SpreadInv
    <3> QED
      BY <3>1, <3>2
  <2> QED
    BY <2>1, <2>5
<1>5. CASE ~(n < s.next) /\ s.map[n]
  <2> DEFINE M == [k \in 0 .. N - 1 |-> s.map[k] \/ (n <= k /\ k < n + Together)]
  <2>1. t.next = n + Together + 1 /\ t.map = M
    BY <1>1, <1>5 DEF SpreadFrom, BehindGroup
  <2>2. \A k \in 0 .. N - 1 : M[k] <=> s.map[k] \/ (n <= k /\ k < n + Together)
    OBVIOUS
  <2>3. M \in [0 .. N - 1 -> BOOLEAN] /\ n + Together + 1 \in Nat /\ n \in 0 .. N - 1
    BY <1>1
  <2> HIDE DEF M
  <2>4. map[n]
    BY <1>1, <1>2, <1>5
  <2>5. \A i \in 0 .. N - 1 : map[i] => M[i]
    BY <1>2, <2>2
  <2>6. ASSUME NEW i \in 0 .. N - 1, M[i]
        PROVE  \E k \in 0 .. N - 1 : map[k] /\ k <= i /\ i < k + Together
    <3>1. CASE s.map[i]
      BY <1>2, <3>1
    <3>2. CASE n <= i /\ i < n + Together
      BY <2>3, <2>4, <3>2
    <3> QED
      BY <2>2, <2>6, <3>1, <3>2
  <2>7. ASSUME NEW i \in 0 .. N - 1, M[i], i >= n + Together + 1 PROVE map[i]
    <3>1. ~(n <= i /\ i < n + Together) /\ i >= s.next
      BY <1>1, <1>5, <2>7
    <3> QED
      BY <1>2, <2>2, <2>7, <3>1
  <2>8. \E j \in 0 .. n + 1 - 1 :
          n + Together + 1 = j + Together + 1 /\ \A m \in 0 .. N - 1 : j <= m /\ m < j + Together => M[m]
    <3>1. n \in 0 .. n + 1 - 1
      BY <1>1
    <3> QED
      BY <2>2, <3>1
  <2>9. ASSUME NEW i \in 0 .. n + 1 - 1, map[i]
        PROVE  \/ \A m \in 0 .. N - 1 : i <= m /\ m < i + Together => M[m]
               \/ i > 0 /\ M[i - 1] /\ M[i]
    <3>1. CASE i = n
      BY <2>2, <3>1
    <3>2. CASE i \in 0 .. n - 1
      <4>1. i \in 0 .. N - 1 /\ (i > 0 => i - 1 \in 0 .. N - 1)
        BY <1>1, <3>2
      <4>2. \/ \A m \in 0 .. N - 1 : i <= m /\ m < i + Together => s.map[m]
            \/ i > 0 /\ s.map[i - 1] /\ s.map[i]
        BY <1>2, <2>9, <3>2
      <4> QED
        BY <2>2, <4>1, <4>2
    <3> QED
      BY <1>1, <2>9, <3>1, <3>2
  <2> HIDE DEF t
  <2> QED
    BY <2>1, <2>3, <2>5, <2>6, <2>7, <2>8, <2>9 DEF SpreadInv, t
<1> QED
  BY <1>1, <1>3, <1>4, <1>5

LEMMA SpreadIs ==
  ASSUME NEW N \in Nat, NEW map \in [0 .. N - 1 -> BOOLEAN]
  PROVE  \E s : Spread(map) = s.map /\ SpreadInv(s, map, N, N)
<1>1. DOMAIN map = 0 .. N - 1 /\ Cardinality(0 .. N - 1) = N
  <2>1. Cardinality(0 .. N - 1) = IF 0 > N - 1 THEN 0 ELSE N - 1 - 0 + 1
    BY FS_Interval
  <2> QED
    BY <2>1
<1> DEFINE f == CHOOSE h : Spreads(h, map, N)
<1>2. Spreads(f, map, N)
  BY SpreadsExists
<1>3. Spread(map) = f[N].map
  BY <1>1 DEF Spread, Spreads
<1> HIDE DEF f
<1>4. f[0] = [next |-> 0, map |-> map] /\ \A n \in 1 .. N : f[n] = SpreadFrom(f[n - 1], n - 1)
  BY <1>2 DEF Spreads
<1>5. SpreadInv(f[0], map, 0, N)
  <2>1. Together \in Nat \ {0}
    BY GoProAssumption
  <2>2. \A i \in 0 .. N - 1 : map[i] => \E k \in 0 .. N - 1 : map[k] /\ k <= i /\ i < k + Together
    BY <2>1
  <2> QED
    BY <1>4, <2>2 DEF SpreadInv
<1>6. SpreadInv(f[N], map, N, N)
  <2> DEFINE S == {n \in 0 .. N : ~SpreadInv(f[n], map, n, N)}
  <2> SUFFICES ASSUME S # {} PROVE FALSE
    OBVIOUS
  <2>1. PICK n \in S : \A i \in S : n <= i
    <3>1. S \in SUBSET Nat
      OBVIOUS
    <3> QED
      BY <3>1, LeastElement
  <2>2. n \in 0 .. N /\ n # 0
    BY <1>5, <2>1
  <2>3. n - 1 \in 0 .. N /\ n - 1 \in 0 .. N - 1 /\ n \in 1 .. N /\ n - 1 + 1 = n /\ n - 1 \notin S
    BY <2>1, <2>2
  <2>4. SpreadInv(f[n - 1], map, n - 1, N)
    BY <2>3
  <2>5. SpreadInv(SpreadFrom(f[n - 1], n - 1), map, n, N)
    BY <2>3, <2>4, SpreadStep
  <2> QED
    BY <1>4, <2>1, <2>3, <2>5
<1> QED
  BY <1>3, <1>6

\* What is marked and left out while the clusters are written, and what the
\* target has of the others: in the order of the device.
GroupsLeftOut(map, marked, N) ==
  /\ \A i \in marked : i \in 0 .. N - 1
  /\ \A i \in marked :
       \/ \A m \in 0 .. N - 1 : i <= m /\ m < i + Together => map[m]
       \/ i > 0 /\ map[i - 1] /\ map[i]
  /\ \A i \in 0 .. N - 1 : map[i] => \E k \in marked : k <= i /\ i < k + Together
InOrder(t, n) ==
  /\ t \in Seq(Int)
  /\ \A i \in 1 .. Len(t) : t[i] < source.start + n * Cluster
  /\ \A i, k \in 1 .. Len(t) : i < k => t[i] < t[k]
LrvInv ==
  /\ algorithm = "go_pro" /\ pc \in {"specify", "find LRV", "find moov", "temp", "classify"} =>
       target = <<>>
  /\ pc \in {"classify", "write"} =>
       \E N \in Nat :
         /\ cluster_map \in [0 .. N - 1 -> BOOLEAN]
         /\ pc = "write" =>
              /\ cluster \in Nat
              /\ GroupsLeftOut(cluster_map, taken, N)
              /\ N * Cluster <= DWord => InOrder(target, cluster)

LEMMA LrvInvInit == Init => LrvInv
BY DEF Init, QtInit, LrvInv

LEMMA GoProTypes == {Cluster, MarkerCluster, Together, DWord} \subseteq Nat \ {0}
BY GoProAssumption

\* A cluster more is behind those before it.
LEMMA NextCluster ==
  ASSUME NEW t, NEW n \in Nat, source.start \in Nat, InOrder(t, n)
  PROVE  /\ InOrder(t, n + 1)
         /\ InOrder(t \o Cells(source.start + n * Cluster, Cluster), n + 1)
<1> DEFINE p == source.start + n * Cluster
           c == Cells(p, Cluster)
           u == t \o c
<1>1. Cluster \in Nat \ {0} /\ p \in Nat /\ source.start + (n + 1) * Cluster = p + Cluster
  <2>1. Cluster \in Nat \ {0}
    BY GoProTypes
  <2> QED
    BY <2>1
<1>2. /\ t \in Seq(Int) /\ Len(t) \in Nat
      /\ \A i \in 1 .. Len(t) : t[i] \in Int /\ t[i] < p
      /\ \A i, k \in 1 .. Len(t) : i < k => t[i] < t[k]
  BY DEF InOrder
<1> HIDE DEF p
<1>3. InOrder(t, n + 1)
  <2>1. \A i \in 1 .. Len(t) : t[i] < source.start + (n + 1) * Cluster
    BY <1>1, <1>2
  <2> QED
    BY <1>2, <2>1 DEF InOrder
<1>4. c \in Seq(Int) /\ Len(c) = Cluster /\ \A i \in 1 .. Cluster : c[i] = p + i - 1
  BY <1>1 DEF Cells
<1>5. /\ u \in Seq(Int) /\ Len(u) = Len(t) + Cluster
      /\ \A i \in 1 .. Len(t) : u[i] = t[i]
      /\ \A i \in 1 .. Cluster : u[Len(t) + i] = p + i - 1
  <2> HIDE DEF c
  <2> QED
    BY <1>2, <1>4, Joined
<1> HIDE DEF u, c
<1>6. ASSUME NEW i \in 1 .. Len(u)
      PROVE  \/ i \in 1 .. Len(t) /\ u[i] = t[i] /\ u[i] \in Int /\ u[i] < p
             \/ i > Len(t) /\ u[i] = p + (i - Len(t)) - 1 /\ i - Len(t) <= Cluster
  <2>1. CASE i \in 1 .. Len(t)
    BY <1>2, <1>5, <2>1
  <2>2. CASE i > Len(t)
    <3>1. i - Len(t) \in 1 .. Cluster /\ Len(t) + (i - Len(t)) = i
      BY <1>1, <1>2, <1>5, <2>2
    <3> QED
      BY <1>5, <2>2, <3>1
  <2> QED
    BY <1>2, <2>1, <2>2
<1>7. \A i \in 1 .. Len(u) : u[i] < source.start + (n + 1) * Cluster
  <2>1. ASSUME NEW i \in 1 .. Len(u) PROVE u[i] < p + Cluster
    <3>1. CASE u[i] \in Int /\ u[i] < p
      BY <1>1, <3>1
    <3>2. CASE i > Len(t) /\ u[i] = p + (i - Len(t)) - 1 /\ i - Len(t) <= Cluster
      <4>1. i \in Nat /\ Len(t) \in Nat
        BY <1>2
      <4> QED
        BY <1>1, <3>2, <4>1
    <3> QED
      BY <1>6, <3>1, <3>2
  <2> QED
    BY <1>1, <2>1
<1>8. ASSUME NEW i \in 1 .. Len(u), NEW k \in 1 .. Len(u), i < k PROVE u[i] < u[k]
  <2>1. i \in Nat /\ k \in Nat /\ Len(t) \in Nat
    BY <1>2, <1>5
  <2>2. CASE k \in 1 .. Len(t)
    <3>1. i \in 1 .. Len(t)
      BY <1>8, <2>1, <2>2
    <3> QED
      BY <1>2, <1>5, <1>8, <2>2, <3>1
  <2>3. CASE k > Len(t)
    <3>1. u[k] = p + (k - Len(t)) - 1
      BY <1>6, <2>1, <2>3
    <3>2. CASE i \in 1 .. Len(t)
      <4>1. u[i] \in Int /\ u[i] < p
        BY <1>2, <1>5, <3>2
      <4> QED
        BY <1>1, <2>1, <2>3, <3>1, <4>1
    <3>3. CASE i > Len(t)
      <4>1. u[i] = p + (i - Len(t)) - 1
        BY <1>6, <2>1, <3>3
      <4> QED
        BY <1>1, <1>8, <2>1, <3>1, <4>1
    <3> QED
      BY <2>1, <3>2, <3>3
  <2> QED
    BY <2>1, <2>2, <2>3
<1> QED
  BY <1>3, <1>5, <1>7, <1>8 DEF InOrder, u, c, p

\* Where the search is, and the indices it has found.
IndexRecord == [offset : Nat, size : Nat, table : Seq(Nat)]
IndexInv ==
  /\ pc \in {"find LRV", "find moov", "find table"} => offset \in Nat
  /\ pc \in {"specify", "find LRV", "find table"} /\ algorithm \in {"go_pro", "go_pro_new"} =>
       moov = <<>> \/ \E m \in IndexRecord : moov = <<m>>
  /\ pc = "find moov" => moov = <<>> \/ \E m \in IndexRecord : moov = <<m>>
  /\ pc = "temp" => \E m, n \in IndexRecord : moov = <<m, n>>

LEMMA SignatureIs ==
  ASSUME source \in Images, offset \in Nat, MoovFound
  PROVE  signature \in Nat /\ Index(signature) \in IndexRecord
<1>1. signatures # {} /\ signature \in DOMAIN source.stco
  BY DEF MoovFound
<1>2. signatures \in SUBSET Nat
  <2>1. \A a \in Int : a \in offset .. a => a \in Nat
    OBVIOUS
  <2>2. \A a \in signatures : a \in Int /\ offset <= a
    BY DEF signatures
  <2> QED
    BY <2>1, <2>2
<1>3. signature \in signatures
  <2>1. \E m \in signatures : \A n \in signatures : m <= n
    BY <1>1, <1>2, LeastElement
  <2> QED
    BY <2>1 DEF signature
<1>4. signature \in Nat
  BY <1>2, <1>3
<1>5. source.stco[signature] \in Seq(0 .. DWord - 1)
  BY <1>1, GoProAssumption
<1>6. source.stco[signature] \in Seq(Nat)
  <2>1. DWord \in Nat
    BY GoProTypes
  <2>2. \A s \in Seq(0 .. DWord - 1) : s \in Seq(Nat)
    BY <2>1
  <2> QED
    BY <1>5, <2>2
<1>7. readQtAtom(signature) \in Nat
  BY AtomIs
<1> QED
  BY <1>4, <1>6, <1>7 DEF Index, IndexRecord

LEMMA IndexInvInit == Init => IndexInv
BY DEF Init, QtInit, IndexInv

LEMMA IndexInvNext == QtInv /\ IndexInv /\ [Next]_vars => IndexInv'
<1> SUFFICES ASSUME QtInv, IndexInv, [Next]_vars PROVE IndexInv'
  OBVIOUS
<1>1. source \in Images /\ source.start \in Nat /\ Cluster \in Nat
  BY AtomIs, GoProTypes DEF QtInv, PlaceInv
<1>2. ASSUME pc' \notin {"specify", "find LRV", "find moov", "find table", "temp"} PROVE IndexInv'
  BY <1>2 DEF IndexInv
<1>3. CASE QtNext /\ UNCHANGED gpVars
  <2>1. UNCHANGED algorithm
    BY <1>3 DEF QtNext, ReadKeyword, Endless, SpecifyThrows, Specified, SaveRawFile, ReadMedia,
       FindFtyp, JoinFragments, ReadIndex, FindSecondPart
  <2>2. algorithm \notin {"go_pro", "go_pro_new"}
    <3>1. CASE ReadKeyword \/ Endless \/ SpecifyThrows \/ Specified \/ SaveRawFile
      BY <3>1 DEF ReadKeyword, Endless, SpecifyThrows, Specified, SaveRawFile
    <3>2. CASE ReadMedia \/ ReadIndex
      BY <3>2 DEF ReadMedia, ReadIndex
    <3>3. CASE FindFtyp \/ JoinFragments \/ FindSecondPart
      BY <3>3 DEF FindFtyp, JoinFragments, FindSecondPart, QtInv, PlaceInv
    <3> QED
      BY <1>3, <3>1, <3>2, <3>3 DEF QtNext
  <2>3. PlaceInv'
    BY QtInvNext DEF QtInv
  <2>4. pc' \notin {"find LRV", "find moov", "find table", "temp"}
    BY <2>1, <2>2, <2>3 DEF PlaceInv
  <2> QED
    BY <2>1, <2>2, <2>4 DEF IndexInv
<1>4. CASE ReadMp4
  <2>1. source.start + Cluster \in Nat
    BY <1>1
  <2>2. CASE pc' = "read"
    BY <1>2, <2>2
  <2>3. CASE pc' # "read"
    BY <1>4, <2>1, <2>3 DEF ReadMp4, Throws, IndexInv
  <2> QED
    BY <2>2, <2>3
<1>5. CASE FindLrv
  <2>1. offset \in Nat /\ pc = "find LRV" /\ algorithm = "go_pro" /\ UNCHANGED <<algorithm, moov>>
    BY <1>5 DEF FindLrv, IndexInv, QtInv, PlaceInv
  <2>2. offset + Cluster \in Nat /\ mp4Handle \in Nat
    <3>1. offset \in Nat
      BY <2>1
    <3>2. offset + Cluster \in Nat
      BY ONLY <1>1, <3>1
    <3> QED
      BY <1>1, <3>2 DEF mp4Handle
  <2>3. CASE pc' \in {"read", "returned"}
    BY <1>2, <2>3
  <2>4. CASE pc' \notin {"read", "returned"}
    <3>1. /\ pc' \in {"find LRV", "find moov"}
          /\ offset' \in {offset + Cluster, mp4Handle}
      BY <1>5, <2>4 DEF FindLrv, Throws, Return
    <3>2. offset' \in Nat
      BY <2>2, <3>1
    <3> QED
      BY <2>1, <3>1, <3>2 DEF IndexInv
  <2> QED
    BY <2>3, <2>4
<1>6. CASE FindMoov
  <2>1. /\ offset \in Nat /\ pc = "find moov"
        /\ moov = <<>> \/ \E m \in IndexRecord : moov = <<m>>
    BY <1>6 DEF FindMoov, IndexInv
  <2>2. CASE pc' \in {"read", "returned"}
    BY <1>2, <2>2
  <2>3. CASE pc' \notin {"read", "returned"} /\ MoovFound
    <3>1. /\ moov' = Append(moov, Index(signature))
          /\ offset' = Behind(Atom(signature))
          /\ pc' = IF moov = <<>> THEN "find moov" ELSE "temp"
      BY <1>6, <2>3 DEF FindMoov, Throws, Return
    <3>2. signature \in Nat /\ Index(signature) \in IndexRecord
      BY <1>1, <2>1, <2>3, SignatureIs
    <3>3. offset' \in Nat
      BY <1>1, <3>1, <3>2, AtomIs
    <3> HIDE DEF IndexRecord, Index
    <3>4. CASE moov = <<>>
      <4>1. moov' = <<Index(signature)>>
        <5>1. \A x : Append(<<>>, x) = <<x>>
          OBVIOUS
        <5> QED
          BY <3>1, <3>4, <5>1
      <4> QED
        BY <3>1, <3>2, <3>3, <3>4, <4>1 DEF IndexInv
    <3>5. CASE moov # <<>>
      <4>1. PICK m \in IndexRecord : moov = <<m>>
        BY <2>1, <3>5
      <4>2. moov' = <<m, Index(signature)>>
        <5>1. Append(<<m>>, Index(signature)) = <<m, Index(signature)>>
          BY <3>2, Pair
        <5> QED
          BY <3>1, <4>1, <5>1
      <4>3. \E x, y \in IndexRecord : moov' = <<x, y>>
        BY <3>2, <4>1, <4>2
      <4> QED
        BY <3>1, <3>5, <4>3 DEF IndexInv
    <3> QED
      BY <3>4, <3>5
  <2>4. CASE pc' \notin {"read", "returned"} /\ ~MoovFound
    <3>1. offset' = offset + Cluster /\ UNCHANGED <<pc, moov>>
      BY <1>6, <2>4 DEF FindMoov, Throws, Return
    <3>2. offset' \in Nat
      <4>1. offset \in Nat /\ offset' = offset + Cluster
        BY <2>1, <3>1
      <4> QED
        BY ONLY <1>1, <4>1
    <3> QED
      BY <2>1, <3>1, <3>2 DEF IndexInv
  <2> QED
    BY <2>2, <2>3, <2>4
<1>7. CASE MakeTemp \/ Classify \/ SpreadGroups \/ WriteCluster \/ WriteMoov \/ TakeCluster \/ FinishByMarkers
  <2>1. pc' \in {"classify", "write", "save", "read", "returned"}
    BY <1>7 DEF MakeTemp, Classify, SpreadGroups, WriteCluster, WriteMoov, TakeCluster,
       FinishByMarkers, Throws, Return
  <2> QED
    BY <1>2, <2>1
<1>8. CASE ReadHeader
  <2>1. /\ pc = "specify" /\ algorithm = "go_pro_new" /\ UNCHANGED <<offset, moov>>
        /\ pc' \in {"find table", "read", "returned"}
    BY <1>8 DEF ReadHeader, Throws, Return, gpVars
  <2>2. offset = source.start
    BY <2>1 DEF QtInv, FragmentInv
  <2> QED
    BY <1>1, <2>1, <2>2 DEF IndexInv
<1>9. CASE FindTable
  <2>1. /\ offset \in Nat /\ pc = "find table" /\ algorithm = "go_pro_new"
        /\ moov = <<>> \/ \E m \in IndexRecord : moov = <<m>>
    BY <1>9 DEF FindTable, IndexInv, QtInv, PlaceInv
  <2>2. CASE pc' # "find table"
    <3>1. pc' \in {"undefined", "read", "save"}
      BY <1>9, <2>2 DEF FindTable, Throws
    <3> QED
      BY <1>2, <3>1
  <2>3. CASE pc' = "find table" /\ ~MoovFound
    <3>1. offset' = offset + Cluster /\ UNCHANGED <<pc, moov>>
      BY <1>9, <2>3 DEF FindTable, Throws
    <3>2. offset' \in Nat
      <4>1. offset \in Nat /\ offset' = offset + Cluster
        BY <2>1, <3>1
      <4> QED
        BY ONLY <1>1, <4>1
    <3> QED
      BY <2>1, <3>1, <3>2 DEF IndexInv
  <2>4. CASE pc' = "find table" /\ MoovFound
    <3>1. moov' = <<Index(signature)>> /\ offset' = BehindMedia(signature)
      BY <1>9, <2>4 DEF FindTable, Throws
    <3>2. signature \in Nat /\ Index(signature) \in IndexRecord
      BY <1>1, <2>1, <2>4, SignatureIs
    <3>3. SectorSize \in Nat \ {0}
      BY QuickTimeAssumption
    <3>4. offset' \in Nat
      <4>1. signature \div SectorSize \in Nat
        BY ONLY <3>2, <3>3, Division
      <4>2. (signature \div SectorSize) * SectorSize + SectorSize \in Nat
        <5> DEFINE q == signature \div SectorSize
        <5>1. q \in Nat
          BY <4>1
        <5> HIDE DEF q
        <5>2. q * SectorSize + SectorSize \in Nat
          BY ONLY <3>3, <5>1
        <5> QED
          BY <5>2 DEF q
      <4> QED
        BY <3>1, <4>2 DEF BehindMedia, alingToSector
    <3>5. \E m \in IndexRecord : moov' = <<m>>
      BY <3>1, <3>2
    <3> QED
      BY <2>4, <3>4, <3>5 DEF IndexInv
  <2> QED
    BY <2>2, <2>3, <2>4
<1>10. CASE UNCHANGED vars
  BY <1>10 DEF vars, qtVars, gpVars, IndexInv
<1>11. CASE CopyTable
  BY <1>2, <1>11 DEF CopyTable, Throws
<1> QED
  BY <1>3, <1>4, <1>5, <1>6, <1>7, <1>8, <1>9, <1>10, <1>11 DEF Next

LEMMA LrvInvNext == QtInv /\ IndexInv /\ LrvInv /\ [Next]_vars => LrvInv'
<1> SUFFICES ASSUME QtInv, IndexInv, LrvInv, [Next]_vars PROVE LrvInv'
  OBVIOUS
<1> DEFINE before == {"specify", "find LRV", "find moov", "temp", "classify"}
<1>1. source \in Images /\ source.start \in Nat /\ Cluster \in Nat \ {0} /\ DWord \in Nat \ {0}
  BY AtomIs, GoProTypes DEF QtInv, PlaceInv
<1>2. ASSUME algorithm' = "go_pro_new" \/ algorithm' # "go_pro", PlaceInv' PROVE LrvInv'
  BY <1>2 DEF LrvInv, PlaceInv
<1>3. ASSUME algorithm = "go_pro", pc \in before, pc' \notin {"classify", "write"},
             UNCHANGED <<algorithm, target>>
      PROVE  LrvInv'
  BY <1>3 DEF LrvInv
<1>4. ASSUME pc' \in {"read", "returned"} PROVE LrvInv'
  BY <1>4 DEF LrvInv
<1>5. PlaceInv'
  BY QtInvNext DEF QtInv
<1>6. CASE QtNext /\ UNCHANGED gpVars
  <2>1. UNCHANGED algorithm
    BY <1>6 DEF QtNext, ReadKeyword, Endless, SpecifyThrows, Specified, SaveRawFile, ReadMedia,
       FindFtyp, JoinFragments, ReadIndex, FindSecondPart
  <2>2. algorithm # "go_pro"
    <3>1. CASE ReadKeyword \/ Endless \/ SpecifyThrows \/ Specified \/ SaveRawFile
      BY <3>1 DEF ReadKeyword, Endless, SpecifyThrows, Specified, SaveRawFile
    <3>2. CASE ReadMedia \/ ReadIndex
      BY <3>2 DEF ReadMedia, ReadIndex
    <3>3. CASE FindFtyp \/ JoinFragments \/ FindSecondPart
      BY <3>3 DEF FindFtyp, JoinFragments, FindSecondPart, QtInv, PlaceInv
    <3> QED
      BY <1>6, <3>1, <3>2, <3>3 DEF QtNext
  <2> QED
    BY <1>2, <1>5, <2>1, <2>2
<1>7. CASE ReadMp4
  BY <1>3, <1>4, <1>7 DEF ReadMp4, Throws
<1>8. CASE FindLrv
  <2>1. algorithm = "go_pro"
    BY <1>8 DEF FindLrv, QtInv, PlaceInv
  <2> QED
    BY <1>3, <1>4, <1>8, <2>1 DEF FindLrv, Throws, Return
<1>9. CASE FindMoov
  <2>1. algorithm = "go_pro"
    BY <1>9 DEF FindMoov, QtInv, PlaceInv
  <2>2. CASE pc' \in {"find moov", "temp"}
    BY <1>3, <1>9, <2>1, <2>2 DEF FindMoov
  <2>3. CASE pc' \notin {"find moov", "temp"}
    BY <1>4, <1>9, <2>3 DEF FindMoov, Throws, Return
  <2> QED
    BY <2>2, <2>3
<1>10. CASE MakeTemp
  <2>1. CASE pc' = "read"
    BY <1>4, <2>1
  <2>2. CASE pc' # "read"
    <3> DEFINE N == (temp_file_size \div Cluster) % DWord
    <3>1. /\ pc = "temp" /\ pc' = "classify" /\ UNCHANGED <<algorithm, target>>
          /\ cluster_map' = [i \in 0 .. N - 1 |-> FALSE]
      BY <1>10, <2>2 DEF MakeTemp, Throws
    <3>2. N \in Nat
      <4>1. PICK m \in IndexRecord, n \in IndexRecord : moov = <<m, n>>
        BY <3>1 DEF IndexInv
      <4>2. moov[2].offset \in Nat /\ moov[2].size \in Nat
        BY <4>1 DEF IndexRecord
      <4>3. Wide \in Nat \ {0}
        BY DeviceAssumption
      <4>4. Behind(moov[2]) \in Nat
        BY ONLY <4>2, <4>3 DEF Behind
      <4> DEFINE q == Behind(moov[2]) \div Cluster
      <4>5. q \in Nat
        BY <1>1, <4>4, Division
      <4> HIDE DEF q
      <4>6. (q + 1) * Cluster - source.start \in Int
        BY ONLY <1>1, <4>5
      <4>7. temp_file_size \in Nat
        BY ONLY <4>3, <4>6 DEF temp_file_size, end_offset, q
      <4>8. temp_file_size \div Cluster \in Nat
        BY ONLY <1>1, <4>7, Division
      <4> QED
        BY ONLY <1>1, <4>8, Division
    <3> HIDE DEF N
    <3>3. cluster_map' \in [0 .. N - 1 -> BOOLEAN]
      BY <3>1
    <3> QED
      BY <3>1, <3>2, <3>3 DEF LrvInv, QtInv, PlaceInv
  <2> QED
    BY <2>1, <2>2
<1>11. CASE Classify
  <2>1. pc = "classify" /\ algorithm = "go_pro" /\ UNCHANGED <<algorithm, target>>
    BY <1>11 DEF Classify, QtInv, PlaceInv
  <2>2. CASE pc' = "read"
    BY <1>4, <2>2
  <2>3. CASE pc' # "read"
    <3> DEFINE value == matched > 0 \/ offset \in source.quiet
    <3>1. pc' = "classify" /\ cluster_map' = [cluster_map EXCEPT ![cluster] = value]
      BY <1>11, <2>3 DEF Classify, Throws
    <3>2. value \in BOOLEAN
      OBVIOUS
    <3>3. PICK N \in Nat : cluster_map \in [0 .. N - 1 -> BOOLEAN]
      BY <2>1 DEF LrvInv
    <3> HIDE DEF value
    <3>4. cluster_map' \in [0 .. N - 1 -> BOOLEAN]
      BY <3>1, <3>2, <3>3
    <3> QED
      BY <2>1, <3>1, <3>3, <3>4 DEF LrvInv
  <2> QED
    BY <2>2, <2>3
<1>12. CASE SpreadGroups
  <2>1. /\ pc = "classify" /\ algorithm = "go_pro" /\ UNCHANGED <<source, algorithm, target>>
        /\ cluster_map' = Spread(cluster_map) /\ cluster' = 0 /\ pc' = "write"
        /\ taken' = {i \in DOMAIN cluster_map : cluster_map[i]}
    BY <1>12 DEF SpreadGroups, QtInv, PlaceInv
  <2>2. PICK N \in Nat : cluster_map \in [0 .. N - 1 -> BOOLEAN]
    BY <2>1 DEF LrvInv
  <2>3. PICK s : Spread(cluster_map) = s.map /\ SpreadInv(s, cluster_map, N, N)
    BY <2>2, SpreadIs
  <2>4. cluster_map' \in [0 .. N - 1 -> BOOLEAN]
    BY <2>1, <2>3 DEF SpreadInv
  <2>5. GroupsLeftOut(s.map, taken', N)
    <3>1. \A i : i \in taken' <=> i \in 0 .. N - 1 /\ cluster_map[i]
      BY <2>1, <2>2
    <3> QED
      BY <2>3, <3>1 DEF SpreadInv, GroupsLeftOut
  <2>6. InOrder(<<>>, 0)'
    BY <1>1, <2>1 DEF InOrder
  <2>7. target' = <<>>
    BY <2>1 DEF LrvInv
  <2>8. InOrder(target, cluster)' /\ GroupsLeftOut(cluster_map, taken, N)' /\ cluster' \in Nat
    BY <2>1, <2>3, <2>5, <2>6, <2>7 DEF InOrder, GroupsLeftOut
  <2>9. pc' \notin before
    BY <2>1
  <2> QED
    BY <2>2, <2>4, <2>8, <2>9 DEF LrvInv
<1>13. CASE WriteCluster
  <2>1. /\ pc = "write" /\ algorithm = "go_pro" /\ cluster \in DOMAIN cluster_map
        /\ cluster' = cluster + 1 /\ UNCHANGED <<source, algorithm, cluster_map, taken>>
    BY <1>13 DEF WriteCluster, QtInv, PlaceInv
  <2>2. CASE pc' = "read"
    BY <1>4, <2>2
  <2>3. CASE pc' # "read"
    <3>1. /\ pc' = "write"
          /\ UNCHANGED target \/ target' = target \o Cells(read_pos(cluster), Cluster)
      BY <1>13, <2>1, <2>3 DEF WriteCluster, Throws
    <3>2. PICK N \in Nat :
            /\ cluster_map \in [0 .. N - 1 -> BOOLEAN]
            /\ cluster \in Nat
            /\ GroupsLeftOut(cluster_map, taken, N)
            /\ N * Cluster <= DWord => InOrder(target, cluster)
      BY <2>1 DEF LrvInv
    <3>3. cluster \in 0 .. N - 1 /\ cluster + 1 \in Nat
      BY <2>1, <3>2
    <3>4. ASSUME N * Cluster <= DWord PROVE InOrder(target, cluster)'
      <4>1. read_pos(cluster) = source.start + cluster * Cluster
        <5>1. cluster * Cluster \in Nat /\ cluster * Cluster < DWord
          <6>1. cluster * Cluster + Cluster <= N * Cluster
            BY ONLY <1>1, <3>3, OneLess
          <6> QED
            BY ONLY <1>1, <3>3, <3>4, <6>1
        <5>2. (cluster * Cluster) % DWord = cluster * Cluster
          <6>1. \A x \in Nat : x < DWord => x % DWord = x
            BY <1>1
          <6> QED
            BY ONLY <5>1, <6>1
        <5> QED
          BY <5>2 DEF read_pos
      <4>2. InOrder(target, cluster)
        BY <3>2, <3>4
      <4>3. InOrder(target, cluster + 1) /\ InOrder(target \o Cells(source.start + cluster * Cluster, Cluster), cluster + 1)
        BY <1>1, <3>2, <4>2, NextCluster
      <4>4. InOrder(target', cluster + 1)
        BY <3>1, <4>1, <4>3
      <4> QED
        BY <2>1, <4>4 DEF InOrder
    <3>5. GroupsLeftOut(cluster_map, taken, N)' /\ cluster' \in Nat
      BY <2>1, <3>2, <3>3 DEF GroupsLeftOut
    <3>6. pc' \notin before
      BY <3>1
    <3> QED
      BY <2>1, <3>2, <3>4, <3>5, <3>6 DEF LrvInv
  <2> QED
    BY <2>2, <2>3
<1>14. CASE WriteMoov
  BY <1>4, <1>14 DEF WriteMoov, Throws, Return
<1>15. CASE ReadHeader \/ FindTable \/ TakeCluster \/ FinishByMarkers
  <2>1. algorithm' = "go_pro_new"
    BY <1>15 DEF ReadHeader, FindTable, TakeCluster, FinishByMarkers, QtInv, PlaceInv
  <2> QED
    BY <1>2, <1>5, <2>1
<1>16. CASE UNCHANGED vars
  BY <1>16 DEF vars, qtVars, gpVars, LrvInv, InOrder
<1>17. CASE CopyTable
  BY <1>17 DEF CopyTable, Throws, LrvInv
<1> QED
  BY <1>6, <1>7, <1>8, <1>9, <1>10, <1>11, <1>12, <1>13, <1>14, <1>15, <1>16, <1>17 DEF Next

LEMMA LrvLeftOutHolds == LrvInv => LrvLeftOut
<1> SUFFICES ASSUME LrvInv, pc = "write" PROVE LrvLeftOut
  BY DEF LrvLeftOut
<1>1. PICK N \in Nat :
        /\ cluster_map \in [0 .. N - 1 -> BOOLEAN]
        /\ GroupsLeftOut(cluster_map, taken, N)
        /\ N * Cluster <= DWord => InOrder(target, cluster)
  BY DEF LrvInv
<1>2. DOMAIN cluster_map = 0 .. N - 1 /\ Together \in Nat \ {0}
  BY <1>1, GoProTypes
<1>3. Cardinality(DOMAIN cluster_map) = N
  <2>1. Cardinality(0 .. N - 1) = IF 0 > N - 1 THEN 0 ELSE N - 1 - 0 + 1
    BY FS_Interval
  <2> QED
    BY <1>2, <2>1
<1>4. ASSUME NEW i \in taken
      PROVE  LeftOut(i, i + Together - 1) \/ (i > 0 /\ LeftOut(i - 1, i))
  <2>1. /\ i \in 0 .. N - 1
        /\ \/ \A m \in 0 .. N - 1 : i <= m /\ m < i + Together => cluster_map[m]
           \/ i > 0 /\ cluster_map[i - 1] /\ cluster_map[i]
    BY <1>1 DEF GroupsLeftOut
  <2>2. CASE \A m \in 0 .. N - 1 : i <= m /\ m < i + Together => cluster_map[m]
    <3>1. \A m \in i .. i + Together - 1 : i <= m /\ m < i + Together
      BY <1>2, <2>1
    <3> QED
      BY <1>2, <2>2, <3>1 DEF LeftOut
  <2>3. CASE i > 0 /\ cluster_map[i - 1] /\ cluster_map[i]
    <3>1. \A m \in i - 1 .. i : m = i - 1 \/ m = i
      BY <2>1
    <3> QED
      BY <2>3, <3>1 DEF LeftOut
  <2> QED
    BY <2>1, <2>2, <2>3
<1>5. \A i \in DOMAIN cluster_map :
        cluster_map[i] => \E k \in taken : k <= i /\ i < k + Together
  BY <1>1, <1>2 DEF GroupsLeftOut
<1>6. N * Cluster <= DWord => \A i, k \in DOMAIN target : i < k => target[i] < target[k]
  BY <1>1 DEF InOrder
<1> QED
  BY <1>3, <1>4, <1>5, <1>6 DEF LrvLeftOut

-----------------------------------------------------------------------------
(* GoProRawNew: the chunks are where the index says                        *)

Has(seq, x) == \E j \in DOMAIN seq : seq[j] = x

LEMMA Appended ==
  ASSUME NEW seq \in Seq(Nat), NEW v \in Nat
  PROVE  /\ Append(seq, v) \in Seq(Nat) /\ Has(Append(seq, v), v)
         /\ \A x : Has(seq, x) => Has(Append(seq, v), x)
<1> DEFINE a == Append(seq, v)
<1>1. /\ a \in Seq(Nat) /\ DOMAIN seq = 1 .. Len(seq) /\ DOMAIN a = 1 .. Len(seq) + 1
      /\ Len(seq) \in Nat
      /\ a[Len(seq) + 1] = v /\ \A j \in 1 .. Len(seq) : a[j] = seq[j]
  OBVIOUS
<1> HIDE DEF a
<1>2. Len(seq) + 1 \in DOMAIN a /\ \A j \in DOMAIN seq : j \in DOMAIN a
  BY <1>1
<1>3. a \in Seq(Nat) /\ Has(a, v) /\ \A x : Has(seq, x) => Has(a, x)
  BY <1>1, <1>2 DEF Has
<1> QED
  BY <1>3 DEF a

\* A smaller offset is in no later cluster.
LEMMA EarlierCluster ==
  ASSUME NEW x \in Nat, NEW y \in Nat, x < y, NEW b \in Nat \ {0}
  PROVE  x \div b <= y \div b
<1> DEFINE p == x \div b
           q == y \div b
           i == x % b
           j == y % b
<1>1. p \in Nat /\ q \in Nat /\ i \in 0 .. b - 1 /\ j \in 0 .. b - 1 /\ x = b * p + i /\ y = b * q + j
  BY Division
<1>2. b * p = p * b /\ b * q = q * b
  <2> HIDE DEF p, q
  <2> QED
    BY <1>1
<1> HIDE DEF p, q, i, j
<1>3. ASSUME q < p PROVE FALSE
  <2>1. q * b + b <= p * b
    BY ONLY <1>1, <1>3, OneLess
  <2> QED
    BY <1>1, <1>2, <2>1
<1>4. p <= q
  BY <1>1, <1>3
<1> QED
  BY <1>4 DEF p, q

\* The state of the loop of toArrayListMarkers after k offsets of the table.
Tabled(f, init, table, k) ==
  f = [n \in 0 .. k |-> IF n = 0 THEN init ELSE AddOffset(f[n - 1], table[n])]

LEMMA TabledExists ==
  ASSUME NEW init, NEW table, NEW N \in Nat
  PROVE  \E f : Tabled(f, init, table, N)
<1> DEFINE S == {k \in Nat : ~\E f : Tabled(f, init, table, k)}
<1> SUFFICES ASSUME S # {} PROVE FALSE
  OBVIOUS
<1>1. PICK k \in S : \A j \in S : k <= j
  BY LeastElement
<1>2. k \in Nat /\ ~\E f : Tabled(f, init, table, k)
  BY <1>1
<1>3. CASE k = 0
  <2>1. Tabled([j \in 0 .. k |-> init], init, table, k)
    BY <1>3 DEF Tabled
  <2> QED
    BY <1>2, <2>1
<1>4. CASE k # 0
  <2>1. k - 1 \in Nat /\ k - 1 \notin S
    BY <1>1, <1>4
  <2>2. PICK g : Tabled(g, init, table, k - 1)
    BY <2>1
  <2> DEFINE f == [j \in 0 .. k |-> IF j = k THEN AddOffset(g[k - 1], table[k]) ELSE g[j]]
  <2>3. Tabled(f, init, table, k)
    <3>1. \A j \in 0 .. k - 1 : g[j] = IF j = 0 THEN init ELSE AddOffset(g[j - 1], table[j])
      BY <2>2 DEF Tabled
    <3>2. \A j \in 0 .. k : f[j] = IF j = 0 THEN init ELSE AddOffset(f[j - 1], table[j])
      BY <1>2, <1>4, <3>1
    <3> QED
      BY <3>2 DEF Tabled
  <2> QED
    BY <1>2, <2>3
<1> QED
  BY <1>3, <1>4

\* After n offsets of an ascending table each of them is in the list of its
\* cluster; the list of the last cluster is still open.
TableState(K) ==
  [prev : Nat, markers : Seq(Nat), throws : BOOLEAN, lists : [0 .. K - 1 -> Seq(Nat)]]
TableInv(s, table, K, n) ==
  /\ s \in TableState(K)
  /\ s.prev = IF n = 0 THEN 0 ELSE table[n] \div MarkerCluster
  /\ \A k \in 1 .. n :
       LET c == table[k] \div MarkerCluster
       IN /\ c <= s.prev
          /\ c = s.prev => Has(s.markers, table[k])
          /\ c < s.prev => c \in 0 .. K - 1 /\ Has(s.lists[c], table[k])

LEMMA TableStep ==
  ASSUME NEW table \in Seq(Nat), Ascending(table), NEW K \in Nat,
         NEW n \in 0 .. Len(table) - 1,
         \A k \in 1 .. Len(table) : table[k] \div MarkerCluster <= K,
         NEW s, TableInv(s, table, K, n)
  PROVE  TableInv(AddOffset(s, table[n + 1]), table, K, n + 1)
<1> DEFINE v == table[n + 1]
           d == v \div MarkerCluster
           t == AddOffset(s, v)
           C(k) == table[k] \div MarkerCluster
<1>1. n \in Nat /\ Len(table) \in Nat /\ DOMAIN table = 1 .. Len(table) /\ n + 1 \in 1 .. Len(table)
  OBVIOUS
<1>2. MarkerCluster \in Nat \ {0} /\ \A k \in 1 .. Len(table) : table[k] \in Nat /\ C(k) \in Nat /\ C(k) <= K
  <2>1. MarkerCluster \in Nat \ {0}
    BY GoProTypes
  <2>2. \A k \in 1 .. Len(table) : table[k] \in Nat
    OBVIOUS
  <2> QED
    BY <2>1, <2>2, Division
<1>3. v \in Nat /\ d \in Nat /\ d <= K
  BY <1>1, <1>2
<1>4. \A k \in 1 .. n : k \in 1 .. Len(table) /\ table[k] < v /\ C(k) <= d
  <2>1. ASSUME NEW k \in 1 .. n PROVE k \in 1 .. Len(table) /\ table[k] < v /\ C(k) <= d
    <3>1. k \in 1 .. Len(table) /\ k < n + 1
      BY <1>1
    <3>2. table[k] < v
      BY <1>1, <3>1 DEF Ascending
    <3> QED
      BY <1>2, <1>3, <3>1, <3>2, EarlierCluster
  <2> QED
    BY <2>1
<1>5. /\ s \in TableState(K)
      /\ s.prev = IF n = 0 THEN 0 ELSE table[n] \div MarkerCluster
      /\ \A k \in 1 .. n :
           /\ C(k) <= s.prev
           /\ C(k) = s.prev => Has(s.markers, table[k])
           /\ C(k) < s.prev => C(k) \in 0 .. K - 1 /\ Has(s.lists[C(k)], table[k])
  BY DEF TableInv
<1>6. s.prev \in Nat /\ s.markers \in Seq(Nat) /\ s.throws \in BOOLEAN /\ s.lists \in [0 .. K - 1 -> Seq(Nat)]
  BY <1>5 DEF TableState
<1>7. s.prev <= d
  <2>1. CASE n = 0
    BY <1>3, <1>5, <2>1
  <2>2. CASE n # 0
    <3>1. n \in 1 .. n
      BY <1>1, <2>2
    <3> QED
      BY <1>4, <1>5, <2>2, <3>1
  <2> QED
    BY <2>1, <2>2
<1> DEFINE P(u, k) == /\ C(k) <= u.prev
                      /\ C(k) = u.prev => Has(u.markers, table[k])
                      /\ C(k) < u.prev => C(k) \in 0 .. K - 1 /\ Has(u.lists[C(k)], table[k])
<1>8. \A k \in 1 .. n : P(s, k)
  BY <1>5
<1>9. \A k \in 1 .. n + 1 : k \in 1 .. n \/ k = n + 1
  BY <1>1
<1>10. CASE d = s.prev
  <2>1. t = [s EXCEPT !.markers = Append(@, v)]
    BY <1>10 DEF AddOffset
  <2>2. Append(s.markers, v) \in Seq(Nat) /\ Has(Append(s.markers, v), v)
        /\ \A x : Has(s.markers, x) => Has(Append(s.markers, v), x)
    BY <1>3, <1>6, Appended
  <2> HIDE DEF v, d, C
  <2>3. t \in TableState(K) /\ t.prev = s.prev /\ t.lists = s.lists /\ t.markers = Append(s.markers, v)
    BY <1>5, <2>1, <2>2 DEF TableState
  <2> HIDE DEF t
  <2>4. ASSUME NEW k \in 1 .. n PROVE P(t, k)
    BY <1>8, <2>2, <2>3
  <2>5. P(t, n + 1)
    <3>1. C(n + 1) = d /\ table[n + 1] = v
      BY DEF C, d, v
    <3> QED
      BY <1>3, <1>10, <2>2, <2>3, <3>1
  <2>6. t.prev = table[n + 1] \div MarkerCluster
    BY <1>10, <2>3 DEF d, v
  <2>7. \A k \in 1 .. n + 1 : P(t, k)
    BY <1>9, <2>4, <2>5
  <2> QED
    BY <1>1, <2>3, <2>6, <2>7 DEF TableInv, C, t, v
<1>11. CASE d # s.prev
  <2> DEFINE lists == [k \in DOMAIN s.lists |-> IF k = s.prev THEN s.markers ELSE s.lists[k]]
  <2>1. t = [prev |-> d, markers |-> <<v>>, lists |-> lists,
             throws |-> s.throws \/ s.prev \notin DOMAIN s.lists]
    BY <1>11 DEF AddOffset
  <2>2. lists \in [0 .. K - 1 -> Seq(Nat)]
    BY <1>6
  <2>3. <<v>> \in Seq(Nat) /\ Has(<<v>>, v)
    BY <1>3 DEF Has
  <2>4. s.prev \in 0 .. K - 1
    BY <1>3, <1>6, <1>7, <1>11
  <2>5. lists[s.prev] = s.markers /\ \A k \in 0 .. K - 1 : k # s.prev => lists[k] = s.lists[k]
    BY <1>6, <2>4
  <2> HIDE DEF v, d, C, lists
  <2>6. t \in TableState(K) /\ t.prev = d /\ t.lists = lists /\ t.markers = <<v>>
    BY <1>3, <2>1, <2>2, <2>3 DEF TableState
  <2> HIDE DEF t
  <2>7. ASSUME NEW k \in 1 .. n PROVE P(t, k)
    <3>1. C(k) <= s.prev /\ C(k) \in Nat
      BY <1>2, <1>4, <1>8
    <3>2. C(k) < d
      BY <1>3, <1>6, <1>7, <1>11, <3>1
    <3>3. C(k) \in 0 .. K - 1 /\ Has(lists[C(k)], table[k])
      <4>1. CASE C(k) = s.prev
        BY <1>8, <2>4, <2>5, <4>1
      <4>2. CASE C(k) # s.prev
        <5>1. C(k) < s.prev
          BY <1>6, <3>1, <4>2
        <5> QED
          BY <1>8, <2>5, <4>2, <5>1
      <4> QED
        BY <4>1, <4>2
    <3> QED
      BY <1>3, <2>6, <3>1, <3>2, <3>3
  <2>8. P(t, n + 1)
    <3>1. C(n + 1) = d /\ table[n + 1] = v
      BY DEF C, d, v
    <3> QED
      BY <1>3, <2>3, <2>6, <3>1
  <2>9. t.prev = table[n + 1] \div MarkerCluster
    BY <2>6 DEF d, v
  <2>10. \A k \in 1 .. n + 1 : P(t, k)
    BY <1>9, <2>7, <2>8
  <2> QED
    BY <1>1, <2>6, <2>9, <2>10 DEF TableInv, C, t, v
<1> QED
  BY <1>10, <1>11

\* The lists of a table: each offset is in that of its cluster.
Listed(table, lists) ==
  \A k \in DOMAIN table :
    LET c == table[k] \div MarkerCluster IN c \in DOMAIN lists /\ Has(lists[c], table[k])

LEMMA ListsHold ==
  ASSUME NEW table \in Seq(Nat), table # <<>>, Ascending(table)
  PROVE  /\ \E K \in Nat : DOMAIN toArrayListMarkers(table).lists = 0 .. K
         /\ Listed(table, toArrayListMarkers(table).lists)
<1> DEFINE N == Len(table)
           K == table[N] \div MarkerCluster
           init == [prev |-> 0, markers |-> <<>>, throws |-> FALSE,
                    lists |-> [k \in 0 .. K - 1 |-> <<>>]]
           f == CHOOSE h : Tabled(h, init, table, N)
           lists == [k \in 0 .. K |-> IF k = K THEN f[N].markers ELSE f[N].lists[k]]
<1>1. toArrayListMarkers(table).lists = lists
  BY DEF toArrayListMarkers, Tabled
<1>2. N \in Nat \ {0} /\ DOMAIN table = 1 .. N /\ MarkerCluster \in Nat \ {0}
  <2>1. N \in Nat \ {0} /\ DOMAIN table = 1 .. N
    OBVIOUS
  <2> QED
    BY <2>1, GoProTypes
<1>3. \A k \in 1 .. N : table[k] \in Nat /\ table[k] \div MarkerCluster \in Nat
  <2>1. \A k \in 1 .. N : table[k] \in Nat
    OBVIOUS
  <2> QED
    BY <1>2, <2>1, Division
<1>4. K \in Nat
  BY <1>2, <1>3
<1>5. \A k \in 1 .. N : table[k] \div MarkerCluster <= K
  <2>1. ASSUME NEW k \in 1 .. N PROVE table[k] \div MarkerCluster <= K
    <3>1. CASE k = N
      BY <1>4, <3>1
    <3>2. CASE k # N
      <4>1. N \in 1 .. N /\ k < N
        <5> HIDE DEF N
        <5> QED
          BY <1>2, <3>2
      <4>2. table[k] < table[N]
        BY <1>2, <4>1 DEF Ascending
      <4> QED
        BY <1>2, <1>3, <4>1, <4>2, EarlierCluster
    <3> QED
      BY <3>1, <3>2
  <2> QED
    BY <2>1
<1>6. Tabled(f, init, table, N)
  <2> HIDE DEF init
  <2> QED
    BY <1>2, TabledExists
<1> HIDE DEF f
<1>7. f[0] = init /\ \A n \in 1 .. N : f[n] = AddOffset(f[n - 1], table[n])
  <2> HIDE DEF init, N
  <2>1. \A n \in 0 .. N : f[n] = IF n = 0 THEN init ELSE AddOffset(f[n - 1], table[n])
    BY <1>2, <1>6 DEF Tabled
  <2> QED
    BY <1>2, <2>1
<1>8. TableInv(f[0], table, K, 0)
  <2>1. [k \in 0 .. K - 1 |-> <<>>] \in [0 .. K - 1 -> Seq(Nat)]
    OBVIOUS
  <2> QED
    BY <1>7, <2>1 DEF TableInv, TableState
<1>9. TableInv(f[N], table, K, N)
  <2> DEFINE S == {n \in 0 .. N : ~TableInv(f[n], table, K, n)}
  <2> HIDE DEF K
  <2> SUFFICES ASSUME S # {} PROVE FALSE
    BY <1>2
  <2>1. PICK n \in S : \A i \in S : n <= i
    <3>1. S \in SUBSET Nat
      BY <1>2
    <3> QED
      BY <3>1, LeastElement
  <2>2. n \in 0 .. N /\ n # 0
    BY <1>8, <2>1
  <2>3. n - 1 \in 0 .. N - 1 /\ n \in 1 .. N /\ n - 1 + 1 = n /\ n - 1 \notin S
    BY <1>2, <2>1, <2>2
  <2>4. TableInv(f[n - 1], table, K, n - 1)
    <3>1. n - 1 \in 0 .. N
      BY <1>2, <2>3
    <3> QED
      BY <2>3, <3>1
  <2>5. TableInv(AddOffset(f[n - 1], table[n - 1 + 1]), table, K, n - 1 + 1)
    BY <1>4, <1>5, <2>3, <2>4, TableStep
  <2>6. TableInv(f[n], table, K, n)
    BY <1>7, <2>3, <2>5
  <2> QED
    BY <2>1, <2>6
<1> HIDE DEF K
<1>10. f[N].prev = K
  BY <1>2, <1>9 DEF TableInv, K
<1>11. ASSUME NEW k \in DOMAIN table
       PROVE  LET c == table[k] \div MarkerCluster IN c \in DOMAIN lists /\ Has(lists[c], table[k])
  <2> DEFINE c == table[k] \div MarkerCluster
  <2>1. /\ c <= K /\ c \in Nat
        /\ c = K => Has(f[N].markers, table[k])
        /\ c < K => c \in 0 .. K - 1 /\ Has(f[N].lists[c], table[k])
    BY <1>2, <1>3, <1>9, <1>10 DEF TableInv
  <2> HIDE DEF c
  <2>2. c \in 0 .. K
    BY <1>4, <2>1
  <2>3. lists[c] = IF c = K THEN f[N].markers ELSE f[N].lists[c]
    BY <2>2
  <2>4. Has(lists[c], table[k])
    BY <1>4, <2>1, <2>3
  <2> QED
    BY <2>2, <2>4 DEF c
<1> QED
  BY <1>1, <1>4, <1>11 DEF Listed

\* What is known of the clusters taken so far.
ClustersTaken ==
  /\ \E m \in IndexRecord : moov = <<m>>
  /\ offset \in Nat /\ cluster \in Nat
  /\ target \in Seq(Int) /\ Len(target) = cluster * MarkerCluster
  /\ Ascending(moov[1].table) =>
       /\ \E K \in Nat : DOMAIN tables = 0 .. K
       /\ Listed(moov[1].table, tables)
       /\ \A k \in DOMAIN moov[1].table :
            moov[1].table[k] \div MarkerCluster < cluster =>
              target[moov[1].table[k] + 1] \in source.gp
MarkersInv ==
  /\ algorithm = "go_pro_new" /\ pc \in {"specify", "find table"} => cluster = 0 /\ target = <<>>
  /\ algorithm = "go_pro_new" /\ pc = "save" => ClustersTaken
  /\ ChunksInPlace

LEMMA MarkersInvInit == Init => MarkersInv
BY DEF Init, QtInit, MarkersInv, ChunksInPlace

LEMMA FindTableStep ==
  ASSUME QtInv, IndexInv, MarkersInv, FindTable
  PROVE  MarkersInv'
<1>1. /\ source \in Images /\ source.start \in Nat
      /\ pc = "find table" /\ algorithm = "go_pro_new" /\ offset \in Nat
      /\ cluster = 0 /\ target = <<>>
  <2>1. source \in Images /\ pc = "find table" /\ algorithm = "go_pro_new"
    BY DEF FindTable, QtInv, PlaceInv
  <2> QED
    BY <2>1, AtomIs DEF IndexInv, MarkersInv
<1>2. /\ UNCHANGED <<source, algorithm, target, cluster>>
      /\ pc' \in {"undefined", "read", "find table", "save"}
  BY DEF FindTable, Throws
<1>3. CASE pc' # "save"
  BY <1>1, <1>2, <1>3 DEF MarkersInv, ChunksInPlace
<1>4. CASE pc' = "save"
  <2> DEFINE table == source.stco[signature]
  <2>1. /\ MoovFound /\ table # <<>> /\ offset' = source.start
        /\ moov' = <<Index(signature)>>
        /\ tables' = toArrayListMarkers(table).lists
    BY <1>1, <1>4 DEF FindTable, Throws
  <2>2. Index(signature) \in IndexRecord
    BY <1>1, <2>1, SignatureIs
  <2>3. moov'[1].table = table /\ table \in Seq(Nat)
    BY <2>1, <2>2 DEF Index, IndexRecord
  <2> HIDE DEF table
  <2>4. ASSUME Ascending(table)
        PROVE  (\E K \in Nat : DOMAIN tables' = 0 .. K) /\ Listed(table, tables')
    BY <2>1, <2>3, <2>4, ListsHold
  <2>5. \A k \in DOMAIN table : table[k] \div MarkerCluster \in Nat
    <3>1. \A k \in DOMAIN table : table[k] \in Nat
      BY <2>3
    <3> QED
      BY <3>1, Division, GoProTypes
  <2>6. target' \in Seq(Int) /\ Len(target') = cluster' * MarkerCluster /\ cluster' = 0 /\ offset' \in Nat
    <3>1. MarkerCluster \in Nat
      BY GoProTypes
    <3>2. 0 * MarkerCluster = 0 /\ <<>> \in Seq(Int) /\ Len(<<>>) = 0
      BY <3>1
    <3> QED
      BY <1>1, <1>2, <2>1, <3>2
  <2>7. \E m \in IndexRecord : moov' = <<m>>
    BY <2>1, <2>2
  <2>8. \A k \in DOMAIN table : ~(table[k] \div MarkerCluster < cluster')
    BY <2>5, <2>6
  <2>9. ClustersTaken'
    <3>1. Ascending(moov[1].table)' <=> Ascending(table)
      BY <2>3 DEF Ascending
    <3>2. Listed(moov[1].table, tables)' <=> Listed(table, tables')
      BY <2>3 DEF Listed, Has
    <3> QED
      BY <2>3, <2>4, <2>6, <2>7, <2>8, <3>1, <3>2 DEF ClustersTaken
  <2> QED
    BY <1>4, <2>9 DEF MarkersInv, ChunksInPlace
<1> QED
  BY <1>3, <1>4

\* What WriteAt leaves in a target.
LEMMA WrittenAt ==
  ASSUME NEW t \in Seq(Int), NEW p \in Nat, NEW n \in Nat, NEW a \in Int
  PROVE  LET w == WriteAt(t, p, Cells(a, n))
         IN /\ w \in Seq(Int)
            /\ Len(w) = IF p + n > Len(t) THEN p + n ELSE Len(t)
            /\ \A i \in 1 .. Len(t) : w[i] = t[i] \/ w[i] \in a .. a + n - 1
            /\ \A i \in 1 .. p : i <= Len(t) => w[i] = t[i]
            /\ \A j \in 1 .. n : w[p + j] = a + j - 1
<1> DEFINE c == Cells(a, n)
           w == WriteAt(t, p, c)
           L == Len(t)
           m == IF p + n > L THEN p + n ELSE L
<1>1. c \in Seq(Int) /\ Len(c) = n /\ \A j \in 1 .. n : c[j] = a + j - 1
  BY DEF Cells
<1>2. L \in Nat /\ m \in Nat /\ \A i \in 1 .. L : t[i] \in Int
  OBVIOUS
<1> HIDE DEF c, L
<1>3. w = [i \in 1 .. m |-> IF p < i /\ i <= p + n THEN c[i - p]
                            ELSE IF i <= L THEN t[i] ELSE Blank]
  BY <1>1 DEF WriteAt, L
<1>4. \A i \in 1 .. m : i - p \in 1 .. n \/ ~(p < i /\ i <= p + n)
  BY <1>2
<1>5. \A i \in 1 .. m : w[i] = IF p < i /\ i <= p + n THEN c[i - p]
                               ELSE IF i <= L THEN t[i] ELSE Blank
  BY <1>3
<1>6. \A i \in 1 .. m : w[i] \in Int
  <2>1. ASSUME NEW i \in 1 .. m PROVE w[i] \in Int
    <3>1. CASE i - p \in 1 .. n
      <4>1. c[i - p] \in Int /\ p < i /\ i <= p + n
        BY <1>1, <1>2, <3>1
      <4> QED
        BY <1>5, <4>1
    <3>2. CASE ~(p < i /\ i <= p + n)
      BY <1>2, <1>5, <3>2 DEF Blank
    <3> QED
      BY <1>4, <3>1, <3>2
  <2> QED
    BY <2>1
<1>7. w \in Seq(Int) /\ Len(w) = m
  <2> HIDE DEF w, m
  <2>1. w = [i \in 1 .. m |-> w[i]]
    BY <1>3
  <2> QED
    BY <1>2, <1>6, <2>1
<1>8. ASSUME NEW i \in 1 .. L PROVE w[i] = t[i] \/ w[i] \in a .. a + n - 1
  <2>1. i \in 1 .. m
    BY <1>2
  <2>2. CASE i - p \in 1 .. n
    <3>1. w[i] = c[i - p]
      BY <1>2, <1>5, <2>1, <2>2
    <3>2. c[i - p] = a + (i - p) - 1
      BY <1>1, <2>2
    <3> QED
      BY <1>2, <2>2, <3>1, <3>2
  <2>3. CASE ~(p < i /\ i <= p + n)
    BY <1>2, <1>5, <2>1, <2>3
  <2> QED
    BY <1>4, <2>1, <2>2, <2>3
<1>9. \A i \in 1 .. p : i <= L => w[i] = t[i]
  BY <1>2, <1>5
<1>10. ASSUME NEW j \in 1 .. n PROVE w[p + j] = a + j - 1
  <2> HIDE DEF w, m
  <2>1. m = IF p + n > L THEN p + n ELSE L
    BY DEF m
  <2>2. PICK i \in 1 .. m : i = p + j
    <3>1. p + j \in 1 .. m
      BY <1>2, <2>1
    <3> QED
      BY <3>1
  <2>3. p < i /\ i <= p + n /\ i - p = j
    BY <2>2
  <2>4. w[i] = c[i - p]
    BY <1>5, <2>3
  <2> QED
    BY <1>1, <2>2, <2>3, <2>4
<1> HIDE DEF w
<1> QED
  BY <1>7, <1>8, <1>9, <1>10 DEF w, L, c, m

LEMMA TakeClusterStep ==
  ASSUME QtInv, MarkersInv, TakeCluster
  PROVE  MarkersInv'
<1> DEFINE MC == MarkerCluster
           table == moov[1].table
<1>1. /\ ClustersTaken /\ pc = "save" /\ algorithm = "go_pro_new" /\ cluster \in DOMAIN tables
      /\ UNCHANGED <<source, algorithm, moov, tables>> /\ pc' \in {"save", "read"}
  BY DEF TakeCluster, MarkersInv, Throws
<1>2. /\ \E m \in IndexRecord : moov = <<m>>
      /\ offset \in Nat /\ cluster \in Nat
      /\ target \in Seq(Int) /\ Len(target) = cluster * MC
      /\ Ascending(table) =>
           /\ \E K \in Nat : DOMAIN tables = 0 .. K
           /\ Listed(table, tables)
           /\ \A k \in DOMAIN table : table[k] \div MC < cluster => target[table[k] + 1] \in source.gp
  BY <1>1 DEF ClustersTaken
<1>3. CASE pc' = "read"
  BY <1>3 DEF MarkersInv, ChunksInPlace
<1>4. MC \in Nat \ {0} /\ cluster * MC \in Nat
  <2>1. MC \in Nat \ {0}
    BY GoProTypes
  <2> QED
    BY <1>2, <2>1
<1> HIDE DEF MC
<1>5. offset + MC \in Nat
  <2>1. offset \in Nat
    BY <1>2
  <2> QED
    BY ONLY <1>4, <2>1
<1>6. (Ascending(moov[1].table)' <=> Ascending(table)) /\ (Listed(moov[1].table, tables)' <=> Listed(table, tables))
  BY <1>1 DEF Ascending, Listed, Has
<1>7. CASE pc' = "save" /\ UNCHANGED <<target, cluster>>
  <2>1. offset' = offset + MC \/ offset' = offset
    BY <1>7 DEF TakeCluster, Throws, MC
  <2>2. offset' \in Nat
    BY <1>2, <1>5, <2>1
  <2>3. ClustersTaken'
    BY <1>1, <1>2, <1>6, <1>7, <2>2 DEF ClustersTaken, MC
  <2> QED
    BY <1>1, <1>7, <2>3 DEF MarkersInv, ChunksInPlace
<1>8. CASE pc' = "save" /\ ~UNCHANGED <<target, cluster>>
  <2>1. /\ target' = WriteAt(target, cluster * MC, Cells(offset, MC))
        /\ offset' = offset + MC /\ cluster' = cluster + 1
        /\ tables[cluster] # <<>> =>
             \A j \in DOMAIN tables[cluster] : MarkerAt(tables[cluster][j], offset, cluster)
    BY <1>8 DEF TakeCluster, Throws, Compare, MC
  <2>2. (cluster + 1) * MC = cluster * MC + MC /\ cluster + 1 \in Nat
    <3>1. cluster \in Nat
      BY <1>2
    <3> QED
      BY ONLY <1>4, <3>1
  <2>3. /\ target' \in Seq(Int) /\ Len(target') = cluster' * MC
        /\ \A i \in 1 .. cluster * MC : target'[i] = target[i]
        /\ \A j \in 1 .. MC : target'[cluster * MC + j] = offset + j - 1
    <3>1. target \in Seq(Int) /\ cluster * MC \in Nat /\ MC \in Nat /\ offset \in Int
      BY <1>2, <1>4
    <3>2. LET w == WriteAt(target, cluster * MC, Cells(offset, MC))
          IN /\ w \in Seq(Int)
             /\ Len(w) = IF cluster * MC + MC > Len(target) THEN cluster * MC + MC ELSE Len(target)
             /\ \A i \in 1 .. cluster * MC : i <= Len(target) => w[i] = target[i]
             /\ \A j \in 1 .. MC : w[cluster * MC + j] = offset + j - 1
      BY ONLY <3>1, WrittenAt
    <3>3. Len(target) = cluster * MC
      BY <1>2
    <3>4. /\ target' \in Seq(Int)
          /\ Len(target') = IF cluster * MC + MC > Len(target) THEN cluster * MC + MC ELSE Len(target)
          /\ \A i \in 1 .. cluster * MC : i <= Len(target) => target'[i] = target[i]
          /\ \A j \in 1 .. MC : target'[cluster * MC + j] = offset + j - 1
      BY <2>1, <3>2
    <3>5. cluster * MC + MC > Len(target) /\ \A i \in 1 .. cluster * MC : i <= Len(target)
      BY ONLY <1>4, <3>3
    <3> QED
      BY <2>1, <2>2, <3>4, <3>5
  <2>4. ASSUME Ascending(table), NEW k \in DOMAIN table, table[k] \div MC < cluster + 1
        PROVE  target'[table[k] + 1] \in source.gp
    <3> DEFINE v == table[k]
               c == v \div MC
               r == v % MC
    <3>1. v \in Nat
      BY <1>2 DEF IndexRecord
    <3> HIDE DEF v
    <3>2. c \in Nat /\ r \in 0 .. MC - 1 /\ v = c * MC + r
      <4>1. c \in Nat /\ r \in 0 .. MC - 1 /\ v = MC * c + r
        BY <1>4, <3>1, Division
      <4>2. MC * c = c * MC
        <5> HIDE DEF c
        <5> QED
          BY <1>4, <4>1
      <4> QED
        BY <4>1, <4>2
    <3>3. c < cluster + 1
      BY <2>4 DEF v
    <3>4. c \in DOMAIN tables /\ Has(tables[c], v)
      BY <1>2, <2>4 DEF Listed, v, MC
    <3>5. c < cluster => target[v + 1] \in source.gp
      BY <1>2, <2>4 DEF v
    <3> HIDE DEF c, r
    <3>6. CASE c < cluster
      <4>1. c * MC + MC <= cluster * MC
        <5>1. cluster \in Int /\ c \in Int
          BY <1>2, <3>2
        <5> QED
          BY ONLY <1>4, <3>6, <5>1, OneLess
      <4>2. v + 1 \in 1 .. cluster * MC
        BY ONLY <1>4, <3>2, <4>1, <3>1
      <4> QED
        BY <2>3, <3>5, <3>6, <4>2 DEF v
    <3>7. CASE c = cluster
      <4>1. PICK j \in DOMAIN tables[cluster] : tables[cluster][j] = v
        BY <3>4, <3>7 DEF Has
      <4>2. MarkerAt(v, offset, cluster)
        BY <2>1, <4>1
      <4>3. offset + v - cluster * MC \in source.gp
        BY <4>2 DEF MarkerAt, MC
      <4>4. r + 1 \in 1 .. MC /\ cluster * MC + (r + 1) = v + 1 /\ offset + (r + 1) - 1 = offset + v - cluster * MC
        <5>1. offset \in Nat
          BY <1>2
        <5> QED
          BY ONLY <1>4, <3>1, <3>2, <3>7, <5>1
      <4>5. target'[cluster * MC + (r + 1)] = offset + (r + 1) - 1
        BY <2>3, <4>4
      <4>6. target'[v + 1] = offset + v - cluster * MC
        BY <4>4, <4>5
      <4> QED
        BY <4>3, <4>6 DEF v
    <3>8. c < cluster \/ c = cluster
      <4>1. cluster \in Nat
        BY <1>2
      <4> QED
        BY ONLY <3>2, <3>3, <4>1
    <3> QED
      BY <3>6, <3>7, <3>8
  <2>5. ClustersTaken'
    BY <1>1, <1>2, <1>5, <1>6, <2>1, <2>2, <2>3, <2>4 DEF ClustersTaken, MC
  <2> QED
    BY <1>1, <1>8, <2>5 DEF MarkersInv, ChunksInPlace
<1> QED
  BY <1>1, <1>3, <1>7, <1>8

LEMMA FinishStep ==
  ASSUME QtInv, MarkersInv, FinishByMarkers
  PROVE  MarkersInv'
<1> DEFINE MC == MarkerCluster
           table == moov[1].table
           more == target \o Cells(offset, MC)
           held == Held(moov[1].size)
<1>1. /\ ClustersTaken /\ pc = "save" /\ algorithm = "go_pro_new" /\ cluster \notin DOMAIN tables
      /\ UNCHANGED <<source, algorithm, moov>> /\ pc' \in {"returned", "read"}
  BY DEF FinishByMarkers, MarkersInv, Throws, Return, gpVars
<1>2. CASE pc' = "read" \/ ~Ascending(table)
  <2>1. Ascending(moov[1].table)' <=> Ascending(table)
    BY <1>1 DEF Ascending
  <2> QED
    BY <1>1, <1>2, <2>1 DEF MarkersInv, ChunksInPlace
<1>3. CASE pc' = "returned" /\ Ascending(table)
  <2>1. PICK m \in IndexRecord : moov = <<m>>
    BY <1>1 DEF ClustersTaken
  <2>2. /\ offset \in Nat /\ cluster \in Nat
        /\ target \in Seq(Int) /\ Len(target) = cluster * MC
        /\ \E K \in Nat : DOMAIN tables = 0 .. K
        /\ Listed(table, tables)
        /\ \A k \in DOMAIN table : table[k] \div MC < cluster => target[table[k] + 1] \in source.gp
    BY <1>1, <1>3 DEF ClustersTaken
  <2>3. moov[1].offset \in Nat /\ held \in Nat /\ table \in Seq(Nat)
    <3>1. moov[1].offset \in Nat /\ moov[1].size \in Nat /\ table \in Seq(Nat)
      BY <2>1 DEF IndexRecord
    <3>2. PICK s \in Nat, d \in Nat \ {0} : s = moov[1].size /\ d = DWord
      BY <3>1, GoProTypes
    <3>3. s % d \in Nat
      OBVIOUS
    <3> QED
      BY <3>1, <3>2, <3>3 DEF Held
  <2> HIDE DEF held
  <2>4. MC \in Nat \ {0} /\ cluster * MC \in Nat
    <3>1. MC \in Nat \ {0} /\ cluster \in Nat
      BY <2>2, GoProTypes
    <3> QED
      BY <3>1
  <2> HIDE DEF MC
  <2>5. /\ more \in Seq(Int) /\ Len(more) = cluster * MC + MC
        /\ \A i \in 1 .. cluster * MC : more[i] = target[i]
    <3> DEFINE c == Cells(offset, MC)
    <3>1. c \in Seq(Int) /\ Len(c) = MC
      BY <2>2, <2>4 DEF Cells
    <3> HIDE DEF c
    <3>2. /\ target \o c \in Seq(Int) /\ Len(target \o c) = Len(target) + MC
          /\ \A i \in 1 .. Len(target) : (target \o c)[i] = target[i]
      BY <2>2, <3>1, Joined
    <3> QED
      BY <2>2, <3>2 DEF c
  <2> DEFINE Kept == \A i \in 1 .. cluster * MC :
        target'[i] = target[i] \/ (moov[1].offset <= target'[i] /\ target'[i] < moov[1].offset + held)
  <2>6. ASSUME target' = more PROVE Kept
    <3>1. \A i \in 1 .. cluster * MC : target'[i] = target[i]
      BY <2>5, <2>6
    <3> QED
      BY <3>1
  <2>7. ASSUME target' = WriteAt(more, Total(three), Cells(moov[1].offset, held)),
               Readable(moov[1].offset, held, source.bad)
        PROVE  Kept
    <3>1. Total(three) \in Nat
      <4>1. three \in AtomList
        <5>1. source \in Images
          BY DEF QtInv, PlaceInv
        <5>2. source.start \in Nat
          BY <5>1, AtomIs
        <5>3. Atom(source.start) \in AtomRecord /\ Behind(Atom(source.start)) \in Nat
          BY <5>1, <5>2, AtomIs
        <5> DEFINE b == Behind(Atom(source.start))
        <5>4. Atom(b) \in AtomRecord /\ Behind(Atom(b)) \in Nat
          BY <5>1, <5>3, AtomIs
        <5>5. Atom(Behind(Atom(b))) \in AtomRecord
          BY <5>1, <5>4, AtomIs
        <5> QED
          BY <5>3, <5>4, <5>5 DEF three, AtomList
      <4>2. Total(three) = Length(three) % Wide /\ Length(three) \in Nat
        BY <4>1, PrefixSums
      <4> QED
        BY <4>2, DeviceAssumption
    <3>4. \A i \in 1 .. Len(more) :
            target'[i] = more[i] \/ target'[i] \in moov[1].offset .. moov[1].offset + held - 1
      <4>1. more \in Seq(Int) /\ moov[1].offset \in Int
        BY <2>3, <2>5
      <4> HIDE DEF more
      <4> QED
        BY <2>3, <2>7, <3>1, <4>1, WrittenAt
    <3>5. Kept
      <4>1. ASSUME NEW i \in 1 .. cluster * MC
            PROVE  target'[i] = target[i] \/ (moov[1].offset <= target'[i] /\ target'[i] < moov[1].offset + held)
        <5>1. i \in 1 .. Len(more)
          BY ONLY <2>4, <2>5
        <5>2. CASE target'[i] = more[i]
          BY <2>5, <5>2
        <5>3. CASE target'[i] \in moov[1].offset .. moov[1].offset + held - 1
          <6>1. \A x \in moov[1].offset .. moov[1].offset + held - 1 :
                  moov[1].offset <= x /\ x < moov[1].offset + held
            BY <2>3
          <6> QED
            BY <5>3, <6>1
        <5> QED
          BY <3>4, <5>1, <5>2, <5>3
      <4> QED
        BY <4>1
    <3> QED
      BY <3>5
  <2>8. Kept
    <3>1. \/ target' = more
          \/ /\ target' = WriteAt(more, Total(three), Cells(moov[1].offset, held))
             /\ Readable(moov[1].offset, held, source.bad)
      BY <1>3 DEF FinishByMarkers, Throws, Return, MC, held
    <3> HIDE DEF Kept, more
    <3> QED
      BY <2>6, <2>7, <3>1
  <2>9. ASSUME NEW k \in DOMAIN table
        PROVE  \/ target'[table[k] + 1] \in source.gp
               \/ moov[1].offset <= target'[table[k] + 1] /\ target'[table[k] + 1] < moov[1].offset + held
    <3> DEFINE v == table[k]
               c == v \div MC
               r == v % MC
    <3>1. v \in Nat
      BY <2>3
    <3> HIDE DEF v
    <3>2. c \in Nat /\ r \in 0 .. MC - 1 /\ v = c * MC + r
      <4>1. c \in Nat /\ r \in 0 .. MC - 1 /\ v = MC * c + r
        BY <2>4, <3>1, Division
      <4>2. MC * c = c * MC
        <5> HIDE DEF c
        <5> QED
          BY <2>4, <4>1
      <4> QED
        BY <4>1, <4>2
    <3>3. c < cluster
      <4>1. c \in DOMAIN tables
        BY <2>2 DEF Listed, v, MC
      <4>2. PICK K \in Nat : DOMAIN tables = 0 .. K
        BY <2>2
      <4>3. c \in 0 .. K /\ cluster \notin 0 .. K /\ cluster \in Nat
        BY <1>1, <2>2, <4>1, <4>2
      <4> HIDE DEF c
      <4> QED
        BY ONLY <4>3, <3>2
    <3>4. target[v + 1] \in source.gp
      BY <2>2, <3>3 DEF v
    <3> HIDE DEF c, r
    <3>5. c * MC + MC <= cluster * MC
      <4>1. cluster \in Int /\ c \in Int
        BY <2>2, <3>2
      <4> QED
        BY ONLY <2>4, <3>3, <4>1, OneLess
    <3>6. v + 1 \in 1 .. cluster * MC
      BY ONLY <2>4, <3>1, <3>2, <3>5
    <3> QED
      BY <2>8, <3>4, <3>6 DEF v
  <2>10. ChunksInPlace'
    <3>1. moov' = moov /\ source' = source /\ (Held(moov[1].size))' = held
      BY <1>1 DEF held, Held
    <3> QED
      BY <2>9, <3>1 DEF ChunksInPlace
  <2> QED
    BY <1>3, <2>10 DEF MarkersInv
<1> QED
  BY <1>1, <1>2, <1>3

LEMMA MarkersInvNext == QtInv /\ IndexInv /\ MarkersInv /\ [Next]_vars => MarkersInv'
<1> SUFFICES ASSUME QtInv, IndexInv, MarkersInv, [Next]_vars PROVE MarkersInv'
  OBVIOUS
<1>1. ASSUME algorithm' # "go_pro_new" PROVE MarkersInv'
  BY <1>1 DEF MarkersInv, ChunksInPlace
<1>2. CASE QtNext /\ UNCHANGED gpVars
  <2>1. UNCHANGED algorithm
    BY <1>2 DEF QtNext, ReadKeyword, Endless, SpecifyThrows, Specified, SaveRawFile, ReadMedia,
       FindFtyp, JoinFragments, ReadIndex, FindSecondPart
  <2>2. algorithm # "go_pro_new"
    <3>1. CASE ReadKeyword \/ Endless \/ SpecifyThrows \/ Specified \/ SaveRawFile
      BY <3>1 DEF ReadKeyword, Endless, SpecifyThrows, Specified, SaveRawFile
    <3>2. CASE ReadMedia \/ ReadIndex
      BY <3>2 DEF ReadMedia, ReadIndex
    <3>3. CASE FindFtyp \/ JoinFragments \/ FindSecondPart
      BY <3>3 DEF FindFtyp, JoinFragments, FindSecondPart, QtInv, PlaceInv
    <3> QED
      BY <1>2, <3>1, <3>2, <3>3 DEF QtNext
  <2> QED
    BY <1>1, <2>1, <2>2
<1>3. CASE ReadMp4 \/ FindLrv \/ FindMoov \/ MakeTemp \/ Classify \/ SpreadGroups \/ WriteCluster \/ WriteMoov
  <2>1. algorithm' = "go_pro"
    BY <1>3 DEF ReadMp4, FindLrv, FindMoov, MakeTemp, Classify, SpreadGroups, WriteCluster,
       WriteMoov, QtInv, PlaceInv
  <2> QED
    BY <1>1, <2>1
<1>4. CASE ReadHeader
  <2>1. /\ algorithm = "go_pro_new" /\ pc = "specify" /\ UNCHANGED <<algorithm, cluster, target>>
        /\ pc' \in {"find table", "read"} \/ (pc' = "returned" /\ result' = 0)
    BY <1>4 DEF ReadHeader, Throws, Return, gpVars
  <2> QED
    BY <2>1 DEF MarkersInv, ChunksInPlace
<1>5. CASE FindTable
  BY <1>5, FindTableStep
<1>6. CASE TakeCluster
  BY <1>6, TakeClusterStep
<1>7. CASE FinishByMarkers
  BY <1>7, FinishStep
<1>8. CASE UNCHANGED vars
  BY <1>8 DEF vars, qtVars, gpVars, MarkersInv, ClustersTaken, ChunksInPlace, Ascending, Listed,
     Has
<1>9. CASE CopyTable
  <2>1. pc' \in {"read", "undefined"}
    BY <1>9 DEF CopyTable, Throws
  <2> QED
    BY <2>1 DEF MarkersInv, ChunksInPlace
<1> QED
  BY <1>2, <1>3, <1>4, <1>5, <1>6, <1>7, <1>8, <1>9 DEF Next

\* What the GoPro recovery leaves out are groups of clusters around those that
\* seem to be of the low-resolution file, and what it takes by an index is where
\* the index says: for every device (GP_Analyzer, gopro.h:616; GoProRawNew,
\* gopronew.h:31).
THEOREM VideoOnly == Spec => []OnlyTheVideo
<1>1. Spec => []IndexInv
  BY IndexInvInit, IndexInvNext, QtInvAlways, PTL DEF Spec
<1>2. Spec => []LrvInv
  BY <1>1, LrvInvInit, LrvInvNext, QtInvAlways, PTL DEF Spec
<1>3. Spec => []MarkersInv
  BY <1>1, MarkersInvInit, MarkersInvNext, QtInvAlways, PTL DEF Spec
<1>4. LrvInv /\ MarkersInv => OnlyTheVideo
  BY LrvLeftOutHolds DEF MarkersInv, OnlyTheVideo
<1> QED
  BY <1>2, <1>3, <1>4, PTL
=============================================================================
