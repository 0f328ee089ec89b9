--------------------------- MODULE FileSystemProofs ---------------------------
(***************************************************************************)
(* Proofs about libfs and the window over it: FatChain, FatFolder, Views.  *)
(* What ReadListClusters packs, what ReadUsingFatTable reads of it and     *)
(* what read_folder collects is the chain of the table, for every table,   *)
(* geometry and set of unreadable sectors; which partition is mounted, and *)
(* what read_folder makes of the entries of a folder, for every disk; and  *)
(* that the window's two models show what the nodes hold, a tick stands    *)
(* for what was read below it, and a recovery writes every file once, for  *)
(* every volume and every order of clicks, ticks and recoveries.           *)
(*                                                                         *)
(* The invariant of FatChain has one part for each loop: at its n-th turn  *)
(* the loop is at the n-th cluster of the chain, and what it has collected *)
(* are the ones before.  What a chain is and what runs spell is defined by *)
(* recursive functions; the first lemmas say what these compute, by the    *)
(* least number at which they would not.                                   *)
(*                                                                         *)
(* The property of FatFolder speaks of a folder that is listed.  Its       *)
(* invariant says the same of the entries read so far; in an undamaged     *)
(* folder it also says that the loop never stands inside a long name, as   *)
(* then it would take the rest of the name for a whole one.                *)
(*                                                                         *)
(* The invariant of Views says what the calls of RecoverFolder have still  *)
(* to do: the children left to each and a folder that is not read yet.     *)
(* Its parts are operators of the variables they speak of, so that a step  *)
(* is proved from what it makes of those, and NextState puts the parts     *)
(* together.                                                               *)
(***************************************************************************)
EXTENDS FatChain, FatFolder, Views, TLAPS, WellFoundedInduction, FiniteSetTheorems

-----------------------------------------------------------------------------
(* The invariant                                                           *)

\* A DWORD; the runs of a file handle; the clusters of a run; what the first k
\* runs spell.
Number == 0 .. DWord - 1
Runs == Seq([number : Nat, count : Nat \ {0}])
Clusters(r) == [j \in 1 .. r.count |-> r.number + j - 1]
Upto(rs, k) == Spelled(SubSeq(rs, 1, k))

\* Clusters that are the chain of the file or folder at work, from its first one.
IsChain(s) == \A i \in 1 .. Len(s) : s[i] = Chain(first)[i - 1]

\* Types, those of the table and of what is collected included.
TypeInv ==
  /\ TypeOK
  /\ table \in Tables
  /\ first \in Number
  /\ mem \in Seq(Int) /\ folder \in Seq(Int)

\* ReadListClusters at its n-th turn has packed n clusters of the chain, none of
\* them the end mark and all in the table, and is at the next one.
WalkInv ==
  pc = "walk" =>
    /\ iRun = 1 /\ mem = <<>>
    /\ Len(walked) <= MaxWalk
    /\ IsChain(walked)
    /\ cluster = Chain(first)[Len(walked)]
    /\ \A i \in 0 .. Len(walked) - 1 :
         InTable(Chain(first)[i]) /\ Chain(first)[i] # end_cluster_fat32
    /\ run.count = 0 => run.number = cluster

\* What the runs of a walk that has ended spell.
Ended(s) ==
  LET L == Len(s)
  IN /\ L <= MaxWalk
     /\ IsChain(s)
     /\ \A i \in 0 .. L - 2 : InTable(Chain(first)[i])
     /\ Chain(first)[L] \in {end_cluster_fat32, bad_cluster_fat32}
     /\ \A i \in 0 .. L - 1 : Chain(first)[i] # end_cluster_fat32

\* The buffer holds the first m clusters of the chain.
Holds(m) ==
  /\ Len(mem) = m * SectorsPerCluster
  /\ \A i \in 1 .. m, j \in 1 .. SectorsPerCluster :
       mem[(i - 1) * SectorsPerCluster + j] =
         PartStart + clusterSector(Chain(first)[i - 1]) + j - 1

\* ReadUsingFatTable has read the runs in front of iRun: of a recoverable file of
\* n clusters the buffer holds what they spell, as far as the n-th cluster.
ReadInv ==
  pc = "read" =>
    /\ Ended(Spelled(runs))
    /\ iRun \in 1 .. Len(runs) + 1
    /\ Len(mem) <= Len(Upto(runs, iRun - 1)) * SectorsPerCluster
    /\ \A n \in 1 .. Cells : Recoverable(n) =>
         \/ Len(Upto(runs, iRun - 1)) <= n /\ Holds(Len(Upto(runs, iRun - 1)))
         \/ Len(Upto(runs, iRun - 1)) > n /\ Holds(n)

\* read_folder has collected the chain up to the cluster it is at, and knows of
\* each why it did not end there.
FolderInv ==
  pc \in {"folder", "copy"} =>
    /\ Len(folder) \in 1 .. MaxWalk
    /\ IsChain(folder)
    /\ cluster = Chain(first)[Len(folder)]
    /\ \A i \in 0 .. Len(folder) - 1 : Chain(first)[i] <= max_cluster
    /\ \A i \in 2 .. Len(folder) - 1 : Chain(first)[i] # 0
    /\ pc = "folder" /\ Len(folder) >= 2 => cluster # 0
    /\ pc = "copy" => \/ cluster > max_cluster
                      \/ cluster = 0 /\ Len(folder) >= 2

\* The inductive invariant; the last four parts are the properties themselves.
Inv == /\ TypeInv /\ WalkInv /\ ReadInv /\ FolderInv
       /\ BufferFits /\ RecoveredIsChain /\ EndlessOnlyInCircle /\ FolderIsChain

-----------------------------------------------------------------------------
(* Least elements                                                          *)

\* Least elements exist: the induction of the lemmas below.
LessThan == {ss \in Nat \X Nat : ss[1] < ss[2]}
LEMMA LeastElement ==
  ASSUME NEW S \in SUBSET Nat, S # {}
  PROVE  \E m \in S : \A n \in S : m <= n
<1>1. OpToRel(<, Nat) = LessThan
  BY Zenon DEF OpToRel, LessThan
<1>2. IsWellFoundedOn(LessThan, Nat)
  BY <1>1, NatLessThanWellFounded, Zenon
<1>3. \E m \in S : \A n \in S : <<n, m>> \notin LessThan
  BY <1>2, WFMin
<1>4. PICK m \in S : \A n \in S : <<n, m>> \notin LessThan
  BY <1>3
<1>5. ASSUME NEW n \in S PROVE m <= n
  <2>1. <<n, m>> \in Nat \X Nat /\ ~(n < m)
    BY <1>4 DEF LessThan
  <2> QED
    BY <2>1
<1> QED
  BY <1>5

-----------------------------------------------------------------------------
(* What FlattenSeq computes                                                *)

Numbers == Seq(Int)

\* What two sequences of numbers are, one behind the other.
LEMMA Joined ==
  ASSUME NEW s \in Seq(Int), NEW t \in Seq(Int)
  PROVE  /\ s \o t \in Seq(Int) /\ Len(s \o t) = Len(s) + Len(t)
         /\ \A i \in 1 .. Len(s) : (s \o t)[i] = s[i]
         /\ \A i \in 1 .. Len(t) : (s \o t)[Len(s) + i] = t[i]
OBVIOUS

\* What FlattenSeq computes for the first m sequences.
Flat(f, ss, m) == f = [i \in 1 .. m |-> IF i = 1 THEN ss[i] ELSE f[i - 1] \o ss[i]]

\* The recursion has a solution for any number of sequences.
LEMMA FlatExists ==
  ASSUME NEW ss, NEW m \in Nat
  PROVE  \E f : Flat(f, ss, m)
<1> DEFINE S == {k \in Nat : ~\E f : Flat(f, ss, k)}
<1>1. S = {}
  <2> SUFFICES ASSUME S # {} PROVE FALSE
    OBVIOUS
  <2>1. S \in SUBSET Nat
    OBVIOUS
  <2>2. PICK k \in S : \A j \in S : k <= j
    BY <2>1, LeastElement
  <2>3. k \in Nat /\ ~\E f : Flat(f, ss, k)
    BY <2>2
  <2>4. CASE k = 0
    <3> DEFINE f == [n \in 1 .. k |-> {}]
    <3>1. Flat(f, ss, k)
      BY <2>4 DEF Flat
    <3> QED
      BY <2>3, <3>1
  <2>5. CASE k # 0
    <3>1. k - 1 \in Nat /\ k - 1 \notin S
      BY <2>2, <2>3, <2>5
    <3>2. PICK g : Flat(g, ss, k - 1)
      BY <3>1
    <3> DEFINE h == IF k = 1 THEN ss[k] ELSE g[k - 1] \o ss[k]
               f == [n \in 1 .. k |-> IF n = k THEN h ELSE g[n]]
    <3>3. \A n \in 1 .. k - 1 : g[n] = IF n = 1 THEN ss[n] ELSE g[n - 1] \o ss[n]
      BY <3>2 DEF Flat
    <3>4. Flat(f, ss, k)
      <4>1. ASSUME NEW n \in 1 .. k
            PROVE  f[n] = IF n = 1 THEN ss[n] ELSE f[n - 1] \o ss[n]
        <5>1. CASE n = k
          <6>1. n # 1 => f[n - 1] = g[k - 1]
            BY <2>3, <2>5, <5>1
          <6> QED
            BY <5>1, <6>1
        <5>2. CASE n # k
          <6>1. n \in 1 .. k - 1 /\ (n # 1 => n - 1 \in 1 .. k /\ n - 1 # k)
            BY <2>3, <5>2
          <6>2. f[n] = g[n] /\ (n # 1 => f[n - 1] = g[n - 1])
            BY <5>2, <6>1
          <6> QED
            BY <3>3, <6>1, <6>2
        <5> QED
          BY <5>1, <5>2
      <4> QED
        BY <4>1 DEF Flat
    <3> QED
      BY <2>3, <3>4
  <2> QED
    BY <2>4, <2>5
<1> QED
  BY <1>1

\* Its values are sequences of numbers.
LEMMA FlatTyped ==
  ASSUME NEW ss \in Seq(Numbers), NEW m \in Nat, m <= Len(ss), NEW f, Flat(f, ss, m)
  PROVE  \A k \in 1 .. m : f[k] \in Numbers
<1> DEFINE S == {k \in 1 .. m : f[k] \notin Numbers}
<1>0. \A k \in 1 .. m : f[k] = IF k = 1 THEN ss[k] ELSE f[k - 1] \o ss[k]
  BY DEF Flat
<1>1. S = {}
  <2> SUFFICES ASSUME S # {} PROVE FALSE
    OBVIOUS
  <2>1. S \in SUBSET Nat
    OBVIOUS
  <2>2. PICK k \in S : \A j \in S : k <= j
    BY <2>1, LeastElement
  <2>3. k \in 1 .. m /\ f[k] \notin Numbers /\ ss[k] \in Numbers
    BY <2>2
  <2>4. CASE k = 1
    BY <1>0, <2>3, <2>4
  <2>5. CASE k # 1
    <3>1. k - 1 \in 1 .. m /\ k - 1 \notin S
      BY <2>2, <2>3, <2>5
    <3>2. f[k - 1] \in Numbers
      BY <3>1
    <3>3. f[k] = f[k - 1] \o ss[k]
      BY <1>0, <2>3, <2>5
    <3> QED
      BY <2>3, <3>2, <3>3 DEF Numbers
  <2> QED
    BY <2>4, <2>5
<1> QED
  BY <1>1

\* Functions for sequences of which one is the beginning of the other agree.
Extends(g, tt, n, f, ss, m) ==
  m <= n /\ Flat(f, ss, m) /\ Flat(g, tt, n) /\ \A k \in 1 .. m : ss[k] = tt[k]

LEMMA FlatAgree ==
  ASSUME NEW f, NEW g, NEW ss, NEW tt, NEW m \in Nat, NEW n \in Nat, Extends(g, tt, n, f, ss, m)
  PROVE  \A k \in 1 .. m : f[k] = g[k]
<1> DEFINE S == {k \in 1 .. m : f[k] # g[k]}
<1>a. \A k \in 1 .. m : f[k] = IF k = 1 THEN ss[k] ELSE f[k - 1] \o ss[k]
  BY DEF Flat, Extends
<1>b. \A k \in 1 .. n : g[k] = IF k = 1 THEN tt[k] ELSE g[k - 1] \o tt[k]
  BY DEF Flat, Extends
<1>0. /\ \A k \in 1 .. m : f[k] = IF k = 1 THEN ss[k] ELSE f[k - 1] \o ss[k]
      /\ \A k \in 1 .. m : g[k] = IF k = 1 THEN tt[k] ELSE g[k - 1] \o tt[k]
  BY <1>a, <1>b DEF Extends
<1>1. S = {}
  <2> SUFFICES ASSUME S # {} PROVE FALSE
    OBVIOUS
  <2>1. S \in SUBSET Nat
    OBVIOUS
  <2>2. PICK k \in S : \A j \in S : k <= j
    BY <2>1, LeastElement
  <2>3. k \in 1 .. m /\ f[k] # g[k] /\ ss[k] = tt[k]
    BY <2>2 DEF Extends
  <2>4. CASE k = 1
    BY <1>0, <2>3, <2>4
  <2>5. CASE k # 1
    <3>1. k - 1 \in 1 .. m /\ k - 1 \notin S
      BY <2>2, <2>3, <2>5
    <3> QED
      BY <1>0, <2>3, <2>5, <3>1
  <2> QED
    BY <2>4, <2>5
<1> QED
  BY <1>1

\* FlattenSeq is the last value of the recursion.
LEMMA FlattenIs ==
  ASSUME NEW ss \in Seq(Numbers), ss # <<>>
  PROVE  \E f : Flat(f, ss, Len(ss)) /\ FlattenSeq(ss) = f[Len(ss)]
<1>1. Len(ss) # 0 /\ Len(ss) \in Nat
  OBVIOUS
<1> DEFINE F == CHOOSE f : Flat(f, ss, Len(ss))
<1>2. FlattenSeq(ss) = F[Len(ss)]
  BY <1>1 DEF FlattenSeq, Flat
<1>3. Flat(F, ss, Len(ss))
  BY <1>1, FlatExists
<1> QED
  BY <1>2, <1>3

\* FlattenSeq of sequences of numbers is one.
LEMMA FlattenTyped ==
  ASSUME NEW ss \in Seq(Numbers)
  PROVE  FlattenSeq(ss) \in Numbers
<1>1. CASE ss = <<>>
  BY <1>1 DEF FlattenSeq, Numbers
<1>2. CASE ss # <<>>
  BY <1>2, FlattenIs, FlatTyped
<1> QED
  BY <1>1, <1>2

\* A last sequence comes behind what the others are flattened to.
LEMMA FlattenAppend ==
  ASSUME NEW ss \in Seq(Numbers), NEW s \in Numbers
  PROVE  FlattenSeq(Append(ss, s)) = FlattenSeq(ss) \o s
<1> DEFINE tt == Append(ss, s)
           m == Len(ss)
<1>1. /\ tt \in Seq(Numbers) /\ tt # <<>> /\ m \in Nat /\ Len(tt) = m + 1
      /\ \A k \in 1 .. m : ss[k] = tt[k]
      /\ tt[m + 1] = s
  OBVIOUS
<1> HIDE DEF tt, m
<1>2. PICK g : Flat(g, tt, m + 1) /\ FlattenSeq(tt) = g[m + 1]
  BY <1>1, FlattenIs
<1>3. g[m + 1] = IF m + 1 = 1 THEN s ELSE g[m] \o s
  <2>1. \A k \in 1 .. m + 1 : g[k] = IF k = 1 THEN tt[k] ELSE g[k - 1] \o tt[k]
    BY <1>2 DEF Flat
  <2>2. m + 1 \in 1 .. m + 1 /\ (m + 1) - 1 = m
    BY <1>1
  <2> QED
    BY <1>1, <2>1, <2>2
<1>4. CASE ss = <<>>
  <2>1. FlattenSeq(ss) = <<>> /\ m = 0
    BY <1>4 DEF FlattenSeq, m
  <2>2. FlattenSeq(tt) = s
    BY <1>2, <1>3, <2>1
  <2> QED
    BY <2>1, <2>2 DEF tt, Numbers
<1>5. CASE ss # <<>>
  <2>1. PICK f : Flat(f, ss, m) /\ FlattenSeq(ss) = f[m]
    BY <1>5, FlattenIs DEF m
  <2>2. m \in 1 .. m
    BY <1>1, <1>5 DEF m
  <2>3. f[m] = g[m]
    <3>1. m \in Nat /\ m + 1 \in Nat /\ m <= m + 1
      BY <1>1
    <3>2. Extends(g, tt, m + 1, f, ss, m)
      BY <1>1, <1>2, <2>1, <3>1 DEF Extends
    <3>3. \A k \in 1 .. m : f[k] = g[k]
      BY <3>1, <3>2, FlatAgree
    <3> QED
      BY <2>2, <3>3
  <2> QED
    BY <1>1, <1>2, <1>3, <2>1, <2>2, <2>3 DEF tt
<1> QED
  BY <1>4, <1>5

\* Sequences of one length, one behind the other.
LEMMA FlattenUniform ==
  ASSUME NEW ss \in Seq(Numbers), NEW s \in Nat, \A i \in 1 .. Len(ss) : Len(ss[i]) = s
  PROVE  /\ Len(FlattenSeq(ss)) = Len(ss) * s
         /\ \A i \in 1 .. Len(ss), j \in 1 .. s : FlattenSeq(ss)[(i - 1) * s + j] = ss[i][j]
<1>1. CASE ss = <<>>
  BY <1>1 DEF FlattenSeq
<1>2. CASE ss # <<>>
  <2> DEFINE m == Len(ss)
  <2>1. m \in Nat \ {0}
    BY <1>2
  <2>2. PICK f : Flat(f, ss, m) /\ FlattenSeq(ss) = f[m]
    BY <1>2, FlattenIs
  <2>3. \A k \in 1 .. m : f[k] \in Numbers /\ f[k] = IF k = 1 THEN ss[k] ELSE f[k - 1] \o ss[k]
    <3>1. \A k \in 1 .. m : f[k] \in Numbers
      BY <2>1, <2>2, FlatTyped
    <3> QED
      BY <2>2, <3>1 DEF Flat
  <2> DEFINE Good(k) == /\ Len(f[k]) = k * s
                        /\ \A i \in 1 .. k, j \in 1 .. s : f[k][(i - 1) * s + j] = ss[i][j]
             S == {k \in 1 .. m : ~Good(k)}
  <2>4. S = {}
    <3> SUFFICES ASSUME S # {} PROVE FALSE
      OBVIOUS
    <3>1. S \in SUBSET Nat
      BY <2>1
    <3>2. PICK k \in S : \A j \in S : k <= j
      BY <3>1, LeastElement
    <3>3. k \in 1 .. m /\ k \in Nat /\ ~Good(k)
      BY <2>1, <3>2
    <3>4. ss[k] \in Numbers /\ Len(ss[k]) = s
      BY <3>3
    <3>5. CASE k = 1
      <4>1. f[k] = ss[k]
        BY <2>3, <3>3, <3>5
      <4> QED
        BY <3>3, <3>4, <3>5, <4>1
    <3>6. CASE k # 1
      <4>1. k - 1 \in 1 .. m /\ k - 1 \notin S
        BY <2>1, <3>2, <3>3, <3>6
      <4>2. Good(k - 1) /\ f[k - 1] \in Numbers /\ f[k] = f[k - 1] \o ss[k]
        BY <2>3, <3>3, <3>6, <4>1
      <4> HIDE DEF m, S
      <4>3. (k - 1) * s + s = k * s /\ (k - 1) * s \in Nat
        BY <3>3, <4>1
      <4> DEFINE a == f[k - 1]
                 b == ss[k]
                 l == (k - 1) * s
      <4>4. Len(a) = l
        BY <4>2
      <4>5. a \in Seq(Int) /\ b \in Seq(Int) /\ Len(b) = s /\ l \in Nat /\ l + s = k * s /\ f[k] = a \o b
        BY <3>4, <4>2, <4>3 DEF Numbers
      <4>6. \A i \in 1 .. k - 1, j \in 1 .. s : (i - 1) * s + j \in 1 .. l
        <5> SUFFICES ASSUME NEW i \in 1 .. k - 1, NEW j \in 1 .. s
                     PROVE  (i - 1) * s + j \in 1 .. l
          OBVIOUS
        <5>1. (i - 1) * s \in Nat /\ (i - 1) * s + s = i * s
          BY <3>3
          <5>2. i * s <= l
          BY <3>3
        <5>3. PICK p \in Nat : p = (i - 1) * s /\ p + s = i * s
          BY <5>1
        <5>4. l \in Nat /\ i * s \in Int
          BY <4>5
        <5> HIDE DEF l
        <5>5. p + j \in 1 .. l
          BY <5>2, <5>3, <5>4
        <5> QED
          BY <5>3, <5>5
      <4>7. \A i \in 1 .. k - 1, j \in 1 .. s : a[(i - 1) * s + j] = ss[i][j]
        BY <4>2
      <4>8. Len(f[k]) = k * s
        <5> HIDE DEF a, b, l
        <5>1. a \in Seq(Int) /\ b \in Seq(Int) /\ Len(b) = s
          BY <4>5
        <5>2. Len(a \o b) = Len(a) + Len(b)
          BY <5>1, Joined
        <5>3. Len(f[k]) = l + s
          BY <4>4, <4>5, <5>1, <5>2
        <5> QED
          BY <4>5, <5>3
      <4>9. ASSUME NEW i \in 1 .. k, NEW j \in 1 .. s
            PROVE  f[k][(i - 1) * s + j] = ss[i][j]
        <5>1. CASE i = k
          <6>1. (i - 1) * s + j = l + j
            BY <5>1
          <6> HIDE DEF a, b, l
          <6>2. (a \o b)[l + j] = b[j]
            BY <4>4, <4>5
          <6> QED
            BY <4>5, <5>1, <6>1, <6>2 DEF b
        <5>2. CASE i # k
          <6>1. i \in 1 .. k - 1
            BY <3>3, <5>2
          <6>2. PICK x \in 1 .. l : x = (i - 1) * s + j
            BY <4>6, <6>1
          <6>3. (a \o b)[x] = a[x]
            <7> HIDE DEF a, b, l
            <7> QED
              BY <4>4, <4>5
          <6> QED
            BY <4>5, <4>7, <6>1, <6>2, <6>3
        <5> QED
          BY <5>1, <5>2
      <4> QED
        BY <3>3, <4>8, <4>9
    <3> QED
      BY <3>5, <3>6
  <2>5. Good(m)
    BY <2>1, <2>4
  <2> QED
    BY <2>2, <2>5
<1> QED
  BY <1>1, <1>2

-----------------------------------------------------------------------------
(* Chains                                                                  *)

\* f is the chain of c up to its m-th cluster.
Nth(f, c, m) == f = [n \in 0 .. m |-> IF n = 0 THEN c ELSE OnDisk(f[n - 1])]

\* Every cluster has a chain of any length.
LEMMA NthExists ==
  ASSUME NEW c, NEW m \in Nat
  PROVE  \E f : Nth(f, c, m)
<1> DEFINE S == {k \in Nat : ~\E f : Nth(f, c, k)}
<1>1. S = {}
  <2> SUFFICES ASSUME S # {} PROVE FALSE
    OBVIOUS
  <2>1. S \in SUBSET Nat
    OBVIOUS
  <2>2. PICK k \in S : \A j \in S : k <= j
    BY <2>1, LeastElement
  <2>3. k \in Nat /\ ~\E f : Nth(f, c, k)
    BY <2>2
  <2>4. CASE k = 0
    <3> DEFINE f == [n \in 0 .. k |-> c]
    <3>1. Nth(f, c, k)
      BY <2>4 DEF Nth
    <3> QED
      BY <2>3, <3>1
  <2>5. CASE k # 0
    <3>1. k - 1 \in Nat /\ k - 1 \notin S
      BY <2>2, <2>3, <2>5
    <3>2. PICK g : Nth(g, c, k - 1)
      BY <3>1
    <3> DEFINE f == [n \in 0 .. k |-> IF n = k THEN OnDisk(g[k - 1]) ELSE g[n]]
    <3>3. \A n \in 0 .. k - 1 : g[n] = IF n = 0 THEN c ELSE OnDisk(g[n - 1])
      BY <3>2 DEF Nth
    <3>4. Nth(f, c, k)
      BY <2>3, <2>5, <3>3 DEF Nth
    <3> QED
      BY <2>3, <3>4
  <2> QED
    BY <2>4, <2>5
<1> QED
  BY <1>1

\* The chain of c begins with c, and each cluster is the one the disk says follows
\* the cluster before it.
LEMMA ChainFollows ==
  ASSUME NEW c
  PROVE  /\ Chain(c)[0] = c
         /\ \A n \in 1 .. MaxWalk : Chain(c)[n] = OnDisk(Chain(c)[n - 1])
<1>0. MaxWalk \in Nat
  BY GeometryAssumption
<1>1. Chain(c) = CHOOSE f : Nth(f, c, MaxWalk)
  BY DEF Chain, Nth
<1>2. Nth(Chain(c), c, MaxWalk)
  BY <1>0, <1>1, NthExists
<1> HIDE DEF Chain
<1>3. \A n \in 0 .. MaxWalk : Chain(c)[n] = IF n = 0 THEN c ELSE OnDisk(Chain(c)[n - 1])
  BY <1>2 DEF Nth
<1> QED
  BY <1>0, <1>3

\* The constants, from their assumption.
LEMMA Geometry ==
  /\ {Mask, DWord, Cells, CellsPerSector, SectorsPerCluster, PartSectors} \subseteq Nat \ {0}
  /\ DataStart \in Nat /\ PartStart \in Nat /\ DeviceSectors \in Nat /\ CopyLimit \in Nat
  /\ MaxWalk \in Nat /\ MaxWalk > Cells + 1 /\ Cells < Mask - 9 /\ Mask <= DWord
  /\ bad_cluster_fat32 = Mask - 9 /\ end_cluster_fat32 = Mask - 1 /\ max_cluster = Cells
  /\ EndMarks = Mask - 8 .. Mask - 1
BY GeometryAssumption DEF bad_cluster_fat32, end_cluster_fat32, max_cluster, EndMarks

\* The sectors of 2^32 bytes are fewer than 2^32.
LEMMA DWords == DWordSectors \in Nat \ {0} /\ DWordSectors <= DWord /\ DWord \in Nat \ {0}
<1>1. /\ DWordSectors \in Nat \ {0} /\ SectorSize \in Nat \ {0} /\ DWord \in Nat \ {0}
      /\ DWord = DWordSectors * SectorSize
  BY GeometryAssumption
<1>2. DWordSectors * SectorSize >= DWordSectors
  BY <1>1
<1> QED
  BY <1>1, <1>2

\* Next_Cluster returns what the disk says follows c, at most a mark.
LEMMA FollowIs ==
  ASSUME table \in Tables, NEW c \in Number
  PROVE  /\ Follow(c) = OnDisk(c) /\ Follow(c) \in 0 .. Mask - 1 /\ Follow(c) \in Number
         /\ ~InTable(c) => Follow(c) = Mask - 9
<1>1. table \in [0 .. Cells - 1 -> 0 .. DWord - 1]
  BY TablesAssumption
<1>2. /\ Mask \in Nat \ {0} /\ Cells \in Nat \ {0} /\ DWord \in Nat \ {0} /\ Mask <= DWord
      /\ Cells < Mask - 9 /\ bad_cluster_fat32 = Mask - 9
  BY Geometry
<1>3. c \in DOMAIN table <=> InTable(c)
  BY <1>1, <1>2 DEF InTable, Number
<1>4. ASSUME InTable(c) PROVE table[c] % Mask \in 0 .. Mask - 1
  <2>1. table[c] \in Nat
    BY <1>1, <1>2, <1>3, <1>4
  <2> QED
    BY <1>2, <2>1
<1> QED
  BY <1>2, <1>3, <1>4 DEF Follow, OnDisk, Masked, Number

\* The chain, cluster by cluster, as Next_Cluster walks it.
LEMMA ChainNext ==
  ASSUME table \in Tables, first \in Number
  PROVE  /\ Chain(first)[0] = first
         /\ \A n \in 0 .. MaxWalk : Chain(first)[n] \in Number
         /\ \A n \in 0 .. MaxWalk - 1 :
              /\ Chain(first)[n + 1] = Follow(Chain(first)[n])
              /\ Chain(first)[n + 1] \in 0 .. Mask - 1
              /\ ~InTable(Chain(first)[n]) => Chain(first)[n + 1] = bad_cluster_fat32
<1> DEFINE F == Chain(first)
           S == {k \in 0 .. MaxWalk : F[k] \notin Number}
<1>0. MaxWalk \in Nat /\ bad_cluster_fat32 = Mask - 9
  BY Geometry
<1>1. F[0] = first /\ \A n \in 1 .. MaxWalk : F[n] = OnDisk(F[n - 1])
  BY ChainFollows
<1> HIDE DEF F
<1>2. S = {}
  <2> SUFFICES ASSUME S # {} PROVE FALSE
    OBVIOUS
  <2>1. S \in SUBSET Nat
    BY <1>0
  <2>2. PICK k \in S : \A j \in S : k <= j
    BY <2>1, LeastElement
  <2>3. k \in 1 .. MaxWalk /\ k - 1 \in 0 .. MaxWalk /\ k - 1 \notin S
    BY <1>0, <1>1, <2>2
  <2>4. F[k - 1] \in Number
    BY <2>3
  <2> QED
    BY <1>1, <2>2, <2>3, <2>4, FollowIs
<1>3. ASSUME NEW n \in 0 .. MaxWalk - 1
      PROVE  /\ F[n + 1] = Follow(F[n]) /\ F[n + 1] \in 0 .. Mask - 1
             /\ ~InTable(F[n]) => F[n + 1] = bad_cluster_fat32
  <2>1. n \in 0 .. MaxWalk /\ n + 1 \in 1 .. MaxWalk /\ (n + 1) - 1 = n
    BY <1>0
  <2>2. F[n] \in Number /\ F[n + 1] = OnDisk(F[n])
    BY <1>1, <1>2, <2>1
  <2> QED
    BY <1>0, <2>2, FollowIs
<1> QED
  BY <1>1, <1>2, <1>3 DEF F

\* A chain that has left the table stays at the bad mark.
LEMMA OutOfTable ==
  ASSUME table \in Tables, first \in Number,
         NEW m \in 0 .. MaxWalk, ~InTable(Chain(first)[m]),
         NEW n \in 0 .. MaxWalk, m < n
  PROVE  Chain(first)[n] = bad_cluster_fat32
<1> DEFINE F == Chain(first)
           S == {k \in m + 1 .. MaxWalk : F[k] # bad_cluster_fat32}
<1>0. /\ MaxWalk \in Nat /\ bad_cluster_fat32 = Mask - 9 /\ Cells < Mask - 9
      /\ Cells \in Nat /\ Mask \in Nat
  BY Geometry
<1>1. \A k \in 0 .. MaxWalk - 1 : ~InTable(F[k]) => F[k + 1] = bad_cluster_fat32
  BY ChainNext
<1>2. ~InTable(bad_cluster_fat32) /\ ~InTable(F[m])
  BY <1>0 DEF InTable
<1> HIDE DEF F
<1>3. S = {}
  <2> SUFFICES ASSUME S # {} PROVE FALSE
    OBVIOUS
  <2>1. S \in SUBSET Nat
    BY <1>0
  <2>2. PICK k \in S : \A j \in S : k <= j
    BY <2>1, LeastElement
  <2>3. k \in m + 1 .. MaxWalk /\ F[k] # bad_cluster_fat32 /\ k - 1 \notin S
    BY <1>0, <2>2
  <2>4. ~InTable(F[k - 1])
    <3>1. CASE k - 1 = m
      BY <1>2, <3>1
    <3>2. CASE k - 1 # m
      BY <1>0, <1>2, <2>3, <3>2
    <3> QED
      BY <3>1, <3>2
  <2>5. k - 1 \in 0 .. MaxWalk - 1 /\ (k - 1) + 1 = k
    BY <1>0, <2>3
  <2> QED
    BY <1>1, <2>3, <2>4, <2>5
<1>4. n \in m + 1 .. MaxWalk
  BY <1>0
<1> QED
  BY <1>3, <1>4 DEF F

\* From two places that name one cluster on, a chain goes on the same way.
LEMMA SameFrom ==
  ASSUME table \in Tables, first \in Number,
         NEW i \in Nat, NEW j \in Nat, i < j, Chain(first)[i] = Chain(first)[j],
         NEW n \in Nat, j + n <= MaxWalk
  PROVE  Chain(first)[i + n] = Chain(first)[j + n]
<1> DEFINE F == Chain(first)
           S == {k \in 0 .. n : F[i + k] # F[j + k]}
<1>0. MaxWalk \in Nat
  BY Geometry
<1>1. \A k \in 0 .. MaxWalk - 1 : F[k + 1] = Follow(F[k])
  BY ChainNext
<1>2. F[i] = F[j]
  OBVIOUS
<1> HIDE DEF F
<1>3. S = {}
  <2> SUFFICES ASSUME S # {} PROVE FALSE
    OBVIOUS
  <2>1. S \in SUBSET Nat
    OBVIOUS
  <2>2. PICK k \in S : \A l \in S : k <= l
    BY <2>1, LeastElement
  <2>3. k \in 0 .. n /\ F[i + k] # F[j + k] /\ k - 1 \notin S
    BY <2>2
  <2>4. k # 0
    BY <1>2, <2>3
  <2>5. F[i + (k - 1)] = F[j + (k - 1)]
    BY <2>3, <2>4
  <2>6. /\ i + (k - 1) \in 0 .. MaxWalk - 1 /\ (i + (k - 1)) + 1 = i + k
        /\ j + (k - 1) \in 0 .. MaxWalk - 1 /\ (j + (k - 1)) + 1 = j + k
    BY <1>0, <2>3, <2>4
  <2>7. F[i + k] = Follow(F[i + (k - 1)]) /\ F[j + k] = Follow(F[j + (k - 1)])
    BY <1>1, <2>6
  <2> QED
    BY <2>3, <2>5, <2>7
<1>4. n \notin S
  BY <1>3
<1> QED
  BY <1>4 DEF F

\* A chain that stays in a part of the numbers smaller than it is long comes
\* to one of them twice.
LEMMA ComesBack ==
  ASSUME NEW n \in Nat, NEW m \in Nat, m < n, NEW f, \A i \in 0 .. n - 1 : f[i] \in 0 .. m - 1
  PROVE  \E i, j \in 0 .. n - 1 : i < j /\ f[i] = f[j]
<1> DEFINE S == 0 .. n - 1
           T == 0 .. m - 1
           g == [i \in S |-> f[i]]
<1>1. IsFiniteSet(S) /\ Cardinality(S) = n /\ IsFiniteSet(T) /\ Cardinality(T) = m
  BY FS_Interval
<1>2. g \in [S -> T]
  OBVIOUS
<1>3. PICK x, y \in S : x # y /\ g[x] = g[y]
  <2> HIDE DEF S, T, g
  <2> QED
    BY <1>1, <1>2, FS_PigeonHole
<1>4. x \in Int /\ y \in Int /\ f[x] = f[y] /\ (x < y \/ y < x)
  BY <1>3
<1> QED
  BY <1>3, <1>4

-----------------------------------------------------------------------------
(* Runs                                                                    *)

\* A run that may still be empty.
Packed == [number : Nat, count : Nat]

\* A run has as many clusters as it counts.
LEMMA ClustersTyped ==
  ASSUME NEW r \in Packed
  PROVE  Clusters(r) \in Numbers /\ Len(Clusters(r)) = r.count
BY DEF Packed, Clusters, Numbers

\* The runs, each written out.
Written(rs) == [i \in DOMAIN rs |-> Clusters(rs[i])]

\* What runs spell is a sequence of numbers.
LEMMA WrittenTyped ==
  ASSUME NEW rs \in Seq(Packed)
  PROVE  Written(rs) \in Seq(Numbers) /\ Spelled(rs) = FlattenSeq(Written(rs)) /\ Spelled(rs) \in Numbers
<1>1. \A i \in 1 .. Len(rs) : Clusters(rs[i]) \in Numbers
  BY ClustersTyped
<1>2. Written(rs) \in Seq(Numbers)
  BY <1>1 DEF Written
<1>3. Spelled(rs) = FlattenSeq(Written(rs))
  BY DEF Spelled, Written, Clusters
<1> QED
  BY <1>2, <1>3, FlattenTyped

\* One more run spells its clusters behind the others.
LEMMA SpelledAppend ==
  ASSUME NEW rs \in Seq(Packed), NEW r \in Packed
  PROVE  Spelled(Append(rs, r)) = Spelled(rs) \o Clusters(r)
<1>1. Append(rs, r) \in Seq(Packed)
  OBVIOUS
<1>2. Written(Append(rs, r)) = Append(Written(rs), Clusters(r))
  <2>1. Written(rs) \in Seq(Numbers) /\ Len(Written(rs)) = Len(rs) /\ DOMAIN Written(rs) = 1 .. Len(rs)
    BY WrittenTyped DEF Written
  <2>2. \A i \in 1 .. Len(rs) : Written(Append(rs, r))[i] = Clusters(rs[i]) /\ Written(rs)[i] = Clusters(rs[i])
    BY DEF Written
  <2>3. Written(Append(rs, r))[Len(rs) + 1] = Clusters(r)
    BY DEF Written
  <2>4. Written(Append(rs, r)) \in Seq(Numbers) /\ Len(Written(Append(rs, r))) = Len(rs) + 1
    <3>1. Written(Append(rs, r)) \in Seq(Numbers)
      BY <1>1, WrittenTyped
    <3>2. DOMAIN Written(Append(rs, r)) = 1 .. Len(rs) + 1
      BY DEF Written
    <3> QED
      BY <3>1, <3>2
  <2>5. Clusters(r) \in Numbers
    BY ClustersTyped
  <2>6. \A i \in 1 .. Len(rs) + 1 :
           Written(Append(rs, r))[i] = Append(Written(rs), Clusters(r))[i]
    BY <2>1, <2>2, <2>3, <2>5
  <2>7. /\ Append(Written(rs), Clusters(r)) \in Seq(Numbers)
        /\ Len(Append(Written(rs), Clusters(r))) = Len(rs) + 1
    BY <2>1, <2>5
  <2> HIDE DEF Written
  <2> QED
    BY <2>4, <2>6, <2>7
<1>3. /\ Written(rs) \in Seq(Numbers) /\ Spelled(rs) = FlattenSeq(Written(rs))
      /\ Spelled(Append(rs, r)) = FlattenSeq(Written(Append(rs, r)))
  BY <1>1, WrittenTyped
<1> QED
  BY <1>2, <1>3, ClustersTyped, FlattenAppend

\* The first k runs spell the beginning of what all of them spell; what the
\* next one adds stands behind it.
LEMMA UptoIs ==
  ASSUME NEW rs \in Seq(Packed)
  PROVE  /\ Upto(rs, 0) = <<>> /\ Upto(rs, Len(rs)) = Spelled(rs)
         /\ \A k \in 0 .. Len(rs) : Upto(rs, k) \in Numbers
         /\ \A k \in 1 .. Len(rs) : Upto(rs, k) = Upto(rs, k - 1) \o Clusters(rs[k])
<1>1. \A k \in 0 .. Len(rs) : SubSeq(rs, 1, k) \in Seq(Packed)
  OBVIOUS
<1>2. SubSeq(rs, 1, Len(rs)) = rs
  OBVIOUS
<1>3. Upto(rs, 0) = <<>>
  <2>1. SubSeq(rs, 1, 0) = <<>>
    OBVIOUS
  <2>2. Spelled(<<>>) = <<>>
    <3>1. Written(<<>>) = <<>>
      BY DEF Written
    <3>2. <<>> \in Seq(Packed)
      OBVIOUS
    <3>3. Spelled(<<>>) = FlattenSeq(<<>>)
      BY <3>1, <3>2, WrittenTyped
    <3> QED
      BY <3>3 DEF FlattenSeq
  <2> QED
    BY <2>1, <2>2 DEF Upto
<1>4. ASSUME NEW k \in 1 .. Len(rs)
      PROVE  Upto(rs, k) = Upto(rs, k - 1) \o Clusters(rs[k])
  <2>1. SubSeq(rs, 1, k) = Append(SubSeq(rs, 1, k - 1), rs[k])
    OBVIOUS
  <2>2. SubSeq(rs, 1, k - 1) \in Seq(Packed) /\ rs[k] \in Packed
    OBVIOUS
  <2> QED
    BY <2>1, <2>2, SpelledAppend DEF Upto
<1>5. \A k \in 0 .. Len(rs) : Upto(rs, k) \in Numbers
  BY <1>1, WrittenTyped DEF Upto
<1> QED
  BY <1>2, <1>3, <1>4, <1>5 DEF Upto

\* s is the beginning of t.
Begins(s, t) == Len(s) <= Len(t) /\ \A i \in 1 .. Len(s) : s[i] = t[i]

\* The runs that have been read spell the beginning of what all of them spell.
LEMMA UptoBegins ==
  ASSUME NEW rs \in Seq(Packed), NEW k \in 0 .. Len(rs)
  PROVE  Begins(Upto(rs, k), Spelled(rs))
<1> DEFINE m == Len(rs)
           S == {n \in 0 .. m : ~Begins(Upto(rs, m - n), Spelled(rs))}
<1>1. m \in Nat
  OBVIOUS
<1>2. S = {}
  <2> SUFFICES ASSUME S # {} PROVE FALSE
    OBVIOUS
  <2>1. S \in SUBSET Nat
    BY <1>1
  <2>2. PICK n \in S : \A j \in S : n <= j
    BY <2>1, LeastElement
  <2>3. n \in 0 .. m /\ ~Begins(Upto(rs, m - n), Spelled(rs)) /\ n - 1 \notin S
    BY <2>2
  <2>4. CASE n = 0
    <3>1. Upto(rs, m - n) = Spelled(rs) /\ Spelled(rs) \in Seq(Int)
      BY <2>4, UptoIs, WrittenTyped DEF Numbers
    <3>2. Begins(Spelled(rs), Spelled(rs))
      BY <3>1 DEF Begins
    <3> QED
      BY <2>3, <3>1, <3>2
  <2>5. CASE n # 0
    <3>1. PICK l \in 1 .. m : l = m - n + 1 /\ l - 1 = m - n /\ m - (n - 1) = l
      BY <1>1, <2>3, <2>5
    <3>2. Begins(Upto(rs, l), Spelled(rs))
      BY <1>1, <2>3, <2>5, <3>1
    <3>3. Upto(rs, l) = Upto(rs, l - 1) \o Clusters(rs[l])
      BY <3>1, UptoIs
    <3>4. Upto(rs, l - 1) \in Seq(Int) /\ Clusters(rs[l]) \in Seq(Int)
      <4>1. l - 1 \in 0 .. m /\ rs[l] \in Packed
        BY <1>1, <3>1
      <4> QED
        BY <4>1, UptoIs, ClustersTyped DEF Numbers
    <3>5. Begins(Upto(rs, l - 1), Upto(rs, l))
      BY <3>3, <3>4, Joined DEF Begins
    <3>6. Begins(Upto(rs, l - 1), Spelled(rs))
      <4>1. Len(Upto(rs, l - 1)) \in Nat /\ Len(Upto(rs, l)) \in Nat /\ Len(Spelled(rs)) \in Nat
        <5>1. l \in 0 .. Len(rs)
          BY <3>1
        <5>2. Upto(rs, l) \in Seq(Int)
          BY <5>1, UptoIs DEF Numbers
        <5>3. Spelled(rs) \in Seq(Int)
          BY WrittenTyped DEF Numbers
        <5> QED
          BY <3>4, <5>2, <5>3
      <4> QED
        BY <3>2, <3>5, <4>1 DEF Begins
    <3> QED
      BY <2>3, <3>1, <3>6
  <2> QED
    BY <2>4, <2>5
<1>3. k = m - (m - k) /\ m - k \in 0 .. m
  BY <1>1
<1> QED
  BY <1>2, <1>3

\* No run of a file handle is empty.
LEMMA RunsArePacked ==
  ASSUME NEW rs \in Runs
  PROVE  rs \in Seq(Packed) /\ \A i \in 1 .. Len(rs) : rs[i] \in Packed /\ rs[i].count > 0
<1> DEFINE R == [number : Nat, count : Nat \ {0}]
<1>1. R \subseteq Packed /\ \A r \in R : r.count > 0
  BY DEF Packed
<1>2. rs \in Seq(R)
  BY DEF Runs
<1> HIDE DEF R
<1>3. \A i \in 1 .. Len(rs) : rs[i] \in R
  BY <1>2
<1>4. rs \in Seq(Packed)
  BY <1>1, <1>2, <1>3
<1> QED
  BY <1>1, <1>3, <1>4

\* What a turn of ReadListClusters adds to its runs.
NextRun == IF Contiguous(run, cluster) THEN Inc(run) ELSE [number |-> cluster, count |-> 1]
NextRuns == IF Contiguous(run, cluster) THEN runs ELSE Append(runs, run)

\* A turn of ReadListClusters takes its cluster: whether it continues the run or
\* begins one, the runs spell one cluster more.
LEMMA Taken ==
  ASSUME run \in Packed, runs \in Runs, cluster \in Nat,
         run.count = 0 => run.number = cluster
  PROVE  /\ NextRun \in [number : Nat, count : Nat \ {0}] /\ NextRuns \in Runs
         /\ walked \in Seq(Int)
         /\ Spelled(Append(NextRuns, NextRun)) = walked \o <<cluster>>
<1>0. runs \in Seq(Packed)
  BY RunsArePacked
<1>1. walked = Spelled(runs) \o Clusters(run)
  BY <1>0, SpelledAppend DEF walked
<1>a. Spelled(runs) \in Seq(Int) /\ Clusters(run) \in Seq(Int) /\ <<cluster>> \in Seq(Int)
  BY <1>0, WrittenTyped, ClustersTyped DEF Numbers
<1>2. walked \in Seq(Int)
  BY <1>1, <1>a
<1>3. CASE Contiguous(run, cluster)
  <2>1. NextRun = Inc(run) /\ NextRuns = runs
    BY <1>3 DEF NextRun, NextRuns
  <2>2. Inc(run) \in [number : Nat, count : Nat \ {0}] /\ Inc(run) \in Packed
        /\ Inc(run).number = run.number /\ Inc(run).count = run.count + 1
    BY DEF Inc, Packed
  <2>3. Clusters(Inc(run)) = Clusters(run) \o <<cluster>>
    BY <1>3, <2>2 DEF Clusters, Contiguous, Packed
  <2>4. Spelled(Append(runs, Inc(run))) = Spelled(runs) \o Clusters(Inc(run))
    BY <1>0, <2>2, SpelledAppend
  <2>5. (Spelled(runs) \o Clusters(run)) \o <<cluster>> = Spelled(runs) \o (Clusters(run) \o <<cluster>>)
    BY <1>a
  <2> QED
    BY <1>1, <1>2, <2>1, <2>2, <2>3, <2>4, <2>5
<1>4. CASE ~Contiguous(run, cluster)
  <2> DEFINE r == [number |-> cluster, count |-> 1]
  <2>1. NextRun = r /\ NextRuns = Append(runs, run)
    BY <1>4 DEF NextRun, NextRuns
  <2>2. run.count # 0
    BY <1>4 DEF Contiguous, Packed
  <2>3. r \in [number : Nat, count : Nat \ {0}] /\ r \in Packed /\ run \in [number : Nat, count : Nat \ {0}]
    BY <2>2 DEF Packed
  <2>4. Append(runs, run) \in Runs /\ Append(runs, run) \in Seq(Packed)
    BY <1>0, <2>3 DEF Runs
  <2>5. Clusters(r) = <<cluster>>
    BY DEF Clusters
  <2>6. Spelled(Append(Append(runs, run), r)) = walked \o Clusters(r)
    BY <2>3, <2>4, SpelledAppend DEF walked
  <2> QED
    BY <1>2, <2>1, <2>3, <2>4, <2>5, <2>6
<1> QED
  BY <1>3, <1>4

-----------------------------------------------------------------------------
(* ReadListClusters                                                        *)

\* As long as the table and the first cluster stay, so does the chain.
LEMMA ChainKept ==
  ASSUME UNCHANGED <<table, first>>
  PROVE  /\ Chain(first)' = Chain(first)
         /\ \A s : IsChain(s)' <=> IsChain(s)
         /\ \A s : Ended(s)' <=> Ended(s)
         /\ \A n : Recoverable(n)' <=> Recoverable(n)
         /\ \A n : Intact(first, n)' <=> Intact(first, n)
<1>1. table' = table /\ first' = first
  OBVIOUS
<1>2. Chain(first)' = Chain(first)
  BY <1>1 DEF Chain, OnDisk
<1>3. \A n : Intact(first, n)' <=> Intact(first, n)
  BY <1>1, <1>2 DEF Intact
<1>4. \A s : IsChain(s)' <=> IsChain(s)
  BY <1>1, <1>2 DEF IsChain
<1> QED
  BY <1>1, <1>2, <1>3, <1>4 DEF Ended, Recoverable

\* Next_Cluster loads sectors of the table only.
LEMMA LoadTyped ==
  ASSUME NEW c \in Nat, loaded \subseteq 0 .. (Cells \div CellsPerSector) - 1, Load(c)
  PROVE  loaded' \subseteq 0 .. (Cells \div CellsPerSector) - 1
<1>1. Cells \in Nat /\ CellsPerSector \in Nat \ {0} /\ Cells % CellsPerSector = 0
  BY GeometryAssumption
<1>2. CASE InTable(c)
  <2> DEFINE q == c \div CellsPerSector
             Q == Cells \div CellsPerSector
  <2>1. q \in Nat /\ CellsPerSector * q <= c
    BY <1>1
  <2>2. Q \in Nat /\ Cells = CellsPerSector * Q
    BY <1>1
  <2>3. CellsPerSector * q < CellsPerSector * Q
    BY <1>1, <1>2, <2>1, <2>2 DEF InTable
  <2>4. q < Q
    <3> HIDE DEF q, Q
    <3> QED
      BY <1>1, <2>1, <2>2, <2>3
  <2>5. loaded' = loaded \cup {q} /\ loaded \subseteq 0 .. Q - 1
    BY <1>2 DEF Load, TableSector
  <2> HIDE DEF q, Q
  <2>6. loaded' \subseteq 0 .. Q - 1
    BY <2>1, <2>2, <2>4, <2>5
  <2> QED
    BY <2>6 DEF Q
<1>3. CASE ~InTable(c)
  BY <1>3 DEF Load
<1> QED
  BY <1>2, <1>3

\* count_cluster() is rounded down.
LEMMA CountIs ==
  /\ count_cluster \in Int
  /\ PartSectors - DataStart < (count_cluster + 1) * SectorsPerCluster
<1>1. PartSectors \in Int /\ DataStart \in Int /\ SectorsPerCluster \in Nat \ {0}
  BY Geometry
<1>2. PICK x \in Int : x = PartSectors - DataStart
  BY <1>1
<1>3. PICK q \in Int : q = x \div SectorsPerCluster
  BY <1>1
<1>4. x < (q + 1) * SectorsPerCluster
  BY <1>1, <1>3
<1> QED
  BY <1>2, <1>3, <1>4 DEF count_cluster

\* The walk of a recoverable file ends behind its last cluster, or one further.
LEMMA EndedLength ==
  ASSUME TypeInv, NEW s \in Seq(Int), Ended(s), NEW n \in 1 .. Cells, Recoverable(n)
  PROVE  Len(s) \in {n, n + 1}
<1> DEFINE L == Len(s)
           F == Chain(first)
<1>0. /\ Mask \in Nat /\ Cells \in Nat /\ Cells < Mask - 9 /\ L \in Nat
      /\ bad_cluster_fat32 = Mask - 9 /\ end_cluster_fat32 = Mask - 1
      /\ EndMarks = Mask - 8 .. Mask - 1
  BY Geometry
<1>1. /\ \A i \in 0 .. L - 2 : F[i] < Cells
      /\ F[L] \in {Mask - 1, Mask - 9}
  BY <1>0 DEF Ended, InTable
<1>2. /\ \A i \in 0 .. n - 1 : F[i] \in 2 .. count_cluster + 1
      /\ F[n] \in Mask - 8 .. Mask - 1
      /\ count_cluster + 1 < Mask - 9
  BY <1>0 DEF Recoverable, Intact, DataClusters
<1>a. count_cluster \in Int
  BY CountIs
<1> HIDE DEF F, L
<1>3. ~(L < n)
  <2> SUFFICES ASSUME L < n PROVE FALSE
    OBVIOUS
  <2>1. L \in 0 .. n - 1
    BY <1>0
  <2> QED
    BY <1>0, <1>1, <1>2, <1>a, <2>1
<1>4. ~(L > n + 1)
  BY <1>0, <1>1, <1>2
<1> QED
  BY <1>0, <1>3, <1>4 DEF L

\* Of two numbers of clusters the smaller has fewer sectors.
LEMMA Scaled ==
  ASSUME NEW a \in Nat, NEW b \in Nat, a <= b
  PROVE  a * SectorsPerCluster <= b * SectorsPerCluster
<1>1. SectorsPerCluster \in Nat
  BY Geometry
<1> QED
  BY <1>1

\* A remainder is at most what is divided, and all of it below the divisor.
LEMMA Remainder ==
  ASSUME NEW x \in Nat, NEW d \in Nat \ {0}
  PROVE  x % d \in Nat /\ x % d <= x /\ (x < d => x % d = x)
<1>1. x % d \in 0 .. d - 1 /\ x = d * (x \div d) + (x % d)
  OBVIOUS
<1>2. x \div d \in Nat
  OBVIOUS
<1>3. d * (x \div d) >= 0
  BY <1>2
<1> QED
  BY <1>1, <1>3

\* readSizeUsingTable computes the size when the product fits.
LEMMA Sizes ==
  ASSUME NEW s \in Seq(Int)
  PROVE  /\ Len(s) * SectorsPerCluster \in Nat
         /\ (Len(s) * SectorsPerCluster) % DWordSectors \in Nat
         /\ Len(s) * SectorsPerCluster < DWordSectors =>
              (Len(s) * SectorsPerCluster) % DWordSectors = Len(s) * SectorsPerCluster
<1>1. SectorsPerCluster \in Nat /\ DWordSectors \in Nat \ {0} /\ Len(s) \in Nat
  BY Geometry, DWords
<1>2. PICK x \in Nat : x = Len(s) * SectorsPerCluster
  BY <1>1
<1>3. x % DWordSectors \in Nat /\ (x < DWordSectors => x % DWordSectors = x)
  BY <1>1
<1> QED
  BY <1>2, <1>3

\* ReadSectors reads at most the run, and all of it when it is below 2^32 bytes.
LEMMA ReadSizes ==
  ASSUME NEW r, r.count \in Nat
  PROVE  /\ r.count * SectorsPerCluster \in Nat
         /\ sectorsToRead(r) \in Nat
         /\ readSize(r) \in Nat /\ readSize(r) <= r.count * SectorsPerCluster
         /\ r.count * SectorsPerCluster < DWordSectors =>
              /\ sectorsToRead(r) = r.count * SectorsPerCluster
              /\ readSize(r) = r.count * SectorsPerCluster
<1>1. SectorsPerCluster \in Nat /\ DWordSectors \in Nat \ {0} /\ DWord \in Nat \ {0} /\ DWordSectors <= DWord
  BY Geometry, DWords
<1>2. PICK x \in Nat : x = r.count * SectorsPerCluster
  BY <1>1
<1>3. PICK y \in Nat : y = x % DWord /\ y <= x /\ (x < DWord => y = x)
  <2>1. x % DWord \in Nat /\ x % DWord <= x /\ (x < DWord => x % DWord = x)
    BY <1>1, Remainder
  <2> QED
    BY <2>1
<1>4. y % DWordSectors \in Nat /\ y % DWordSectors <= y /\ (y < DWordSectors => y % DWordSectors = y)
  BY <1>1, Remainder
<1>5. PICK z \in Nat : z = y % DWordSectors /\ z <= y /\ (y < DWordSectors => z = y)
  BY <1>4
<1>6. sectorsToRead(r) = y /\ readSize(r) = z
  BY <1>2, <1>3, <1>5 DEF sectorsToRead, readSize
<1>7. z <= x /\ (x < DWordSectors => y = x /\ z = x)
  BY <1>1, <1>3, <1>5
<1> QED
  BY <1>2, <1>6, <1>7

\* A walk starts at the cluster the directory entry names.
LEMMA ChainFrom ==
  ASSUME NEW c, first' = c, UNCHANGED table
  PROVE  Chain(first)' = Chain(c)
BY DEF Chain, OnDisk

\* The invariants of a state that is at none of the loops.
LEMMA AtRest ==
  ASSUME TypeInv, pc \in {"idle", "thrown"}
  PROVE  Inv
BY DEF Inv, WalkInv, ReadInv, FolderInv, BufferFits, RecoveredIsChain, EndlessOnlyInCircle, FolderIsChain

\* Every way in which ReadListClusters ends leaves runs that spell the chain; of a
\* recoverable file the size is not 0, so that it is read.
LEMMA EndWalkStep ==
  ASSUME TypeInv, UNCHANGED <<table, bad, first, readVars, folder>>,
         iRun = 1, mem = <<>>,
         loaded' \subseteq 0 .. (Cells \div CellsPerSector) - 1, cluster' \in Number,
         NEW r \in Packed, NEW rs \in Runs, EndWalk(r, rs),
         Ended(Spelled(Append(rs, r)))
  PROVE  Inv'
<1>0. /\ rs \in Seq(Packed) /\ Cells \in Nat /\ SectorsPerCluster \in Nat \ {0} /\ DWord \in Nat
      /\ DWordSectors \in Nat
      /\ Number = 0 .. DWord - 1
  BY RunsArePacked, Geometry, DWords DEF Number
<1>1. runs' \in Runs /\ Spelled(runs') = Spelled(Append(rs, r))
  <2>1. CASE r.count > 0
    <3>1. runs' = Append(rs, r)
      BY <2>1 DEF EndWalk, WithLastRun
    <3>2. r \in [number : Nat, count : Nat \ {0}]
      BY <2>1 DEF Packed
    <3> QED
      BY <3>1, <3>2 DEF Runs
  <2>2. CASE ~(r.count > 0)
    <3>1. runs' = rs
      BY <2>2 DEF EndWalk, WithLastRun
    <3>2. Clusters(r) = <<>>
      BY <2>2 DEF Clusters, Packed
    <3>3. Spelled(rs) \in Seq(Int)
      BY <1>0, WrittenTyped DEF Numbers
    <3>4. Spelled(rs) \o <<>> = Spelled(rs)
      BY <3>3
    <3> QED
      BY <1>0, <3>1, <3>2, <3>4, SpelledAppend
  <2> QED
    BY <2>1, <2>2
<1>2. pc' = IF SizeOf(runs') > 0 THEN "read" ELSE "recovered"
  BY DEF EndWalk
<1>3. TypeInv'
  <2>1. run' = [number |-> 0, count |-> 0]
    BY DEF EndWalk
  <2> QED
    BY <1>0, <1>1, <1>2, <2>1 DEF TypeInv, TypeOK, readVars, Runs, Number
<1>4. PICK s \in Seq(Int) : s = Spelled(runs')
  <2>1. runs' \in Seq(Packed)
    BY <1>1, RunsArePacked
  <2> QED
    BY <2>1, WrittenTyped DEF Numbers
<1>5. Ended(s)
  BY <1>1, <1>4
<1>6. iRun' = 1 /\ mem' = <<>>
  BY DEF readVars
<1>7. ReadInv'
  <2> SUFFICES ASSUME pc' = "read" PROVE ReadInv'
    BY DEF ReadInv
  <2>1. Ended(s)'
    BY <1>5, ChainKept
  <2>2. Ended(Spelled(runs))'
    BY <1>4, <2>1
  <2>3. Upto(runs, iRun - 1)' = <<>>
    <3>1. runs' \in Seq(Packed)
      BY <1>1, RunsArePacked
    <3>2. Upto(runs', 0) = <<>>
      BY <3>1, UptoIs
    <3> QED
      BY <1>6, <3>2
  <2>4. Holds(0)'
    BY <1>0, <1>6 DEF Holds
  <2>5. iRun' \in 1 .. Len(runs') + 1
    BY <1>1, <1>6 DEF Runs
  <2>6. Len(<<>>) = 0
    OBVIOUS
  <2>7. Len(Upto(runs, iRun - 1))' = 0
    BY <2>3, <2>6
  <2>8. Len(mem') = 0 /\ 0 <= 0 * SectorsPerCluster
    BY <1>0, <1>6, <2>6
  <2>9. ASSUME NEW n \in 1 .. Cells
        PROVE  Len(Upto(runs, iRun - 1))' <= n /\ Holds(Len(Upto(runs, iRun - 1)))'
    BY <1>0, <2>4, <2>7
  <2> QED
    BY <2>2, <2>5, <2>7, <2>8, <2>9 DEF ReadInv
<1>8. BufferFits'
  BY <1>2 DEF BufferFits
<1>9. RecoveredIsChain'
  <2> SUFFICES ASSUME pc' = "recovered", NEW n \in 1 .. Cells, Recoverable(n)'
               PROVE  FALSE
    BY DEF RecoveredIsChain
  <2>1. Recoverable(n)
    BY ChainKept
  <2>2. Len(s) \in {n, n + 1}
    BY <1>5, <2>1, EndedLength
  <2>3. n * SectorsPerCluster + SectorsPerCluster < DWordSectors
    BY <1>0, <2>1 DEF Recoverable
  <2>4. Len(s) * SectorsPerCluster < DWordSectors /\ Len(s) * SectorsPerCluster > 0
    <3>1. PICK p \in Nat : p = n * SectorsPerCluster /\ p > 0 /\ (n + 1) * SectorsPerCluster = p + SectorsPerCluster
      BY <1>0
    <3>2. CASE Len(s) = n
      BY <1>0, <2>3, <3>1, <3>2
    <3>3. CASE Len(s) = n + 1
      BY <1>0, <2>3, <3>1, <3>3
    <3> QED
      BY <2>2, <3>2, <3>3
  <2>5. SizeOf(runs') > 0
    BY <1>4, <2>4, Sizes DEF SizeOf
  <2> QED
    BY <1>2, <2>5
<1> QED
  BY <1>2, <1>3, <1>7, <1>8, <1>9 DEF Inv, WalkInv, FolderInv, EndlessOnlyInCircle, FolderIsChain

\* A new file handle is at the first cluster of the chain.
LEMMA StartFileStep ==
  ASSUME TypeInv, NEW c \in FirstClusters, StartFile(c)
  PROVE  Inv'
<1>0. /\ c \in Number /\ c \in Nat /\ SectorsPerCluster \in Nat /\ MaxWalk \in Nat
      /\ DWord \in Nat /\ Number = 0 .. DWord - 1
  BY FirstAssumption, Geometry DEF Number
<1>1. /\ first' = c /\ cluster' = c /\ runs' = <<>> /\ iRun' = 1 /\ mem' = <<>> /\ target' = <<>>
      /\ folder' = <<>> /\ run' = [number |-> c, count |-> 0] /\ UNCHANGED <<table, bad, loaded>>
      /\ pc' = IF c < count_cluster THEN "walk" ELSE "recovered"
  BY DEF StartFile
<1>2. TypeInv'
  BY <1>0, <1>1 DEF TypeInv, TypeOK, Runs, Number
<1>3. walked' = <<>>
  <2>1. <<>> \in Seq(Packed) /\ run' \in Packed /\ Clusters(run') = <<>>
    BY <1>0, <1>1 DEF Packed, Clusters
  <2>2. Upto(<<>>, 0) = Spelled(<<>>) /\ Upto(<<>>, 0) = <<>>
    <3>1. Len(<<>>) = 0
      OBVIOUS
    <3> QED
      BY <2>1, <3>1, UptoIs
  <2>3. Spelled(Append(<<>>, run')) = <<>> \o Clusters(run')
    BY <2>1, <2>2, SpelledAppend
  <2>4. <<>> \o <<>> = <<>>
    OBVIOUS
  <2> QED
    BY <1>1, <2>1, <2>3, <2>4 DEF walked
<1>4. WalkInv'
  <2>1. Len(walked') = 0
    BY <1>3
  <2>2. table' \in Tables /\ first' \in Number
    BY <1>2 DEF TypeInv
  <2>3. Chain(first)'[0] = c
    BY <1>1, ChainFrom, ChainFollows
  <2> QED
    BY <1>0, <1>1, <1>3, <2>1, <2>3 DEF WalkInv, IsChain
<1>5. BufferFits'
  BY <1>1 DEF BufferFits
<1>6. RecoveredIsChain'
  BY <1>1 DEF RecoveredIsChain, Recoverable
<1> QED
  BY <1>1, <1>2, <1>4, <1>5, <1>6 DEF Inv, ReadInv, FolderInv, EndlessOnlyInCircle, FolderIsChain

\* A turn of ReadListClusters keeps the invariant.
LEMMA WalkStep ==
  ASSUME TypeInv, WalkInv, Walk
  PROVE  Inv'
<1>0. /\ pc = "walk" /\ Len(walked) < MaxWalk /\ UNCHANGED <<table, bad, first, readVars, folder>>
      /\ iRun = 1 /\ mem = <<>>
  BY DEF Walk, WalkInv
<1>a. /\ MaxWalk \in Nat /\ DWord \in Nat /\ Number = 0 .. DWord - 1
      /\ bad_cluster_fat32 = Mask - 9 /\ end_cluster_fat32 = Mask - 1 /\ Mask \in Nat
  BY Geometry DEF Number
<1>1. /\ table \in Tables /\ first \in Number /\ cluster \in Number /\ cluster \in Nat
      /\ run \in Packed /\ runs \in Runs /\ runs \in Seq(Packed)
      /\ run.count = 0 => run.number = cluster
      /\ loaded \subseteq 0 .. (Cells \div CellsPerSector) - 1
  <2>1. runs \in Runs
    BY DEF TypeInv, TypeOK, Runs
  <2> QED
    BY <1>0, <1>a, <2>1, RunsArePacked DEF TypeInv, TypeOK, WalkInv, Packed
<1>2. PICK w \in Seq(Int) : w = walked
  BY <1>1, Taken
<1>3. /\ Len(w) \in Nat /\ Len(w) < MaxWalk /\ IsChain(w) /\ cluster = Chain(first)[Len(w)]
      /\ \A i \in 0 .. Len(w) - 1 :
           InTable(Chain(first)[i]) /\ Chain(first)[i] # end_cluster_fat32
  BY <1>0, <1>2 DEF WalkInv
<1>4. CASE cluster = end_cluster_fat32
  <2>1. EndWalk(run, runs) /\ loaded' = loaded /\ cluster' = cluster
    BY <1>4 DEF Walk
  <2>2. Ended(w)
    <3>1. Chain(first)[Len(w)] \in {end_cluster_fat32, bad_cluster_fat32} /\ Len(w) <= MaxWalk
      BY <1>3, <1>4, <1>a
    <3>2. \A i \in 0 .. Len(w) - 2 : i \in 0 .. Len(w) - 1
      BY <1>3
    <3> QED
      BY <1>3, <3>1, <3>2 DEF Ended
  <2>3. Spelled(Append(runs, run)) = w
    BY <1>2 DEF walked
  <2> QED
    BY <1>0, <1>1, <2>1, <2>2, <2>3, EndWalkStep
<1>5. CASE cluster # end_cluster_fat32 /\ TableThrows(cluster)
  <2>1. pc' = "thrown" /\ UNCHANGED <<loaded, cluster, run, runs>>
    BY <1>5 DEF Walk
  <2>2. TypeInv'
    BY <1>0, <2>1 DEF TypeInv, TypeOK, readVars
  <2> QED
    BY <2>1, <2>2 DEF Inv, WalkInv, ReadInv, FolderInv, BufferFits, RecoveredIsChain,
                      EndlessOnlyInCircle, FolderIsChain
<1>6. CASE cluster # end_cluster_fat32 /\ ~TableThrows(cluster)
  <2>b. PICK v : v = w \o <<cluster>>
    OBVIOUS
  <2>1. /\ Load(cluster) /\ cluster' = Follow(cluster)
        /\ IF StopsWalk(Follow(cluster))
           THEN EndWalk(NextRun, NextRuns)
           ELSE run' = NextRun /\ runs' = NextRuns /\ UNCHANGED pc
    BY <1>6, Zenon DEF Walk, NextRun, NextRuns
  <2>2. /\ NextRun \in [number : Nat, count : Nat \ {0}] /\ NextRun \in Packed /\ NextRuns \in Runs
        /\ Spelled(Append(NextRuns, NextRun)) = v
    BY <1>1, <1>2, <2>b, Taken DEF Packed
  <2>3. v \in Seq(Int) /\ Len(v) = Len(w) + 1 /\ v[Len(w) + 1] = cluster
        /\ \A i \in 1 .. Len(w) : v[i] = w[i]
    BY <1>1, <1>2, <2>b
  <2>4. IsChain(v)
    <3>1. \A i \in 1 .. Len(w) : v[i] = Chain(first)[i - 1]
      BY <1>3, <2>3 DEF IsChain
    <3>2. v[Len(w) + 1] = Chain(first)[(Len(w) + 1) - 1]
      BY <1>3, <2>3
    <3>3. \A i \in 1 .. Len(v) : i \in 1 .. Len(w) \/ i = Len(w) + 1
      BY <1>3, <2>3
    <3> QED
      BY <3>1, <3>2, <3>3 DEF IsChain
  <2>5. /\ Follow(cluster) = Chain(first)[Len(w) + 1] /\ Follow(cluster) \in Number
        /\ ~InTable(cluster) => Follow(cluster) = bad_cluster_fat32
    BY <1>1, <1>3, <1>a, FollowIs, ChainNext
  <2>6. loaded' \subseteq 0 .. (Cells \div CellsPerSector) - 1
    BY <1>1, <2>1, LoadTyped
  <2>a. \A i \in 0 .. Len(w) : Chain(first)[i] # end_cluster_fat32
    BY <1>3, <1>6
  <2>7. CASE StopsWalk(Follow(cluster))
    <3>1. Ended(v)
      <4>1. /\ Len(v) <= MaxWalk
            /\ Chain(first)[Len(v)] \in {end_cluster_fat32, bad_cluster_fat32}
        BY <1>3, <1>a, <2>3, <2>5, <2>7 DEF StopsWalk
      <4>2. Len(v) - 2 = Len(w) - 1 /\ Len(v) - 1 = Len(w)
        BY <1>3, <2>3
      <4> QED
        BY <1>3, <2>4, <2>a, <4>1, <4>2 DEF Ended
    <3>2. EndWalk(NextRun, NextRuns) /\ cluster' \in Number
      BY <2>1, <2>5, <2>7
    <3> QED
      BY <1>0, <1>1, <2>2, <2>6, <3>1, <3>2, EndWalkStep
  <2>8. CASE ~StopsWalk(Follow(cluster))
    <3>1. run' = NextRun /\ runs' = NextRuns /\ pc' = pc /\ cluster' = Follow(cluster)
      BY <2>1, <2>8
    <3>2. TypeInv'
      <4>1. run' \in [number : Nat, count : Nat] /\ cluster' \in 0 .. DWord - 1
            /\ runs' \in Seq([number : Nat, count : Nat \ {0}])
        BY <1>a, <2>2, <2>5, <3>1 DEF Runs
      <4> QED
        BY <1>0, <2>6, <3>1, <4>1 DEF TypeInv, TypeOK, readVars
    <3>3. walked' = v
      BY <2>2, <3>1 DEF walked
    <3>4. InTable(cluster)
      BY <2>5, <2>8 DEF StopsWalk
    <3>5. WalkInv'
      <4>1. Chain(first)' = Chain(first) /\ IsChain(v)'
        BY <1>0, <2>4, ChainKept
      <4>2. cluster' = Chain(first)[Len(v)]
        BY <2>3, <2>5, <3>1
      <4>3. \A i \in 0 .. Len(v) - 1 :
               InTable(Chain(first)[i]) /\ Chain(first)[i] # end_cluster_fat32
        <5>1. \A i \in 0 .. Len(v) - 1 : i \in 0 .. Len(w) - 1 \/ i = Len(w)
          BY <1>3, <2>3
        <5> QED
          BY <1>3, <1>6, <3>4, <5>1
      <4>4. run'.count # 0
        BY <2>2, <3>1
      <4>5. iRun' = 1 /\ mem' = <<>> /\ Len(v) <= MaxWalk
        BY <1>0, <1>3, <1>a, <2>3 DEF readVars
      <4>6. IsChain(walked)'
        BY <3>3, <4>1 DEF IsChain
      <4> QED
        BY <3>3, <4>1, <4>2, <4>3, <4>4, <4>5, <4>6 DEF WalkInv
    <3> QED
      BY <1>0, <3>1, <3>2, <3>5 DEF Inv, ReadInv, FolderInv, BufferFits, RecoveredIsChain,
                          EndlessOnlyInCircle, FolderIsChain
  <2> QED
    BY <2>7, <2>8
<1> QED
  BY <1>4, <1>5, <1>6

\* A walk that has taken MaxWalk clusters took each of them from the table, which
\* has fewer: it came to one of them twice.
LEMMA ExhaustedStep ==
  ASSUME Inv, Exhausted
  PROVE  Inv'
<1> DEFINE F == Chain(first)
           L == MaxWalk - 1
<1>0. /\ pc' = "exhausted" /\ UNCHANGED <<table, bad, loaded, walkVars, readVars, folder>>
      /\ MaxWalk \in Nat /\ Cells \in Nat \ {0} /\ MaxWalk > Cells + 1 /\ max_cluster = Cells
      /\ bad_cluster_fat32 = Mask - 9 /\ Cells < Mask - 9 /\ Mask \in Nat /\ DWord \in Nat
  BY Geometry DEF Exhausted
<1>1. TypeInv'
  BY <1>0 DEF Inv, TypeInv, TypeOK, walkVars, readVars
<1>2. table \in Tables /\ first \in Number
  BY DEF Inv, TypeInv
<1>3. \A n \in 0 .. MaxWalk : F[n] \in Nat
  BY <1>0, <1>2, ChainNext DEF Number
<1>4. \A i \in 0 .. L : F[i] \in 0 .. Cells - 1
  <2>1. CASE pc = "walk" /\ Len(walked) >= MaxWalk
    <3>1. \A i \in 0 .. L : InTable(F[i])
      <4>1. Len(walked) \in Nat
        BY <2>1, Taken, RunsArePacked, Geometry DEF Inv, TypeInv, TypeOK, WalkInv, Packed, Runs
      <4> QED
        BY <1>0, <2>1, <4>1 DEF Inv, WalkInv
    <3> HIDE DEF F
    <3> QED
      BY <1>0, <1>3, <3>1 DEF InTable
  <2>2. CASE pc = "folder" /\ Len(folder) >= MaxWalk
    <3>1. \A i \in 0 .. L : F[i] <= Cells
      BY <1>0, <2>2 DEF Inv, FolderInv
    <3>2. \A i \in 0 .. L - 1 : F[i] # Cells
      <4> SUFFICES ASSUME NEW i \in 0 .. L - 1, F[i] = Cells PROVE FALSE
        OBVIOUS
      <4>1. F[i + 1] = bad_cluster_fat32
        BY <1>0, <1>2, ChainNext DEF InTable
      <4>2. i + 1 \in 0 .. L
        BY <1>0
      <4> HIDE DEF F
      <4> QED
        BY <1>0, <3>1, <4>1, <4>2
    <3>3. F[L] # Cells
      <4> SUFFICES ASSUME F[L] = Cells PROVE FALSE
        OBVIOUS
      <4>1. \A i \in 0 .. L - 1 : F[i] \in 0 .. Cells - 1
        <5> HIDE DEF F
        <5> QED
          BY <1>0, <1>3, <3>1, <3>2
      <4>2. PICK i \in 0 .. L - 1, j \in 0 .. L - 1 : i < j /\ F[i] = F[j]
        <5> HIDE DEF F
        <5>1. L \in Nat /\ Cells \in Nat /\ Cells < L /\ \A i \in 0 .. L - 1 : F[i] \in 0 .. Cells - 1
          BY <1>0, <4>1
        <5> HIDE DEF L
        <5>2. \E i, j \in 0 .. L - 1 : i < j /\ F[i] = F[j]
          BY ONLY <5>1, ComesBack
        <5> QED
          BY <5>2
      <4>3. PICK n \in Nat : j + n = L /\ i + n \in 0 .. L - 1
        <5>1. L - j \in Nat /\ j + (L - j) = L /\ i + (L - j) \in 0 .. L - 1
          BY <1>0, <4>2
        <5> QED
          BY <5>1
      <4>4. F[i + n] = F[j + n]
        BY <1>0, <1>2, <4>2, <4>3, SameFrom
      <4> HIDE DEF F
      <4> QED
        BY <3>2, <4>3, <4>4
    <3> HIDE DEF F
    <3> QED
      BY <1>0, <1>3, <3>1, <3>2, <3>3
  <2> QED
    BY <2>1, <2>2 DEF Exhausted
<1>5. PICK i \in 0 .. L, j \in 0 .. L : i < j /\ F[i] = F[j]
  <2> HIDE DEF F
  <2> QED
    BY <1>0, <1>4, ComesBack
<1>6. F' = F
  BY <1>0, ChainKept DEF walkVars
<1>7. EndlessOnlyInCircle'
  <2> HIDE DEF F
  <2>1. (\A k \in 0 .. L : InTable(F[k]))
    BY <1>0, <1>4 DEF InTable
  <2>2. i \in 0 .. MaxWalk - 1 /\ j \in 0 .. MaxWalk - 1
    OBVIOUS
  <2>3. Chain(first)' = F
    BY <1>6 DEF F
  <2> QED
    BY <1>5, <2>1, <2>2, <2>3 DEF EndlessOnlyInCircle
<1> QED
  BY <1>0, <1>1, <1>7 DEF Inv, WalkInv, ReadInv, FolderInv, BufferFits, RecoveredIsChain, FolderIsChain

-----------------------------------------------------------------------------
(* ReadUsingFatTable                                                       *)

\* The sectors of a run, one cluster further.
LEMMA SectorsOf ==
  ASSUME NEW x \in Int, NEW n \in Int
  PROVE  /\ clusterSector(x) \in Int
         /\ clusterSector(x + n) = clusterSector(x) + n * SectorsPerCluster
         /\ clusterSector(x + n - 1) + SectorsPerCluster = clusterSector(x) + n * SectorsPerCluster
<1>1. SectorsPerCluster \in Nat /\ DataStart \in Nat
  BY Geometry
<1>2. (x + n - 2) * SectorsPerCluster = (x - 2) * SectorsPerCluster + n * SectorsPerCluster
  BY <1>1
<1>3. (x + n - 1 - 2) * SectorsPerCluster + SectorsPerCluster
        = (x - 2) * SectorsPerCluster + n * SectorsPerCluster
  BY <1>1
<1>4. PICK a \in Int, b \in Int, c \in Int, d \in Int :
        /\ a = (x - 2) * SectorsPerCluster /\ b = n * SectorsPerCluster
        /\ c = (x + n - 2) * SectorsPerCluster /\ d = (x + n - 1 - 2) * SectorsPerCluster
  BY <1>1
<1> QED
  BY <1>1, <1>2, <1>3, <1>4 DEF clusterSector

\* What the runs spell, the beginning that is read, and the run at which
\* ReadUsingFatTable is.
LEMMA RunSpells ==
  ASSUME TypeInv, ReadInv, pc = "read", NEW k \in 1 .. Len(runs)
  PROVE  LET l == Len(Upto(runs, k - 1))
             r == runs[k]
         IN /\ r \in Packed /\ r.count > 0
            /\ l \in Nat /\ Len(Upto(runs, k)) = l + r.count
            /\ Spelled(runs) \in Seq(Int) /\ l + r.count <= Len(Spelled(runs))
            /\ Len(Spelled(runs)) <= MaxWalk
            /\ \A q \in 1 .. r.count : Chain(first)[l + q - 1] = r.number + q - 1
<1> DEFINE u == Upto(runs, k - 1)
           v == Upto(runs, k)
           r == runs[k]
           c == Clusters(r)
           w == Spelled(runs)
<1>1. runs \in Seq(Packed) /\ r \in Packed /\ r.count > 0
  BY RunsArePacked DEF TypeInv, TypeOK, Runs
<1>2. u \in Seq(Int) /\ c \in Seq(Int) /\ w \in Seq(Int) /\ v = u \o c /\ Len(c) = r.count
  <2>1. k - 1 \in 0 .. Len(runs)
    OBVIOUS
  <2>2. u \in Numbers /\ v = u \o c
    BY <1>1, <2>1, UptoIs
  <2>3. c \in Numbers /\ Len(c) = r.count
    BY <1>1, ClustersTyped
  <2>4. w \in Numbers
    BY <1>1, WrittenTyped
  <2> QED
    BY <2>2, <2>3, <2>4 DEF Numbers
<1>3. Len(v) = Len(u) + Len(c) /\ \A q \in 1 .. Len(c) : v[Len(u) + q] = c[q]
  <2> HIDE DEF u, v, c, w, r
  <2> QED
    BY <1>2, Joined
<1>4. Len(v) <= Len(w) /\ \A i \in 1 .. Len(v) : v[i] = w[i]
  BY <1>1, UptoBegins DEF Begins
<1>5. Ended(w)
  BY DEF ReadInv
<1>6. ASSUME NEW q \in 1 .. r.count PROVE Chain(first)[Len(u) + q - 1] = r.number + q - 1
  <2>1. c[q] = r.number + q - 1
    BY DEF Clusters
  <2>2. Len(u) + q \in 1 .. Len(v) /\ Len(u) + q \in 1 .. Len(w) /\ v[Len(u) + q] = c[q]
    <3>1. Len(u) \in Nat /\ Len(w) \in Nat /\ q \in 1 .. Len(c)
      BY <1>2
    <3> HIDE DEF u, v, c, w, r
    <3> QED
      BY <1>3, <1>4, <3>1
  <2>3. w[Len(u) + q] = Chain(first)[Len(u) + q - 1]
    <3>1. \A i \in 1 .. Len(w) : w[i] = Chain(first)[i - 1]
      BY <1>5 DEF Ended, IsChain
    <3> HIDE DEF u, w
    <3> QED
      BY <2>2, <3>1
  <2>4. v[Len(u) + q] = w[Len(u) + q]
    BY <1>4, <2>2
  <2> QED
    BY <2>1, <2>2, <2>3, <2>4
<1>7. Len(u) \in Nat /\ Len(w) <= MaxWalk /\ Len(u) + r.count <= Len(w)
  BY <1>2, <1>3, <1>4, <1>5 DEF Ended
<1> QED
  BY <1>1, <1>2, <1>3, <1>6, <1>7

\* The runs of a recoverable file of n clusters are below 2^32 bytes.
LEMMA RecoverableRun ==
  ASSUME NEW n \in Nat, Recoverable(n), NEW m \in {n, n + 1}, NEW c \in Nat, c <= m
  PROVE  /\ c * SectorsPerCluster < DWordSectors
         /\ m * SectorsPerCluster < DWordSectors
<1>1. /\ SectorsPerCluster \in Nat /\ DWordSectors \in Nat
      /\ n * SectorsPerCluster < DWordSectors - SectorsPerCluster
  BY Geometry, DWords DEF Recoverable
<1>2. PICK a \in Nat : a = n * SectorsPerCluster
  BY <1>1
<1>3. PICK b \in Nat : b = m * SectorsPerCluster
  BY <1>1
<1>4. PICK d \in Nat : d = c * SectorsPerCluster
  BY <1>1
<1>5. b <= a + SectorsPerCluster
  <2>1. (n + 1) * SectorsPerCluster = a + SectorsPerCluster
    BY <1>1, <1>2
  <2> QED
    BY <1>1, <1>2, <1>3, <2>1
<1>6. d <= b
  BY <1>1, <1>3, <1>4
<1>7. a < DWordSectors - SectorsPerCluster
  BY <1>1, <1>2
<1>8. b < DWordSectors /\ d < DWordSectors
  BY <1>1, <1>5, <1>6, <1>7
<1> QED
  BY <1>3, <1>4, <1>8

\* Where a run of a recoverable file of n clusters lies: in front of the n-th
\* cluster, and in the partition, or behind it, and not in the partition.
LEMMA RunPlace ==
  ASSUME TypeInv, ReadInv, pc = "read", NEW k \in 1 .. Len(runs),
         NEW n \in 1 .. Cells, Recoverable(n)
  PROVE  LET l == Len(Upto(runs, k - 1))
             r == runs[k]
             in == RunInPartition(PartStart + clusterSector(r.number), sectorsToRead(r))
         IN \/ l + r.count <= n /\ in
            \/ l >= n /\ ~in
<1> DEFINE F == Chain(first)
           l == Len(Upto(runs, k - 1))
           x == runs[k].number
           c == runs[k].count
<1>0. /\ Mask \in Nat /\ Cells \in Nat /\ SectorsPerCluster \in Nat \ {0} /\ PartStart \in Nat
      /\ PartSectors \in Nat /\ DataStart \in Nat /\ n \in Nat
      /\ bad_cluster_fat32 = Mask - 9 /\ EndMarks = Mask - 8 .. Mask - 1
      /\ count_cluster \in Int /\ PartSectors - DataStart < (count_cluster + 1) * SectorsPerCluster
  BY Geometry, CountIs
<1>1. /\ l \in Nat /\ x \in Nat /\ c \in Nat \ {0} /\ l + c <= Len(Spelled(runs))
      /\ \A q \in 1 .. c : F[l + q - 1] = x + q - 1
  <2>1. /\ l \in Nat /\ runs[k] \in Packed /\ runs[k].count > 0 /\ l + c <= Len(Spelled(runs))
        /\ \A q \in 1 .. c : F[l + q - 1] = x + q - 1
    BY RunSpells
  <2>2. x \in Nat /\ c \in Nat \ {0}
    BY <2>1 DEF Packed
  <2> QED
    BY <2>1, <2>2
<1>2. Len(Spelled(runs)) \in {n, n + 1}
  <2>1. Spelled(runs) \in Seq(Int) /\ Ended(Spelled(runs))
    BY RunSpells DEF ReadInv
  <2> QED
    BY <2>1, EndedLength
<1>3. /\ \A i \in 0 .. n - 1 : F[i] \in 2 .. count_cluster + 1
      /\ F[n] \in Mask - 8 .. Mask - 1 /\ count_cluster + 1 < Mask - 9
      /\ \A i \in 0 .. n - 1 : PartStart + clusterSector(F[i]) + SectorsPerCluster < PartSectors
  BY <1>0 DEF Recoverable, Intact, DataClusters
<1> HIDE DEF F, l, x, c
<1>a. PICK s \in Int : s = clusterSector(x)
  BY <1>0, <1>1, SectorsOf
<1>b. PICK t \in Int : t = c * SectorsPerCluster
  BY <1>0, <1>1
<1>4. s = clusterSector(x) /\ t = c * SectorsPerCluster /\ t < DWordSectors /\ sectorsToRead(runs[k]) = t
  <2>1. c * SectorsPerCluster < DWordSectors
    BY <1>0, <1>1, <1>2, RecoverableRun
  <2>2. sectorsToRead(runs[k]) = c * SectorsPerCluster
    BY <1>1, <2>1, ReadSizes DEF c
  <2> QED
    BY <1>a, <1>b, <2>1, <2>2
<1>5. CASE l + c <= n
  <2>1. F[l + c - 1] = x + c - 1 /\ l + c - 1 \in 0 .. n - 1
    <3>1. c \in 1 .. c
      BY <1>1
    <3> QED
      BY <1>0, <1>1, <1>5, <3>1
  <2>2. PartStart + clusterSector(x + c - 1) + SectorsPerCluster < PartSectors
    BY <1>3, <2>1
  <2>3. clusterSector(x + c - 1) + SectorsPerCluster = s + t /\ clusterSector(x + c - 1) \in Int
    <3>1. /\ clusterSector(x + c - 1) + SectorsPerCluster = clusterSector(x) + c * SectorsPerCluster
          /\ x + c - 1 \in Int
      BY <1>1, SectorsOf
    <3> QED
      BY <1>4, <3>1, SectorsOf
  <2>4. PartStart + s + t < PartSectors
    BY <1>0, <2>2, <2>3
  <2> QED
    BY <1>0, <1>4, <1>5, <2>4 DEF RunInPartition, l, x, c
<1>6. CASE l + c > n
  <2>1. l + c = n + 1
    BY <1>0, <1>1, <1>2, <1>6
  <2>2. ~(l < n)
    <3> SUFFICES ASSUME l < n PROVE FALSE
      OBVIOUS
    <3>1. n - l \in 1 .. c /\ n - l + 1 \in 1 .. c /\ l + (n - l) - 1 = n - 1 /\ l + (n - l + 1) - 1 = n
      BY <1>0, <1>1, <2>1
    <3>2. F[n - 1] = x + (n - l) - 1 /\ F[n] = x + (n - l + 1) - 1
      BY <1>1, <3>1
    <3>3. F[n - 1] \in 2 .. count_cluster + 1 /\ F[n] \in Mask - 8 .. Mask - 1
      BY <1>0, <1>3
    <3> QED
      BY <1>0, <1>1, <1>3, <2>1, <3>2, <3>3
  <2>3. l = n /\ c = 1
    BY <1>0, <1>1, <2>1, <2>2
  <2>4. x = F[n]
    BY <1>0, <1>1, <2>3
  <2>5. x - 2 >= count_cluster + 1 /\ t = SectorsPerCluster
    BY <1>0, <1>3, <1>4, <2>3, <2>4
  <2>6. (x - 2) * SectorsPerCluster >= (count_cluster + 1) * SectorsPerCluster
    BY <1>0, <1>1, <2>5
  <2>7. (x - 2) * SectorsPerCluster \in Int /\ (count_cluster + 1) * SectorsPerCluster \in Int
    BY <1>0, <1>1
  <2>8. ~(PartStart + s + t < PartSectors)
    <3>1. PICK a \in Int : a = (x - 2) * SectorsPerCluster
      BY <2>7
    <3>2. PICK b \in Int : b = (count_cluster + 1) * SectorsPerCluster
      BY <2>7
    <3>3. s = a + DataStart /\ t = SectorsPerCluster /\ a >= b /\ PartSectors - DataStart < b
      BY <1>0, <1>4, <2>5, <2>6, <3>1, <3>2 DEF clusterSector
    <3> QED
      BY <1>0, <3>3
  <2> QED
    BY <1>0, <1>4, <2>3, <2>8 DEF RunInPartition, l, x, c
<1> QED
  <2>1. l + c <= n \/ l + c > n
    BY <1>0, <1>1
  <2> QED
    BY <1>5, <1>6, <2>1

\* The sector of a cluster is a number.
LEMMA SectorTyped ==
  ASSUME NEW x \in Int
  PROVE  clusterSector(x) \in Int /\ PartStart + clusterSector(x) \in Int
<1>1. SectorsPerCluster \in Nat /\ DataStart \in Nat /\ PartStart \in Nat
  BY Geometry
<1>2. PICK a \in Int : a = (x - 2) * SectorsPerCluster
  BY <1>1
<1> QED
  BY <1>1, <1>2 DEF clusterSector

\* The place of the j-th sector of the i-th of n clusters.
LEMMA Places ==
  ASSUME NEW n \in Nat, NEW i \in 1 .. n, NEW j \in 1 .. SectorsPerCluster
  PROVE  /\ (i - 1) * SectorsPerCluster \in Nat /\ n * SectorsPerCluster \in Nat
         /\ (i - 1) * SectorsPerCluster + j \in 1 .. n * SectorsPerCluster
<1>1. SectorsPerCluster \in Nat
  BY Geometry
<1>2. (i - 1) * SectorsPerCluster \in Nat /\ n * SectorsPerCluster \in Nat
  BY <1>1
<1>3. (i - 1) * SectorsPerCluster + SectorsPerCluster = i * SectorsPerCluster
  BY <1>1
<1>4. i * SectorsPerCluster <= n * SectorsPerCluster /\ i * SectorsPerCluster \in Int
  BY <1>1
<1>5. PICK a \in Nat : a = (i - 1) * SectorsPerCluster
  BY <1>2
<1>6. PICK b \in Nat : b = n * SectorsPerCluster
  BY <1>2
<1>7. a + SectorsPerCluster <= b
  BY <1>3, <1>4, <1>5, <1>6
<1>8. a + j \in 1 .. b
  BY <1>1, <1>7
<1> QED
  BY <1>5, <1>6, <1>8

\* What the buffer holds stays with the buffer and the chain.
LEMMA HoldsKept ==
  ASSUME UNCHANGED <<table, first, mem>>
  PROVE  \A m : Holds(m)' <=> Holds(m)
<1>1. Chain(first)' = Chain(first) /\ mem' = mem
  BY ChainKept
<1> QED
  BY <1>1 DEF Holds

\* A run that is read continues the clusters that the buffer holds.
LEMMA RunIsHeld ==
  ASSUME TypeInv, UNCHANGED <<table, first>>,
         NEW l \in Nat, Holds(l), NEW x \in Nat, NEW c \in Nat,
         \A q \in 1 .. c : Chain(first)[l + q - 1] = x + q - 1,
         mem' = mem \o [i \in 1 .. c * SectorsPerCluster |-> PartStart + clusterSector(x) + i - 1]
  PROVE  Holds(l + c)'
<1> DEFINE n == c * SectorsPerCluster
           b == [i \in 1 .. n |-> PartStart + clusterSector(x) + i - 1]
           F == Chain(first)
<1>a. SectorsPerCluster \in Nat /\ PartStart \in Nat
  BY Geometry
<1>b. n \in Nat
  BY <1>a
<1>c. clusterSector(x) \in Int
  BY SectorTyped
<1>0. SectorsPerCluster \in Nat /\ PartStart \in Nat /\ clusterSector(x) \in Int /\ n \in Nat
  BY <1>a, <1>b, <1>c
<1>1. /\ mem \in Seq(Int) /\ b \in Seq(Int) /\ Len(b) = n
      /\ Len(mem) = l * SectorsPerCluster /\ mem' = mem \o b
  BY <1>0 DEF TypeInv, Holds
<1>2. /\ Len(mem') = Len(mem) + Len(b)
      /\ \A i \in 1 .. Len(mem) : mem'[i] = mem[i]
      /\ \A i \in 1 .. Len(b) : mem'[Len(mem) + i] = b[i]
  <2> HIDE DEF b, n
  <2>1. mem \in Seq(Int) /\ b \in Seq(Int) /\ mem' = mem \o b
    BY <1>1
  <2>2. /\ Len(mem \o b) = Len(mem) + Len(b)
        /\ \A i \in 1 .. Len(mem) : (mem \o b)[i] = mem[i]
        /\ \A i \in 1 .. Len(b) : (mem \o b)[Len(mem) + i] = b[i]
    BY <2>1, Joined
  <2> QED
    BY <2>1, <2>2
<1>3. Len(mem') = (l + c) * SectorsPerCluster
  <2>1. (l + c) * SectorsPerCluster = l * SectorsPerCluster + n
    BY <1>0
  <2> QED
    BY <1>1, <1>2, <2>1
<1>4. ASSUME NEW i \in 1 .. l + c, NEW j \in 1 .. SectorsPerCluster
      PROVE  mem'[(i - 1) * SectorsPerCluster + j] = PartStart + clusterSector(F[i - 1]) + j - 1
  <2> HIDE DEF b, F, n
  <2>1. CASE i <= l
    <3>1. (i - 1) * SectorsPerCluster + j \in 1 .. Len(mem)
      <4>1. i \in 1 .. l
        BY <2>1
      <4> QED
        BY <1>1, <4>1, Places
    <3>2. mem[(i - 1) * SectorsPerCluster + j] = PartStart + clusterSector(F[i - 1]) + j - 1
      BY <2>1 DEF Holds, F
    <3> QED
      BY <1>2, <3>1, <3>2
  <2>2. CASE i > l
    <3>1. PICK q \in 1 .. c : i = l + q
      <4>1. i - l \in 1 .. c /\ i = l + (i - l)
        BY <2>2
      <4> QED
        BY <4>1
    <3>2. PICK p \in Nat : p = (q - 1) * SectorsPerCluster
      BY <1>0
    <3>3. p + j \in 1 .. n
      BY <3>2, Places DEF n
    <3>4. (i - 1) * SectorsPerCluster = l * SectorsPerCluster + p
      BY <1>0, <3>1, <3>2
    <3>5. l * SectorsPerCluster \in Nat
      BY <1>0
    <3>6. (i - 1) * SectorsPerCluster + j = Len(mem) + (p + j)
      BY <1>0, <1>1, <3>4, <3>5
    <3>7. mem'[(i - 1) * SectorsPerCluster + j] = b[p + j]
      BY <1>1, <1>2, <3>3, <3>6
    <3>8. b[p + j] = PartStart + clusterSector(x) + p + j - 1
      BY <1>0, <3>2, <3>3 DEF b
    <3>9. F[i - 1] = x + (q - 1)
      <4>1. F[l + q - 1] = x + q - 1
        BY DEF F
      <4> QED
        BY <3>1, <4>1
    <3>10. clusterSector(F[i - 1]) = clusterSector(x) + p
      BY <3>2, <3>9, SectorsOf
    <3>11. PICK y \in Int : y = clusterSector(x)
      BY <1>0
    <3>12. b[p + j] = PartStart + (y + p) + j - 1
      BY <1>0, <3>8, <3>11
    <3> QED
      BY <3>7, <3>10, <3>11, <3>12
  <2>3. i <= l \/ i > l
    OBVIOUS
  <2> QED
    BY <2>1, <2>2, <2>3
<1>5. Chain(first)' = F
  BY ChainKept
<1> QED
  BY <1>3, <1>4, <1>5 DEF Holds

\* A run that is left out is behind a recoverable file, or the file is not
\* recoverable; one that is read continues it, and fits the buffer.
LEMMA ReadRunStep ==
  ASSUME Inv, ReadRun
  PROVE  Inv'
<1>0. /\ pc = "read" /\ iRun \in DOMAIN runs /\ TypeInv /\ ReadInv
      /\ UNCHANGED <<table, bad, loaded, walkVars, target, folder>> /\ iRun' = iRun + 1
      /\ table' = table /\ first' = first /\ runs' = runs
      /\ SectorsPerCluster \in Nat \ {0} /\ DWord \in Nat /\ Cells \in Nat
  BY Geometry DEF ReadRun, Inv, walkVars
<1>1. PICK k \in 1 .. Len(runs) : k = iRun
  BY <1>0 DEF TypeInv, TypeOK
<1> DEFINE L(i) == Len(Upto(runs, i))
<1>2. /\ runs[k] \in Packed /\ runs[k].count > 0 /\ L(k - 1) \in Nat
      /\ L(k) = L(k - 1) + runs[k].count
      /\ Spelled(runs) \in Seq(Int) /\ L(k - 1) + runs[k].count <= Len(Spelled(runs))
      /\ Len(Spelled(runs)) <= MaxWalk
      /\ \A q \in 1 .. runs[k].count : Chain(first)[L(k - 1) + q - 1] = runs[k].number + q - 1
  BY <1>0, RunSpells
<1>3. PICK l \in Nat, x \in Nat, c \in Nat \ {0} :
        l = L(k - 1) /\ x = runs[k].number /\ c = runs[k].count
  <2>1. runs[k].number \in Nat /\ runs[k].count \in Nat \ {0}
    BY <1>2 DEF Packed
  <2>2. L(k - 1) \in Nat
    BY <1>2
  <2> HIDE DEF L
  <2> QED
    BY ONLY <2>1, <2>2
<1>4. /\ L(k) = l + c /\ l + c <= Len(Spelled(runs))
      /\ \A q \in 1 .. c : Chain(first)[l + q - 1] = x + q - 1
  BY <1>2, <1>3
<1> HIDE DEF L
<1>5. PICK n \in Nat, s \in Int : n = c * SectorsPerCluster /\ s = PartStart + clusterSector(x)
  <2>1. c * SectorsPerCluster \in Nat
    BY <1>0
  <2>2. PartStart + clusterSector(x) \in Int
    BY SectorTyped
  <2> QED
    BY <2>1, <2>2
<1>a. PICK size \in Nat, t \in Nat : size = readSize(runs[k]) /\ t = sectorsToRead(runs[k])
  <2>1. runs[k].count \in Nat
    BY <1>3
  <2>2. readSize(runs[k]) \in Nat /\ sectorsToRead(runs[k]) \in Nat
    BY <2>1, ReadSizes
  <2> QED
    BY <2>2
<1>b. size <= n /\ (n < DWordSectors => size = n /\ t = n)
  <2>1. runs[k].count \in Nat /\ runs[k].count * SectorsPerCluster = n
    BY <1>3, <1>5
  <2> QED
    BY <1>a, <2>1, ReadSizes
<1> DEFINE fails == size = 0 \/ ReadThrows(s, size)
           overruns == Len(mem) + size > SizeOf(runs)
<1>6. IF ~RunInPartition(s, t)
      THEN UNCHANGED <<pc, mem>>
      ELSE IF fails \/ overruns
      THEN pc' \in {"thrown", "overrun"} /\ (pc' = "overrun" => overruns) /\ UNCHANGED mem
      ELSE mem' = mem \o [i \in 1 .. size |-> s + i - 1] /\ UNCHANGED pc
  BY <1>1, <1>3, <1>5, <1>a DEF ReadRun
<1> HIDE DEF fails, overruns
<1>7. Len(mem) \in Nat /\ Len(mem) <= l * SectorsPerCluster
  BY <1>0, <1>1, <1>3 DEF ReadInv, L, TypeInv
<1>8. \A N \in 1 .. Cells : Recoverable(N) => (l <= N /\ Holds(l)) \/ (l > N /\ Holds(N))
  BY <1>0, <1>1, <1>3 DEF ReadInv, L
<1>9. \A N \in 1 .. Cells : Recoverable(N) =>
         \/ l + c <= N /\ RunInPartition(s, t)
         \/ l >= N /\ ~RunInPartition(s, t)
  BY <1>0, <1>3, <1>5, <1>a, RunPlace DEF L
<1>10. PICK w \in Seq(Int) : w = Spelled(runs) /\ Ended(w)
  BY <1>0, <1>2 DEF ReadInv
<1>11. /\ Ended(Spelled(runs))' /\ L(iRun - 1)' = l + c /\ iRun' \in 1 .. Len(runs') + 1
       /\ \A N : Recoverable(N)' <=> Recoverable(N)
  <2>1. Ended(w)' /\ \A N : Recoverable(N)' <=> Recoverable(N)
    BY <1>0, <1>10, ChainKept
  <2>2. Spelled(runs)' = w
    BY <1>0, <1>10
  <2>3. L(iRun - 1)' = L(k)
    BY <1>0, <1>1 DEF L
  <2>4. iRun' \in 1 .. Len(runs') + 1
    BY <1>0, <1>1
  <2> QED
    BY <1>4, <2>1, <2>2, <2>3, <2>4
<1>12. l * SectorsPerCluster \in Nat /\ (l + c) * SectorsPerCluster = l * SectorsPerCluster + n
  BY <1>0, <1>5
<1>13. ASSUME pc' = "read", TypeInv', Len(mem') \in Nat, Len(mem') <= (l + c) * SectorsPerCluster,
              \A N \in 1 .. Cells : Recoverable(N) =>
                 (l + c <= N /\ Holds(l + c)') \/ (l + c > N /\ Holds(N)')
       PROVE  Inv'
  <2>1. Len(Upto(runs, iRun - 1))' = l + c
    BY <1>11 DEF L
  <2>2. ReadInv'
    BY <1>11, <1>13, <2>1 DEF ReadInv
  <2>3. BufferFits'
    BY <1>13 DEF BufferFits
  <2> QED
    BY <1>13, <2>2, <2>3 DEF Inv, WalkInv, FolderInv, RecoveredIsChain, EndlessOnlyInCircle, FolderIsChain
<1>14. CASE ~RunInPartition(s, t)
  <2>1. pc' = pc /\ mem' = mem
    BY <1>6, <1>14
  <2>2. TypeInv'
    BY <1>0, <2>1 DEF TypeInv, TypeOK, walkVars
  <2>3. \A N : Holds(N)' <=> Holds(N)
    BY <1>0, <2>1, HoldsKept
  <2>4. ASSUME NEW N \in 1 .. Cells, Recoverable(N) PROVE l + c > N /\ Holds(N)'
    <3>1. l >= N /\ N \in Nat
      BY <1>9, <1>14, <2>4
    <3>2. Holds(N)
      BY <1>8, <2>4, <3>1
    <3> QED
      BY <2>3, <3>1, <3>2
  <2>5. Len(mem') \in Nat /\ Len(mem') <= (l + c) * SectorsPerCluster
    BY <1>5, <1>7, <1>12, <2>1
  <2> QED
    BY <1>0, <1>13, <2>1, <2>2, <2>4, <2>5
<1>15. CASE RunInPartition(s, t) /\ (fails \/ overruns)
  <2>1. pc' \in {"thrown", "overrun"} /\ (pc' = "overrun" => overruns) /\ mem' = mem
    BY <1>6, <1>15
  <2>2. TypeInv'
    BY <1>0, <2>1 DEF TypeInv, TypeOK, walkVars
  <2>3. BufferFits'
    <3> SUFFICES ASSUME overruns, ~(Len(w) * SectorsPerCluster >= DWordSectors) PROVE FALSE
      <4>1. Spelled(runs)' = w
        BY <1>0, <1>10
      <4> QED
        BY <2>1, <4>1 DEF BufferFits
    <3>1. SizeOf(runs) = Len(w) * SectorsPerCluster
      <4>1. Len(w) * SectorsPerCluster < DWordSectors
        BY <1>10, Sizes, DWords
      <4> QED
        BY <1>10, <4>1, Sizes DEF SizeOf
    <3>2. (l + c) * SectorsPerCluster <= Len(w) * SectorsPerCluster
      <4>1. Len(w) \in Nat /\ l + c <= Len(w) /\ l + c \in Nat
        BY <1>4, <1>10
      <4> QED
        BY <1>0, <4>1, Scaled
    <3>3. (l + c) * SectorsPerCluster \in Nat /\ Len(w) * SectorsPerCluster \in Nat
      BY <1>0, <1>10
    <3>4. Len(mem) + size <= l * SectorsPerCluster + n
      BY <1>5, <1>7, <1>12, <1>b
    <3>5. Len(mem) + size > SizeOf(runs)
      BY DEF overruns
    <3> QED
      BY <1>7, <1>12, <3>1, <3>2, <3>3, <3>4, <3>5
  <2> QED
    BY <2>1, <2>2, <2>3 DEF Inv, WalkInv, ReadInv, FolderInv, RecoveredIsChain,
                      EndlessOnlyInCircle, FolderIsChain
<1>16. CASE RunInPartition(s, t) /\ ~(fails \/ overruns)
  <2> DEFINE b == [i \in 1 .. size |-> s + i - 1]
  <2>1. mem' = mem \o b /\ pc' = pc
    BY <1>6, <1>16
  <2>2. /\ mem \in Seq(Int) /\ b \in Seq(Int) /\ Len(b) = size
        /\ \A i \in 1 .. size : b[i] \in 0 .. DeviceSectors - 1
    BY <1>0, <1>16, Geometry DEF TypeInv, ReadThrows, fails
  <2>3. /\ mem' \in Seq(Int) /\ Len(mem') = Len(mem) + size
        /\ \A i \in 1 .. Len(mem) : mem'[i] = mem[i]
        /\ \A i \in 1 .. size : mem'[Len(mem) + i] = b[i]
    <3> HIDE DEF b
    <3>1. /\ mem \o b \in Seq(Int) /\ Len(mem \o b) = Len(mem) + Len(b)
          /\ \A i \in 1 .. Len(mem) : (mem \o b)[i] = mem[i]
          /\ \A i \in 1 .. Len(b) : (mem \o b)[Len(mem) + i] = b[i]
      BY <2>2, Joined
    <3> QED
      BY <2>1, <2>2, <3>1
  <2>4. TypeInv'
    <3>1. \A i \in 1 .. Len(mem) : mem[i] \in 0 .. DeviceSectors - 1
      <4>1. \A i \in DOMAIN mem : mem[i] \in 0 .. DeviceSectors - 1
        BY <1>0 DEF TypeInv, TypeOK
      <4> QED
        BY <2>2, <4>1
    <3>2. ASSUME NEW i \in 1 .. Len(mem') PROVE mem'[i] \in 0 .. DeviceSectors - 1
      <4> HIDE DEF b
      <4>1. CASE i <= Len(mem)
        <5>1. i \in 1 .. Len(mem)
          BY <1>7, <2>3, <4>1
        <5> QED
          BY <2>3, <3>1, <5>1
      <4>2. CASE i > Len(mem)
        <5>1. i - Len(mem) \in 1 .. size /\ i = Len(mem) + (i - Len(mem))
          BY <1>7, <2>3, <4>2
        <5> QED
          BY <2>2, <2>3, <5>1
      <4> QED
        BY <1>7, <2>3, <4>1, <4>2
    <3>3. DOMAIN mem' = 1 .. Len(mem')
      BY <2>3
    <3>4. {mem[i] : i \in DOMAIN mem}' \subseteq 0 .. DeviceSectors - 1
      BY <3>2, <3>3
    <3> HIDE DEF b
    <3> QED
      BY <1>0, <2>1, <2>3, <3>4 DEF TypeInv, TypeOK, walkVars
  <2>5. ASSUME NEW N \in 1 .. Cells, Recoverable(N) PROVE l + c <= N /\ Holds(l + c)'
    <3>1. l + c <= N /\ N \in Nat
      BY <1>9, <1>16, <2>5
    <3>2. Holds(l)
      BY <1>8, <2>5, <3>1
    <3>3. size = n
      <4>1. Len(w) \in {N, N + 1}
        BY <1>0, <1>10, <2>5, EndedLength
      <4>2. c <= Len(w) /\ Len(w) \in Nat
        BY <1>4, <1>10
      <4>3. c * SectorsPerCluster < DWordSectors
        BY <2>5, <3>1, <4>1, <4>2, RecoverableRun
      <4> QED
        BY <1>5, <1>b, <4>3
    <3> QED
      BY <1>0, <1>4, <1>5, <2>1, <3>1, <3>2, <3>3, RunIsHeld
  <2>6. Len(mem') \in Nat /\ Len(mem') <= (l + c) * SectorsPerCluster
    BY <1>5, <1>7, <1>12, <1>b, <2>3
  <2> QED
    BY <1>0, <1>13, <2>1, <2>4, <2>5, <2>6
<1> QED
  BY <1>14, <1>15, <1>16

\* A buffer that holds n clusters is these clusters one behind the other.
LEMMA HeldIsWritten ==
  ASSUME TypeInv, NEW n \in 1 .. Cells, Holds(n)
  PROVE  mem = FlattenSeq([i \in 1 .. n |->
                 [j \in 1 .. SectorsPerCluster |->
                    PartStart + clusterSector(Chain(first)[i - 1]) + j - 1]])
<1> DEFINE S == SectorsPerCluster
           F == Chain(first)
           P(i) == PartStart + clusterSector(F[i - 1])
           ss == [i \in 1 .. n |-> [j \in 1 .. S |-> P(i) + j - 1]]
           t == FlattenSeq(ss)
<1>0. S \in Nat \ {0} /\ n \in Nat /\ MaxWalk \in Nat /\ MaxWalk > Cells + 1 /\ Cells \in Nat
      /\ DWord \in Nat
  BY Geometry
<1>1. \A i \in 1 .. n : P(i) \in Int
  <2>1. \A i \in 0 .. MaxWalk : F[i] \in Int
    BY <1>0, ChainNext DEF TypeInv, Number
  <2>2. \A i \in 1 .. n : F[i - 1] \in Int
    BY <1>0, <2>1
  <2> QED
    BY <2>2, SectorTyped
<1> HIDE DEF P
<1>2. \A i \in 1 .. n : ss[i] \in Numbers /\ Len(ss[i]) = S
  BY <1>0, <1>1 DEF Numbers
<1>3. ss \in Seq(Numbers) /\ Len(ss) = n
  <2>1. \A i \in 1 .. n : ss[i] \in Numbers
    BY <1>2
  <2>2. DOMAIN ss = 1 .. n /\ ss = [i \in 1 .. n |-> ss[i]]
    OBVIOUS
  <2> HIDE DEF ss
  <2> QED
    BY <1>0, <2>1, <2>2
<1>4. /\ t \in Seq(Int) /\ Len(t) = n * S
      /\ \A i \in 1 .. n, j \in 1 .. S : t[(i - 1) * S + j] = ss[i][j]
  <2> HIDE DEF ss
  <2>1. t \in Numbers
    BY <1>3, FlattenTyped
  <2>2. S \in Nat /\ \A i \in 1 .. Len(ss) : Len(ss[i]) = S
    BY <1>0, <1>2, <1>3
  <2>3. /\ Len(t) = Len(ss) * S
        /\ \A i \in 1 .. Len(ss), j \in 1 .. S : t[(i - 1) * S + j] = ss[i][j]
    BY <1>3, <2>2, FlattenUniform
  <2> QED
    BY <1>3, <2>1, <2>3 DEF Numbers
<1>5. /\ mem \in Seq(Int) /\ Len(mem) = n * S
      /\ \A i \in 1 .. n, j \in 1 .. S : mem[(i - 1) * S + j] = P(i) + j - 1
  BY DEF Holds, TypeInv, P
<1>6. \A i \in 1 .. n, j \in 1 .. S : mem[(i - 1) * S + j] = t[(i - 1) * S + j]
  <2>1. \A i \in 1 .. n, j \in 1 .. S : ss[i][j] = P(i) + j - 1
    OBVIOUS
  <2> HIDE DEF ss, t
  <2> QED
    BY <1>4, <1>5, <2>1
<1>7. ASSUME NEW x \in 1 .. n * S PROVE mem[x] = t[x]
  <2>1. PICK i \in 1 .. n, j \in 1 .. S : x = (i - 1) * S + j
    <3>1. PICK q \in Int : q = (x - 1) \div S
      BY <1>0
    <3>2. PICK r \in 0 .. S - 1 : x - 1 = S * q + r
      <4>1. (x - 1) % S \in 0 .. S - 1 /\ x - 1 = (S * q) + ((x - 1) % S)
        BY <1>0, <3>1
      <4>2. PICK r \in 0 .. S - 1 : r = (x - 1) % S
        BY <4>1
      <4> QED
        BY <4>1, <4>2
    <3>3. q >= 0
      BY <1>0, <3>1
    <3>4. q < n
      <4> SUFFICES ASSUME q >= n PROVE FALSE
        BY <1>0
      <4>1. S * q >= n * S /\ S * q \in Int /\ n * S \in Int
        BY <1>0
      <4> QED
        BY <1>0, <3>2, <4>1
    <3>5. PICK i \in 1 .. n, j \in 1 .. S : i = q + 1 /\ j = r + 1
      BY <1>0, <3>3, <3>4
    <3>6. x = (i - 1) * S + j
      <4>1. PICK y \in Int : y = S * q
        BY <1>0
      <4>2. (i - 1) * S = y
        BY <1>0, <3>5, <4>1
      <4>3. x \in Int /\ x - 1 = y + r
        BY <1>0, <3>2, <4>1
      <4>4. x = y + j
        BY <1>0, <3>2, <3>5, <4>1, <4>3
      <4> QED
        BY <4>2, <4>4
    <3> QED
      BY <3>6
  <2> HIDE DEF t
  <2> QED
    BY <1>6, <2>1
<1>8. mem = t
  <2> HIDE DEF t
  <2>1. DOMAIN mem = 1 .. n * S /\ DOMAIN t = 1 .. n * S
    BY <1>4, <1>5
  <2> QED
    BY <1>4, <1>5, <1>7, <2>1
<1> QED
  BY <1>8 DEF P

\* When all runs are read, the buffer holds the n clusters of the file.
LEMMA WriteTargetStep ==
  ASSUME Inv, WriteTarget
  PROVE  Inv'
<1>0. /\ pc = "read" /\ iRun \notin DOMAIN runs /\ TypeInv /\ ReadInv /\ target' = mem
      /\ pc' \in {"thrown", "recovered"}
      /\ UNCHANGED <<table, bad, loaded, walkVars, iRun, mem, folder>>
      /\ table' = table /\ first' = first /\ runs' = runs /\ mem' = mem
  BY DEF WriteTarget, Inv, walkVars
<1>1. TypeInv'
  BY <1>0 DEF TypeInv, TypeOK, walkVars
<1>2. runs \in Seq(Packed) /\ runs \in Runs
  BY <1>0, RunsArePacked DEF TypeInv, TypeOK, Runs
<1>3. iRun - 1 = Len(runs)
  <2>1. Len(runs) \in Nat /\ iRun \in 1 .. Len(runs) + 1 /\ DOMAIN runs = 1 .. Len(runs)
    BY <1>0, <1>2 DEF ReadInv
  <2> QED
    BY <1>0, <2>1
<1>4. Upto(runs, iRun - 1) = Spelled(runs) /\ Spelled(runs) \in Seq(Int)
  BY <1>2, <1>3, UptoIs, WrittenTyped DEF Numbers
<1>5. ASSUME NEW n \in 1 .. Cells, Recoverable(n) PROVE Holds(n)
  <2>1. Len(Spelled(runs)) \in {n, n + 1}
    BY <1>0, <1>4, <1>5, EndedLength DEF ReadInv
  <2>2. \/ Len(Spelled(runs)) <= n /\ Holds(Len(Spelled(runs)))
        \/ Len(Spelled(runs)) > n /\ Holds(n)
    BY <1>0, <1>4, <1>5 DEF ReadInv
  <2>3. n \in Int
    OBVIOUS
  <2> QED
    BY <2>1, <2>2, <2>3
<1>6. RecoveredIsChain'
  <2> SUFFICES ASSUME NEW n \in 1 .. Cells, Recoverable(n)'
               PROVE  (target = FlattenSeq([i \in 1 .. n |->
                         [j \in 1 .. SectorsPerCluster |->
                            PartStart + clusterSector(Chain(first)[i - 1]) + j - 1]]))'
    BY DEF RecoveredIsChain
  <2>1. Recoverable(n) /\ Chain(first)' = Chain(first)
    BY <1>0, ChainKept
  <2>2. mem = FlattenSeq([i \in 1 .. n |->
                 [j \in 1 .. SectorsPerCluster |->
                    PartStart + clusterSector(Chain(first)[i - 1]) + j - 1]])
    BY <1>0, <1>5, <2>1, HeldIsWritten
  <2> QED
    BY <1>0, <2>1, <2>2
<1>7. BufferFits'
  BY <1>0 DEF Inv, BufferFits
<1> QED
  BY <1>0, <1>1, <1>6, <1>7 DEF Inv, WalkInv, ReadInv, FolderInv, EndlessOnlyInCircle, FolderIsChain

-----------------------------------------------------------------------------
(* read_folder                                                             *)

\* read_folder takes the first cluster before it asks for the next one.
LEMMA StartFolderStep ==
  ASSUME TypeInv, NEW c \in FirstClusters, NEW dots \in BOOLEAN, StartFolder(c, dots)
  PROVE  Inv'
<1>0. /\ c \in Number /\ c \in Nat /\ MaxWalk \in Nat /\ MaxWalk > Cells + 1 /\ Cells \in Nat
      /\ DWord \in Nat /\ Number = 0 .. DWord - 1 /\ max_cluster = Cells /\ Mask \in Nat
      /\ end_cluster_fat32 = Mask - 1 /\ Cells < Mask - 9
  BY FirstAssumption, Geometry DEF Number
<1>1. /\ first' = c /\ runs' = <<>> /\ iRun' = 1 /\ mem' = <<>> /\ target' = <<>>
      /\ run' = [number |-> 0, count |-> 0] /\ UNCHANGED <<table, bad>>
  BY DEF StartFolder
<1>2. CASE /\ pc' \in {"listed", "thrown"} /\ folder' = <<>> /\ cluster' = c /\ loaded' = loaded
  <2>1. TypeInv'
    BY <1>0, <1>1, <1>2 DEF TypeInv, TypeOK, Number
  <2> QED
    BY <1>2, <2>1 DEF Inv, WalkInv, ReadInv, FolderInv, BufferFits, RecoveredIsChain,
                      EndlessOnlyInCircle, FolderIsChain
<1>3. CASE /\ ~BeyondTable(c) /\ folder' = <<c>> /\ Load(c) /\ cluster' = Follow(c)
           /\ pc' = IF Follow(c) = end_cluster_fat32 THEN "copy" ELSE "folder"
  <2>1. /\ loaded' \subseteq 0 .. (Cells \div CellsPerSector) - 1
        /\ Follow(c) = OnDisk(c) /\ Follow(c) \in Number /\ c <= Cells
    <3>1. loaded \subseteq 0 .. (Cells \div CellsPerSector) - 1 /\ table \in Tables
      BY DEF TypeInv, TypeOK
    <3>2. loaded' \subseteq 0 .. (Cells \div CellsPerSector) - 1
      BY <1>0, <1>3, <3>1, LoadTyped
    <3>3. Follow(c) = OnDisk(c) /\ Follow(c) \in Number
      BY <1>0, <3>1, FollowIs
    <3>4. c <= Cells
      BY <1>0, <1>3 DEF BeyondTable
    <3> QED
      BY <3>2, <3>3, <3>4
  <2>2. TypeInv'
    <3>1. folder' \in Seq(Int) /\ \A i \in DOMAIN folder' : folder'[i] \in 0 .. max_cluster
      BY <1>0, <1>3, <2>1
    <3>2. cluster' \in 0 .. DWord - 1 /\ pc' \in {"copy", "folder"}
      BY <1>0, <1>3, <2>1
    <3>3. /\ run' \in [number : Nat, count : Nat] /\ runs' \in Seq([number : Nat, count : Nat \ {0}])
          /\ {mem'[i] : i \in DOMAIN mem'} \cup {target'[i] : i \in DOMAIN target'}
               \subseteq 0 .. DeviceSectors - 1
          /\ mem' \in Seq(Int)
      BY <1>1
    <3>4. table' \in Tables /\ first' \in Number /\ first' \in FirstClusters
      BY <1>0, <1>1 DEF TypeInv
    <3>5. \A i \in DOMAIN folder' : folder'[i] \in {NotCopied} \cup 0 .. max_cluster
      BY <3>1
    <3> QED
      BY <2>1, <3>1, <3>2, <3>3, <3>4, <3>5 DEF TypeInv, TypeOK
  <2>3. Chain(first)'[0] = c /\ Chain(first)'[1] = Follow(c)
    <3>1. Chain(c)[0] = c /\ \A n \in 1 .. MaxWalk : Chain(c)[n] = OnDisk(Chain(c)[n - 1])
      BY ChainFollows
    <3>2. Chain(c)[1] = OnDisk(Chain(c)[0])
      BY <1>0, <3>1
    <3> QED
      BY <1>1, <2>1, <3>1, <3>2, ChainFrom
  <2>4. Len(folder') = 1 /\ folder'[1] = c
    BY <1>3
  <2>5. FolderInv'
    <3>1. IsChain(folder)'
      BY <2>3, <2>4 DEF IsChain
    <3>2. pc' = "copy" => cluster' > max_cluster
      BY <1>0, <1>3
    <3>3. \A i \in 0 .. 0 : Chain(first)'[i] <= max_cluster
      BY <1>0, <2>1, <2>3
    <3> QED
      BY <1>0, <1>3, <2>3, <2>4, <3>1, <3>2, <3>3 DEF FolderInv
  <2> QED
    BY <1>3, <2>2, <2>5 DEF Inv, WalkInv, ReadInv, BufferFits, RecoveredIsChain,
                            EndlessOnlyInCircle, FolderIsChain
<1> QED
  BY <1>2, <1>3 DEF StartFolder

\* A turn of read_folder takes one cluster and keeps the invariant.
LEMMA ReadFolderStep ==
  ASSUME Inv, ReadFolderCluster
  PROVE  Inv'
<1>0. /\ pc = "folder" /\ Len(folder) < MaxWalk /\ TypeInv /\ FolderInv
      /\ table' = table /\ first' = first
      /\ UNCHANGED <<table, bad, first, run, runs, readVars>>
      /\ DWord \in Nat /\ Number = 0 .. DWord - 1 /\ max_cluster = Cells /\ Cells \in Nat
      /\ end_cluster_fat32 = Mask - 1 /\ Cells < Mask - 9 /\ Mask \in Nat /\ MaxWalk \in Nat
  BY Geometry DEF ReadFolderCluster, Inv, Number
<1>1. /\ table \in Tables /\ first \in Number /\ cluster \in Number /\ cluster \in Nat
      /\ folder \in Seq(Int)
  BY <1>0 DEF TypeInv, TypeOK, Number
<1>2. PICK L \in Nat : L = Len(folder)
  BY <1>1
<1>3. PICK F : F = Chain(first)
  OBVIOUS
<1>4. Chain(first)' = F
  BY <1>0, <1>3, ChainKept
<1>5. /\ L \in 1 .. MaxWalk - 1 /\ cluster = F[L]
      /\ \A i \in 1 .. L : folder[i] = F[i - 1]
      /\ \A i \in 0 .. L - 1 : F[i] <= max_cluster
      /\ \A i \in 2 .. L - 1 : F[i] # 0
      /\ L >= 2 => cluster # 0
  BY <1>0, <1>2, <1>3 DEF FolderInv, IsChain
<1>6. CASE BeyondTable(cluster)
  <2>1. pc' = "copy" /\ UNCHANGED <<loaded, cluster, folder>>
    BY <1>6 DEF ReadFolderCluster
  <2>2. TypeInv'
    BY <1>0, <2>1 DEF TypeInv, TypeOK, readVars
  <2>3. FolderInv'
    BY <1>0, <1>2, <1>4, <1>5, <1>6, <2>1 DEF FolderInv, IsChain, BeyondTable
  <2> QED
    BY <2>1, <2>2, <2>3 DEF Inv, WalkInv, ReadInv, BufferFits, RecoveredIsChain,
                            EndlessOnlyInCircle, FolderIsChain
<1>7. CASE ~BeyondTable(cluster) /\ (ClusterThrows(cluster) \/ TableThrows(cluster))
  <2>1. pc' = "thrown" /\ UNCHANGED <<loaded, cluster, folder>>
    BY <1>7 DEF ReadFolderCluster
  <2>2. TypeInv'
    BY <1>0, <2>1 DEF TypeInv, TypeOK, readVars
  <2> QED
    BY <2>1, <2>2 DEF Inv, WalkInv, ReadInv, FolderInv, BufferFits, RecoveredIsChain,
                      EndlessOnlyInCircle, FolderIsChain
<1>8. CASE ~BeyondTable(cluster) /\ ~(ClusterThrows(cluster) \/ TableThrows(cluster))
  <2>1. /\ folder' = Append(folder, cluster) /\ Load(cluster) /\ cluster' = Follow(cluster)
        /\ pc' = IF StopsFolder(Follow(cluster)) THEN "copy" ELSE "folder"
    BY <1>8 DEF ReadFolderCluster
  <2>2. /\ loaded' \subseteq 0 .. (Cells \div CellsPerSector) - 1
        /\ Follow(cluster) \in Number /\ cluster \in 0 .. max_cluster
    <3>1. cluster <= max_cluster
      BY <1>0, <1>1, <1>8 DEF BeyondTable
    <3>2. loaded \subseteq 0 .. (Cells \div CellsPerSector) - 1
      BY <1>0 DEF TypeInv, TypeOK
    <3>3. loaded' \subseteq 0 .. (Cells \div CellsPerSector) - 1
      BY <1>1, <2>1, <3>2, LoadTyped
    <3>4. Follow(cluster) \in Number
      BY <1>1, FollowIs
    <3>5. cluster \in 0 .. max_cluster
      BY <1>0, <1>1, <3>1
    <3> QED
      BY <3>3, <3>4, <3>5
  <2>3. /\ folder' \in Seq(Int) /\ Len(folder') = L + 1 /\ folder'[L + 1] = cluster
        /\ \A i \in 1 .. L : folder'[i] = folder[i]
    BY <1>1, <1>2, <2>1
  <2>4. TypeInv'
    <3>1. \A i \in DOMAIN folder' : folder'[i] \in {NotCopied} \cup 0 .. max_cluster
      <4>1. \A i \in DOMAIN folder : folder[i] \in {NotCopied} \cup 0 .. max_cluster
        BY <1>0 DEF TypeInv, TypeOK
      <4>2. DOMAIN folder = 1 .. L /\ DOMAIN folder' = 1 .. L + 1
        BY <1>1, <1>2, <2>3
      <4>3. \A i \in 1 .. L + 1 : i \in 1 .. L \/ i = L + 1
        OBVIOUS
      <4> QED
        BY <2>2, <2>3, <4>1, <4>2, <4>3
    <3>2. cluster' \in 0 .. DWord - 1 /\ pc' \in {"copy", "folder"}
      BY <1>0, <2>1, <2>2
    <3> QED
      BY <1>0, <2>2, <2>3, <3>1, <3>2 DEF TypeInv, TypeOK, readVars
  <2>5. F[L + 1] = Follow(cluster)
    BY <1>0, <1>1, <1>3, <1>5, ChainNext
  <2>6. FolderInv'
    <3>1. \A i \in 1 .. L + 1 : folder'[i] = F[i - 1]
      <4>1. \A i \in 1 .. L + 1 : i \in 1 .. L \/ i = L + 1
        OBVIOUS
      <4>2. (L + 1) - 1 = L
        OBVIOUS
      <4> QED
        BY <1>5, <2>3, <4>1, <4>2
    <3>2. \A i \in 0 .. L : F[i] <= max_cluster
      <4>1. \A i \in 0 .. L : i \in 0 .. L - 1 \/ i = L
        OBVIOUS
      <4> QED
        BY <1>0, <1>5, <2>2, <4>1
    <3>3. \A i \in 2 .. L : F[i] # 0
      BY <1>5
    <3>4. IsChain(folder)'
      BY <1>4, <2>3, <3>1 DEF IsChain
    <3>5. L + 1 \in 1 .. MaxWalk /\ L + 1 >= 2 /\ (L + 1) - 1 = L
      BY <1>0, <1>5
    <3>6. pc' = "folder" => cluster' # 0
      BY <2>1 DEF StopsFolder
    <3>7. pc' = "copy" => cluster' > max_cluster \/ cluster' = 0
      BY <1>0, <2>1 DEF StopsFolder
    <3> QED
      BY <1>4, <2>1, <2>3, <2>5, <3>2, <3>3, <3>4, <3>5, <3>6, <3>7 DEF FolderInv
  <2>7. pc' \in {"copy", "folder"}
    BY <2>1
  <2> QED
    BY <2>4, <2>6, <2>7 DEF Inv, WalkInv, ReadInv, BufferFits, RecoveredIsChain,
                            EndlessOnlyInCircle, FolderIsChain
<1> QED
  BY <1>6, <1>7, <1>8

\* A folder that came to a cluster twice would never have ended, but for 0 as its
\* first cluster; an undamaged chain ends at its mark and nowhere before.
LEMMA CopyFolderStep ==
  ASSUME Inv, CopyFolder
  PROVE  Inv'
<1>0. /\ pc = "copy" /\ pc' = "listed" /\ TypeInv /\ FolderInv
      /\ folder' = [i \in DOMAIN folder |-> IF i <= CopyLimit THEN folder[i] ELSE NotCopied]
      /\ table' = table /\ first' = first
      /\ UNCHANGED <<table, bad, loaded, walkVars, readVars>>
      /\ max_cluster = Cells /\ Cells \in Nat /\ end_cluster_fat32 = Mask - 1 /\ Cells < Mask - 9
      /\ bad_cluster_fat32 = Mask - 9 /\ EndMarks = Mask - 8 .. Mask - 1
      /\ Mask \in Nat /\ MaxWalk \in Nat /\ MaxWalk > Cells + 1 /\ CopyLimit \in Nat
  BY Geometry DEF CopyFolder, Inv, walkVars
<1>1. table \in Tables /\ first \in Number /\ folder \in Seq(Int)
  BY <1>0 DEF TypeInv
<1>2. PICK L \in Nat : L = Len(folder)
  BY <1>1
<1>3. PICK F : F = Chain(first)
  OBVIOUS
<1>4. Chain(first)' = F /\ \A n : Intact(first, n)' <=> Intact(first, n)
  BY <1>0, <1>3, ChainKept
<1>5. /\ L \in 1 .. MaxWalk
      /\ \A i \in 1 .. L : folder[i] = F[i - 1]
      /\ \A i \in 0 .. L - 1 : F[i] <= Cells
      /\ \A i \in 2 .. L - 1 : F[i] # 0
      /\ F[L] > Cells \/ (F[L] = 0 /\ L >= 2)
  BY <1>0, <1>2, <1>3 DEF FolderInv, IsChain
<1>6. folder' \in Seq(Int) /\ Len(folder') = L /\ DOMAIN folder' = 1 .. L
  BY <1>0, <1>1, <1>2 DEF NotCopied
<1>7. \A n \in 0 .. MaxWalk : F[n] \in Nat
  <2>1. DWord \in Nat /\ \A n \in 0 .. MaxWalk : F[n] \in Number
    BY <1>1, <1>3, ChainNext, Geometry
  <2> QED
    BY <2>1 DEF Number
<1>8. TypeInv'
  <2>1. \A i \in DOMAIN folder' : folder'[i] \in {NotCopied} \cup 0 .. max_cluster
    BY <1>0 DEF TypeInv, TypeOK
  <2> QED
    BY <1>0, <1>6, <2>1 DEF TypeInv, TypeOK, walkVars, readVars
<1>9. \A i \in 1 .. L : i <= CopyLimit => folder'[i] = F[i - 1]
  BY <1>0, <1>1, <1>2, <1>5
<1>10. ASSUME NEW i \in 1 .. L, NEW j \in 1 .. L, i < j, F[i - 1] = F[j - 1]
       PROVE  i = 1 /\ j = L /\ F[1] = 0
  <2>1. PICK n \in Nat : (j - 1) + n = L /\ (i - 1) + n \in 1 .. L - 1
    <3>1. L - (j - 1) \in Nat /\ (j - 1) + (L - (j - 1)) = L /\ (i - 1) + (L - (j - 1)) \in 1 .. L - 1
      BY <1>2, <1>10
    <3> QED
      BY <3>1
  <2>2. F[(i - 1) + n] = F[L]
    <3>1. i - 1 \in Nat /\ j - 1 \in Nat /\ i - 1 < j - 1 /\ (j - 1) + n <= MaxWalk
      BY <1>0, <1>5, <2>1
    <3> QED
      BY <1>1, <1>3, <1>10, <2>1, <3>1, SameFrom
  <2>3. F[(i - 1) + n] <= Cells /\ F[L] = 0
    <3>1. F[(i - 1) + n] <= Cells
      BY <1>5, <2>1
    <3>2. F[(i - 1) + n] \in Nat
      BY <1>0, <1>5, <1>7, <2>1
    <3> QED
      BY <1>0, <1>5, <2>2, <3>1, <3>2
  <2>4. (i - 1) + n = 1
    BY <1>5, <2>1, <2>2, <2>3
  <2> QED
    BY <2>1, <2>2, <2>3, <2>4
<1>11. ASSUME NEW n \in 1 .. Cells, Intact(first, n) PROVE L = n
  <2>1. /\ \A i \in 0 .. n - 1 : F[i] >= 2 /\ F[n] \in Mask - 8 .. Mask - 1
    BY <1>0, <1>3, <1>7, <1>11 DEF Intact, DataClusters
  <2>2. ~(L > n)
    BY <1>0, <1>5, <2>1
  <2>3. ~(L < n)
    <3> SUFFICES ASSUME L < n PROVE FALSE
      OBVIOUS
    <3>1. F[L] > Cells
      BY <1>5, <2>1
    <3>2. ~InTable(F[L]) /\ L \in 0 .. MaxWalk /\ n \in 0 .. MaxWalk
      BY <1>0, <1>5, <1>7, <3>1 DEF InTable
    <3>3. F[n] = bad_cluster_fat32
      BY <1>1, <1>3, <3>2, OutOfTable
    <3> QED
      BY <1>0, <2>1, <3>3
  <2> QED
    BY <2>2, <2>3
<1>12. FolderIsChain'
  <2>1. \A i \in DOMAIN folder' : i <= CopyLimit => folder'[i] = Chain(first)'[i - 1]
    BY <1>4, <1>6, <1>9
  <2>2. ASSUME NEW i \in DOMAIN folder', NEW j \in DOMAIN folder', i < j, j <= CopyLimit,
               folder'[i] = folder'[j]
        PROVE  FreeCellInCircle(i, j)'
    <3>1. i <= CopyLimit /\ i \in 1 .. L /\ j \in 1 .. L
      BY <1>0, <1>6, <2>2
    <3>2. F[i - 1] = F[j - 1]
      BY <1>9, <2>2, <3>1
    <3>3. i = 1 /\ j = L /\ F[1] = 0
      BY <1>10, <2>2, <3>1, <3>2
    <3> QED
      BY <1>4, <1>6, <3>3 DEF FreeCellInCircle
  <2>3. \A n \in 1 .. Cells : Intact(first, n)' => Len(folder') = n
    BY <1>4, <1>6, <1>11
  <2> QED
    BY <2>1, <2>2, <2>3 DEF FolderIsChain
<1> QED
  BY <1>0, <1>8, <1>12 DEF Inv, WalkInv, ReadInv, FolderInv, BufferFits, RecoveredIsChain,
                           EndlessOnlyInCircle

-----------------------------------------------------------------------------
(* The theorems                                                            *)

\* The invariant holds of a file system that was opened.
LEMMA InitInv ==
  ASSUME Init
  PROVE  Inv
<1>1. DWord \in Nat \ {0} /\ Number = 0 .. DWord - 1
  BY Geometry DEF Number
<1>2. TypeInv
  BY <1>1 DEF Init, TypeInv, TypeOK
<1> QED
  BY <1>2, AtRest DEF Init

\* Every step keeps the invariant.
LEMMA NextInv ==
  ASSUME Inv, [Next]_vars
  PROVE  Inv'
<1>1. TypeInv /\ WalkInv
  BY DEF Inv
<1>2. ASSUME NEW c \in FirstClusters, StartFile(c) PROVE Inv'
  BY <1>1, <1>2, StartFileStep
<1>3. ASSUME NEW c \in FirstClusters, NEW dots \in BOOLEAN, StartFolder(c, dots) PROVE Inv'
  BY <1>1, <1>3, StartFolderStep
<1>4. CASE Walk
  BY <1>1, <1>4, WalkStep
<1>5. CASE Exhausted
  BY <1>5, ExhaustedStep
<1>6. CASE ReadRun
  BY <1>6, ReadRunStep
<1>7. CASE WriteTarget
  BY <1>7, WriteTargetStep
<1>8. CASE ReadFolderCluster
  BY <1>8, ReadFolderStep
<1>9. CASE CopyFolder
  BY <1>9, CopyFolderStep
<1>10. CASE UNCHANGED vars
  <2>1. /\ pc' = pc /\ table' = table /\ first' = first /\ cluster' = cluster /\ run' = run
        /\ runs' = runs /\ iRun' = iRun /\ mem' = mem /\ target' = target /\ folder' = folder
        /\ loaded' = loaded
    BY <1>10 DEF vars, walkVars, readVars
  <2>2. Chain(first)' = Chain(first) /\ (\A s : IsChain(s)' <=> IsChain(s))
        /\ (\A s : Ended(s)' <=> Ended(s)) /\ (\A n : Recoverable(n)' <=> Recoverable(n))
        /\ (\A n : Intact(first, n)' <=> Intact(first, n))
    BY <2>1, ChainKept
  <2>3. TypeInv'
    BY <1>1, <2>1 DEF TypeInv, TypeOK
  <2>4. WalkInv'
    BY <1>1, <2>1, <2>2 DEF WalkInv, walked, IsChain
  <2>5. ReadInv'
    <3>1. \A m : Holds(m)' <=> Holds(m)
      BY <2>1, HoldsKept
    <3> QED
      BY <2>1, <2>2, <3>1 DEF Inv, ReadInv, Ended, IsChain
  <2>6. FolderInv'
    BY <2>1, <2>2 DEF Inv, FolderInv, IsChain
  <2>7. BufferFits' /\ RecoveredIsChain'
    BY <2>1, <2>2 DEF Inv, BufferFits, RecoveredIsChain
  <2>8. EndlessOnlyInCircle' /\ FolderIsChain'
    BY <2>1, <2>2 DEF Inv, EndlessOnlyInCircle, FolderIsChain, FreeCellInCircle
  <2> QED
    BY <2>3, <2>4, <2>5, <2>6, <2>7, <2>8 DEF Inv
<1> QED
  BY <1>2, <1>3, <1>4, <1>5, <1>6, <1>7, <1>8, <1>9, <1>10 DEF Next

\* The invariant holds of every state.
THEOREM Invariance == Spec => []Inv
<1>1. Init => Inv
  BY InitInv
<1>2. Inv /\ [Next]_vars => Inv'
  BY NextInv
<1> QED
  BY <1>1, <1>2, PTL DEF Spec

\* ReadListClusters packs the chain into runs, none left out and none twice, for
\* every table (fat_fs.cpp:743-769), and what is read of them fits the buffer made
\* for it.
THEOREM RunsAreTheChain == Spec => []WalkIsRight
<1>1. Inv => WalkIsRight
  <2> SUFFICES ASSUME Inv, pc = "walk" PROVE RunsSpellChain
    BY DEF Inv, TypeInv, WalkIsRight, RunsSpellChain
  <2>1. run \in Packed /\ runs \in Runs /\ (run.count = 0 => run.number = cluster)
    BY DEF Inv, TypeInv, TypeOK, WalkInv, Packed, Runs
  <2>2. cluster \in Nat
    BY Geometry DEF Inv, TypeInv, TypeOK
  <2>3. walked \in Seq(Int)
    BY <2>1, <2>2, Taken
  <2>4. IsChain(walked) /\ cluster = Chain(first)[Len(walked)]
    BY DEF Inv, WalkInv
  <2> HIDE DEF walked
  <2> QED
    BY <2>3, <2>4 DEF IsChain, RunsSpellChain
<1> QED
  BY <1>1, Invariance, PTL

\* recoverWITH_FAT_table recovers an undamaged file whole and in order, for every
\* table and geometry, whatever the runs its chain falls into.
THEOREM FileIsItsChain == Spec => []RecoveredIsChain
<1>1. Inv => RecoveredIsChain
  BY DEF Inv
<1> QED
  BY <1>1, Invariance, PTL

\* Only a chain that runs in a circle in the table keeps ReadListClusters or
\* read_folder from ending.
THEOREM EndlessIsACircle == Spec => []EndlessOnlyInCircle
<1>1. Inv => EndlessOnlyInCircle
  BY DEF Inv
<1> QED
  BY <1>1, Invariance, PTL

\* read_folder lists the chain of a folder, each cluster once but for the free
\* first cell, and all of it when it is undamaged (fat_fs.cpp:372-421).
THEOREM FolderIsItsChain == Spec => []FolderIsChain
<1>1. Inv => FolderIsChain
  BY DEF Inv
<1> QED
  BY <1>1, Invariance, PTL
-----------------------------------------------------------------------------
(* The partition table                                                     *)

\* The partitions listed after n turns of the loop of open().
ListsUpto(f) ==
  f = [n \in 0 .. LookedAt |->
         IF n = 0 THEN <<>>
         ELSE IF Listed(n) THEN Append(f[n - 1], n) ELSE f[n - 1]]

\* open() lists something when one of the first three entries is in use, and
\* begins with the first of those.
LEMMA PartitionsAre ==
  /\ Partitions = <<>> => \A i \in 1 .. 3 : ~Listed(i)
  /\ Partitions # <<>> =>
       /\ Head(Partitions) \in 1 .. 3 /\ Listed(Head(Partitions))
       /\ \A i \in 1 .. 3 : Listed(i) => Head(Partitions) <= i
<1> DEFINE a1 == IF Listed(1) THEN Append(<<>>, 1) ELSE <<>>
           a2 == IF Listed(2) THEN Append(a1, 2) ELSE a1
           a3 == IF Listed(3) THEN Append(a2, 3) ELSE a2
           g  == [n \in 0 .. LookedAt |->
                    IF n = 0 THEN <<>> ELSE IF n = 1 THEN a1 ELSE IF n = 2 THEN a2 ELSE a3]
           f  == CHOOSE h : ListsUpto(h)
<1>1. ListsUpto(g)
  BY DEF ListsUpto, LookedAt
<1>2. ListsUpto(f)
  BY <1>1
<1>3. Partitions = f[3]
  BY DEF Partitions, ListsUpto, LookedAt
<1> HIDE DEF f
<1>4. f[0] = <<>> /\ f[1] = a1 /\ f[2] = a2 /\ f[3] = a3
  <2>1. \A n \in 0 .. 3 : f[n] = IF n = 0 THEN <<>>
                                 ELSE IF Listed(n) THEN Append(f[n - 1], n) ELSE f[n - 1]
    BY <1>2 DEF ListsUpto, LookedAt
  <2>2. f[0] = <<>>
    BY <2>1
  <2>3. f[1] = a1
    <3>1. f[1] = IF Listed(1) THEN Append(f[0], 1) ELSE f[0]
      BY <2>1
    <3> QED
      BY <2>2, <3>1, Zenon
  <2>4. f[2] = a2
    <3> HIDE DEF a1
    <3> QED
      BY <2>1, <2>3
  <2>5. f[3] = a3
    <3> HIDE DEF a1, a2
    <3> QED
      BY <2>1, <2>4
  <2> QED
    BY <2>2, <2>3, <2>4, <2>5
<1>5. CASE Listed(1)
  BY <1>3, <1>4, <1>5
<1>6. CASE ~Listed(1) /\ Listed(2)
  BY <1>3, <1>4, <1>6
<1>7. CASE ~Listed(1) /\ ~Listed(2)
  BY <1>3, <1>4, <1>7
<1> QED
  BY <1>5, <1>6, <1>7

\* What was read of the table and the boot sector when phase is where it is.
Phases == {"closed", "thrown", "refused", "opened", "crashed", "mounted", "reading", "listed"}
MountInv ==
  /\ disk \in Disks
  /\ phase \in Phases
  /\ phase = "refused" /\ disk.signed => Partitions = <<>>
  /\ phase \in {"opened", "crashed", "mounted", "reading", "listed"} =>
       disk.signed /\ PartitionArray = Partitions /\ Partitions # <<>>
  /\ phase \in {"crashed", "mounted", "reading", "listed"} =>
       start = disk.start_LBA[Head(Partitions)]
  /\ phase = "crashed" => BootAt(start).sec_per_clus = 0

LEMMA InitMount == FolderInit => MountInv
BY DEF FolderInit, MountInv, Phases

\* A step that leaves the disk leaves what its table lists.
LEMMA SameTable ==
  ASSUME disk' = disk
  PROVE  Partitions' = Partitions
BY DEF Partitions, Listed, LookedAt

LEMMA NextMount == MountInv /\ [FolderNext]_folderVars => MountInv'
<1> SUFFICES ASSUME MountInv, [FolderNext]_folderVars PROVE MountInv'
  OBVIOUS
<1>1. CASE OpenTable
  <2>1. disk' = disk /\ Partitions' = Partitions
    BY <1>1, SameTable DEF OpenTable
  <2>2. CASE SectorThrows(0)
    BY <1>1, <2>1, <2>2 DEF OpenTable, MountInv, Phases
  <2>3. CASE ~SectorThrows(0) /\ disk.signed
    BY <1>1, <2>1, <2>3 DEF OpenTable, MountInv, Phases
  <2>4. CASE ~SectorThrows(0) /\ ~disk.signed
    BY <1>1, <2>1, <2>4 DEF OpenTable, MountInv, Phases
  <2> QED
    BY <2>2, <2>3, <2>4
<1>2. CASE Mount
  <2>1. disk' = disk /\ Partitions' = Partitions /\ PartitionArray' = PartitionArray
    BY <1>2, SameTable DEF Mount
  <2>2. /\ disk.signed /\ PartitionArray = Partitions /\ Partitions # <<>> /\ disk \in Disks
        /\ start' = disk.start_LBA[Head(Partitions)]
        /\ phase' \in {"thrown", "crashed", "mounted"}
        /\ phase' = "crashed" => BootAt(start').sec_per_clus = 0
    BY <1>2 DEF Mount, MountInv
  <2>3. BootAt(start)' = BootAt(start')
    BY <2>1 DEF BootAt
  <2> QED
    BY <2>1, <2>2, <2>3 DEF MountInv, Phases
<1>3. ASSUME ReadRoot \/ (\E name \in DOMAIN DirectoryMap : ReadChild(name)) PROVE MountInv'
  <2>1. /\ UNCHANGED <<disk, PartitionArray, start>>
        /\ phase \in {"mounted", "listed"} /\ phase' \in {"listed", "thrown", "reading"}
    BY <1>3 DEF ReadRoot, ReadChild, ReadFolder
  <2> QED
    BY <2>1, SameTable DEF MountInv, Phases
<1>4. ASSUME Deleted \/ ShortName \/ LongName \/ UNCHANGED folderVars PROVE MountInv'
  <2>1. UNCHANGED <<disk, phase, PartitionArray, start>>
    BY <1>4 DEF Deleted, ShortName, LongName, Kept, folderVars
  <2> QED
    BY <2>1, SameTable DEF MountInv, BootAt
<1>5. CASE EntriesEnd
  BY <1>5, SameTable DEF EntriesEnd, MountInv, Phases
<1> QED
  BY <1>1, <1>2, <1>3, <1>4, <1>5 DEF FolderNext

\* A volume is mounted unless its entry is the fourth or an entry before it is
\* in use, for every partition table; only a first entry in use that is no
\* volume ends the program by a division by zero (MasterBootRecord::open,
\* InitBoot).
THEOREM FirstVolumeIsMounted == FolderSpec => []VolumeIsMounted
<1>1. ASSUME MountInv PROVE VolumeIsMounted
  <2>1. \A i \in 1 .. 4 : Volume(i) => Listed(i)
    BY DEF Volume, Listed
  <2>2. \A i \in 1 .. 3 : Volume(i) /\ ~InUseBefore(i) =>
          /\ Partitions # <<>> /\ Head(Partitions) = i
          /\ BootAt(disk.start_LBA[i]).sec_per_clus # 0
    <3> SUFFICES ASSUME NEW i \in 1 .. 3, Volume(i), ~InUseBefore(i)
                 PROVE  /\ Partitions # <<>> /\ Head(Partitions) = i
                        /\ BootAt(disk.start_LBA[i]).sec_per_clus # 0
      OBVIOUS
    <3>1. \A j \in 1 .. i - 1 : ~Listed(j)
      BY DEF InUseBefore, Listed
    <3>2. Partitions # <<>> /\ Head(Partitions) = i
      BY <2>1, <3>1, PartitionsAre
    <3> QED
      BY <3>2, DisksAssumption DEF Volume, BootAt, MountInv
  <2>3. /\ phase \notin {"closed", "opened", "thrown"} /\ disk.signed =>
            \A i \in 1 .. 3 : Volume(i) /\ ~InUseBefore(i) =>
              start = disk.start_LBA[i] /\ phase \notin {"refused", "crashed"}
    BY <1>1, <2>2 DEF MountInv, Phases
  <2>4. phase = "refused" /\ disk.signed => \A i \in 1 .. 4 : Volume(i) => i = 4
    BY <1>1, <2>1, PartitionsAre DEF MountInv
  <2>5. phase = "crashed" => ~Volume(Head(PartitionArray))
    <3> SUFFICES ASSUME phase = "crashed", Volume(Head(PartitionArray)) PROVE FALSE
      OBVIOUS
    <3>1. start = disk.start_LBA[Head(PartitionArray)] /\ BootAt(start).sec_per_clus = 0
      BY <1>1 DEF MountInv
    <3>2. start \in DOMAIN disk.boot /\ disk.boot[start].sec_per_clus > 0
      BY <3>1 DEF Volume
    <3>3. 0 > 0
      BY ONLY <3>1, <3>2 DEF BootAt
    <3> QED
      BY <3>3
  <2> QED
    BY <2>3, <2>4, <2>5 DEF VolumeIsMounted
<1> QED
  BY <1>1, InitMount, NextMount, PTL DEF FolderSpec

-----------------------------------------------------------------------------
(* The entries of a folder                                                 *)

\* The entries that have nodes in m, and those of zeros.
Nodes(m) == {m[n].at + 1 : n \in DOMAIN m}
Zeros == {i \in Own : data[i].mark = "zero"}

\* What m is when the loop has read the first e entries.
Earlier(e, m) == \A n \in DOMAIN m : m[n].at \in Nat /\ m[n].at < e
NoneLost(e, m) ==
  \A i \in ToList : i <= e =>
    i \in Nodes(m) \/ \E n \in NamesOf(i) \cap DOMAIN m : m[n].at + 1 < i
NoStranger(m) ==
  \A i \in Nodes(m) : i \in ToList \cup Zeros \/ Part(Smaller(i - 1, Len(data)))
Exact(e, m) ==
  /\ \A n \in DOMAIN m \ {<<>>} : \E i \in ToList : i <= e /\ n = NameOf(i)
  /\ \A i \in ToList : i <= e => NameOf(i) \in DOMAIN m /\ m[NameOf(i)].at + 1 = i
  /\ <<>> \in DOMAIN m <=> \E i \in Zeros : i <= e
BehindName(e) == e \in Own => ~(Part(e) /\ Live(e))
Listing(e, m) ==
  /\ Earlier(e, m) /\ NoneLost(e, m) /\ NoStranger(m)
  /\ Undamaged => Exact(e, m) /\ BehindName(e)

\* A step that leaves the folder leaves what its entries are.
LEMMA SameListing ==
  ASSUME data' = data, head' = head
  PROVE  Listing(current_entry, DirectoryMap)' <=> Listing(current_entry', DirectoryMap')
BY DEF Listing, Earlier, NoneLost, NoStranger, Exact, BehindName, Undamaged, ToList,
       NamesOf, NameOf, BeginOf, NameBegins, SpelledName, Own, Dots, Part, Live, Zeros, Nodes, Smaller

\* Which entries are the folder's own, and which of the block are parts.
LEMMA OwnIs ==
  ASSUME data \in Seq(Entry), NEW i
  PROVE  /\ Len(data) \in Nat /\ Dots \in Nat
         /\ i \in Own <=> i \in Nat /\ Dots < i /\ i <= Len(data)
         /\ Part(i) <=> i \in Nat /\ 1 <= i /\ i <= Len(data) /\ data[i].attr = "long name"
<1>1. Len(data) \in Nat /\ Dots \in Nat /\ DOMAIN data = 1 .. Len(data)
  BY DEF Dots
<1>2. i \in Own <=> i \in Nat /\ Dots < i /\ i <= Len(data)
  <2>1. i \in Own <=> i \in Dots + 1 .. Len(data)
    BY DEF Own
  <2> QED
    BY <1>1, <2>1
<1>3. i \in 1 .. Len(data) <=> i \in Nat /\ 1 <= i /\ i <= Len(data)
  BY <1>1
<1>4. Part(i) <=> i \in 1 .. Len(data) /\ data[i].attr = "long name"
  BY <1>1 DEF Part
<1> QED
  BY <1>1, <1>2, <1>3, <1>4

\* The folder read is one of the disk, and entries are numbered from 1.
LEMMA EntriesAre ==
  ASSUME data \in Seq(Entry)
  PROVE  /\ Len(data) \in Nat /\ DOMAIN data = 1 .. Len(data) /\ Dots \in Nat
         /\ \A i : i \in Own <=> i \in Nat /\ Dots < i /\ i <= Len(data)
         /\ \A i \in Own : /\ i \in 1 .. Len(data) /\ i \in Nat /\ data[i] \in Entry
                         /\ (Part(i) <=> data[i].attr = "long name")
         /\ \A i : Part(i) => i \in 1 .. Len(data)
         /\ \A i \in ToList : i \in Own /\ ~Part(i) /\ Live(i) /\ data[i].attr \in Shown
         /\ \A i \in Zeros : i \in Own /\ ~Part(i) /\ ~Live(i) /\ data[i] = Zero
<1>1. /\ Len(data) \in Nat /\ DOMAIN data = 1 .. Len(data) /\ Dots \in Nat
      /\ \A i : i \in Own <=> i \in Nat /\ Dots < i /\ i <= Len(data)
  BY DEF Dots, Own
<1>2. ASSUME NEW i \in Own
      PROVE  /\ i \in 1 .. Len(data) /\ i \in Nat /\ data[i] \in Entry
             /\ (Part(i) <=> data[i].attr = "long name")
  <2>1. i \in 1 .. Len(data) /\ i \in Nat
    BY <1>1
  <2>2. data[i] \in Entry
    BY <2>1
  <2> QED
    BY <1>1, <2>1, <2>2 DEF Part
<1>3. \A i : Part(i) => i \in 1 .. Len(data)
  BY <1>1 DEF Part
<1>4. \A i \in ToList : i \in Own /\ ~Part(i) /\ Live(i) /\ data[i].attr \in Shown
  BY DEF ToList, Part, Shown
<1>5. ASSUME NEW i \in Zeros PROVE i \in Own /\ ~Part(i) /\ ~Live(i) /\ data[i] = Zero
  <2>1. i \in Own /\ data[i].mark = "zero"
    BY DEF Zeros
  <2>2. data[i] = Zero
    BY <1>2, <2>1 DEF Entry
  <2> QED
    <3>1. data[i].mark = "zero" /\ data[i].attr = "none"
      BY <2>2 DEF Zero
    <3> QED
      BY <1>2, <2>1, <2>2, <3>1 DEF Live
<1> QED
  BY <1>1, <1>2, <1>3, <1>4, <1>5

\* A name begins at one part only, as the first has the bit of the last.
LEMMA OneBegin ==
  ASSUME data \in Seq(Entry), NEW i \in Own, NEW j \in BeginOf(i)
  PROVE  /\ BeginOf(i) = {j} /\ NameOf(i) = SpelledName(j, i)
         /\ j \in Own /\ j < i /\ NameBegins(j, i)
<1>1. \A k \in BeginOf(i) : k \in Own /\ k \in Nat /\ k < i /\ i \in Nat /\ NameBegins(k, i)
  BY EntriesAre DEF BeginOf
<1>2. ASSUME NEW k \in BeginOf(i), NEW l \in BeginOf(i), k < l PROVE FALSE
  <2>1. k \in Nat /\ l \in Nat /\ i \in Nat /\ l < i /\ l \in k .. i - 1
    BY <1>1, <1>2
  <2>2. data[l].order = i - l
    BY <1>1, <1>2, <2>1 DEF NameBegins
  <2>3. data[l].order = 64 + (i - l)
    BY <1>1 DEF NameBegins
  <2> QED
    BY <2>1, <2>2, <2>3
<1>3. \A k \in BeginOf(i) : k = j
  BY <1>1, <1>2
<1>4. BeginOf(i) = {j}
  BY <1>3
<1>5. NameOf(i) = SpelledName(j, i)
  BY <1>4 DEF NameOf
<1> QED
  BY <1>1, <1>4, <1>5

\* In an undamaged folder a part behind which no name is left unfinished begins
\* one, which ends at a live entry.
LEMMA PartBegins ==
  ASSUME data \in Seq(Entry), Undamaged, NEW e \in Nat, e >= Dots, BehindName(e),
         Part(e + 1), Live(e + 1)
  PROVE  \E i \in Own : ~Part(i) /\ Live(i) /\ e + 1 < i /\ e + 1 \in BeginOf(i)
<1>1. e + 1 \in Own
  <2>1. Len(data) \in Nat /\ Dots \in Nat /\ e + 1 \in Nat /\ e + 1 <= Len(data)
    BY OwnIs
  <2>2. Dots < e + 1
    BY <2>1
  <2> QED
    BY <2>1, <2>2, OwnIs
<1>2. PICK i \in Own : ~Part(i) /\ Live(i) /\ e + 1 < i /\ \E j \in BeginOf(i) : j <= e + 1
  BY <1>1 DEF Undamaged
<1>3. PICK j \in BeginOf(i) : j <= e + 1
  BY <1>2
<1>4. j \in Own /\ j < i /\ NameBegins(j, i) /\ j \in Nat /\ i \in Nat
  BY <1>3, OneBegin, EntriesAre
<1>5. ASSUME j < e + 1 PROVE FALSE
  <2>0. Dots < j /\ Dots \in Nat /\ Len(data) \in Nat /\ i <= Len(data)
    BY <1>4, OwnIs
  <2>1. e \in j .. i - 1 /\ Dots < e /\ e <= Len(data)
    BY <1>2, <1>4, <1>5, <2>0
  <2>3. e \in Own
    BY <2>1, OwnIs
  <2>2. Part(e) /\ Live(e)
    BY <1>4, <2>1 DEF NameBegins
  <2> QED
    BY <2>2, <2>3 DEF BehindName
<1> QED
  BY <1>2, <1>3, <1>4, <1>5

\* And what is not a live part, and stands where no name is left unfinished, has
\* a short name.
LEMMA ShortIs ==
  ASSUME data \in Seq(Entry), NEW e \in Nat, e >= Dots, BehindName(e), e + 1 \in Own
  PROVE  NameOf(e + 1) = data[e + 1].name
<1>1. ASSUME NEW j \in BeginOf(e + 1) PROVE FALSE
  <2>1. j \in Own /\ j < e + 1 /\ NameBegins(j, e + 1) /\ j \in Nat
    BY OneBegin, EntriesAre
  <2>2. Dots < j /\ Dots \in Nat /\ Len(data) \in Nat /\ e + 1 <= Len(data)
    BY <2>1, OwnIs
  <2>3. e \in j .. (e + 1) - 1 /\ Dots < e /\ e <= Len(data)
    BY <2>1, <2>2
  <2>4. Part(e) /\ Live(e) /\ e \in Own
    BY <2>1, <2>3, OwnIs DEF NameBegins
  <2> QED
    BY <2>4 DEF BehindName
<1> QED
  BY <1>1 DEF NameOf

-----------------------------------------------------------------------------
(* A turn of the loop                                                      *)

\* A node is added under a new name, and kept under one that there is.
LEMMA AddedIs ==
  ASSUME NEW name, NEW t, NEW position
  PROVE  LET m == addEntry(name, t, position) IN
         /\ \A n \in DOMAIN DirectoryMap : n \in DOMAIN m /\ m[n] = DirectoryMap[n]
         /\ \A n \in DOMAIN m : n \in DOMAIN DirectoryMap \/ n = name
         /\ name \in DOMAIN m /\ name \notin DOMAIN DirectoryMap =>
              t.attr \in Shown /\ m[name].at = position
         /\ t.attr \in Shown => name \in DOMAIN m
<1>1. CASE t.attr \notin Shown \/ name \in DOMAIN DirectoryMap
  BY <1>1 DEF addEntry
<1>2. CASE t.attr \in Shown /\ name \notin DOMAIN DirectoryMap
  BY <1>2 DEF addEntry
<1> QED
  BY <1>1, <1>2

\* The loop goes on to entry i: there are parts before it, and t is added for it
\* as name, which is a name the entry may have.
Turn(e, i, name, t) ==
  /\ i \in Nat /\ e < i
  /\ \A k \in ToList \cup Zeros : ~(e < k /\ k < i)
  /\ i \in ToList => t.attr \in Shown /\ name \in NamesOf(i)
  /\ t.attr \in Shown => i \in ToList \cup Zeros \/ Part(Smaller(i - 1, Len(data)))
  /\ Undamaged =>
       /\ BehindName(i)
       /\ t.attr \in Shown => i \in ToList \cup Zeros
       /\ i \in ToList => name = NameOf(i)
       /\ i \in Zeros => name = <<>> /\ t.attr \in Shown

LEMMA TurnAdds ==
  ASSUME data \in Seq(Entry), NEW e \in Nat, Listing(e, DirectoryMap),
         NEW i, NEW name, NEW t, Turn(e, i, name, t)
  PROVE  Listing(i, addEntry(name, t, i - 1))
<1> DEFINE old == DirectoryMap
           new == addEntry(name, t, i - 1)
<1>1. /\ \A n \in DOMAIN old : n \in DOMAIN new /\ new[n] = old[n]
      /\ \A n \in DOMAIN new : n \in DOMAIN old \/ n = name
      /\ name \in DOMAIN new /\ name \notin DOMAIN old => t.attr \in Shown /\ new[name].at = i - 1
      /\ t.attr \in Shown => name \in DOMAIN new
  BY AddedIs
<1>2. i \in Nat /\ e < i /\ e \in Nat
  BY DEF Turn
<1>3. Earlier(e, old) /\ NoneLost(e, old) /\ NoStranger(old) /\ (Undamaged => Exact(e, old))
  BY DEF Listing
<1> HIDE DEF new
<1>4. Earlier(i, new)
  BY <1>1, <1>2, <1>3 DEF Earlier
<1>5. \A k \in Nodes(old) : k \in Nodes(new)
  BY <1>1 DEF Nodes
<1>6. \A k \in Nodes(new) : k \in Nodes(old) \/ (k = i /\ t.attr \in Shown)
  <2> SUFFICES ASSUME NEW n \in DOMAIN new, n \notin DOMAIN old
               PROVE  new[n].at + 1 = i /\ t.attr \in Shown
    BY <1>1 DEF Nodes
  <2> QED
    BY <1>1, <1>2
<1>7. \A k \in ToList \cup Zeros : k \in Nat /\ (k <= i => k <= e \/ k = i)
  <2> SUFFICES ASSUME NEW k \in ToList \cup Zeros, k <= i
               PROVE  k <= e \/ k = i
    BY EntriesAre
  <2>1. k \in Nat
    BY EntriesAre
  <2> QED
    BY <1>2, <2>1 DEF Turn
<1>8. NoneLost(i, new)
  <2> SUFFICES ASSUME NEW k \in ToList, k <= i
               PROVE  k \in Nodes(new) \/ \E n \in NamesOf(k) \cap DOMAIN new : new[n].at + 1 < k
    BY DEF NoneLost
  <2>1. CASE k <= e
    BY <1>1, <1>3, <1>5, <2>1 DEF NoneLost
  <2>2. CASE k = i
    <3>1. name \in DOMAIN new /\ name \in NamesOf(k)
      BY <1>1, <2>2 DEF Turn
    <3>2. CASE name \in DOMAIN old
      <4>1. new[name].at \in Nat /\ new[name].at < e
        BY <1>1, <1>3, <3>2 DEF Earlier
      <4> QED
        BY <1>2, <2>2, <3>1, <4>1
    <3>3. CASE name \notin DOMAIN old
      BY <1>1, <1>2, <2>2, <3>1, <3>3 DEF Nodes
    <3> QED
      BY <3>2, <3>3
  <2> QED
    BY <1>7, <2>1, <2>2
<1>9. NoStranger(new)
  BY <1>3, <1>6 DEF NoStranger, Turn
<1>10. ASSUME Undamaged PROVE Exact(i, new) /\ BehindName(i)
  <2>1. Exact(e, old) /\ BehindName(i)
    BY <1>3, <1>10 DEF Turn
  <2>2. ASSUME NEW n \in DOMAIN new \ {<<>>} PROVE \E k \in ToList : k <= i /\ n = NameOf(k)
    <3>1. CASE n \in DOMAIN old
      <4>1. PICK k \in ToList : k <= e /\ n = NameOf(k)
        BY <2>1, <2>2, <3>1 DEF Exact
      <4> QED
        BY <1>2, <1>7, <4>1
    <3>2. CASE n \notin DOMAIN old
      <4>1. n = name /\ t.attr \in Shown
        BY <1>1, <3>2
      <4>2. i \in ToList /\ name = NameOf(i)
        BY <1>10, <2>2, <4>1 DEF Turn
      <4> QED
        BY <1>2, <4>1, <4>2
    <3> QED
      BY <3>1, <3>2
  <2>3. ASSUME NEW k \in ToList, k <= i
        PROVE  NameOf(k) \in DOMAIN new /\ new[NameOf(k)].at + 1 = k
    <3>1. CASE k <= e
      BY <1>1, <2>1, <3>1 DEF Exact
    <3>2. CASE k = i
      <4>1. name = NameOf(i) /\ name \in DOMAIN new
        BY <1>1, <1>10, <2>3, <3>2 DEF Turn
      <4>2. name # <<>> /\ \A l \in ToList : NameOf(l) = name => l = i
        BY <1>10, <2>3, <3>2, <4>1 DEF Undamaged
      <4>3. name \notin DOMAIN old
        BY <1>2, <2>1, <4>2 DEF Exact
      <4> QED
        BY <1>1, <1>2, <3>2, <4>1, <4>3
    <3> QED
      BY <1>7, <2>3, <3>1, <3>2
  <2>4. <<>> \in DOMAIN new <=> \E k \in Zeros : k <= i
    <3>1. ASSUME <<>> \in DOMAIN new PROVE \E k \in Zeros : k <= i
      <4>1. CASE <<>> \in DOMAIN old
        <5>1. PICK k \in Zeros : k <= e
          BY <2>1, <4>1 DEF Exact
        <5> QED
          BY <1>2, <1>7, <5>1
      <4>2. CASE <<>> \notin DOMAIN old
        <5>1. name = <<>> /\ t.attr \in Shown
          BY <1>1, <3>1, <4>2
        <5>2. i \notin ToList
          BY <1>10, <5>1 DEF Turn, Undamaged
        <5> QED
          BY <1>2, <1>10, <5>1, <5>2 DEF Turn
      <4> QED
        BY <4>1, <4>2
    <3>2. ASSUME NEW k \in Zeros, k <= i PROVE <<>> \in DOMAIN new
      <4>1. CASE k <= e
        BY <1>1, <2>1, <4>1 DEF Exact
      <4>2. CASE k = i
        BY <1>1, <1>10, <4>2 DEF Turn
      <4> QED
        BY <1>7, <3>2, <4>1, <4>2
    <3> QED
      BY <3>1, <3>2
  <2> QED
    BY <2>1, <2>2, <2>3, <2>4 DEF Exact
<1>11. Listing(i, new)
  BY <1>4, <1>8, <1>9, <1>10 DEF Listing
<1> QED
  BY <1>11 DEF new

\* A deleted entry changes nothing.
LEMMA TurnSkips ==
  ASSUME data \in Seq(Entry), NEW e \in Nat, Listing(e, DirectoryMap),
         data[e + 1].mark = "deleted"
  PROVE  Listing(e + 1, DirectoryMap)
<1>1. \A k \in ToList \cup Zeros : k \in Nat /\ (k <= e + 1 => k <= e)
  <2> SUFFICES ASSUME NEW k \in ToList \cup Zeros, k <= e + 1
               PROVE  k <= e
    BY EntriesAre
  <2>1. k \in Nat /\ k # e + 1
    BY EntriesAre DEF ToList, Zeros, Live
  <2> QED
    BY <2>1
<1>2. Earlier(e + 1, DirectoryMap)
  BY DEF Listing, Earlier
<1>3. NoneLost(e + 1, DirectoryMap)
  BY <1>1 DEF Listing, NoneLost
<1>4. ASSUME Undamaged PROVE Exact(e + 1, DirectoryMap) /\ BehindName(e + 1)
  <2>1. BehindName(e + 1)
    BY DEF BehindName, Live
  <2>2. Exact(e, DirectoryMap)
    BY <1>4 DEF Listing
  <2>3. \A k \in ToList \cup Zeros : k <= e + 1 <=> k <= e
    BY <1>1
  <2> QED
    BY <2>1, <2>2, <2>3 DEF Exact
<1> QED
  BY <1>2, <1>3, <1>4 DEF Listing

\* What the next entry's number is.
LEMMA NextEntry ==
  ASSUME data \in Seq(Entry), NEW e \in Nat, Dots <= e, e < Len(data)
  PROVE  /\ e + 1 \in Nat /\ e < e + 1 /\ e + 1 \in Own /\ data[e + 1] \in Entry
         /\ e + 1 \in 1 .. Len(data) /\ Len(data) \in Nat /\ Dots \in Nat
         /\ \A k \in Nat : ~(e < k /\ k < e + 1)
<1>1. Len(data) \in Nat /\ Dots \in Nat
  BY OwnIs
<1>2. \A l, d \in Nat : d <= e /\ e < l => d < e + 1 /\ e + 1 <= l
  OBVIOUS
<1>3. Dots < e + 1 /\ e + 1 <= Len(data) /\ e + 1 \in Nat /\ e < e + 1
  BY <1>1, <1>2
<1>4. e + 1 \in Own
  BY <1>3, OwnIs
<1>5. \A k \in Nat : ~(e < k /\ k < e + 1)
  OBVIOUS
<1> QED
  BY <1>1, <1>3, <1>4, <1>5, EntriesAre

\* An entry that is not a part is added with its own name.
LEMMA ShortTurn ==
  ASSUME data \in Seq(Entry), NEW e \in Nat, Dots <= e, e < Len(data),
         Listing(e, DirectoryMap),
         data[e + 1].mark # "deleted", data[e + 1].attr # "long name"
  PROVE  Turn(e, e + 1, data[e + 1].name, data[e + 1])
<1> DEFINE i == e + 1
<1>1. i \in Nat /\ i \in Own /\ e < i /\ data[i] \in Entry /\ Len(data) \in Nat /\ Dots \in Nat
  BY NextEntry
<1>2. data[i].mark \in {"live", "zero"} /\ (data[i].mark = "zero" => data[i] = Zero)
  BY <1>1 DEF Entry, Mark
<1>3. data[i].attr \in Shown => i \in ToList \cup Zeros
  BY <1>1, <1>2 DEF ToList, Zeros, Live
<1>4. i \in ToList => data[i].attr \in Shown /\ data[i].name \in NamesOf(i)
  BY DEF ToList, NamesOf
<1>5. i \in Zeros => data[i].name = <<>> /\ data[i].attr \in Shown
  <2>1. i \in Zeros => data[i] = Zero
    BY EntriesAre
  <2>2. Zero.name = <<>> /\ Zero.attr \in Shown
    BY DEF Zero, Shown
  <2> QED
    BY <2>1, <2>2, Zenon
<1>6. ASSUME Undamaged PROVE BehindName(i) /\ (i \in ToList => data[i].name = NameOf(i))
  <2>1. BehindName(e)
    BY <1>6 DEF Listing
  <2>2. NameOf(i) = data[i].name
    BY <1>1, <2>1, ShortIs
  <2> QED
    BY <2>2, OwnIs DEF BehindName
<1>7. \A k \in ToList \cup Zeros : ~(e < k /\ k < i)
  <2>1. \A k \in ToList \cup Zeros : k \in Nat
    BY EntriesAre
  <2>2. \A k \in Nat : ~(e < k /\ k < i)
    BY NextEntry
  <2> QED
    BY <2>1, <2>2
<1> QED
  BY <1>1, <1>3, <1>4, <1>5, <1>6, <1>7 DEF Turn

-----------------------------------------------------------------------------
(* Long names                                                              *)

\* A bounded set of numbers has a greatest one.
LEMMA MaxIs ==
  ASSUME NEW b \in Nat, NEW S \in SUBSET (0 .. b), S # {}
  PROVE  Max(S) \in S /\ \A n \in S : Max(S) >= n
<1> DEFINE T == {n \in Nat : \A s \in S : n >= s}
<1>1. b \in T
  OBVIOUS
<1>2. PICK m \in T : \A n \in T : m <= n
  BY <1>1, LeastElement
<1>3. m \in S
  <2> SUFFICES ASSUME m \notin S PROVE FALSE
    OBVIOUS
  <2>1. \A s \in S : s \in Nat /\ m >= s /\ m # s
    BY <1>2
  <2>2. m \in Nat /\ m # 0
    <3>1. PICK s \in S : TRUE
      OBVIOUS
    <3>2. s \in Nat /\ m \in Nat /\ m >= s /\ m # s
      BY <1>2, <2>1
    <3> QED
      BY <3>2
  <2>3. m - 1 \in T
    BY <2>1, <2>2
  <2> QED
    BY <1>2, <2>2, <2>3
<1>4. \E x \in S : \A y \in S : x >= y
  BY <1>2, <1>3
<1> QED
  BY <1>4 DEF Max

\* The greatest n up to which all of 2 .. n + 1 are in P.
LEMMA MostTaken ==
  ASSUME NEW c \in Nat, NEW l \in Nat, l >= 2, NEW P \in SUBSET (1 .. l - 1)
  PROVE  LET taken == {n \in 0 .. c - 1 : \A i \in 2 .. n + 1 : i \in P}
             k     == IF taken = {} THEN 0 ELSE Max(taken)
         IN /\ k \in Nat /\ k + 2 <= l
            /\ \A n \in 2 .. k + 1 : n \in P
            /\ \A r \in 1 .. l - 1 :
                 r <= c /\ (\A n \in 2 .. r : n \in P) /\ r + 1 \notin P => k = r - 1
<1> DEFINE taken == {n \in 0 .. c - 1 : \A i \in 2 .. n + 1 : i \in P}
           k     == IF taken = {} THEN 0 ELSE Max(taken)
<1>1. taken \in SUBSET (0 .. c)
  OBVIOUS
<1>2. taken # {} => k \in taken /\ \A n \in taken : k >= n
  BY <1>1, MaxIs
<1>3. taken = {} => k = 0
  OBVIOUS
<1>4. \A n : n \in taken <=> n \in 0 .. c - 1 /\ \A i \in 2 .. n + 1 : i \in P
  OBVIOUS
<1> HIDE DEF taken, k
<1>5. k \in Nat
  BY <1>2, <1>3, <1>4
<1>6. \A n \in 2 .. k + 1 : n \in P
  <2>1. CASE taken = {}
    BY <1>3, <2>1
  <2>2. CASE taken # {}
    BY <1>2, <1>4, <2>2
  <2> QED
    BY <2>1, <2>2
<1>7. k + 2 <= l
  <2>1. ASSUME k + 1 >= l PROVE FALSE
    <3>1. l \in 2 .. k + 1 /\ l \notin 1 .. l - 1
      BY <1>5, <2>1
    <3> QED
      BY <1>6, <3>1
  <2> QED
    BY <1>5, <2>1
<1>8. ASSUME NEW r \in 1 .. l - 1, r <= c, \A n \in 2 .. r : n \in P, r + 1 \notin P
      PROVE  k = r - 1
  <2>1. r \in Nat /\ r >= 1 /\ r - 1 \in 0 .. c - 1
    BY <1>8
  <2>2. r - 1 \in taken
    BY <1>4, <1>8, <2>1
  <2>3. k >= r - 1
    BY <1>2, <2>2
  <2>4. ASSUME k >= r PROVE FALSE
    <3>1. r + 1 \in 2 .. k + 1
      BY <1>5, <2>1, <2>4
    <3> QED
      BY <1>6, <1>8, <3>1
  <2> QED
    BY <1>5, <2>1, <2>3, <2>4
<1> QED
  BY <1>5, <1>6, <1>7, <1>8 DEF k, taken

\* Which of the entries in a block of memory are parts.
PartsOf(memory) == {i \in DOMAIN memory : memory[i].attr = "long name"}

\* The number of the first part limits the loop.
LEMMA PartsCountIs ==
  ASSUME NEW o \in 0 .. 255
  PROVE  CountOf(o) \in Nat /\ (o >= 64 => CountOf(o) >= o - 64)
<1>1. CountOf(o) = o - 64 \/ CountOf(o) = o + 64
  BY DEF CountOf
<1>2. o < 64 => CountOf(o) = o + 64
  <2>1. o < 64 => o \div 64 = 0
    OBVIOUS
  <2> QED
    BY <2>1 DEF CountOf
<1>3. CASE o < 64
  BY <1>2, <1>3
<1>4. CASE o >= 64
  BY <1>1, <1>4
<1> QED
  BY <1>3, <1>4

\* How far the loop over the parts goes: what it passes are parts, and it stops at
\* the first entry that is none, if the number of the first part allows so many.
LEMMA MorePartsAre ==
  ASSUME NEW memory \in Seq(Entry), Len(memory) >= 2, Len(memory) \notin PartsOf(memory)
  PROVE  LET k == MoreParts(memory) IN
         /\ k \in Nat /\ k + 2 <= Len(memory)
         /\ \A n \in 2 .. k + 1 : n \in PartsOf(memory)
         /\ \A r \in 1 .. Len(memory) - 1 :
              /\ r <= CountOf(memory[1].order)
              /\ \A n \in 2 .. r : n \in PartsOf(memory)
              /\ r + 1 \notin PartsOf(memory)
              => k = r - 1
<1> DEFINE c == CountOf(memory[1].order)
           l == Len(memory)
           P == PartsOf(memory)
           k == MoreParts(memory)
           taken == {n \in 0 .. c - 1 : \A i \in 2 .. n + 1 : i \in P}
           most == IF taken = {} THEN 0 ELSE Max(taken)
<1>1. l \in Nat /\ l >= 2 /\ DOMAIN memory = 1 .. l
  OBVIOUS
<1>2. memory[1] \in Entry
  BY <1>1
<1>3. memory[1].order \in 0 .. 255
  BY <1>2 DEF Entry
<1>4. c \in Nat
  BY <1>3, PartsCountIs
<1>5. P \in SUBSET (1 .. l - 1)
  <2>1. \A n \in P : n \in 1 .. l /\ n # l
    BY <1>1 DEF PartsOf
  <2> HIDE DEF P, l
  <2> QED
    BY <1>1, <2>1
<1>6. k = most
  BY DEF MoreParts, PartsOf
<1> HIDE DEF c, l, P, k
<1>7. /\ most \in Nat /\ most + 2 <= l
      /\ \A n \in 2 .. most + 1 : n \in P
      /\ \A r \in 1 .. l - 1 :
           r <= c /\ (\A n \in 2 .. r : n \in P) /\ r + 1 \notin P => most = r - 1
  BY ONLY <1>1, <1>4, <1>5, MostTaken
<1> HIDE DEF most
<1>8. /\ k \in Nat /\ k + 2 <= l
      /\ \A n \in 2 .. k + 1 : n \in P
      /\ \A r \in 1 .. l - 1 :
           r <= c /\ (\A n \in 2 .. r : n \in P) /\ r + 1 \notin P => k = r - 1
  BY ONLY <1>6, <1>7
<1> QED
  BY <1>8 DEF c, l, P, k

\* A sequence with another that is not empty behind it.
Joins(S, s, t, u) ==
  /\ u \in Seq(S) /\ Len(s) \in Nat /\ Len(t) \in Nat /\ Len(t) >= 1
  /\ Len(u) = Len(s) + Len(t)
  /\ \A n \in 1 .. Len(s) : n \in DOMAIN u /\ u[n] = s[n]
  /\ u[Len(u)] = t[Len(t)]
LEMMA JoinedIs ==
  ASSUME NEW S, NEW s \in Seq(S), NEW t \in Seq(S), t # <<>>
  PROVE  Joins(S, s, t, s \o t)
<1>1. s \o t \in Seq(S) /\ Len(s) \in Nat /\ Len(t) \in Nat /\ Len(s \o t) = Len(s) + Len(t)
  OBVIOUS
<1>2. Len(t) >= 1
  OBVIOUS
<1>3. \A n \in 1 .. Len(s) : n \in DOMAIN (s \o t) /\ (s \o t)[n] = s[n]
  OBVIOUS
<1>4. (s \o t)[Len(s) + Len(t)] = t[Len(t)]
  BY <1>1, <1>2
<1> QED
  BY <1>1, <1>2, <1>3, <1>4 DEF Joins

\* The memory from an entry of the folder on, with what follows the block.
MemoryFrom(e, behind) == SubSeq(data, e + 1, Len(data)) \o behind
LEMMA MemoryIs ==
  ASSUME data \in Seq(Entry), NEW e \in Nat, Dots <= e, e < Len(data), NEW behind \in Behinds
  PROVE  LET memory == MemoryFrom(e, behind) IN
         /\ memory \in Seq(Entry) /\ Len(memory) \in Nat /\ Len(memory) >= Len(data) - e + 1
         /\ Len(memory) >= 2 /\ Len(memory) \notin PartsOf(memory)
         /\ \A n \in 1 .. Len(data) - e : n \in DOMAIN memory /\ memory[n] = data[e + n]
<1> DEFINE rest == SubSeq(data, e + 1, Len(data))
           memory == MemoryFrom(e, behind)
<1>1. behind \in Seq(Entry) /\ behind # <<>> /\ behind[Len(behind)].attr # "long name"
  BY BehindsAssumption DEF Last
<1>2. Len(data) \in Nat /\ e + 1 \in 1 .. Len(data)
  BY NextEntry
<1>3. /\ rest \in Seq(Entry) /\ Len(rest) = Len(data) - e
      /\ \A n \in 1 .. Len(data) - e : rest[n] = data[e + n]
  BY <1>2
<1> HIDE DEF rest
<1>4. memory = rest \o behind
  BY DEF MemoryFrom, rest
<1>5. Joins(Entry, rest, behind, rest \o behind)
  BY <1>1, <1>3, JoinedIs
<1> HIDE DEF memory
<1>6. /\ memory \in Seq(Entry) /\ Len(memory) = Len(rest) + Len(behind)
      /\ Len(rest) \in Nat /\ Len(behind) \in Nat /\ Len(behind) >= 1
      /\ \A n \in 1 .. Len(rest) : n \in DOMAIN memory /\ memory[n] = rest[n]
      /\ memory[Len(memory)] = behind[Len(behind)]
  BY ONLY <1>4, <1>5, Zenon DEF Joins
<1>7. Len(memory) \in Nat /\ Len(memory) >= Len(data) - e + 1 /\ Len(memory) >= 2
  BY <1>2, <1>3, <1>6
<1>8. \A n \in 1 .. Len(data) - e : n \in DOMAIN memory /\ memory[n] = data[e + n]
  BY ONLY <1>3, <1>6, Zenon
<1>9. Len(memory) \notin PartsOf(memory)
  BY <1>1, <1>6 DEF PartsOf
<1> QED
  BY <1>6, <1>7, <1>8, <1>9 DEF memory

\* A long name begins at the next entry.
AtLongName(e) == data[e + 1].mark # "deleted" /\ data[e + 1].attr = "long name"

\* A long name goes to the entry behind its parts; in an undamaged folder these
\* are the whole name of that entry.
LEMMA LongTurn ==
  ASSUME data \in Seq(Entry), NEW e \in Nat, Dots <= e, e < Len(data),
         Listing(e, DirectoryMap),
         AtLongName(e),
         NEW behind \in Behinds
  PROVE  LET memory == MemoryFrom(e, behind)
             parts  == 1 + MoreParts(memory)
         IN  /\ parts \in Nat
             /\ Turn(e, e + parts + 1, Prepended(memory, parts), memory[parts + 1])
<1> DEFINE memory == MemoryFrom(e, behind)
           parts  == 1 + MoreParts(memory)
           l      == Len(data) - e
           i      == e + parts + 1
           name   == Prepended(memory, parts)
           t      == memory[parts + 1]
<1>1. /\ memory \in Seq(Entry) /\ Len(memory) \in Nat /\ Len(memory) >= l + 1
      /\ Len(memory) >= 2 /\ Len(memory) \notin PartsOf(memory)
      /\ \A n \in 1 .. l : n \in DOMAIN memory /\ memory[n] = data[e + n]
  BY MemoryIs
<1>2. /\ e + 1 \in Own /\ data[e + 1] \in Entry /\ e + 1 \in 1 .. Len(data)
      /\ Len(data) \in Nat /\ Dots \in Nat
  BY NextEntry
<1>3. l \in Nat /\ l >= 1
  BY <1>2
<1>4. Part(e + 1) /\ Live(e + 1)
  <2>1. data[e + 1].mark # "deleted" /\ data[e + 1].attr = "long name"
    BY DEF AtLongName
  <2>2. data[e + 1].mark = "zero" => data[e + 1] = Zero
    BY <1>2 DEF Entry
  <2>3. data[e + 1].mark # "zero"
    <3>1. Zero.attr # "long name"
      BY DEF Zero
    <3> QED
      BY ONLY <2>1, <2>2, <3>1, Zenon
  <2>4. data[e + 1].mark = "live"
    BY <1>2, <2>1, <2>3 DEF Entry, Mark
  <2> QED
    BY <1>2, <2>1, <2>4, EntriesAre DEF Live
<1> DEFINE m == MoreParts(memory)
<1>5. /\ m \in Nat /\ m + 2 <= Len(memory)
      /\ \A n \in 2 .. m + 1 : n \in PartsOf(memory)
      /\ \A r \in 1 .. Len(memory) - 1 :
              /\ r <= CountOf(memory[1].order)
              /\ \A n \in 2 .. r : n \in PartsOf(memory)
              /\ r + 1 \notin PartsOf(memory)
              => m = r - 1
  BY <1>1, MorePartsAre
<1> HIDE DEF m
<1>6. parts = 1 + m
  BY DEF m
<1> HIDE DEF memory, parts, l
<1>7. parts \in Nat /\ parts >= 1 /\ i \in Nat /\ e < i
  BY <1>5, <1>6
\* An entry of the folder and its place in memory.
<1>8. ASSUME NEW k \in Nat, e < k, k <= Len(data)
      PROVE  k - e \in 1 .. l /\ memory[k - e] = data[k] /\ (Part(k) <=> k - e \in PartsOf(memory))
  <2>1. k - e \in 1 .. l /\ e + (k - e) = k /\ k >= 1
    BY <1>2, <1>8 DEF l
  <2>2. k - e \in DOMAIN memory /\ memory[k - e] = data[k]
    BY <1>1, <2>1
  <2> QED
    BY <1>8, <2>1, <2>2, OwnIs DEF PartsOf
<1>9. ASSUME NEW k \in Nat, e < k, k < i, k <= Len(data) PROVE Part(k)
  <2>1. CASE k = e + 1
    BY <1>4, <2>1
  <2>2. CASE k # e + 1
    <3>1. k - e \in 2 .. m + 1
      BY <1>5, <1>6, <1>7, <1>9, <2>2
    <3> QED
      BY <1>5, <1>8, <1>9, <3>1
  <2> QED
    BY <2>1, <2>2
<1>10. \A k \in ToList \cup Zeros : ~(e < k /\ k < i)
  <2>1. \A k \in ToList \cup Zeros : k \in Nat /\ k <= Len(data) /\ ~Part(k)
    BY EntriesAre, OwnIs
  <2> QED
    BY <1>9, <2>1
\* If entry i is in the folder, it is the one added, under the name spelled above it.
<1>11. ASSUME i <= Len(data) PROVE t = data[i] /\ name = SpelledName(e + 1, i)
  <2>1. t = data[i]
    <3>1. i - e = parts + 1
      BY <1>7
    <3> QED
      BY <1>7, <1>8, <1>11, <3>1
  <2>2. i - (e + 1) = parts
    BY <1>7
  <2>3. ASSUME NEW n \in 1 .. parts PROVE memory[parts + 1 - n] = data[i - n]
    <3>1. i - n \in Nat /\ e < i - n /\ i - n <= Len(data) /\ (i - n) - e = parts + 1 - n
      BY <1>2, <1>7, <1>11, <2>3
    <3> QED
      BY <1>8, <3>1
  <2>4. [n \in 1 .. parts |-> memory[parts + 1 - n].name]
          = [n \in 1 .. i - (e + 1) |-> data[i - n].name]
    BY <2>2, <2>3
  <2> QED
    BY <2>1, <2>4 DEF Prepended, SpelledName
<1>12. i \in ToList => t.attr \in Shown /\ name \in NamesOf(i)
  <2> SUFFICES ASSUME i \in ToList PROVE t.attr \in Shown /\ name \in NamesOf(i)
    OBVIOUS
  <2>1. i <= Len(data) /\ data[i].attr \in Shown
    BY EntriesAre, OwnIs
  <2>2. t = data[i] /\ name = SpelledName(e + 1, i)
    BY <1>11, <2>1
  <2>3. ASSUME NEW n \in e + 1 .. i - 1 PROVE Part(n)
    <3>1. n \in Nat /\ e < n /\ n < i /\ n <= Len(data)
      BY <1>2, <1>7, <2>1
    <3> QED
      BY <1>9, <3>1
  <2>4. e + 1 < i
    BY <1>7
  <2> QED
    BY <1>2, <2>1, <2>2, <2>3, <2>4 DEF NamesOf
<1>13. Part(Smaller(i - 1, Len(data)))
  <2>1. CASE i - 1 <= Len(data)
    <3>1. i - 1 \in Nat /\ e < i - 1 /\ i - 1 < i
      BY <1>7
    <3> QED
      BY <1>9, <2>1, <3>1 DEF Smaller
  <2>2. CASE ~(i - 1 <= Len(data))
    <3>1. Len(data) < i
      BY <1>2, <1>7, <2>2
    <3>2. Smaller(i - 1, Len(data)) = Len(data)
      BY <2>2 DEF Smaller
    <3> QED
      BY <1>2, <1>9, <3>1, <3>2
  <2> QED
    BY <2>1, <2>2
\* In an undamaged folder the parts belong to one entry, and the loop takes all.
<1>14. ASSUME Undamaged
       PROVE  /\ BehindName(i)
              /\ t.attr \in Shown => i \in ToList \cup Zeros
              /\ i \in ToList => name = NameOf(i)
              /\ i \in Zeros => name = <<>> /\ t.attr \in Shown
  <2>1. BehindName(e)
    BY <1>14 DEF Listing
  <2>2. PICK o \in Own : ~Part(o) /\ Live(o) /\ e + 1 < o /\ e + 1 \in BeginOf(o)
    BY <1>4, <1>14, <2>1, PartBegins
  <2>3. NameOf(o) = SpelledName(e + 1, o) /\ NameBegins(e + 1, o)
    BY <2>2, OneBegin
  <2>4. o \in Nat /\ o <= Len(data)
    BY OwnIs
  <2> DEFINE r == o - (e + 1)
  <2>5. r \in Nat /\ r >= 1 /\ r + 1 <= l
    BY <1>2, <2>2, <2>4 DEF l
  <2>6. r \in 1 .. Len(memory) - 1
    BY <1>1, <1>3, <2>5
  <2>7. r <= CountOf(memory[1].order)
    <3>1. memory[1] = data[e + 1]
      BY <1>1, <1>3
    <3> DEFINE c == data[e + 1].order
    <3>2. c = 64 + r /\ c \in 0 .. 255
      BY <1>2, <2>3 DEF NameBegins, Entry
    <3> HIDE DEF c
    <3>3. r <= CountOf(c)
      <4> HIDE DEF r
      <4>1. CountOf(c) \in Nat /\ CountOf(c) >= c - 64
        <5>1. c >= 64
          BY <2>5, <3>2
        <5> QED
          BY ONLY <3>2, <5>1, PartsCountIs
      <4> QED
        BY <2>5, <3>2, <4>1
    <3> QED
      BY <3>1, <3>3 DEF c
  <2>8. ASSUME NEW n \in 2 .. r PROVE n \in PartsOf(memory)
    <3>1. e + n \in e + 1 .. o - 1 /\ e + n \in Nat /\ e < e + n /\ e + n <= Len(data) /\ (e + n) - e = n
      BY <2>4, <2>5
    <3>2. Part(e + n)
      BY <2>3, <3>1 DEF NameBegins
    <3> QED
      BY <1>8, <3>1, <3>2
  <2>9. r + 1 \notin PartsOf(memory)
    <3>1. o - e = r + 1 /\ e < o
      BY <2>2, <2>4
    <3> QED
      BY <1>8, <2>2, <2>4, <3>1
  <2>10. m = r - 1
    BY <1>5, <2>6, <2>7, <2>8, <2>9
  <2>11. i = o
    BY <1>6, <2>4, <2>5, <2>10
  <2>12. t = data[i] /\ name = NameOf(i)
    BY <1>11, <2>3, <2>4, <2>11
  <2>13. i \notin Zeros
    BY <2>2, <2>11, EntriesAre
  <2>14. BehindName(i)
    BY <2>2, <2>11 DEF BehindName
  <2>15. t.attr \in Shown => i \in ToList
    BY <2>2, <2>11, <2>12 DEF ToList
  <2> QED
    BY <2>12, <2>13, <2>14, <2>15
<1>15. Turn(e, i, name, t)
  BY <1>7, <1>10, <1>12, <1>13, <1>14 DEF Turn
<1> QED
  BY <1>7, <1>15 DEF memory, parts

-----------------------------------------------------------------------------
(* The invariant                                                           *)

\* What has been listed at each turn of the loop, and what when it has ended.
ListInv ==
  /\ disk \in Disks
  /\ phase = "reading" =>
       /\ data \in Seq(Entry) /\ current_entry \in Nat /\ Dots <= current_entry
       /\ Listing(current_entry, DirectoryMap)
  /\ phase = "listed" /\ data # <<>> =>
       /\ data \in Seq(Entry) /\ current_entry \in Nat /\ Len(data) <= current_entry
       /\ Listing(current_entry, DirectoryMap)

LEMMA InitList == FolderInit => ListInv
BY DEF FolderInit, ListInv

\* A folder of which nothing but the dots was read has no nodes.
LEMMA NothingListed == data \in Seq(Entry) => Listing(Dots, NoNodes)
<1> SUFFICES ASSUME data \in Seq(Entry) PROVE Listing(Dots, NoNodes)
  OBVIOUS
<1>1. \A i \in ToList \cup Zeros : ~(i <= Dots)
  <2> SUFFICES ASSUME NEW i \in ToList \cup Zeros PROVE ~(i <= Dots)
    OBVIOUS
  <2>1. i \in Own
    BY EntriesAre
  <2>2. i \in Nat /\ Dots \in Nat /\ Dots < i
    BY <2>1, OwnIs
  <2> QED
    BY <2>2
<1>2. DOMAIN NoNodes = {}
  BY DEF NoNodes
<1>3. BehindName(Dots)
  <2>1. Dots \notin Own
    <3> SUFFICES ASSUME Dots \in Own PROVE FALSE
      OBVIOUS
    <3>1. Dots \in Nat /\ Dots < Dots
      BY OwnIs
    <3> QED
      BY <3>1
  <2> QED
    BY <2>1 DEF BehindName
<1> QED
  BY <1>1, <1>2, <1>3 DEF Listing, Earlier, NoneLost, NoStranger, Exact, Nodes

\* What a folder of the disk is.
LEMMA FolderIs ==
  ASSUME disk \in Disks, NEW sector
  PROVE  FolderAt(sector) \in Seq(Entry)
<1>1. Zero \in Entry
  BY DEF Zero, Entry, Mark, Attr
<1>2. <<Zero, Zero>> \in Seq(Entry)
  BY <1>1
<1> QED
  BY <1>2, DisksAssumption DEF FolderAt

\* A turn of the loop keeps the invariant if it keeps what has been listed.
LEMMA TurnKept ==
  ASSUME disk \in Disks, data \in Seq(Entry), current_entry \in Nat, Dots <= current_entry,
         UNCHANGED <<disk, phase, head, data>>, phase = "reading",
         current_entry' \in Nat, current_entry <= current_entry',
         Listing(current_entry', DirectoryMap')
  PROVE  ListInv'
<1>1. Dots' = Dots /\ Dots \in Nat
  BY DEF Dots
<1>2. Dots <= current_entry'
  BY <1>1
<1>3. Listing(current_entry, DirectoryMap)'
  BY SameListing
<1> QED
  BY <1>1, <1>2, <1>3 DEF ListInv

LEMMA NextList == ListInv /\ [FolderNext]_folderVars => ListInv'
<1> SUFFICES ASSUME ListInv, [FolderNext]_folderVars PROVE ListInv'
  OBVIOUS
<1>1. CASE OpenTable
  BY <1>1 DEF OpenTable, ListInv
<1>2. CASE Mount
  BY <1>2 DEF Mount, ListInv
<1>3. ASSUME NEW asked, ReadFolder(asked) PROVE ListInv'
  <2>1. disk' = disk /\ disk \in Disks /\ DirectoryMap' = NoNodes /\ head' = asked
    BY <1>3 DEF ReadFolder, ListInv
  <2>2. \/ phase' \in {"listed", "thrown"} /\ data' = <<>>
        \/ /\ phase' = "reading" /\ (\E sector : data' = FolderAt(sector))
           /\ current_entry' = IF asked.parent THEN 2 ELSE 0
    BY <1>3 DEF ReadFolder
  <2>3. CASE phase' \in {"listed", "thrown"} /\ data' = <<>>
    BY <2>1, <2>3 DEF ListInv
  <2>4. CASE /\ phase' = "reading" /\ (\E sector : data' = FolderAt(sector))
             /\ current_entry' = IF asked.parent THEN 2 ELSE 0
    <3>1. data' \in Seq(Entry)
      BY <2>1, <2>4, FolderIs
    <3>2. current_entry' = Dots' /\ Dots' \in Nat
      BY <2>1, <2>4 DEF Dots
    <3>3. Listing(Dots, NoNodes)'
      <4>1. (data \in Seq(Entry) => Listing(Dots, NoNodes))'
        BY NothingListed, PTL
      <4> QED
        BY <3>1, <4>1
    <3>4. Listing(current_entry, DirectoryMap)'
      BY <2>1, <3>2, <3>3 DEF NoNodes
    <3> QED
      BY <2>1, <2>4, <3>1, <3>2, <3>4 DEF ListInv
  <2> QED
    BY <2>2, <2>3, <2>4
<1>4. CASE Deleted
  <2>1. /\ data \in Seq(Entry) /\ current_entry \in Nat /\ Dots <= current_entry
        /\ Listing(current_entry, DirectoryMap) /\ disk \in Disks
    BY <1>4 DEF Deleted, Reading, ListInv
  <2>2. /\ data[current_entry + 1].mark = "deleted" /\ current_entry' = current_entry + 1
        /\ DirectoryMap' = DirectoryMap /\ UNCHANGED <<disk, phase, head, data>> /\ phase = "reading"
    BY <1>4 DEF Deleted, Reading, entryAt, Skip, Kept
  <2>3. Listing(current_entry', DirectoryMap')
    BY <2>1, <2>2, TurnSkips
  <2> QED
    BY <2>1, <2>2, <2>3, TurnKept
<1>5. CASE ShortName
  <2> DEFINE e == current_entry
             t == data[e + 1]
  <2>1. /\ data \in Seq(Entry) /\ e \in Nat /\ Dots <= e /\ Listing(e, DirectoryMap)
        /\ disk \in Disks /\ e < Len(data)
    BY <1>5 DEF ShortName, Reading, ListInv
  <2>2. /\ t.mark # "deleted" /\ t.attr # "long name" /\ current_entry' = e + 1
        /\ DirectoryMap' = addEntry(t.name, t, e)
        /\ UNCHANGED <<disk, phase, head, data>> /\ phase = "reading"
    BY <1>5 DEF ShortName, Reading, entryAt, Skip, Kept
  <2>3. Turn(e, e + 1, t.name, t)
    BY <2>1, <2>2, ShortTurn
  <2>4. Listing(e + 1, addEntry(t.name, t, (e + 1) - 1))
    BY <2>1, <2>3, TurnAdds
  <2>5. (e + 1) - 1 = e /\ e + 1 \in Nat /\ e <= e + 1
    BY <2>1
  <2>6. Listing(current_entry', DirectoryMap')
    BY <2>2, <2>4, <2>5
  <2> QED
    BY <2>1, <2>2, <2>5, <2>6, TurnKept
<1>6. CASE LongName
  <2> DEFINE e == current_entry
  <2>1. /\ data \in Seq(Entry) /\ e \in Nat /\ Dots <= e /\ Listing(e, DirectoryMap)
        /\ disk \in Disks /\ e < Len(data)
    BY <1>6 DEF LongName, Reading, ListInv
  <2>2. /\ AtLongName(e) /\ UNCHANGED <<disk, phase, head, data>> /\ phase = "reading"
    BY <1>6 DEF LongName, Reading, entryAt, Kept, AtLongName
  <2>3. PICK behind \in Behinds :
          LET memory == MemoryFrom(e, behind)
              parts  == 1 + MoreParts(memory)
          IN /\ DirectoryMap' = addEntry(Prepended(memory, parts), memory[parts + 1], e + parts)
             /\ current_entry' = e + (parts + 1)
    BY <1>6 DEF LongName, Skip, MemoryFrom
  <2> DEFINE memory == MemoryFrom(e, behind)
             parts  == 1 + MoreParts(memory)
             name   == Prepended(memory, parts)
             t      == memory[parts + 1]
  <2>4. parts \in Nat /\ Turn(e, e + parts + 1, name, t)
    BY <2>1, <2>2, LongTurn
  <2>5. DirectoryMap' = addEntry(name, t, e + parts) /\ current_entry' = e + (parts + 1)
    BY <2>3
  <2> HIDE DEF memory, parts, name, t
  <2>6. Listing(e + parts + 1, addEntry(name, t, (e + parts + 1) - 1))
    BY <2>1, <2>4, TurnAdds
  <2>7. /\ (e + parts + 1) - 1 = e + parts /\ e + (parts + 1) = e + parts + 1
        /\ e + parts + 1 \in Nat /\ e <= e + parts + 1
    BY <2>1, <2>4
  <2>8. Listing(current_entry', DirectoryMap')
    BY <2>5, <2>6, <2>7
  <2> QED
    BY <2>1, <2>2, <2>5, <2>7, <2>8, TurnKept
<1>7. CASE EntriesEnd
  <2>1. /\ data \in Seq(Entry) /\ current_entry \in Nat /\ current_entry >= Len(data)
        /\ Listing(current_entry, DirectoryMap)
        /\ disk \in Disks /\ phase' = "listed"
        /\ UNCHANGED <<disk, head, data, current_entry, DirectoryMap>>
    BY <1>7 DEF EntriesEnd, ListInv
  <2>2. Listing(current_entry, DirectoryMap)'
    BY <2>1, SameListing
  <2>3. Len(data) \in Nat
    BY <2>1
  <2> QED
    BY <2>1, <2>2, <2>3 DEF ListInv
<1>8. CASE UNCHANGED folderVars
  <2>1. UNCHANGED <<disk, phase, head, data, current_entry, DirectoryMap>>
    BY <1>8 DEF folderVars
  <2>2. Listing(current_entry, DirectoryMap)' <=> Listing(current_entry, DirectoryMap)
    BY <2>1, SameListing
  <2>3. Dots' = Dots
    BY <2>1 DEF Dots
  <2> QED
    BY <2>1, <2>2, <2>3 DEF ListInv
<1>9. ASSUME ReadRoot \/ \E name \in DOMAIN DirectoryMap : ReadChild(name) PROVE ListInv'
  <2>1. \E asked : ReadFolder(asked)
    BY <1>9 DEF ReadRoot, ReadChild
  <2> QED
    BY <1>3, <2>1
<1> QED
  BY <1>1, <1>2, <1>4, <1>5, <1>6, <1>7, <1>8, <1>9 DEF FolderNext

\* However damaged a folder is, no live entry of it is lost but to one before it
\* of the same name, and what is listed is live, of zeros or behind a part of a
\* long name; an undamaged one is listed exactly, and one nameless file more if
\* it has unused entries (read_folder, addEntry).
THEOREM FolderIsListed == FolderSpec => []ListsTheFolder
<1>1. ASSUME ListInv PROVE ListsTheFolder
  <2> SUFFICES ASSUME phase = "listed", data # <<>> PROVE ListsTheFolder
    BY DEF ListsTheFolder
  <2> DEFINE m == DirectoryMap
             e == current_entry
  <2>1. /\ data \in Seq(Entry) /\ e \in Nat /\ Len(data) <= e
        /\ NoneLost(e, m) /\ NoStranger(m) /\ (Undamaged => Exact(e, m))
    BY <1>1 DEF ListInv, Listing
  <2>2. \A i \in ToList \cup Zeros : i <= e
    <3>1. \A i \in ToList \cup Zeros : i \in Nat /\ i <= Len(data)
      BY <2>1, EntriesAre, OwnIs
    <3>2. Len(data) \in Nat
      BY <2>1
    <3> QED
      BY <2>1, <3>1, <3>2
  <2> HIDE DEF e
  <2>3. \A i \in ToList : i \in Nodes(m) \/ \E n \in NamesOf(i) \cap DOMAIN m : m[n].at + 1 < i
    BY <2>1, <2>2 DEF NoneLost
  <2>4. \A i \in Nodes(m) : i \in ToList \cup Zeros \/ Part(Smaller(i - 1, Len(data)))
    BY <2>1 DEF NoStranger
  <2>5. ASSUME Undamaged
        PROVE  /\ DOMAIN m \ {<<>>} = {NameOf(i) : i \in ToList}
               /\ \A i \in ToList : m[NameOf(i)].at + 1 = i
               /\ <<>> \in DOMAIN m <=> Zeros # {}
    <3>1. Exact(e, m)
      BY <2>1, <2>5
    <3>2. \A i \in ToList : NameOf(i) \in DOMAIN m /\ m[NameOf(i)].at + 1 = i /\ NameOf(i) # <<>>
      BY <2>2, <2>5, <3>1 DEF Exact, Undamaged
    <3>3. \A n \in DOMAIN m \ {<<>>} : \E i \in ToList : n = NameOf(i)
      BY <3>1 DEF Exact
    <3>4. <<>> \in DOMAIN m <=> Zeros # {}
      BY <2>2, <3>1 DEF Exact
    <3> QED
      BY <3>2, <3>3, <3>4
  <2> QED
    BY <2>3, <2>4, <2>5 DEF ListsTheFolder, Nodes, Zeros
<1> QED
  BY <1>1, InitList, NextList, PTL DEF FolderSpec
-----------------------------------------------------------------------------
(* Paths                                                                   *)

\* The names of the entries of the volumes; paths of them, and how a path begins.
Names == UNION {UNION {DOMAIN d[c] : c \in DOMAIN d} : d \in Volumes}
Path == Seq(Names)
PathTo(p, k) == SubSeq(p, 1, k)

\* The path of an entry on the volume: it leads through folders.
VolumeEntry(p) ==
  /\ p \in Path
  /\ \A k \in 1 .. Len(p) :
       /\ At(PathTo(p, k - 1)) \in DOMAIN volume
       /\ p[k] \in DOMAIN volume[At(PathTo(p, k - 1))]

\* What the beginning of a path is.
LEMMA PathToIs ==
  ASSUME NEW p \in Path, NEW k \in 0 .. Len(p)
  PROVE  /\ PathTo(p, k) \in Path /\ Len(PathTo(p, k)) = k
         /\ \A i \in 1 .. k : PathTo(p, k)[i] = p[i]
         /\ \A j \in 0 .. k : PathTo(PathTo(p, k), j) = PathTo(p, j)
         /\ k = Len(p) => PathTo(p, k) = p
         /\ k = 0 => PathTo(p, k) = <<>>
BY DEF PathTo, Path

\* A path that goes one name further.
LEMMA LongerIs ==
  ASSUME NEW p \in Path, NEW n \in Names
  PROVE  LET q == Append(p, n) IN
         /\ q \in Path /\ Len(q) = Len(p) + 1 /\ q[Len(q)] = n
         /\ \A k \in 0 .. Len(p) : PathTo(q, k) = PathTo(p, k)
         /\ PathTo(q, Len(p)) = p /\ Front(q) = p /\ q # <<>> /\ q # p
BY DEF PathTo, Path, Front

\* A path is that of its parent with a name more.
LEMMA ParentIs ==
  ASSUME NEW q \in Path, q # <<>>
  PROVE  /\ Len(q) - 1 \in Nat /\ Front(q) = PathTo(q, Len(q) - 1)
         /\ Front(q) \in Path /\ Len(Front(q)) = Len(q) - 1
         /\ q[Len(q)] \in Names /\ q = Append(Front(q), q[Len(q)])
<1>1. Len(q) \in Nat \ {0} /\ Len(q) - 1 \in Nat /\ Front(q) = PathTo(q, Len(q) - 1)
  BY DEF PathTo, Path, Front
<1>2. Front(q) \in Path /\ Len(Front(q)) = Len(q) - 1
  BY <1>1, PathToIs
<1>6. q[Len(q)] \in Names
  BY <1>1 DEF Path
<1>3. Len(Append(Front(q), q[Len(q)])) = Len(q)
  BY <1>1, <1>2, <1>6 DEF Path
<1>4. \A i \in 1 .. Len(q) : Append(Front(q), q[Len(q)])[i] = q[i]
  BY <1>1, <1>2, <1>6 DEF Path, PathTo
<1>5. q = Append(Front(q), q[Len(q)])
  BY <1>1, <1>2, <1>3, <1>4, <1>6 DEF Path
<1> QED
  BY <1>1, <1>2, <1>5, <1>6

\* What it is to begin with a path, and to go on below it.
LEMMA PrefixIs ==
  ASSUME NEW p \in Path, NEW q \in Path
  PROVE  /\ IsPrefix(p, q) <=> Len(p) <= Len(q) /\ p = PathTo(q, Len(p))
         /\ Below(q, p) <=> Len(p) < Len(q) /\ p = PathTo(q, Len(p))
<1>1. PathTo(p, Len(p)) = p /\ PathTo(q, Len(q)) = q /\ Len(p) \in Nat /\ Len(q) \in Nat
  BY DEF Path, PathTo
<1>2. IsPrefix(p, q) <=> Len(p) <= Len(q) /\ p = PathTo(q, Len(p))
  BY <1>1 DEF IsPrefix, PathTo
<1> QED
  BY <1>1, <1>2 DEF Below, IsStrictPrefix

-----------------------------------------------------------------------------
(* Where a path leads                                                      *)

\* f is where the first names of p lead, to the m-th one.
Leads(f, p, m) == f = [k \in 0 .. m |-> IF k = 0 THEN 0 ELSE volume[f[k - 1]][p[k]]]

\* Every sequence of names leads somewhere.
LEMMA LeadsExists ==
  ASSUME NEW p, NEW m \in Nat
  PROVE  \E f : Leads(f, p, m)
<1> DEFINE S == {k \in Nat : ~\E f : Leads(f, p, k)}
<1>1. S = {}
  <2> SUFFICES ASSUME S # {} PROVE FALSE
    OBVIOUS
  <2>1. S \in SUBSET Nat
    OBVIOUS
  <2>2. PICK k \in S : \A j \in S : k <= j
    BY <2>1, LeastElement
  <2>3. k \in Nat /\ ~\E f : Leads(f, p, k)
    BY <2>2
  <2>4. CASE k = 0
    <3> DEFINE f == [n \in 0 .. k |-> 0]
    <3>1. Leads(f, p, k)
      BY <2>4 DEF Leads
    <3> QED
      BY <2>3, <3>1
  <2>5. CASE k # 0
    <3>1. k - 1 \in Nat /\ k - 1 \notin S
      BY <2>2, <2>3, <2>5
    <3>2. PICK g : Leads(g, p, k - 1)
      BY <3>1
    <3> DEFINE f == [n \in 0 .. k |-> IF n = k THEN volume[g[k - 1]][p[k]] ELSE g[n]]
    <3>3. \A n \in 0 .. k - 1 : g[n] = IF n = 0 THEN 0 ELSE volume[g[n - 1]][p[n]]
      BY <3>2 DEF Leads
    <3>4. Leads(f, p, k)
      BY <2>3, <2>5, <3>3 DEF Leads
    <3> QED
      BY <2>3, <3>4
  <2> QED
    BY <2>4, <2>5
<1> QED
  BY <1>1

\* The first names of two paths that begin alike lead to the same.
LEMMA LeadsAgree ==
  ASSUME NEW p, NEW q, NEW m \in Nat, NEW n \in Nat, NEW f, NEW g,
         Leads(f, p, m), Leads(g, q, n),
         NEW k \in Nat, k <= m, k <= n, \A i \in 1 .. k : p[i] = q[i]
  PROVE  f[k] = g[k]
<1> DEFINE S == {i \in 0 .. k : f[i] # g[i]}
<1>1. /\ \A i \in 0 .. m : f[i] = IF i = 0 THEN 0 ELSE volume[f[i - 1]][p[i]]
      /\ \A i \in 0 .. n : g[i] = IF i = 0 THEN 0 ELSE volume[g[i - 1]][q[i]]
  BY DEF Leads
<1>2. S = {}
  <2> SUFFICES ASSUME S # {} PROVE FALSE
    OBVIOUS
  <2>1. S \in SUBSET Nat
    OBVIOUS
  <2>2. PICK i \in S : \A j \in S : i <= j
    BY <2>1, LeastElement
  <2>3. i \in 0 .. k /\ f[i] # g[i]
    BY <2>2
  <2>4. i # 0
    BY <1>1, <2>3
  <2>5. i - 1 \in 0 .. k /\ i - 1 \notin S /\ i \in 0 .. m /\ i \in 0 .. n /\ i \in 1 .. k
    BY <2>2, <2>3, <2>4
  <2>6. f[i - 1] = g[i - 1] /\ p[i] = q[i]
    BY <2>5
  <2> QED
    BY <1>1, <2>3, <2>4, <2>5, <2>6
<1> QED
  BY <1>2

\* Where each beginning of a path leads follows from the one before and the name.
LEMMA AtFollows ==
  ASSUME NEW p \in Path
  PROVE  /\ At(PathTo(p, 0)) = 0
         /\ \A k \in 1 .. Len(p) : At(PathTo(p, k)) = volume[At(PathTo(p, k - 1))][p[k]]
<1>0. Len(p) \in Nat
  BY DEF Path
<1>1. PICK f : Leads(f, p, Len(p))
  BY <1>0, LeadsExists
<1>2. ASSUME NEW k \in 0 .. Len(p) PROVE At(PathTo(p, k)) = f[k]
  <2> DEFINE u == PathTo(p, k)
             g == CHOOSE h : Leads(h, u, Len(u))
  <2>1. u \in Path /\ Len(u) = k /\ \A i \in 1 .. k : u[i] = p[i]
    BY PathToIs
  <2>2. At(u) = g[Len(u)]
    BY DEF At, Leads
  <2>3. Leads(g, u, k)
    BY <2>1, LeadsExists
  <2> HIDE DEF u, g
  <2>4. g[k] = f[k]
    BY <1>0, <1>1, <2>1, <2>3, LeadsAgree
  <2> QED
    BY <2>1, <2>2, <2>4 DEF u
<1>3. \A k \in 0 .. Len(p) : f[k] = IF k = 0 THEN 0 ELSE volume[f[k - 1]][p[k]]
  BY <1>1 DEF Leads
<1> QED
  BY <1>0, <1>2, <1>3

\* As long as the volume stays, so does where a path leads.
LEMMA DiskKept ==
  ASSUME volume' = volume
  PROVE  /\ \A p : At(p)' = At(p)
         /\ \A p : IsFolder(p)' <=> IsFolder(p)
         /\ \A p : Kids(p)' = Kids(p)
         /\ \A p : VolumeEntry(p)' <=> VolumeEntry(p)
         /\ \A f : Held(f)' = Held(f)
<1>1. \A p : At(p)' = At(p)
  BY DEF At
<1>2. \A p : Kids(p)' = Kids(p)
  BY <1>1 DEF Kids
<1>3. \A p : IsFolder(p)' <=> IsFolder(p)
  BY <1>1 DEF IsFolder
<1>4. \A p : VolumeEntry(p)' <=> VolumeEntry(p)
  BY <1>1 DEF VolumeEntry
<1>5. \A f : Held(f)' = Held(f)
  BY <1>2 DEF Held
<1> QED
  BY <1>1, <1>2, <1>3, <1>4, <1>5

-----------------------------------------------------------------------------
(* Entries of the volume                                                   *)

\* The volume, from the assumption.
LEMMA VolumeIs ==
  ASSUME volume \in Volumes
  PROVE  /\ 0 \in DOMAIN volume /\ DOMAIN volume \subseteq Nat /\ IsFiniteSet(DOMAIN volume)
         /\ \A c \in DOMAIN volume : \A n \in DOMAIN volume[c] :
              n \in Names /\ volume[c][n] \in DOMAIN volume \cup Files
         /\ Files \cap DOMAIN volume = {} /\ MaxDepth \in Nat
BY VolumesAssumption DEF Names, Files, File, OtherSize, NoClusters

\* The root is a folder.
LEMMA RootIs ==
  ASSUME volume \in Volumes
  PROVE  VolumeEntry(<<>>) /\ IsFolder(<<>>) /\ <<>> \in Path
<1>1. <<>> \in Path /\ Len(<<>>) = 0
  BY DEF Path
<1>2. At(PathTo(<<>>, 0)) = 0 /\ PathTo(<<>>, 0) = <<>>
  BY <1>1, AtFollows, PathToIs
<1> QED
  BY <1>1, <1>2 DEF VolumeEntry, IsFolder, Files, File, OtherSize, NoClusters

\* An entry is a file, or leads to a folder of the volume.
LEMMA EntryIs ==
  ASSUME volume \in Volumes, NEW p, VolumeEntry(p)
  PROVE  /\ p \in Path /\ Len(p) \in Nat
         /\ IsFolder(p) <=> At(p) \in DOMAIN volume
<1>1. p \in Path /\ Len(p) \in Nat /\ PathTo(p, Len(p)) = p
  BY PathToIs DEF VolumeEntry, Path
<1>2. At(p) \in DOMAIN volume \cup Files
  <2>1. CASE Len(p) = 0
    BY <1>1, <2>1, AtFollows, VolumeIs
  <2>2. CASE Len(p) # 0
    <3>1. Len(p) \in 1 .. Len(p)
      BY <1>1, <2>2
    <3>2. At(p) = volume[At(PathTo(p, Len(p) - 1))][p[Len(p)]]
      BY <1>1, <3>1, AtFollows
    <3>3. /\ At(PathTo(p, Len(p) - 1)) \in DOMAIN volume
          /\ p[Len(p)] \in DOMAIN volume[At(PathTo(p, Len(p) - 1))]
      BY <3>1 DEF VolumeEntry
    <3> QED
      BY <3>2, <3>3, VolumeIs
  <2> QED
    BY <2>1, <2>2
<1> QED
  BY <1>1, <1>2, VolumeIs DEF IsFolder

\* What a folder's node holds are entries one name further.
LEMMA KidIs ==
  ASSUME volume \in Volumes, NEW p, VolumeEntry(p), IsFolder(p), NEW q \in Kids(p)
  PROVE  /\ VolumeEntry(q) /\ q \in Path /\ q # <<>> /\ Len(q) = Len(p) + 1
         /\ Front(q) = p /\ PathTo(q, Len(p)) = p
<1>1. p \in Path /\ Len(p) \in Nat /\ At(p) \in DOMAIN volume
  BY EntryIs
<1>2. PICK n \in DOMAIN volume[At(p)] : q = Append(p, n)
  BY DEF Kids
<1>3. n \in Names
  BY <1>1, <1>2, VolumeIs
<1>4. /\ q \in Path /\ Len(q) = Len(p) + 1 /\ q[Len(q)] = n
      /\ \A k \in 0 .. Len(p) : PathTo(q, k) = PathTo(p, k)
      /\ PathTo(q, Len(p)) = p /\ Front(q) = p /\ q # <<>>
  BY <1>1, <1>2, <1>3, LongerIs
<1>5. ASSUME NEW k \in 1 .. Len(q)
      PROVE  /\ At(PathTo(q, k - 1)) \in DOMAIN volume
             /\ q[k] \in DOMAIN volume[At(PathTo(q, k - 1))]
  <2>1. CASE k = Len(q)
    BY <1>1, <1>2, <1>4, <2>1
  <2>2. CASE k # Len(q)
    <3>1. k \in 1 .. Len(p) /\ k - 1 \in 0 .. Len(p)
      BY <1>1, <1>4, <2>2
    <3>2. q[k] = p[k]
      BY <1>1, <1>2, <1>3, <3>1 DEF Path
    <3> QED
      BY <1>4, <3>1, <3>2 DEF VolumeEntry
  <2> QED
    BY <2>1, <2>2
<1> QED
  BY <1>4, <1>5 DEF VolumeEntry

\* An entry lies in folders, each an entry of the one before.
LEMMA FoldersAbove ==
  ASSUME volume \in Volumes, NEW q, VolumeEntry(q), NEW k \in 0 .. Len(q) - 1
  PROVE  VolumeEntry(PathTo(q, k)) /\ IsFolder(PathTo(q, k)) /\ PathTo(q, k + 1) \in Kids(PathTo(q, k))
<1>1. q \in Path /\ Len(q) \in Nat /\ k \in 0 .. Len(q) /\ k + 1 \in 1 .. Len(q)
  BY EntryIs
<1> DEFINE u == PathTo(q, k)
           v == PathTo(q, k + 1)
<1>2. /\ u \in Path /\ Len(u) = k /\ \A i \in 1 .. k : u[i] = q[i]
      /\ \A j \in 0 .. k : PathTo(u, j) = PathTo(q, j)
  BY <1>1, PathToIs
<1>3. /\ v \in Path /\ Len(v) = k + 1 /\ \A i \in 1 .. k + 1 : v[i] = q[i]
      /\ PathTo(v, k) = u
  BY <1>1, PathToIs
<1>4. At(u) \in DOMAIN volume /\ q[k + 1] \in DOMAIN volume[At(u)]
  <2>1. (k + 1) - 1 = k
    BY <1>1
  <2> QED
    BY <1>1, <2>1 DEF VolumeEntry
<1>5. VolumeEntry(u)
  <2> SUFFICES ASSUME NEW i \in 1 .. Len(u)
               PROVE  /\ At(PathTo(u, i - 1)) \in DOMAIN volume
                      /\ u[i] \in DOMAIN volume[At(PathTo(u, i - 1))]
    BY <1>2 DEF VolumeEntry
  <2>1. i \in 1 .. Len(q) /\ i - 1 \in 0 .. k /\ i \in 1 .. k
    BY <1>1, <1>2
  <2>2. PathTo(u, i - 1) = PathTo(q, i - 1) /\ u[i] = q[i]
    BY <1>2, <2>1
  <2> HIDE DEF u, v
  <2> QED
    BY <2>1, <2>2 DEF VolumeEntry
<1>6. v = Append(u, q[k + 1])
  <2> HIDE DEF u, v
  <2>1. v # <<>> /\ Front(v) = PathTo(v, Len(v) - 1) /\ v = Append(Front(v), v[Len(v)])
    <3>1. v # <<>>
      BY <1>1, <1>3 DEF Path
    <3> QED
      BY <1>3, <3>1, ParentIs
  <2>2. Len(v) - 1 = k /\ v[Len(v)] = q[k + 1]
    BY <1>1, <1>3
  <2> QED
    BY <1>3, <2>1, <2>2
<1>7. v \in Kids(u)
  BY <1>4, <1>6 DEF Kids
<1>8. IsFolder(u)
  BY <1>4, <1>5, EntryIs
<1> QED
  BY <1>5, <1>7, <1>8

\* The parent of an entry is a folder that holds it.
LEMMA ParentHolds ==
  ASSUME volume \in Volumes, NEW q, VolumeEntry(q), q # <<>>
  PROVE  /\ VolumeEntry(Front(q)) /\ IsFolder(Front(q)) /\ q \in Kids(Front(q))
         /\ Len(Front(q)) = Len(q) - 1 /\ Front(q) \in Path /\ Len(q) - 1 \in Nat
<1>1. q \in Path /\ Len(q) \in Nat /\ PathTo(q, Len(q)) = q
  BY EntryIs, PathToIs
<1>2. /\ Len(q) - 1 \in Nat /\ Front(q) = PathTo(q, Len(q) - 1)
      /\ Front(q) \in Path /\ Len(Front(q)) = Len(q) - 1
  BY <1>1, ParentIs
<1>3. Len(q) - 1 \in 0 .. Len(q) - 1 /\ (Len(q) - 1) + 1 = Len(q)
  BY <1>1, <1>2
<1> QED
  BY <1>1, <1>2, <1>3, FoldersAbove

\* A file has nothing below it.
LEMMA FileIsLast ==
  ASSUME volume \in Volumes, NEW p, NEW q, VolumeEntry(p), VolumeEntry(q), ~IsFolder(p), IsPrefix(p, q)
  PROVE  p = q
<1>1. p \in Path /\ q \in Path /\ Len(p) \in Nat /\ Len(q) \in Nat
  BY EntryIs
<1>2. Len(p) <= Len(q) /\ p = PathTo(q, Len(p))
  BY <1>1, PrefixIs
<1>3. CASE Len(p) = Len(q)
  BY <1>1, <1>2, <1>3, PathToIs
<1>4. CASE Len(p) # Len(q)
  BY <1>1, <1>2, <1>4, FoldersAbove
<1> QED
  BY <1>3, <1>4

-----------------------------------------------------------------------------
(* The files below a folder                                                *)

\* f is the entries with n names, up to m.
Levels(f, m) ==
  f = [n \in 0 .. m |->
         IF n = 0 THEN {<<>>} ELSE UNION {Kids(q) : q \in {r \in f[n - 1] : IsFolder(r)}}]

\* There are entries with any number of names.
LEMMA LevelsExist ==
  ASSUME NEW m \in Nat
  PROVE  \E f : Levels(f, m)
<1> DEFINE S == {k \in Nat : ~\E f : Levels(f, k)}
<1>1. S = {}
  <2> SUFFICES ASSUME S # {} PROVE FALSE
    OBVIOUS
  <2>1. S \in SUBSET Nat
    OBVIOUS
  <2>2. PICK k \in S : \A j \in S : k <= j
    BY <2>1, LeastElement
  <2>3. k \in Nat /\ ~\E f : Levels(f, k)
    BY <2>2
  <2>4. CASE k = 0
    <3> DEFINE f == [n \in 0 .. k |-> {<<>>}]
    <3>1. Levels(f, k)
      BY <2>4 DEF Levels
    <3> QED
      BY <2>3, <3>1
  <2>5. CASE k # 0
    <3>1. k - 1 \in Nat /\ k - 1 \notin S
      BY <2>2, <2>3, <2>5
    <3>2. PICK g : Levels(g, k - 1)
      BY <3>1
    <3> DEFINE next == UNION {Kids(q) : q \in {r \in g[k - 1] : IsFolder(r)}}
               f == [n \in 0 .. k |-> IF n = k THEN next ELSE g[n]]
    <3>3. \A n \in 0 .. k - 1 :
            g[n] = IF n = 0 THEN {<<>>} ELSE UNION {Kids(q) : q \in {r \in g[n - 1] : IsFolder(r)}}
      BY <3>2 DEF Levels
    <3>4. Levels(f, k)
      <4>1. ASSUME NEW n \in 0 .. k
            PROVE  f[n] = IF n = 0 THEN {<<>>}
                          ELSE UNION {Kids(q) : q \in {r \in f[n - 1] : IsFolder(r)}}
        <5>1. CASE n = k
          <6>1. f[n] = next /\ n # 0 /\ f[n - 1] = g[k - 1]
            BY <2>3, <2>5, <5>1
          <6> QED
            BY <5>1, <6>1
        <5>2. CASE n # k
          <6>1. n \in 0 .. k - 1 /\ f[n] = g[n] /\ (n # 0 => f[n - 1] = g[n - 1])
            BY <2>3, <5>2
          <6> HIDE DEF f
          <6> QED
            BY <3>3, <6>1
        <5> QED
          BY <5>1, <5>2
      <4>2. f = [n \in 0 .. k |-> f[n]]
        OBVIOUS
      <4> HIDE DEF f
      <4> QED
        BY <4>1, <4>2 DEF Levels
    <3> QED
      BY <2>3, <3>4
  <2> QED
    BY <2>4, <2>5
<1> QED
  BY <1>1

\* They are the entries with n names.
LEMMA LevelIs ==
  ASSUME volume \in Volumes, NEW m \in Nat, NEW f, Levels(f, m), NEW n \in 0 .. m
  PROVE  \A q : q \in f[n] <=> VolumeEntry(q) /\ Len(q) = n
<1> DEFINE Right(k) == \A q : q \in f[k] <=> VolumeEntry(q) /\ Len(q) = k
           S == {k \in 0 .. m : ~Right(k)}
<1>1. \A k \in 0 .. m :
        f[k] = IF k = 0 THEN {<<>>} ELSE UNION {Kids(q) : q \in {r \in f[k - 1] : IsFolder(r)}}
  BY DEF Levels
<1>2. S = {}
  <2> SUFFICES ASSUME S # {} PROVE FALSE
    OBVIOUS
  <2>1. S \in SUBSET Nat
    OBVIOUS
  <2>2. PICK k \in S : \A j \in S : k <= j
    BY <2>1, LeastElement
  <2>3. k \in 0 .. m /\ ~Right(k)
    BY <2>2
  <2>4. CASE k = 0
    <3>1. \A q : VolumeEntry(q) /\ Len(q) = 0 => q = <<>>
      BY EntryIs DEF Path
    <3>2. VolumeEntry(<<>>) /\ Len(<<>>) = 0
      BY RootIs
    <3>3. f[k] = {<<>>}
      BY <1>1, <2>3, <2>4
    <3> QED
      BY <2>3, <2>4, <3>1, <3>2, <3>3
  <2>5. CASE k # 0
    <3>1. k - 1 \in 0 .. m /\ k - 1 \notin S
      BY <2>2, <2>3, <2>5
    <3>2. Right(k - 1)
      BY <3>1
    <3>3. f[k] = UNION {Kids(q) : q \in {r \in f[k - 1] : IsFolder(r)}}
      BY <1>1, <2>3, <2>5
    <3>4. ASSUME NEW q \in f[k] PROVE VolumeEntry(q) /\ Len(q) = k
      <4>1. PICK r \in f[k - 1] : IsFolder(r) /\ q \in Kids(r)
        BY <3>3
      <4>2. VolumeEntry(r) /\ Len(r) = k - 1
        BY <3>2, <4>1
      <4>3. VolumeEntry(q) /\ Len(q) = Len(r) + 1
        BY <4>1, <4>2, KidIs
      <4> QED
        BY <2>3, <4>2, <4>3
    <3>5. ASSUME NEW q, VolumeEntry(q), Len(q) = k PROVE q \in f[k]
      <4>1. q # <<>>
        BY <2>5, <3>5
      <4>2. /\ VolumeEntry(Front(q)) /\ IsFolder(Front(q)) /\ q \in Kids(Front(q))
            /\ Len(Front(q)) = k - 1
        BY <3>5, <4>1, ParentHolds
      <4>3. Front(q) \in f[k - 1]
        BY <3>2, <4>2
      <4> QED
        BY <3>3, <4>2, <4>3
    <3> QED
      BY <2>3, <3>4, <3>5
  <2> QED
    BY <2>4, <2>5
<1>3. n \notin S
  BY <1>2
<1> QED
  BY <1>3

\* What FilesBelow computes.
FileBelow(q, p) == VolumeEntry(q) /\ ~IsFolder(q) /\ Len(q) <= MaxDepth + 1 /\ IsPrefix(p, q)
LEMMA FilesAre ==
  ASSUME volume \in Volumes, NEW p, NEW q
  PROVE  q \in FilesBelow(p) <=> FileBelow(q, p)
<1> DEFINE m == MaxDepth + 1
           f == CHOOSE g : Levels(g, m)
<1>0. m \in Nat /\ MaxDepth \in Nat
  BY VolumeIs
<1>1. FilesBelow(p) = {r \in UNION {f[n] : n \in 0 .. m} : IsPrefix(p, r) /\ ~IsFolder(r)}
  BY DEF FilesBelow, Levels
<1>2. Levels(f, m)
  BY <1>0, LevelsExist
<1> HIDE DEF f
<1>3. \A n \in 0 .. m : \A r : r \in f[n] <=> VolumeEntry(r) /\ Len(r) = n
  BY <1>0, <1>2, LevelIs
<1>4. q \in UNION {f[n] : n \in 0 .. m} <=> VolumeEntry(q) /\ Len(q) <= m
  <2>1. VolumeEntry(q) => Len(q) \in Nat
    BY EntryIs
  <2>2. VolumeEntry(q) /\ Len(q) <= m => Len(q) \in 0 .. m
    BY <1>0, <2>1
  <2>3. \A n \in 0 .. m : n <= m
    BY <1>0
  <2> QED
    BY <1>3, <2>2, <2>3
<1> QED
  BY <1>1, <1>4 DEF FileBelow

\* Those of them that RecoverFile takes.
ToRecover(q, p) == FileBelow(q, p) /\ At(q) = File

-----------------------------------------------------------------------------
(* Ticks going up                                                          *)

\* f is the states after each of the first m steps up from p.
Ups(f, t, p, c, view, m) ==
  f = [k \in 0 .. m |->
         IF k = 0 THEN t
         ELSE LET parent == SubSeq(p, 1, Len(p) - k)
              IN  [f[k - 1] EXCEPT ![parent] = Form(f[k - 1], parent, c, view)]]

\* There are as many steps up as one likes.
LEMMA UpsExist ==
  ASSUME NEW t, NEW p, NEW c, NEW view, NEW m \in Nat
  PROVE  \E f : Ups(f, t, p, c, view, m)
<1> DEFINE S == {k \in Nat : ~\E f : Ups(f, t, p, c, view, k)}
<1>1. S = {}
  <2> SUFFICES ASSUME S # {} PROVE FALSE
    OBVIOUS
  <2>1. S \in SUBSET Nat
    OBVIOUS
  <2>2. PICK k \in S : \A j \in S : k <= j
    BY <2>1, LeastElement
  <2>3. k \in Nat /\ ~\E f : Ups(f, t, p, c, view, k)
    BY <2>2
  <2> DEFINE parent(i) == SubSeq(p, 1, Len(p) - i)
             Step(u, i) == [u EXCEPT ![parent(i)] = Form(u, parent(i), c, view)]
  <2>4. CASE k = 0
    <3> DEFINE f == [n \in 0 .. k |-> t]
    <3>1. Ups(f, t, p, c, view, k)
      BY <2>4 DEF Ups
    <3> QED
      BY <2>3, <3>1
  <2>5. CASE k # 0
    <3>1. k - 1 \in Nat /\ k - 1 \notin S
      BY <2>2, <2>3, <2>5
    <3>2. PICK g : Ups(g, t, p, c, view, k - 1)
      BY <3>1
    <3> DEFINE f == [n \in 0 .. k |-> IF n = k THEN Step(g[k - 1], k) ELSE g[n]]
    <3>3. \A n \in 0 .. k - 1 : g[n] = IF n = 0 THEN t ELSE Step(g[n - 1], n)
      BY <3>2 DEF Ups
    <3>4. Ups(f, t, p, c, view, k)
      <4>1. ASSUME NEW n \in 0 .. k PROVE f[n] = IF n = 0 THEN t ELSE Step(f[n - 1], n)
        <5> HIDE DEF Step
        <5>1. CASE n = k
          <6>1. f[n] = Step(g[k - 1], k) /\ n # 0 /\ f[n - 1] = g[k - 1]
            BY <2>3, <2>5, <5>1
          <6> QED
            BY <5>1, <6>1
        <5>2. CASE n # k
          <6>1. n \in 0 .. k - 1 /\ f[n] = g[n] /\ (n # 0 => f[n - 1] = g[n - 1])
            BY <2>3, <5>2
          <6> HIDE DEF f
          <6> QED
            BY <3>3, <6>1
        <5> QED
          BY <5>1, <5>2
      <4>2. f = [n \in 0 .. k |-> f[n]]
        OBVIOUS
      <4> HIDE DEF f
      <4> QED
        BY <4>1, <4>2 DEF Ups
    <3> QED
      BY <2>3, <3>4
  <2> QED
    BY <2>4, <2>5
<1> QED
  BY <1>1

\* The state a parent is given is PartiallyChecked, or that of all its children.
LEMMA FormIs ==
  ASSUME NEW t, NEW p, NEW c, TableForm(t, p, c) # "PartiallyChecked",
         NEW q \in KidsIn(t, p)
  PROVE  t[q] = TableForm(t, p, c)
<1> DEFINE folders == {r \in KidsIn(t, p) : IsFolder(r)}
           files == KidsIn(t, p) \ folders
<1>1. ASSUME NEW S, Common(t, S, c) # "PartiallyChecked", NEW r \in S
      PROVE  t[r] = Common(t, S, c)
  <2>1. Common(t, S, c) = t[CHOOSE s \in S : TRUE] /\ \A s, u \in S : t[s] = t[u]
    BY <1>1 DEF Common
  <2> QED
    BY <2>1
<1>2. q \in folders \/ q \in files
  OBVIOUS
<1>3. TableForm(t, p, c) = IF folders = {} THEN Common(t, files, c)
                           ELSE IF files = {} \/ Common(t, files, c) = Common(t, folders, c)
                                THEN Common(t, folders, c)
                                ELSE "PartiallyChecked"
  BY Zenon DEF TableForm
<1> HIDE DEF folders, files
<1> QED
  BY <1>1, <1>2, <1>3

\* Going up from p changes the folders above p only; in the table each of them is
\* then PartiallyChecked or has the state of all its children.
FormedUp(t, p, view, u) ==
  /\ DOMAIN u = DOMAIN t
  /\ \A r \in DOMAIN t : ~Below(p, r) => u[r] = t[r]
  /\ \A r \in DOMAIN t : view = "table" /\ Below(p, r) /\ u[r] # "PartiallyChecked" =>
       \A q \in KidsIn(t, r) : u[q] = u[r]
HasAllAbove(t, p) ==
  p \in Path /\ DOMAIN t \subseteq Path /\ \A j \in 0 .. Len(p) : PathTo(p, j) \in DOMAIN t
LEMMA ParentsAre ==
  ASSUME NEW t, NEW p, NEW c, NEW view, HasAllAbove(t, p)
  PROVE  FormedUp(t, p, view, UpdateParents(t, p, c, view))
<1> DEFINE L == Len(p)
           f == CHOOSE g : Ups(g, t, p, c, view, L)
           Stay(k) == /\ DOMAIN f[k] = DOMAIN t
                      /\ \A r \in DOMAIN t : Len(r) < L - k \/ ~Below(p, r) => f[k][r] = t[r]
                      /\ \A r \in DOMAIN t :
                           view = "table" /\ Len(r) >= L - k /\ Below(p, r)
                           /\ f[k][r] # "PartiallyChecked" =>
                             \A q \in KidsIn(t, r) : f[k][q] = f[k][r]
           S == {k \in 0 .. L : ~Stay(k)}
<1>9. p \in Path /\ DOMAIN t \subseteq Path /\ \A j \in 0 .. Len(p) : PathTo(p, j) \in DOMAIN t
  BY DEF HasAllAbove
<1>0. L \in Nat
  BY <1>9 DEF Path
<1>1. UpdateParents(t, p, c, view) = f[L]
  BY DEF UpdateParents, Ups
<1>2. Ups(f, t, p, c, view, L)
  BY <1>0, UpsExist
<1> HIDE DEF f
<1>8. f = [k \in 0 .. L |->
             IF k = 0 THEN t
             ELSE [f[k - 1] EXCEPT ![PathTo(p, L - k)] = Form(f[k - 1], PathTo(p, L - k), c, view)]]
  BY <1>2, Zenon DEF Ups, PathTo
<1>3. /\ f[0] = t
      /\ \A k \in 1 .. L :
           f[k] = [f[k - 1] EXCEPT ![PathTo(p, L - k)] = Form(f[k - 1], PathTo(p, L - k), c, view)]
  <2>1. ASSUME NEW k \in 0 .. L
        PROVE  f[k] = IF k = 0 THEN t
                      ELSE [f[k - 1] EXCEPT ![PathTo(p, L - k)]
                              = Form(f[k - 1], PathTo(p, L - k), c, view)]
    BY <1>8, Zenon
  <2>2. 0 \in 0 .. L /\ \A k \in 1 .. L : k \in 0 .. L /\ k # 0
    BY <1>0
  <2> QED
    BY <2>1, <2>2, Zenon
<1>4. \A r \in DOMAIN t : /\ r \in Path /\ Len(r) \in Nat
                          /\ Below(p, r) <=> Len(r) < L /\ r = PathTo(p, Len(r))
  BY <1>9, PrefixIs DEF Path
<1>5. S = {}
  <2> SUFFICES ASSUME S # {} PROVE FALSE
    OBVIOUS
  <2>1. S \in SUBSET Nat
    OBVIOUS
  <2>2. PICK k \in S : \A j \in S : k <= j
    BY <2>1, LeastElement
  <2>3. k \in 0 .. L /\ ~Stay(k)
    BY <2>2
  <2>4. CASE k = 0
    <3>1. \A r \in DOMAIN t : Below(p, r) => Len(r) < L - k
      BY <1>0, <1>4, <2>4
    <3>2. \A r \in DOMAIN t : Len(r) >= L - k => ~(Len(r) < L - k)
      BY <1>0, <1>4, <2>4
    <3> QED
      BY <1>3, <2>3, <2>4, <3>1, <3>2
  <2>5. CASE k # 0
    <3>9. k - 1 \in 0 .. L /\ k \in 1 .. L /\ L - k \in 0 .. L /\ ~(k <= k - 1)
      BY <1>0, <2>3, <2>5
    <3>1. k - 1 \in 0 .. L /\ k - 1 \notin S /\ k \in 1 .. L /\ L - k \in 0 .. L
      <4> HIDE DEF S, L
      <4> QED
        BY <2>2, <3>9
    <3> DEFINE v == f[k - 1]
               b == PathTo(p, L - k)
               w == Form(v, b, c, view)
    <3>2. Stay(k - 1) /\ f[k] = [v EXCEPT ![b] = w]
      BY <1>3, <3>1
    <3>3. b \in DOMAIN t /\ b \in Path /\ Len(b) = L - k /\ Below(p, b)
      BY <1>0, <1>4, <1>9, <3>1, PathToIs
    <3>4. DOMAIN f[k] = DOMAIN t /\ DOMAIN v = DOMAIN t
      BY <3>2
    <3>5. f[k][b] = w /\ \A r \in DOMAIN t \ {b} : f[k][r] = v[r]
      BY <3>2, <3>3, <3>4
    <3>6. ASSUME NEW r \in DOMAIN t, Len(r) < L - k \/ ~Below(p, r) PROVE f[k][r] = t[r]
      <4>1. r # b
        BY <1>0, <3>1, <3>3, <3>6
      <4>2. Len(r) < L - (k - 1) \/ ~Below(p, r)
        BY <1>0, <1>4, <3>1, <3>6
      <4> QED
        BY <3>2, <3>5, <4>1, <4>2
    <3>7. ASSUME NEW r \in DOMAIN t, view = "table", Len(r) >= L - k, Below(p, r),
                 f[k][r] # "PartiallyChecked", NEW q \in KidsIn(t, r)
          PROVE  f[k][q] = f[k][r]
      <4>1. q \in DOMAIN t /\ Len(q) = Len(r) + 1
        BY DEF KidsIn
      <4>2. q # b
        BY <1>0, <1>4, <3>1, <3>3, <3>7, <4>1
      <4>3. CASE r = b
        <5>1. KidsIn(v, b) = KidsIn(t, b)
          BY <3>4 DEF KidsIn
        <5>2. v[q] = w
          <6>0. w = TableForm(v, b, c)
            BY <3>7 DEF Form
          <6> HIDE DEF v, b, w
          <6>1. w # "PartiallyChecked" /\ q \in KidsIn(v, b)
            BY <3>5, <3>7, <4>3, <5>1
          <6> QED
            BY <6>0, <6>1, FormIs
        <5> QED
          BY <3>5, <4>1, <4>2, <4>3, <5>2
      <4>4. CASE r # b
        <5>1. Len(r) # L - k
          BY <1>4, <3>7, <4>4
        <5>2. Len(r) >= L - (k - 1)
          BY <1>0, <1>4, <3>1, <3>7, <5>1
        <5>3. v[r] = f[k][r] /\ f[k][q] = v[q]
          BY <3>5, <4>1, <4>2, <4>4
        <5> QED
          BY <3>2, <3>7, <5>2, <5>3
      <4> QED
        BY <4>3, <4>4
    <3>8. Stay(k)
      BY <3>4, <3>6, <3>7
    <3> QED
      BY <2>3, <3>8
  <2> QED
    BY <2>4, <2>5
<1>6. Stay(L)
  <2>1. L \in 0 .. L /\ L \notin S
    BY <1>0, <1>5
  <2> QED
    BY <2>1
<1>7. L - L = 0 /\ \A r \in DOMAIN t : Len(r) >= 0
  BY <1>0, <1>4
<1> QED
  BY <1>1, <1>6, <1>7 DEF FormedUp

-----------------------------------------------------------------------------
(* The invariant                                                           *)

\* A folder whose node was filled lies in filled ones.
Filled(f) ==
  \A q \in f : /\ VolumeEntry(q) /\ IsFolder(q) /\ Len(q) <= MaxDepth
               /\ \A k \in 0 .. Len(q) : PathTo(q, k) \in f

\* The indexes are those of what the filled nodes hold.
Agree(tb, tr, f) ==
  /\ DOMAIN tb = {<<>>} \cup Held(f)
  /\ DOMAIN tr = {p \in DOMAIN tb : IsFolder(p)}

\* The calls of RecoverFolder go down from t, one name a call; a call has children
\* left that are not the one of the call it made, and only the last call may have
\* its node still to read.
Frames == [at : Path, rest : SUBSET Path, read : BOOLEAN]
Calls(s, t) ==
  /\ s \in Seq(Frames) /\ t \in Path
  /\ s # <<>> => s[1].at = t /\ Len(s[Len(s)].at) = Len(t) + Len(s) - 1
  /\ \A i \in 1 .. Len(s) :
       /\ VolumeEntry(s[i].at) /\ IsFolder(s[i].at) /\ Len(s[i].at) <= MaxDepth
       /\ s[i].rest \subseteq Kids(s[i].at)
       /\ s[i].at = PathTo(s[Len(s)].at, Len(t) + i - 1)
       /\ i < Len(s) => s[i].read /\ PathTo(s[Len(s)].at, Len(t) + i) \notin s[i].rest
       /\ ~s[i].read => s[i].rest = {}
InTree(s, tr) == \A i \in 1 .. Len(s) : s[i].at \in DOMAIN tr

\* What the calls have still to recover: the children left, and a folder that
\* is not read.
Todo(s) ==
  (UNION {s[i].rest : i \in 1 .. Len(s)}) \cup {s[i].at : i \in {j \in 1 .. Len(s) : ~s[j].read}}

\* Deleted indexes are those a recovery replaced.
Stale(dg, rb, br) ==
  /\ \A q \in dg : \E p \in rb : Below(q, p)
  /\ br => rb # {}

\* A folder that is ticked or not stands for what it holds, but for those in S.
Cover(tb, S) ==
  \A q \in DOMAIN tb \ {<<>>} :
    tb[Front(q)] # "PartiallyChecked" /\ Front(q) \notin S => tb[q] = tb[Front(q)]

\* Files are written once, and those to be taken below t are, or are refused, or still to do.
Saving(sv, t, todo, ref) ==
  /\ \A q \in DOMAIN sv : /\ sv[q] = 1 /\ ToRecover(q, t)
                          /\ \A d \in todo : ~IsPrefix(d, q)
  /\ t # <<>> => \A q : ToRecover(q, t) =>
                   q \in DOMAIN sv \/ \E r \in ref \cup todo : IsPrefix(r, q)

\* The inductive invariant.
ViewsInv ==
  /\ volume \in Volumes
  /\ Filled(filled)
  /\ Agree(rows, tree, filled)
  /\ shown \in DOMAIN rows
  /\ Calls(stack, wanted) /\ InTree(stack, tree)
  /\ Stale(dangling, rebuilt, broken)
  /\ Cover(rows, Todo(stack) \cup refused)
  /\ Saving(saved, wanted, Todo(stack), refused)

\* The invariant of the next state, in terms of where this one's paths lead.
LEMMA NextState ==
  ASSUME volume \in Volumes, volume' = volume,
         Filled(filled'), Agree(rows', tree', filled'), shown' \in DOMAIN rows',
         Calls(stack', wanted'), InTree(stack', tree'), Stale(dangling', rebuilt', broken'),
         Cover(rows', Todo(stack') \cup refused'), Saving(saved', wanted', Todo(stack'), refused')
  PROVE  ViewsInv'
<1>0. /\ \A p : At(p)' = At(p)
      /\ \A p : IsFolder(p)' <=> IsFolder(p)
      /\ \A p : Kids(p)' = Kids(p)
      /\ \A p : VolumeEntry(p)' <=> VolumeEntry(p)
      /\ \A f : Held(f)' = Held(f)
  BY DiskKept
<1>1. Filled(filled)'
  BY <1>0 DEF Filled
<1>2. Agree(rows, tree, filled)'
  BY <1>0 DEF Agree, Held
<1>3. Calls(stack, wanted)'
  BY <1>0 DEF Calls
<1>4. InTree(stack, tree)' /\ Stale(dangling, rebuilt, broken)'
  BY DEF InTree, Stale
<1>5. Cover(rows, Todo(stack) \cup refused)'
  BY DEF Cover, Todo
<1>6. \A p, q : ToRecover(q, p)' <=> ToRecover(q, p)
  BY <1>0 DEF ToRecover, FileBelow
<1>7. Saving(saved, wanted, Todo(stack), refused)'
  BY <1>0 DEF Saving, ToRecover, FileBelow, Todo
<1> QED
  BY <1>1, <1>2, <1>3, <1>4, <1>5, <1>7 DEF ViewsInv

\* What is still to do, call by call.
LEMMA TodoIs ==
  ASSUME NEW s, NEW d
  PROVE  d \in Todo(s) <=>
           \E i \in 1 .. Len(s) : d \in s[i].rest \/ (~s[i].read /\ d = s[i].at)
<1> DEFINE left == {s[i].rest : i \in 1 .. Len(s)}
           unread == {s[i].at : i \in {j \in 1 .. Len(s) : ~s[j].read}}
<1>1. d \in UNION left <=> \E i \in 1 .. Len(s) : d \in s[i].rest
  OBVIOUS
<1>2. d \in unread <=> \E i \in 1 .. Len(s) : ~s[i].read /\ d = s[i].at
  OBVIOUS
<1>3. Todo(s) = (UNION left) \cup unread
  BY DEF Todo
<1> HIDE DEF left, unread
<1>4. d \in Todo(s) <=> d \in (UNION left) \/ d \in unread
  BY <1>3
<1> QED
  BY <1>1, <1>2, <1>4, Zenon

\* What a filled node holds.
LEMMA HeldAre ==
  ASSUME volume \in Volumes, NEW f, Filled(f), NEW q \in Held(f)
  PROVE  /\ VolumeEntry(q) /\ q \in Path /\ Len(q) \in Nat /\ q # <<>> /\ q \in Kids(Front(q))
         /\ Front(q) \in f /\ Front(q) \in Path
         /\ Len(Front(q)) \in Nat /\ Len(q) = Len(Front(q)) + 1
         /\ Front(q) = PathTo(q, Len(Front(q)))
<1>1. PICK p \in f : q \in Kids(p)
  BY DEF Held
<1>2. VolumeEntry(p) /\ IsFolder(p)
  BY DEF Filled
<1>3. p \in Path /\ Len(p) \in Nat
  BY <1>2, EntryIs
<1>4. /\ VolumeEntry(q) /\ q \in Path /\ q # <<>> /\ Len(q) = Len(p) + 1
      /\ Front(q) = p /\ PathTo(q, Len(p)) = p
  BY <1>1, <1>2, KidIs
<1> QED
  BY <1>1, <1>3, <1>4

\* What the indexes are of.
LEMMA IndexIs ==
  ASSUME volume \in Volumes, NEW f, Filled(f), NEW tb, NEW tr, Agree(tb, tr, f)
  PROVE  /\ \A q \in DOMAIN tb : VolumeEntry(q) /\ q \in Path /\ Len(q) \in Nat
         /\ \A q \in DOMAIN tb \ {<<>>} :
              q \in Held(f) /\ q \in Kids(Front(q)) /\ Front(q) \in f /\ Front(q) \in DOMAIN tb
         /\ \A q \in f : q \in DOMAIN tb
         /\ \A q \in DOMAIN tb : \A k \in 0 .. Len(q) : PathTo(q, k) \in DOMAIN tb
<1>1. DOMAIN tb = {<<>>} \cup Held(f)
  BY DEF Agree
<1>2. \A q \in DOMAIN tb : VolumeEntry(q) /\ q \in Path /\ Len(q) \in Nat
  BY <1>1, HeldAre, RootIs, EntryIs
<1>3. ASSUME NEW q, VolumeEntry(q), NEW k \in 0 .. Len(q), \A j \in 0 .. Len(q) - 1 : PathTo(q, j) \in f
      PROVE  PathTo(q, k) \in DOMAIN tb
  <2>1. q \in Path /\ Len(q) \in Nat /\ PathTo(q, 0) = <<>>
    BY <1>3, EntryIs, PathToIs
  <2>2. CASE k = 0
    BY <1>1, <2>1, <2>2
  <2>3. CASE k # 0
    <3>1. k - 1 \in 0 .. Len(q) - 1 /\ (k - 1) + 1 = k
      BY <2>1, <2>3
    <3>2. PathTo(q, k) \in Kids(PathTo(q, k - 1))
      BY <1>3, <3>1, FoldersAbove
    <3>3. PathTo(q, k - 1) \in f
      BY <1>3, <3>1
    <3> QED
      BY <1>1, <3>2, <3>3 DEF Held
  <2> QED
    BY <2>2, <2>3
<1>4. ASSUME NEW q \in f PROVE q \in DOMAIN tb
  <2>1. VolumeEntry(q) /\ \A k \in 0 .. Len(q) : PathTo(q, k) \in f
    BY DEF Filled
  <2>2. q \in Path /\ Len(q) \in Nat /\ PathTo(q, Len(q)) = q
    BY <2>1, EntryIs, PathToIs
  <2>3. PathTo(q, Len(q)) \in DOMAIN tb
    BY <1>3, <2>1, <2>2
  <2> QED
    BY <2>2, <2>3
<1>5. ASSUME NEW q \in Held(f), NEW k \in 0 .. Len(q) PROVE PathTo(q, k) \in DOMAIN tb
  <2>1. /\ VolumeEntry(q) /\ q \in Path /\ Len(q) \in Nat /\ Front(q) \in f
        /\ Len(q) = Len(Front(q)) + 1 /\ Front(q) = PathTo(q, Len(Front(q))) /\ Len(Front(q)) \in Nat
    BY HeldAre
  <2>2. \A j \in 0 .. Len(Front(q)) : PathTo(Front(q), j) \in f
    BY <2>1 DEF Filled
  <2>3. ASSUME NEW j \in 0 .. Len(q) - 1 PROVE PathTo(q, j) \in f
    <3>1. j \in 0 .. Len(Front(q)) /\ Len(Front(q)) \in 0 .. Len(q)
      BY <2>1
    <3>2. PathTo(PathTo(q, Len(Front(q))), j) = PathTo(q, j)
      BY <2>1, <3>1, PathToIs
    <3> QED
      BY <2>1, <2>2, <3>1, <3>2
  <2> QED
    BY <1>3, <2>1, <2>3
<1>6. PathTo(<<>>, 0) = <<>> /\ Len(<<>>) = 0
  BY RootIs, PathToIs
<1>7. \A q \in DOMAIN tb : \A k \in 0 .. Len(q) : PathTo(q, k) \in DOMAIN tb
  BY <1>1, <1>5, <1>6
<1>8. ASSUME NEW q \in DOMAIN tb \ {<<>>}
      PROVE  q \in Held(f) /\ q \in Kids(Front(q)) /\ Front(q) \in f /\ Front(q) \in DOMAIN tb
  <2>1. q \in Held(f)
    BY <1>1
  <2> QED
    BY <1>4, <2>1, HeldAre
<1> QED
  BY <1>2, <1>4, <1>7, <1>8

\* The children an index has are those its folder's node holds.
LEMMA KidsInAre ==
  ASSUME volume \in Volumes, NEW f, Filled(f), NEW tb, NEW tr, Agree(tb, tr, f),
         NEW p, VolumeEntry(p), IsFolder(p), p \in f \/ Kids(p) = {}
  PROVE  KidsIn(tb, p) = Kids(p)
<1>1. p \in Path /\ Len(p) \in Nat
  BY EntryIs
<1>2. ASSUME NEW q \in KidsIn(tb, p) PROVE q \in Kids(p)
  <2>1. q \in DOMAIN tb /\ Len(q) = Len(p) + 1 /\ Below(q, p)
    BY DEF KidsIn
  <2>2. q \in Path /\ Len(q) \in Nat /\ VolumeEntry(q)
    BY <2>1, IndexIs
  <2>3. q # <<>>
    BY <1>1, <2>1
  <2>4. q \in Kids(Front(q)) /\ Len(Front(q)) = Len(q) - 1 /\ Front(q) = PathTo(q, Len(q) - 1)
    BY <2>2, <2>3, ParentHolds, ParentIs
  <2>5. p = PathTo(q, Len(p)) /\ Len(p) = Len(q) - 1
    BY <1>1, <2>1, <2>2, PrefixIs
  <2> QED
    BY <2>4, <2>5
<1>3. ASSUME NEW q \in Kids(p) PROVE q \in KidsIn(tb, p)
  <2>1. p \in f /\ q \in Held(f)
    BY DEF Held
  <2>2. q \in Path /\ Len(q) = Len(p) + 1 /\ PathTo(q, Len(p)) = p
    BY KidIs
  <2>3. Below(q, p)
    BY <1>1, <2>2, PrefixIs
  <2> QED
    BY <2>1, <2>2, <2>3 DEF KidsIn, Agree
<1> QED
  BY <1>2, <1>3

-----------------------------------------------------------------------------
(* Reading a folder                                                        *)

\* Both models get indexes for what the node of p holds now; in the table the
\* children of p take its state, and all that is deeper is not ticked.
LEMMA Rebuilt ==
  ASSUME volume \in Volumes, Filled(filled), Agree(rows, tree, filled),
         NEW p \in DOMAIN tree, Len(p) <= MaxDepth, Rebuild(p)
  PROVE  /\ Filled(filled') /\ Agree(rows', tree', filled') /\ p \in filled'
         /\ DOMAIN rows \subseteq DOMAIN rows' /\ DOMAIN tree \subseteq DOMAIN tree'
         /\ \A q \in DOMAIN rows' :
              /\ ~Below(q, p) => q \in DOMAIN rows /\ rows'[q] = rows[q]
              /\ q \in Kids(p) => rows'[q] = rows[p]
              /\ Below(q, p) /\ q \notin Kids(p) => rows'[q] = "Unchecked"
<1>1. p \in DOMAIN rows /\ IsFolder(p) /\ VolumeEntry(p) /\ p \in Path /\ Len(p) \in Nat
  BY IndexIs DEF Agree
<1>2. /\ filled' = filled \cup {p}
      /\ tree' = resetTreeChilds(tree, p, filled')
      /\ rows' = resetTableChilds(rows, p, filled')
  BY <1>1 DEF Rebuild
<1>3. Filled(filled')
  <2>1. ASSUME NEW k \in 0 .. Len(p) PROVE PathTo(p, k) \in filled'
    <3>1. CASE k = Len(p)
      BY <1>1, <1>2, <3>1, PathToIs
    <3>2. CASE k # Len(p)
      <4>1. p # <<>>
        BY <1>1, <3>2
      <4>2. Front(p) \in filled /\ Front(p) = PathTo(p, Len(p) - 1) /\ Len(p) - 1 \in Nat
        BY <1>1, <4>1, IndexIs, ParentIs
      <4>3. k \in 0 .. Len(p) - 1 /\ Len(Front(p)) = Len(p) - 1
        BY <1>1, <3>2, <4>1, ParentIs
      <4>4. PathTo(Front(p), k) \in filled
        BY <4>2, <4>3 DEF Filled
      <4>5. PathTo(PathTo(p, Len(p) - 1), k) = PathTo(p, k)
        BY <1>1, <4>2, <4>3, PathToIs
      <4> QED
        BY <1>2, <4>2, <4>4, <4>5
    <3> QED
      BY <3>1, <3>2
  <2> QED
    BY <1>1, <1>2, <2>1 DEF Filled
<1>4. \A q \in Kids(p) : Below(q, p)
  BY <1>1, KidIs, PrefixIs
<1>5. Held(filled') = Held(filled) \cup Kids(p)
  BY <1>2 DEF Held
<1>6. ~Below(<<>>, p) /\ <<>> \in DOMAIN rows
  BY <1>1, RootIs, PrefixIs DEF Agree
<1>7. DOMAIN rows = {<<>>} \cup Held(filled) /\ DOMAIN tree = {q \in DOMAIN rows : IsFolder(q)}
  BY DEF Agree
<1> DEFINE new == {q \in Held(filled') : Below(q, p)}
           folders == {q \in Held(filled') : Below(q, p) /\ IsFolder(q)}
<1>8. rows' = [q \in {r \in DOMAIN rows : ~Below(r, p)} \cup new |->
                  IF q \notin new THEN rows[q]
                  ELSE IF q \in Kids(p) THEN rows[p] ELSE "Unchecked"]
  BY <1>2 DEF resetTableChilds
<1>9. DOMAIN tree' = {r \in DOMAIN tree : ~Below(r, p)} \cup folders
  BY <1>2 DEF resetTreeChilds
<1>10. DOMAIN rows' = {r \in DOMAIN rows : ~Below(r, p)} \cup new
  BY <1>8
<1>11. DOMAIN rows' = {<<>>} \cup Held(filled')
  BY <1>4, <1>5, <1>6, <1>7, <1>10
<1>12. DOMAIN tree' = {q \in DOMAIN rows' : IsFolder(q)}
  BY <1>4, <1>5, <1>6, <1>7, <1>9, <1>11
<1>13. Agree(rows', tree', filled')
  BY <1>11, <1>12 DEF Agree
<1>14. ASSUME NEW q \in DOMAIN rows'
       PROVE  /\ ~Below(q, p) => q \in DOMAIN rows /\ rows'[q] = rows[q]
              /\ q \in Kids(p) => rows'[q] = rows[p]
              /\ Below(q, p) /\ q \notin Kids(p) => rows'[q] = "Unchecked"
  <2>1. rows'[q] = IF q \notin new THEN rows[q]
                    ELSE IF q \in Kids(p) THEN rows[p] ELSE "Unchecked"
    BY <1>8, <1>10, Zenon
  <2>2. ~Below(q, p) => q \in DOMAIN rows /\ q \notin new
    BY <1>10
  <2>3. Below(q, p) => q \in new
    BY <1>10
  <2> HIDE DEF new
  <2> QED
    BY <1>4, <2>1, <2>2, <2>3
<1>15. DOMAIN rows \subseteq DOMAIN rows' /\ DOMAIN tree \subseteq DOMAIN tree'
  BY <1>5, <1>7, <1>11, <1>12
<1> QED
  BY <1>2, <1>3, <1>13, <1>14, <1>15

\* A folder and what is below it.
LEMMA BelowIs ==
  ASSUME NEW p \in Path, NEW q \in Path, q # <<>>
  PROVE  /\ Below(q, p) <=> Front(q) = p \/ Below(Front(q), p)
         /\ Below(p, q) => Below(p, Front(q))
         /\ ~Below(p, p) /\ Below(q, Front(q))
<1>1. /\ Len(p) \in Nat /\ Len(q) \in Nat /\ Len(q) - 1 \in Nat /\ Front(q) = PathTo(q, Len(q) - 1)
      /\ Front(q) \in Path /\ Len(Front(q)) = Len(q) - 1 /\ Len(q) - 1 \in 0 .. Len(q)
  BY ParentIs DEF Path
<1>2. \A j \in 0 .. Len(q) - 1 : PathTo(Front(q), j) = PathTo(q, j)
  BY <1>1, PathToIs
<1>3. /\ Below(q, p) <=> Len(p) < Len(q) /\ p = PathTo(q, Len(p))
      /\ Below(Front(q), p) <=> Len(p) < Len(q) - 1 /\ p = PathTo(Front(q), Len(p))
      /\ Below(p, q) <=> Len(q) < Len(p) /\ q = PathTo(p, Len(q))
      /\ Below(p, Front(q)) <=> Len(q) - 1 < Len(p) /\ Front(q) = PathTo(p, Len(q) - 1)
      /\ Below(p, p) => Len(p) < Len(p)
      /\ Below(q, Front(q)) <=> Len(q) - 1 < Len(q) /\ Front(q) = PathTo(q, Len(q) - 1)
  BY <1>1, PrefixIs
<1>4. Len(q) < Len(p) => PathTo(PathTo(p, Len(q)), Len(q) - 1) = PathTo(p, Len(q) - 1)
  BY <1>1, PathToIs
<1>5. Below(q, p) => Front(q) = p \/ Below(Front(q), p)
  <2>1. CASE Len(p) = Len(q) - 1
    BY <1>1, <1>3, <2>1
  <2>2. CASE Len(p) # Len(q) - 1
    BY <1>1, <1>2, <1>3, <2>2
  <2> QED
    BY <2>1, <2>2
<1>6. Front(q) = p \/ Below(Front(q), p) => Below(q, p)
  BY <1>1, <1>2, <1>3
<1>7. Below(p, q) => Below(p, Front(q))
  BY <1>1, <1>3, <1>4
<1> QED
  BY <1>1, <1>3, <1>5, <1>6, <1>7

\* The folder that was read covers what it holds; that its folders cover what they
\* hold is still to do.
LEMMA RebuiltCover ==
  ASSUME volume \in Volumes, Filled(filled), Agree(rows, tree, filled),
         NEW p \in DOMAIN tree, Len(p) <= MaxDepth, Rebuild(p),
         NEW S, NEW T, Cover(rows, S), S \subseteq T \cup {p}, Kids(p) \subseteq T
  PROVE  Cover(rows', T)
<1>1. /\ Filled(filled') /\ Agree(rows', tree', filled')
      /\ \A q \in DOMAIN rows' :
           /\ ~Below(q, p) => q \in DOMAIN rows /\ rows'[q] = rows[q]
           /\ q \in Kids(p) => rows'[q] = rows[p]
           /\ Below(q, p) /\ q \notin Kids(p) => rows'[q] = "Unchecked"
  BY Rebuilt
<1>2. p \in Path /\ VolumeEntry(p) /\ IsFolder(p)
  BY IndexIs DEF Agree
<1> SUFFICES ASSUME NEW q \in DOMAIN rows' \ {<<>>},
                    rows'[Front(q)] # "PartiallyChecked", Front(q) \notin T
             PROVE  rows'[q] = rows'[Front(q)]
  BY DEF Cover
<1>3. /\ q \in Path /\ q \in Kids(Front(q)) /\ Front(q) \in DOMAIN rows'
      /\ Front(q) \in Path
  BY <1>1, IndexIs
<1>4. Front(q) \notin Kids(p)
  OBVIOUS
<1>5. CASE Front(q) = p
  BY <1>1, <1>2, <1>3, <1>5, BelowIs
<1>6. CASE Below(Front(q), p)
  <2>1. Below(q, p)
    BY <1>2, <1>3, <1>6, BelowIs
  <2>2. q \notin Kids(p)
    <3>1. q \in Kids(p) => Front(q) = p
      BY <1>2, KidIs
    <3> QED
      BY <1>2, <1>3, <1>6, <3>1, BelowIs
  <2> QED
    BY <1>1, <1>3, <1>4, <1>6, <2>1, <2>2
<1>7. CASE Front(q) # p /\ ~Below(Front(q), p)
  <2>1. ~Below(q, p)
    BY <1>2, <1>3, <1>7, BelowIs
  <2>2. /\ q \in DOMAIN rows /\ rows'[q] = rows[q]
        /\ rows'[Front(q)] = rows[Front(q)]
    BY <1>1, <1>3, <1>7, <2>1
  <2>3. Front(q) \notin S
    BY <1>7
  <2> QED
    BY <2>2, <2>3 DEF Cover
<1> QED
  BY <1>5, <1>6, <1>7

-----------------------------------------------------------------------------
(* The calls of RecoverFolder                                              *)

\* A sequence with its last element replaced, taken away, or with one more.
LEMMA SequenceIs ==
  ASSUME NEW S, NEW s \in Seq(S), s # <<>>, NEW x \in S
  PROVE  /\ LET u == [s EXCEPT ![Len(s)] = x] IN
            /\ u \in Seq(S) /\ Len(u) = Len(s) /\ u # <<>> /\ u[Len(s)] = x
            /\ \A i \in 1 .. Len(s) - 1 : u[i] = s[i]
         /\ LET u == Front(s) IN
            /\ u \in Seq(S) /\ Len(u) = Len(s) - 1
            /\ \A i \in 1 .. Len(s) - 1 : u[i] = s[i]
         /\ LET u == Append(s, x) IN
            /\ u \in Seq(S) /\ Len(u) = Len(s) + 1 /\ u[Len(s) + 1] = x
            /\ \A i \in 1 .. Len(s) : u[i] = s[i]
<1> DEFINE e == [s EXCEPT ![Len(s)] = x]
           f == Front(s)
<1>1. Len(s) \in Nat \ {0} /\ s \in [1 .. Len(s) -> S]
  OBVIOUS
<1>2. e \in [1 .. Len(s) -> S] /\ e[Len(s)] = x /\ \A i \in 1 .. Len(s) - 1 : e[i] = s[i]
  <2>1. PICK n \in Nat \ {0} : n = Len(s)
    BY <1>1
  <2>2. s \in [1 .. n -> S]
    BY <1>1, <2>1
  <2>3. n \in 1 .. n /\ \A i \in 1 .. n - 1 : i \in 1 .. n /\ i # n
    BY <2>1
  <2>4. /\ [s EXCEPT ![n] = x] \in [1 .. n -> S] /\ [s EXCEPT ![n] = x][n] = x
        /\ \A i \in 1 .. n - 1 : [s EXCEPT ![n] = x][i] = s[i]
    BY ONLY <2>2, <2>3, x \in S, Zenon
  <2> QED
    BY <2>1, <2>4
<1>3. e \in Seq(S) /\ Len(e) = Len(s) /\ e # <<>>
  <2> HIDE DEF e
  <2> QED
    BY <1>1, <1>2
<1>4. f \in Seq(S) /\ Len(f) = Len(s) - 1
  BY <1>1 DEF Front
<1>5. \A i \in 1 .. Len(s) - 1 : f[i] = s[i]
  BY <1>1 DEF Front
<1>6. LET u == Append(s, x) IN
      /\ u \in Seq(S) /\ Len(u) = Len(s) + 1 /\ u[Len(s) + 1] = x
      /\ \A i \in 1 .. Len(s) : u[i] = s[i]
  BY <1>1
<1> QED
  BY <1>2, <1>3, <1>4, <1>5, <1>6, Zenon

\* The last call.
LEMMA LastCall ==
  ASSUME volume \in Volumes, NEW s, NEW t, Calls(s, t), s # <<>>
  PROVE  /\ Len(s) \in Nat \ {0} /\ Last(s) = s[Len(s)] /\ Last(s) \in Frames
         /\ s \in Seq(Frames) /\ \A i \in 1 .. Len(s) : s[i] \in Frames
         /\ VolumeEntry(Last(s).at) /\ IsFolder(Last(s).at) /\ Last(s).at \in Path
         /\ Len(Last(s).at) \in Nat /\ Len(Last(s).at) <= MaxDepth
         /\ Last(s).rest \subseteq Kids(Last(s).at)
         /\ t \in Path /\ Len(t) \in Nat /\ Len(Last(s).at) = Len(t) + Len(s) - 1
         /\ s[1].at = t /\ t = PathTo(Last(s).at, Len(t))
         /\ \A i \in 1 .. Len(s) - 1 : s[i].read
<1>1. s \in Seq(Frames) /\ Len(s) \in Nat \ {0} /\ Last(s) = s[Len(s)]
  BY DEF Calls, Last
<1>2. Len(s) \in 1 .. Len(s) /\ 1 \in 1 .. Len(s) /\ \A i \in 1 .. Len(s) : s[i] \in Frames
  BY <1>1
<1>3. /\ VolumeEntry(Last(s).at) /\ IsFolder(Last(s).at) /\ Len(Last(s).at) <= MaxDepth
      /\ Last(s).rest \subseteq Kids(Last(s).at)
  BY <1>1, <1>2 DEF Calls
<1>4. t \in Path /\ s[1].at = t /\ Len(Last(s).at) = Len(t) + Len(s) - 1
  BY <1>1 DEF Calls
<1>5. Len(t) \in Nat
  BY <1>4 DEF Path
<1>6. s[1].at = PathTo(Last(s).at, Len(t) + 1 - 1) /\ Len(t) + 1 - 1 = Len(t)
  BY <1>1, <1>2, <1>5 DEF Calls
<1>7. \A i \in 1 .. Len(s) - 1 : s[i].read
  <2>1. \A i \in 1 .. Len(s) - 1 : i \in 1 .. Len(s) /\ i < Len(s)
    BY <1>1
  <2> QED
    BY <2>1 DEF Calls
<1> QED
  BY <1>1, <1>2, <1>3, <1>4, <1>5, <1>6, <1>7, EntryIs

\* Nothing that the other calls have left begins a path through the last one's folder.
LEMMA CallsApart ==
  ASSUME volume \in Volumes, NEW s, NEW t, Calls(s, t), s # <<>>,
         NEW i \in 1 .. Len(s) - 1, NEW d \in s[i].rest,
         NEW q \in Path, IsPrefix(Last(s).at, q)
  PROVE  ~IsPrefix(d, q)
<1>0. /\ Len(s) \in Nat \ {0} /\ Last(s) = s[Len(s)]
      /\ Last(s).at \in Path /\ Len(Last(s).at) \in Nat
      /\ t \in Path /\ Len(t) \in Nat /\ Len(Last(s).at) = Len(t) + Len(s) - 1
  BY LastCall
<1> DEFINE top == Last(s).at
           k == Len(t) + i
<1>1. i \in 1 .. Len(s) /\ i < Len(s) /\ i \in Nat
  BY <1>0
<1>2. /\ s[i].at = PathTo(top, Len(t) + i - 1) /\ PathTo(top, k) \notin s[i].rest
      /\ s[i].rest \subseteq Kids(s[i].at) /\ VolumeEntry(s[i].at) /\ IsFolder(s[i].at)
  BY <1>0, <1>1 DEF Calls
<1>3. Len(s[i].at) = Len(t) + i - 1
  <2>1. Len(t) + i - 1 \in 0 .. Len(top)
    BY <1>0, <1>1
  <2> QED
    BY <1>0, <1>2, <2>1, PathToIs
<1>4. d \in Path /\ Len(d) = k
  <2>1. d \in Path /\ Len(d) = Len(s[i].at) + 1
    BY <1>2, KidIs
  <2> QED
    BY <1>0, <1>1, <1>3, <2>1
<1>5. k \in 0 .. Len(top)
  BY <1>0, <1>1
<1>6. top = PathTo(q, Len(top)) /\ Len(top) <= Len(q) /\ Len(q) \in Nat
  <2>1. Len(q) \in Nat
    BY DEF Path
  <2>2. top \in Path /\ IsPrefix(top, q)
    BY <1>0
  <2> HIDE DEF top
  <2> QED
    BY <2>1, <2>2, PrefixIs
<1>7. PathTo(top, k) = PathTo(q, k)
  <2>1. Len(top) \in 0 .. Len(q)
    BY <1>0, <1>6
  <2>2. PathTo(PathTo(q, Len(top)), k) = PathTo(q, k)
    BY <1>5, <2>1, PathToIs
  <2> QED
    BY <1>6, <2>2
<1>8. IsPrefix(d, q) => d = PathTo(q, k)
  BY <1>4, PrefixIs
<1> QED
  BY <1>2, <1>7, <1>8

\* The last call read its folder, or got on with its children.
GoesOn(s, t, R, u) ==
  /\ Calls(s, t) /\ s # <<>> /\ R \subseteq Kids(Last(s).at)
  /\ u = [s EXCEPT ![Len(s)] = [at |-> Last(s).at, rest |-> R, read |-> TRUE]]
LEMMA GotOn ==
  ASSUME volume \in Volumes, NEW s, NEW t, NEW R, NEW u, GoesOn(s, t, R, u)
  PROVE  /\ Calls(u, t) /\ Len(u) = Len(s) /\ u # <<>>
         /\ \A i \in 1 .. Len(s) : u[i].at = s[i].at
         /\ Last(u) = [at |-> Last(s).at, rest |-> R, read |-> TRUE]
         /\ R \subseteq Todo(u)
         /\ \A d \in Todo(u) : d \in R \/ \E i \in 1 .. Len(s) - 1 : d \in s[i].rest
         /\ \A d \in Todo(s) : \/ d \in Todo(u)
                               \/ d \in Last(s).rest \ R
                               \/ d = Last(s).at /\ ~Last(s).read
<1> DEFINE n == Len(s)
           top == Last(s).at
           fr == [at |-> top, rest |-> R, read |-> TRUE]
<1>0. /\ Calls(s, t) /\ s # <<>> /\ R \subseteq Kids(top)
      /\ u = [s EXCEPT ![Len(s)] = [at |-> Last(s).at, rest |-> R, read |-> TRUE]]
  BY DEF GoesOn
<1>1. /\ n \in Nat \ {0} /\ Last(s) = s[n] /\ s \in Seq(Frames) /\ s[1].at = t /\ t \in Path
      /\ VolumeEntry(top) /\ IsFolder(top) /\ top \in Path /\ Len(top) <= MaxDepth
      /\ Len(t) \in Nat /\ Len(top) = Len(t) + n - 1 /\ t = PathTo(top, Len(t))
      /\ \A i \in 1 .. n - 1 : s[i].read
      /\ \A i \in 1 .. n : s[i] \in Frames
  BY <1>0, LastCall
<1>2. R \subseteq Path
  BY <1>0, <1>1, KidIs
<1>3. fr \in Frames /\ fr.at = top /\ fr.rest = R /\ fr.read = TRUE
  BY <1>1, <1>2 DEF Frames
<1> HIDE DEF fr
<1>4. /\ u \in Seq(Frames) /\ Len(u) = n /\ u # <<>> /\ u[n] = fr
      /\ \A i \in 1 .. n - 1 : u[i] = s[i]
  <2>1. u = [s EXCEPT ![n] = fr]
    BY <1>0 DEF fr
  <2> QED
    <3>1. s \in Seq(Frames) /\ s # <<>> /\ fr \in Frames
      BY <1>1, <1>3
    <3> HIDE DEF n
    <3> QED
      BY ONLY <2>1, <3>1, SequenceIs DEF n
<1>5. \A i \in 1 .. n : i \in 1 .. n - 1 \/ i = n
  BY <1>1
<1>6. \A i \in 1 .. n : u[i].at = s[i].at
  BY <1>1, <1>3, <1>4, <1>5
<1>7. Calls(u, t)
  <2>1. ASSUME NEW i \in 1 .. n
        PROVE  /\ VolumeEntry(u[i].at) /\ IsFolder(u[i].at) /\ Len(u[i].at) <= MaxDepth
               /\ u[i].rest \subseteq Kids(u[i].at)
               /\ u[i].at = PathTo(top, Len(t) + i - 1)
               /\ i < n => u[i].read /\ PathTo(top, Len(t) + i) \notin u[i].rest
               /\ ~u[i].read => u[i].rest = {}
    <3>1. /\ VolumeEntry(s[i].at) /\ IsFolder(s[i].at) /\ Len(s[i].at) <= MaxDepth
          /\ s[i].rest \subseteq Kids(s[i].at)
          /\ s[i].at = PathTo(top, Len(t) + i - 1)
          /\ i < n => s[i].read /\ PathTo(top, Len(t) + i) \notin s[i].rest
          /\ ~s[i].read => s[i].rest = {}
      BY <1>0, <1>1 DEF Calls
    <3>2. CASE i = n
      BY <1>0, <1>1, <1>3, <1>4, <1>6, <3>1, <3>2
    <3>3. CASE i # n
      <4>1. u[i] = s[i]
        BY <1>4, <1>5, <3>3
      <4> QED
        BY <3>1, <4>1
    <3> QED
      BY <3>2, <3>3
  <2>2. u[Len(u)].at = top /\ u[1].at = t
    BY <1>1, <1>3, <1>4, <1>6
  <2> QED
    BY <1>1, <1>4, <2>1, <2>2 DEF Calls
<1>8. Last(u) = fr
  BY <1>4 DEF Last
<1>9. R \subseteq Todo(u)
  <2>1. n \in 1 .. Len(u) /\ u[n].rest = R
    BY <1>1, <1>3, <1>4
  <2> QED
    BY <2>1, TodoIs
<1>12. \A d : d \in Todo(u) <=>
               \E i \in 1 .. Len(u) : d \in u[i].rest \/ (~u[i].read /\ d = u[i].at)
  BY ONLY TodoIs, Zenon
<1>10. ASSUME NEW d \in Todo(u) PROVE d \in R \/ \E i \in 1 .. n - 1 : d \in s[i].rest
  <2>1. PICK i \in 1 .. n : d \in u[i].rest \/ (~u[i].read /\ d = u[i].at)
    BY <1>4, <1>12
  <2>2. CASE i = n
    BY <1>3, <1>4, <2>1, <2>2
  <2>3. CASE i # n
    <3>1. i \in 1 .. n - 1
      BY <1>5, <2>3
    <3> QED
      BY <1>1, <1>4, <2>1, <3>1
  <2> QED
    BY <2>2, <2>3
<1>11. ASSUME NEW d \in Todo(s)
       PROVE  d \in Todo(u) \/ d \in Last(s).rest \ R \/ (d = Last(s).at /\ ~Last(s).read)
  <2>1. PICK i \in 1 .. n : d \in s[i].rest \/ (~s[i].read /\ d = s[i].at)
    BY TodoIs
  <2>2. CASE i = n
    BY <1>1, <1>9, <2>1, <2>2
  <2>3. CASE i # n
    <3>1. i \in 1 .. Len(u) /\ u[i] = s[i]
      BY <1>4, <1>5, <2>3
    <3>2. \E j \in 1 .. Len(u) : d \in u[j].rest \/ (~u[j].read /\ d = u[j].at)
      BY <2>1, <3>1
    <3> QED
      BY <3>2, TodoIs
  <2> QED
    BY <2>2, <2>3
<1> QED
  BY <1>4, <1>6, <1>7, <1>8, <1>9, <1>10, <1>11 DEF fr

\* The last call returned.
LEMMA Returned ==
  ASSUME volume \in Volumes, NEW s, NEW t, Calls(s, t), s # <<>>, NEW u, u = Front(s)
  PROVE  /\ Calls(u, t) /\ Len(u) = Len(s) - 1
         /\ \A i \in 1 .. Len(u) : u[i] = s[i] /\ i \in 1 .. Len(s)
         /\ Todo(u) \subseteq Todo(s)
         /\ \A d \in Todo(s) : \/ d \in Todo(u)
                               \/ d \in Last(s).rest
                               \/ d = Last(s).at /\ ~Last(s).read
<1> DEFINE n == Len(s)
           top == Last(s).at
<1>1. /\ n \in Nat \ {0} /\ Last(s) = s[n] /\ s \in Seq(Frames) /\ s[1].at = t /\ t \in Path
      /\ top \in Path /\ Len(t) \in Nat /\ Len(top) = Len(t) + n - 1
  BY LastCall
<1>2. /\ u \in Seq(Frames) /\ Len(u) = n - 1 /\ \A i \in 1 .. n - 1 : u[i] = s[i]
  <2>1. s[n] \in Frames
    BY LastCall
  <2> QED
    BY <1>1, <2>1, SequenceIs
<1>3. \A i \in 1 .. Len(u) : i \in 1 .. n /\ u[i] = s[i] /\ i < n
  BY <1>1, <1>2
<1>4. Calls(u, t)
  <2>1. CASE n = 1
    BY <1>1, <1>2, <2>1 DEF Calls
  <2>2. CASE n # 1
    <3>1. n - 1 \in 1 .. n /\ 1 \in 1 .. n - 1
      <4>1. n \in Nat \ {0}
        BY <1>1
      <4> HIDE DEF n
      <4> QED
        BY <2>2, <4>1
    <3> DEFINE v == s[n - 1].at
               m == Len(t) + (n - 1) - 1
    <3>2. v = PathTo(top, m)
      BY <1>1, <3>1 DEF Calls
    <3>3. m \in 0 .. Len(top) /\ m \in Nat
      <4>1. n \in Nat \ {0} /\ Len(t) \in Nat /\ Len(top) = Len(t) + n - 1
        BY <1>1
      <4> HIDE DEF n, top
      <4> QED
        BY ONLY <2>2, <4>1 DEF m
    <3>4. /\ Len(v) = m /\ \A j \in 0 .. m : PathTo(v, j) = PathTo(top, j)
      <4>1. top \in Path
        BY <1>1
      <4> HIDE DEF v, m, top
      <4> QED
        BY <3>2, <3>3, <4>1, PathToIs
    <3>5. ASSUME NEW i \in 1 .. Len(u)
          PROVE  /\ VolumeEntry(u[i].at) /\ IsFolder(u[i].at) /\ Len(u[i].at) <= MaxDepth
                 /\ u[i].rest \subseteq Kids(u[i].at)
                 /\ u[i].at = PathTo(v, Len(t) + i - 1)
                 /\ i < Len(u) => u[i].read /\ PathTo(v, Len(t) + i) \notin u[i].rest
                 /\ ~u[i].read => u[i].rest = {}
      <4>1. i \in 1 .. n /\ u[i] = s[i] /\ i < n
        BY <1>3
      <4>2. /\ VolumeEntry(s[i].at) /\ IsFolder(s[i].at) /\ Len(s[i].at) <= MaxDepth
            /\ s[i].rest \subseteq Kids(s[i].at)
            /\ s[i].at = PathTo(top, Len(t) + i - 1)
            /\ s[i].read /\ PathTo(top, Len(t) + i) \notin s[i].rest
            /\ ~s[i].read => s[i].rest = {}
        BY <1>1, <4>1 DEF Calls
      <4>3. Len(t) + i - 1 \in 0 .. m /\ (i < Len(u) => Len(t) + i \in 0 .. m)
        BY <1>1, <1>2, <4>1
      <4>4. PathTo(v, Len(t) + i - 1) = PathTo(top, Len(t) + i - 1)
            /\ (i < Len(u) => PathTo(v, Len(t) + i) = PathTo(top, Len(t) + i))
        BY <3>4, <4>3
      <4> QED
        BY <4>1, <4>2, <4>4
    <3>6. u[Len(u)].at = v /\ u[1].at = t /\ Len(v) = Len(t) + Len(u) - 1
      BY <1>1, <1>2, <3>1, <3>4
    <3> HIDE DEF v
    <3> QED
      BY <1>1, <1>2, <3>5, <3>6 DEF Calls
  <2> QED
    BY <2>1, <2>2
<1>5. ASSUME NEW d \in Todo(u) PROVE d \in Todo(s)
  <2>1. PICK i \in 1 .. Len(u) : d \in u[i].rest \/ (~u[i].read /\ d = u[i].at)
    BY TodoIs
  <2>2. i \in 1 .. Len(s) /\ (d \in s[i].rest \/ (~s[i].read /\ d = s[i].at))
    BY <1>3, <2>1
  <2> QED
    BY <2>2, TodoIs
<1>6. ASSUME NEW d \in Todo(s)
      PROVE  d \in Todo(u) \/ d \in Last(s).rest \/ (d = Last(s).at /\ ~Last(s).read)
  <2>1. PICK i \in 1 .. n : d \in s[i].rest \/ (~s[i].read /\ d = s[i].at)
    BY TodoIs
  <2>2. CASE i = n
    BY <1>1, <2>1, <2>2
  <2>3. CASE i # n
    <3>1. i \in 1 .. Len(u) /\ u[i] = s[i]
      BY <1>1, <1>2, <2>3
    <3>2. \E j \in 1 .. Len(u) : d \in u[j].rest \/ (~u[j].read /\ d = u[j].at)
      BY <2>1, <3>1
    <3> QED
      BY <3>2, TodoIs
  <2> QED
    BY <2>2, <2>3
<1> QED
  BY <1>2, <1>3, <1>4, <1>5, <1>6

\* The last call made one for a child that it has no more to do.
CallsFor(s, t, q, u) ==
  /\ Calls(s, t) /\ s # <<>> /\ Last(s).read
  /\ q \in Kids(Last(s).at) \ Last(s).rest /\ IsFolder(q) /\ Len(q) <= MaxDepth
  /\ u = Append(s, Frame(q))
LEMMA Called ==
  ASSUME volume \in Volumes, NEW s, NEW t, NEW q, NEW u, CallsFor(s, t, q, u)
  PROVE  /\ Calls(u, t) /\ Len(u) = Len(s) + 1 /\ u[Len(u)].at = q
         /\ \A i \in 1 .. Len(s) : u[i] = s[i]
         /\ \A d : d \in Todo(u) <=> d \in Todo(s) \/ d = q
<1> DEFINE n == Len(s)
           top == Last(s).at
           fr == Frame(q)
<1>0. /\ Calls(s, t) /\ s # <<>> /\ s[n].read
      /\ q \in Kids(top) \ Last(s).rest /\ IsFolder(q) /\ Len(q) <= MaxDepth
      /\ u = Append(s, fr)
  BY DEF CallsFor, Last
<1>1. /\ n \in Nat \ {0} /\ Last(s) = s[n] /\ s \in Seq(Frames) /\ s[1].at = t /\ t \in Path
      /\ VolumeEntry(top) /\ IsFolder(top) /\ top \in Path /\ Len(top) \in Nat
      /\ Len(t) \in Nat /\ Len(top) = Len(t) + n - 1
  BY <1>0, LastCall
<1>2. VolumeEntry(q) /\ q \in Path /\ Len(q) = Len(top) + 1 /\ PathTo(q, Len(top)) = top
  BY <1>0, <1>1, KidIs
<1>3. fr \in Frames /\ fr.at = q /\ fr.rest = {} /\ fr.read = FALSE
  BY <1>2 DEF Frames, Frame
<1> HIDE DEF fr
<1>4. /\ u \in Seq(Frames) /\ Len(u) = n + 1 /\ u[n + 1] = fr /\ \A i \in 1 .. n : u[i] = s[i]
  BY <1>0, <1>1, <1>3 DEF fr
<1>5. \A i \in 1 .. n + 1 : i \in 1 .. n \/ i = n + 1
  BY <1>1
<1>6. \A j \in 0 .. Len(top) : PathTo(q, j) = PathTo(top, j)
  <2>1. Len(top) \in 0 .. Len(q)
    BY <1>1, <1>2
  <2> QED
    BY <1>2, <2>1, PathToIs
<1>7. PathTo(q, Len(q)) = q
  BY <1>1, <1>2, PathToIs
<1>8. Calls(u, t)
  <2>1. ASSUME NEW i \in 1 .. n + 1
        PROVE  /\ VolumeEntry(u[i].at) /\ IsFolder(u[i].at) /\ Len(u[i].at) <= MaxDepth
               /\ u[i].rest \subseteq Kids(u[i].at)
               /\ u[i].at = PathTo(q, Len(t) + i - 1)
               /\ i < n + 1 => u[i].read /\ PathTo(q, Len(t) + i) \notin u[i].rest
               /\ ~u[i].read => u[i].rest = {}
    <3>1. CASE i = n + 1
      <4>1. Len(t) + i - 1 = Len(q) /\ ~(i < n + 1)
        BY <1>1, <1>2, <3>1
      <4> QED
        BY <1>0, <1>2, <1>3, <1>4, <1>7, <3>1, <4>1
    <3>2. CASE i # n + 1
      <4>1. i \in 1 .. n /\ u[i] = s[i] /\ (i = n \/ i < n)
        BY <1>1, <1>4, <1>5, <3>2
      <4>2. /\ VolumeEntry(s[i].at) /\ IsFolder(s[i].at) /\ Len(s[i].at) <= MaxDepth
            /\ s[i].rest \subseteq Kids(s[i].at)
            /\ s[i].at = PathTo(top, Len(t) + i - 1)
            /\ i < n => s[i].read /\ PathTo(top, Len(t) + i) \notin s[i].rest
            /\ ~s[i].read => s[i].rest = {}
        BY <1>0, <1>1, <4>1 DEF Calls
      <4>3. Len(t) + i - 1 \in 0 .. Len(top) /\ (i < n => Len(t) + i \in 0 .. Len(top))
            /\ (i = n => Len(t) + i = Len(q))
        BY <1>1, <1>2, <4>1
      <4>4. PathTo(q, Len(t) + i - 1) = PathTo(top, Len(t) + i - 1)
            /\ (i < n => PathTo(q, Len(t) + i) = PathTo(top, Len(t) + i))
        BY <1>6, <4>3
      <4>5. i = n => s[i].read /\ PathTo(q, Len(t) + i) \notin s[i].rest
        BY <1>0, <1>1, <1>7, <4>3
      <4> QED
        BY <4>1, <4>2, <4>4, <4>5
    <3> QED
      BY <3>1, <3>2
  <2>2. u[Len(u)].at = q /\ u[1].at = t /\ Len(q) = Len(t) + Len(u) - 1
    BY <1>1, <1>2, <1>3, <1>4
  <2> QED
    BY <1>1, <1>4, <2>1, <2>2 DEF Calls
<1>9. ASSUME NEW d PROVE d \in Todo(u) <=> d \in Todo(s) \/ d = q
  <2>5. \A e : e \in Todo(u) <=>
            \E i \in 1 .. Len(u) : e \in u[i].rest \/ (~u[i].read /\ e = u[i].at)
    BY ONLY TodoIs, Zenon
  <2>1. d \in Todo(u) <=> \E i \in 1 .. n + 1 : d \in u[i].rest \/ (~u[i].read /\ d = u[i].at)
    BY <1>4, <2>5
  <2>2. d \in Todo(s) <=> \E i \in 1 .. n : d \in s[i].rest \/ (~s[i].read /\ d = s[i].at)
    BY TodoIs
  <2>3. d \in u[n + 1].rest \/ (~u[n + 1].read /\ d = u[n + 1].at) <=> d = q
    BY <1>3, <1>4
  <2>4. n + 1 \in 1 .. n + 1 /\ \A i \in 1 .. n : i \in 1 .. n + 1
    BY <1>1
  <2> QED
    BY <1>4, <1>5, <2>1, <2>2, <2>3, <2>4
<1> QED
  BY <1>3, <1>4, <1>8, <1>9

-----------------------------------------------------------------------------
(* The user's steps                                                        *)

\* Nothing is to do when no call is active.
LEMMA NoCall ==
  /\ Todo(<<>>) = {} /\ \A t \in Path : Calls(<<>>, t)
  /\ \A tr : InTree(<<>>, tr)
<1>1. <<>> \in Seq(Frames) /\ Len(<<>>) = 0 /\ \A i \in 1 .. 0 : FALSE
  OBVIOUS
<1>2. \A d : d \notin Todo(<<>>)
  BY <1>1, TodoIs
<1> QED
  BY <1>1, <1>2 DEF Calls, InTree

\* What the user does while no recovery runs, but for starting one.
LEMMA Forgotten ==
  ASSUME ViewsInv, Idle, Forget
  PROVE  /\ Calls(stack', wanted') /\ (\A tr : InTree(stack', tr))
         /\ Todo(stack') = {} /\ Todo(stack) = {}
         /\ Saving(saved', wanted', Todo(stack'), refused')
         /\ refused' = refused /\ rebuilt' = rebuilt
<1>1. /\ stack = <<>> /\ stack' = <<>> /\ wanted' = <<>> /\ saved' = <<>>
      /\ refused' = refused /\ rebuilt' = rebuilt
  BY DEF Idle, Forget
<1>2. <<>> \in Path
  BY RootIs DEF ViewsInv
<1>3. DOMAIN saved' = {}
  BY <1>1
<1>4. Saving(saved', wanted', Todo(stack'), refused')
  BY <1>1, <1>3 DEF Saving
<1> QED
  BY <1>1, <1>2, <1>4, NoCall

\* Nothing is below a folder whose node is not filled.
LEMMA NothingBelow ==
  ASSUME volume \in Volumes, NEW f, Filled(f), NEW p \in Path, p \notin f, NEW q \in Held(f)
  PROVE  ~Below(q, p)
<1>1. /\ q \in Path /\ Len(q) \in Nat /\ Front(q) \in f /\ Front(q) \in Path
      /\ Len(Front(q)) \in Nat /\ Len(q) = Len(Front(q)) + 1 /\ q # <<>>
  BY HeldAre
<1>2. Below(q, p) <=> Front(q) = p \/ Below(Front(q), p)
  BY <1>1, BelowIs
<1>3. ASSUME Below(Front(q), p) PROVE FALSE
  <2>1. Len(p) < Len(Front(q)) /\ p = PathTo(Front(q), Len(p)) /\ Len(p) \in Nat
    BY <1>1, <1>3, PrefixIs DEF Path
  <2>2. Len(p) \in 0 .. Len(Front(q))
    BY <1>1, <2>1
  <2>3. PathTo(Front(q), Len(p)) \in f
    BY <1>1, <2>2 DEF Filled
  <2> QED
    BY <2>1, <2>3
<1> QED
  BY <1>1, <1>2, <1>3

\* A folder that is opened: what is below it was never shown, so that nothing is
\* deleted, and its children take its state.
LEMMA OpenFolderStep ==
  ASSUME ViewsInv, Idle, NEW p \in DOMAIN tree, Len(p) <= MaxDepth, OpenFolder(p)
  PROVE  ViewsInv'
<1>1. /\ volume \in Volumes /\ Filled(filled) /\ Agree(rows, tree, filled)
      /\ Stale(dangling, rebuilt, broken) /\ Cover(rows, Todo(stack) \cup refused)
  BY DEF ViewsInv
<1>2. /\ Calls(stack', wanted') /\ InTree(stack', tree')
      /\ Todo(stack') = {} /\ Todo(stack) = {}
      /\ Saving(saved', wanted', Todo(stack'), refused')
      /\ refused' = refused /\ rebuilt' = rebuilt
  BY Forgotten DEF OpenFolder
<1>3. volume' = volume /\ shown' = p /\ broken' = broken
  BY DEF OpenFolder
<1>4. p \in DOMAIN rows /\ IsFolder(p)
  BY <1>1 DEF Agree
<1>5. p \in Path /\ VolumeEntry(p)
  BY <1>1, <1>4, IndexIs
<1>6. CASE NeedsRead(p) /\ getFirst(p)
  <2>1. Rebuild(p) /\ p \notin filled
    BY <1>6 DEF OpenFolder, NeedsRead
  <2>2. /\ Filled(filled') /\ Agree(rows', tree', filled') /\ DOMAIN rows \subseteq DOMAIN rows'
    BY <1>1, <2>1, Rebuilt
  <2> DEFINE S == Todo(stack) \cup refused
             T == S \cup Kids(p)
  <2>3. Cover(rows', T)
    <3>1. S \subseteq T \cup {p} /\ Kids(p) \subseteq T /\ Cover(rows, S)
      BY <1>1
    <3> HIDE DEF S, T
    <3> QED
      BY <1>1, <2>1, <3>1, RebuiltCover
  <2>4. \A q \in DOMAIN rows' \ {<<>>} : Front(q) \notin Kids(p)
    <3> SUFFICES ASSUME NEW q \in DOMAIN rows' \ {<<>>}, Front(q) \in Kids(p) PROVE FALSE
      OBVIOUS
    <3>1. Front(q) \in filled' /\ filled' = filled \cup {p}
      BY <1>1, <2>1, <2>2, IndexIs DEF Rebuild
    <3>2. Front(q) \in Path /\ Front(q) # <<>> /\ Front(Front(q)) = p
      BY <1>1, <1>4, <1>5, KidIs
    <3>3. Below(Front(q), p) /\ ~Below(p, p)
      BY <1>5, <3>2, BelowIs
    <3>4. Front(q) \in filled
      BY <3>1, <3>3
    <3>5. /\ VolumeEntry(Front(q)) /\ \A k \in 0 .. Len(Front(q)) : PathTo(Front(q), k) \in filled
      BY <1>1, <3>4 DEF Filled
    <3>6. Len(p) < Len(Front(q)) /\ p = PathTo(Front(q), Len(p))
          /\ Len(p) \in Nat /\ Len(Front(q)) \in Nat
      BY <1>5, <3>2, <3>3, PrefixIs DEF Path
    <3>7. Len(p) \in 0 .. Len(Front(q))
      BY <3>6
    <3> QED
      BY <2>1, <3>5, <3>6, <3>7
  <2>5. Cover(rows', Todo(stack') \cup refused')
    BY <1>2, <2>3, <2>4 DEF Cover
  <2>6. ~\E q \in DOMAIN tree : Below(q, p)
    <3> SUFFICES ASSUME NEW q \in DOMAIN tree, Below(q, p) PROVE FALSE
      OBVIOUS
    <3>1. q \in DOMAIN rows
      BY <1>1 DEF Agree
    <3>2. q \in Path /\ Len(p) \in Nat
      BY <1>1, <1>5, <3>1, IndexIs DEF Path
    <3>3. q # <<>>
      BY <1>5, <3>2, PrefixIs
    <3>4. q \in Held(filled)
      BY <1>1, <3>1, <3>3 DEF Agree
    <3> QED
      BY <1>1, <1>5, <2>1, <3>4, NothingBelow
  <2>7. dangling' = dangling
    BY <2>1, <2>6 DEF Rebuild
  <2>8. Stale(dangling', rebuilt', broken')
    BY <1>1, <1>2, <1>3, <2>7
  <2>9. shown' \in DOMAIN rows'
    BY <1>3, <1>4, <2>2
  <2> QED
    BY <1>1, <1>2, <1>3, <2>2, <2>5, <2>8, <2>9, NextState
<1>7. CASE ~(NeedsRead(p) /\ getFirst(p))
  <2>1. filled' = filled /\ tree' = tree /\ rows' = rows /\ dangling' = dangling
    BY <1>7 DEF OpenFolder
  <2>2. /\ Filled(filled') /\ Agree(rows', tree', filled') /\ shown' \in DOMAIN rows'
        /\ Stale(dangling', rebuilt', broken') /\ Cover(rows', Todo(stack') \cup refused')
    BY <1>1, <1>2, <1>3, <1>4, <2>1
  <2> QED
    BY <1>1, <1>2, <1>3, <2>2, NextState
<1> QED
  BY <1>6, <1>7

\* The arrow keys change nothing the invariant speaks of.
LEMMA WalkTreeStep ==
  ASSUME ViewsInv, NEW p, WalkTree(p)
  PROVE  ViewsInv'
<1>1. /\ volume \in Volumes /\ Filled(filled) /\ Agree(rows, tree, filled) /\ shown \in DOMAIN rows
      /\ Stale(dangling, rebuilt, broken) /\ Cover(rows, Todo(stack) \cup refused)
  BY DEF ViewsInv
<1>2. /\ Calls(stack', wanted') /\ InTree(stack', tree')
      /\ Todo(stack') = {} /\ Todo(stack) = {}
      /\ Saving(saved', wanted', Todo(stack'), refused')
      /\ refused' = refused /\ rebuilt' = rebuilt
  BY Forgotten DEF WalkTree
<1>3. /\ filled' = filled /\ tree' = tree /\ rows' = rows /\ dangling' = dangling
      /\ volume' = volume /\ shown' = shown /\ broken' = broken
  BY DEF WalkTree
<1>4. /\ Filled(filled') /\ Agree(rows', tree', filled') /\ shown' \in DOMAIN rows'
      /\ Stale(dangling', rebuilt', broken') /\ Cover(rows', Todo(stack') \cup refused')
  BY <1>1, <1>2, <1>3
<1> QED
  BY <1>1, <1>2, <1>3, <1>4, NextState

\* A deleted index is used: there is one, so a recovery replaced it.
LEMMA UseDeletedStep ==
  ASSUME ViewsInv, UseDeleted
  PROVE  ViewsInv'
<1>1. /\ volume \in Volumes /\ Filled(filled) /\ Agree(rows, tree, filled) /\ shown \in DOMAIN rows
      /\ Stale(dangling, rebuilt, broken) /\ Cover(rows, Todo(stack) \cup refused)
  BY DEF ViewsInv
<1>2. /\ Calls(stack', wanted') /\ InTree(stack', tree')
      /\ Todo(stack') = {} /\ Todo(stack) = {}
      /\ Saving(saved', wanted', Todo(stack'), refused')
      /\ refused' = refused /\ rebuilt' = rebuilt
  BY Forgotten DEF UseDeleted
<1>3. /\ filled' = filled /\ tree' = tree /\ rows' = rows /\ dangling' = dangling
      /\ volume' = volume /\ shown' = shown /\ dangling # {}
  BY DEF UseDeleted
<1>4. Stale(dangling', rebuilt', broken')
  BY <1>1, <1>2, <1>3 DEF Stale
<1>5. /\ Filled(filled') /\ Agree(rows', tree', filled') /\ shown' \in DOMAIN rows'
      /\ Cover(rows', Todo(stack') \cup refused')
  BY <1>1, <1>2, <1>3
<1> QED
  BY <1>1, <1>2, <1>3, <1>4, <1>5, NextState

\* A tick in the tree changes states, never which indexes there are.
LEMMA TickTreeStep ==
  ASSUME ViewsInv, NEW p, TickTree(p)
  PROVE  ViewsInv'
<1>1. /\ volume \in Volumes /\ Filled(filled) /\ Agree(rows, tree, filled) /\ shown \in DOMAIN rows
      /\ Stale(dangling, rebuilt, broken) /\ Cover(rows, Todo(stack) \cup refused)
  BY DEF ViewsInv
<1>2. /\ Calls(stack', wanted') /\ InTree(stack', tree')
      /\ Todo(stack') = {} /\ Todo(stack) = {}
      /\ Saving(saved', wanted', Todo(stack'), refused')
      /\ refused' = refused /\ rebuilt' = rebuilt
  BY Forgotten DEF TickTree
<1> DEFINE c == Toggled(tree[p])
           t == TreeChilds(tree, p, c)
<1>3. /\ filled' = filled /\ rows' = rows /\ dangling' = dangling
      /\ volume' = volume /\ shown' = shown /\ broken' = broken
      /\ tree' = UpdateParents(t, p, c, "tree") /\ p \in DOMAIN tree
  BY DEF TickTree
<1>4. DOMAIN t = DOMAIN tree
  BY DEF TreeChilds
<1>5. p \in DOMAIN rows /\ p \in Path /\ VolumeEntry(p) /\ IsFolder(p) /\ DOMAIN tree \subseteq Path
  BY <1>1, <1>3, IndexIs DEF Agree
<1>6. ASSUME NEW j \in 0 .. Len(p) PROVE PathTo(p, j) \in DOMAIN t
  <2>1. PathTo(p, j) \in DOMAIN rows
    BY <1>1, <1>5, IndexIs
  <2>2. IsFolder(PathTo(p, j))
    <3>1. CASE j = Len(p)
      BY <1>5, <3>1, PathToIs
    <3>2. CASE j # Len(p)
      <4>1. j \in 0 .. Len(p) - 1
        BY <1>5, <3>2 DEF Path
      <4> QED
        BY <1>1, <1>5, <4>1, FoldersAbove
    <3> QED
      BY <3>1, <3>2
  <2> QED
    BY <1>1, <1>4, <2>1, <2>2 DEF Agree
<1>7. DOMAIN tree' = DOMAIN tree
  <2> HIDE DEF t, c
  <2>1. HasAllAbove(t, p)
    BY <1>4, <1>5, <1>6 DEF HasAllAbove
  <2>2. FormedUp(t, p, "tree", tree')
    BY <1>3, <2>1, ParentsAre
  <2> QED
    BY <1>4, <2>2 DEF FormedUp
<1>8. Agree(rows', tree', filled')
  BY <1>1, <1>3, <1>7 DEF Agree
<1>9. /\ Filled(filled') /\ shown' \in DOMAIN rows'
      /\ Stale(dangling', rebuilt', broken') /\ Cover(rows', Todo(stack') \cup refused')
  BY <1>1, <1>2, <1>3
<1> QED
  BY <1>1, <1>2, <1>3, <1>8, <1>9, NextState

\* A tick in the table: all below takes the state, and the parents are formed anew.
LEMMA TickTableStep ==
  ASSUME ViewsInv, NEW p, TickTable(p)
  PROVE  ViewsInv'
<1>1. /\ volume \in Volumes /\ Filled(filled) /\ Agree(rows, tree, filled) /\ shown \in DOMAIN rows
      /\ Stale(dangling, rebuilt, broken) /\ Cover(rows, Todo(stack) \cup refused)
  BY DEF ViewsInv
<1>2. /\ Calls(stack', wanted') /\ InTree(stack', tree')
      /\ Todo(stack') = {} /\ Todo(stack) = {}
      /\ Saving(saved', wanted', Todo(stack'), refused')
      /\ refused' = refused /\ rebuilt' = rebuilt
  BY Forgotten DEF TickTable
<1> DEFINE c == Toggled(rows[p])
           t == TableChilds(rows, p, c)
           d == TableViewCheckedFolders(tree, p, rows'[p])
<1>3. /\ filled' = filled /\ dangling' = dangling
      /\ volume' = volume /\ shown' = shown /\ broken' = broken
      /\ rows' = UpdateParents(t, p, c, "table") /\ p \in DOMAIN rows
      /\ tree' = TableViewParentFolders(d, rows'[Front(p)])
  BY DEF TickTable, KidsIn
<1>4. /\ DOMAIN t = DOMAIN rows
      /\ \A q \in DOMAIN rows : t[q] = IF q = p \/ Below(q, p) THEN c ELSE rows[q]
  BY DEF TableChilds
<1>5. DOMAIN tree' = DOMAIN tree
  <2>1. DOMAIN d = DOMAIN tree
    BY DEF TableViewCheckedFolders
  <2> HIDE DEF d
  <2> QED
    BY <1>3, <2>1 DEF TableViewParentFolders
<1> HIDE DEF c, t, d
<1>6. p \in Path /\ DOMAIN rows \subseteq Path /\ \A j \in 0 .. Len(p) : PathTo(p, j) \in DOMAIN t
  BY <1>1, <1>3, <1>4, IndexIs
<1>7. /\ DOMAIN rows' = DOMAIN rows
      /\ \A r \in DOMAIN rows : ~Below(p, r) => rows'[r] = t[r]
      /\ \A r \in DOMAIN rows : Below(p, r) /\ rows'[r] # "PartiallyChecked" =>
           \A q \in KidsIn(t, r) : rows'[q] = rows'[r]
  <2>1. HasAllAbove(t, p)
    BY <1>4, <1>6 DEF HasAllAbove
  <2>2. FormedUp(t, p, "table", rows')
    BY <1>3, <2>1, ParentsAre
  <2> QED
    BY <1>4, <2>2 DEF FormedUp
<1>8. Cover(rows', refused)
  <2> SUFFICES ASSUME NEW q \in DOMAIN rows \ {<<>>},
                      rows'[Front(q)] # "PartiallyChecked", Front(q) \notin refused
               PROVE  rows'[q] = rows'[Front(q)]
    BY <1>7 DEF Cover
  <2> DEFINE r == Front(q)
  <2>1. q \in Path /\ r \in DOMAIN rows /\ r \in Path /\ Len(q) \in Nat /\ q # <<>>
    BY <1>1, <1>6, IndexIs
  <2>2. /\ Below(q, p) <=> r = p \/ Below(r, p)
        /\ Below(p, q) => Below(p, r)
        /\ Below(q, r)
    BY <1>6, <2>1, BelowIs
  <2>3. CASE Below(p, r)
    <3>1. Len(q) = Len(r) + 1
      BY <2>1, ParentIs
    <3>2. q \in KidsIn(t, r)
      BY <1>4, <2>2, <3>1 DEF KidsIn
    <3> QED
      BY <1>7, <2>1, <2>3, <3>2
  <2>4. CASE ~Below(p, r)
    <3>1. rows'[q] = t[q] /\ rows'[r] = t[r]
      BY <1>7, <2>1, <2>2, <2>4
    <3>2. q # p
      BY <2>2, <2>4
    <3>3. rows[r] # "PartiallyChecked" => rows[q] = rows[r]
      BY <1>1, <1>2 DEF Cover
    <3> HIDE DEF r
    <3> QED
      BY <1>4, <2>1, <2>2, <3>1, <3>2, <3>3 DEF r
  <2> QED
    BY <2>3, <2>4
<1>9. Agree(rows', tree', filled')
  BY <1>1, <1>3, <1>5, <1>7 DEF Agree
<1>10. /\ Filled(filled') /\ shown' \in DOMAIN rows'
       /\ Stale(dangling', rebuilt', broken') /\ Cover(rows', Todo(stack') \cup refused')
  BY <1>1, <1>2, <1>3, <1>7, <1>8
<1> QED
  BY <1>1, <1>2, <1>3, <1>9, <1>10, NextState

-----------------------------------------------------------------------------
(* The steps of a recovery                                                 *)

\* To have less to do, when what is done was saved or refused, keeps both parts.
LEMMA LessToDo ==
  ASSUME NEW tb, NEW sv, NEW t, NEW T, NEW R, NEW U, NEW Q,
         Cover(tb, T \cup R), Saving(sv, t, T, R), U \subseteq T, T \cup R \subseteq U \cup Q
  PROVE  Cover(tb, U \cup Q) /\ Saving(sv, t, U, Q)
<1>1. Cover(tb, U \cup Q)
  BY DEF Cover
<1>2. \A q \in DOMAIN sv : /\ sv[q] = 1 /\ ToRecover(q, t)
                           /\ \A d \in U : ~IsPrefix(d, q)
  BY DEF Saving
<1>3. ASSUME t # <<>>, NEW q, ToRecover(q, t)
      PROVE  q \in DOMAIN sv \/ \E r \in Q \cup U : IsPrefix(r, q)
  <2>1. q \in DOMAIN sv \/ \E r \in R \cup T : IsPrefix(r, q)
    BY <1>3 DEF Saving
  <2> QED
    BY <2>1
<1> QED
  BY <1>1, <1>2, <1>3 DEF Saving

\* RecoverFile adds a file that it takes, once, and no other.
LEMMA FileRecovered ==
  ASSUME volume \in Volumes, NEW q, VolumeEntry(q), ~IsFolder(q),
         NEW sv, q \notin DOMAIN sv, \A r \in DOMAIN sv : sv[r] = 1,
         NEW t, t = RecoverFile(sv, q)
  PROVE  /\ DOMAIN sv \subseteq DOMAIN t /\ (At(q) = File => q \in DOMAIN t)
         /\ \A r \in DOMAIN t : t[r] = 1 /\ (r \in DOMAIN sv \/ (r = q /\ At(q) = File))
<1>1. At(q) \in Files
  BY DEF IsFolder
<1>2. CASE At(q) = File
  <2>1. t = Once(sv, q)
    BY <1>2 DEF RecoverFile, SizeIsTaken, HasClusters, File, OtherSize, NoClusters
  <2>2. t = [r \in DOMAIN sv \cup {q} |->
               IF r \in DOMAIN sv THEN sv[r] + (IF r = q THEN 1 ELSE 0) ELSE 1]
    BY <2>1 DEF Once
  <2>3. DOMAIN t = DOMAIN sv \cup {q} /\ t[q] = 1
    BY <2>2
  <2>4. ASSUME NEW r \in DOMAIN sv PROVE t[r] = 1
    BY <2>2, <2>4
  <2> QED
    BY <1>2, <2>3, <2>4
<1>3. CASE At(q) # File
  BY <1>1, <1>3 DEF RecoverFile, SizeIsTaken, HasClusters, Files, OtherSize, NoClusters
<1> QED
  BY <1>2, <1>3

\* A recovery begins: of a file it is done at once, of a folder all is to do.
LEMMA RecoverySelectedStep ==
  ASSUME ViewsInv, NEW p, RecoverySelected(p)
  PROVE  ViewsInv'
<1>1. /\ volume \in Volumes /\ Filled(filled) /\ Agree(rows, tree, filled) /\ shown \in DOMAIN rows
      /\ Stale(dangling, rebuilt, broken) /\ Cover(rows, Todo(stack) \cup refused)
  BY DEF ViewsInv
<1>2. /\ filled' = filled /\ rows' = rows /\ tree' = tree /\ dangling' = dangling
      /\ volume' = volume /\ shown' = shown /\ broken' = broken
      /\ rebuilt' = rebuilt /\ wanted' = p
      /\ stack = <<>> /\ p \in DOMAIN rows /\ Len(p) = Len(shown) + 1
  BY DEF RecoverySelected, views, Idle, KidsIn
<1>3. p \in Path /\ Len(p) \in Nat /\ VolumeEntry(p) /\ Len(shown) \in Nat
  BY <1>1, <1>2, IndexIs
<1>4. p # <<>> /\ Todo(stack) = {} /\ IsPrefix(p, p) /\ PathTo(p, Len(p)) = p
  BY <1>2, <1>3, NoCall, PrefixIs, PathToIs
<1>5. CASE IsFolder(p)
  <2>1. stack' = <<Frame(p)>> /\ saved' = <<>> /\ Len(p) <= MaxDepth /\ refused' = refused
    BY <1>5 DEF RecoverySelected
  <2> DEFINE fr == Frame(p)
  <2>2. fr \in Frames /\ fr.at = p /\ fr.rest = {} /\ fr.read = FALSE
    BY <1>3 DEF Frame, Frames
  <2> HIDE DEF fr
  <2>3. /\ stack' \in Seq(Frames) /\ Len(stack') = 1 /\ stack'[1] = fr
        /\ \A i \in 1 .. Len(stack') : i = 1
    BY <2>1, <2>2 DEF fr
  <2>4. Calls(stack', wanted')
    <3>1. Len(p) + 1 - 1 = Len(p) /\ ~(1 < 1)
      BY <1>3
    <3> QED
      BY <1>2, <1>3, <1>4, <1>5, <2>1, <2>2, <2>3, <3>1 DEF Calls
  <2>5. InTree(stack', tree')
    BY <1>1, <1>2, <1>5, <2>2, <2>3 DEF InTree, Agree
  <2>6. \A d : d \in Todo(stack') <=> d = p
    <3>1. \A d : d \in Todo(stack') <=>
             \E i \in 1 .. Len(stack') :
               d \in stack'[i].rest \/ (~stack'[i].read /\ d = stack'[i].at)
      BY ONLY TodoIs, Zenon
    <3>2. 1 \in 1 .. Len(stack')
      BY <2>3
    <3> QED
      BY <2>2, <2>3, <3>1, <3>2
  <2>7. DOMAIN saved' = {}
    BY <2>1
  <2>8. Saving(saved', wanted', Todo(stack'), refused')
    <3>1. \A q : ToRecover(q, p) => IsPrefix(p, q)
      BY DEF ToRecover, FileBelow
    <3> QED
      BY <1>2, <2>6, <2>7, <3>1 DEF Saving
  <2>9. Cover(rows', Todo(stack') \cup refused')
    BY <1>1, <1>2, <1>4, <2>1 DEF Cover
  <2>10. /\ Filled(filled') /\ Agree(rows', tree', filled') /\ shown' \in DOMAIN rows'
         /\ Stale(dangling', rebuilt', broken')
    BY <1>1, <1>2
  <2> QED
    BY <1>1, <1>2, <2>4, <2>5, <2>8, <2>9, <2>10, NextState
<1>6. CASE ~IsFolder(p)
  <2>1. /\ stack' = <<>> /\ refused \subseteq refused'
        /\ \/ saved' = RecoverFile(<<>>, p)
           \/ saved' = <<>> /\ p \in refused'
    BY <1>2, <1>6 DEF RecoverySelected
  <2>2. Calls(stack', wanted') /\ InTree(stack', tree') /\ Todo(stack') = {}
    BY <1>2, <1>3, <2>1, NoCall
  <2>3. /\ \A q \in DOMAIN saved' : q = p /\ saved'[q] = 1 /\ At(p) = File
        /\ At(p) = File => p \in DOMAIN saved' \/ p \in refused'
    <3>1. DOMAIN (<<>>) = {}
      OBVIOUS
    <3> QED
      BY <1>1, <1>3, <1>6, <2>1, <3>1, FileRecovered
  <2>4. FileBelow(p, p)
    <3>1. p \in Held(filled)
      BY <1>1, <1>2, <1>4, IndexIs
    <3>2. Front(p) \in filled /\ Len(p) = Len(Front(p)) + 1 /\ Len(Front(p)) \in Nat
      BY <1>1, <3>1, HeldAre
    <3>3. Len(Front(p)) <= MaxDepth /\ MaxDepth \in Nat
      BY <1>1, <3>2, VolumeIs DEF Filled
    <3> QED
      BY <1>3, <1>4, <1>6, <3>2, <3>3 DEF FileBelow
  <2>5. ASSUME NEW q, ToRecover(q, p) PROVE q = p
    BY <1>1, <1>3, <1>6, <2>5, FileIsLast DEF ToRecover, FileBelow
  <2>6. Saving(saved', wanted', Todo(stack'), refused')
    <3>1. \A q \in DOMAIN saved' : saved'[q] = 1 /\ ToRecover(q, p)
      BY <2>3, <2>4 DEF ToRecover
    <3>2. ASSUME NEW q, ToRecover(q, p)
          PROVE  q \in DOMAIN saved' \/ \E r \in refused' : IsPrefix(r, q)
      BY <1>4, <2>3, <2>5, <3>2 DEF ToRecover
    <3> QED
      BY <1>2, <2>2, <3>1, <3>2 DEF Saving
  <2>7. /\ Filled(filled') /\ Agree(rows', tree', filled') /\ shown' \in DOMAIN rows'
        /\ Stale(dangling', rebuilt', broken') /\ Cover(rows', Todo(stack') \cup refused')
    BY <1>1, <1>2, <1>4, <2>1, <2>2 DEF Cover
  <2> QED
    BY <1>1, <1>2, <2>2, <2>6, <2>7, NextState
<1> QED
  BY <1>5, <1>6

\* A step of a call that is read is one on its children left.
LEMMA SetRestIs ==
  ASSUME volume \in Volumes, Calls(stack, wanted), stack # <<>>, Last(stack).read,
         NEW R \in SUBSET Path
  PROVE  SetRest(R) =
           [stack EXCEPT ![Len(stack)] = [at |-> Last(stack).at, rest |-> R, read |-> TRUE]]
<1>1. /\ Len(stack) \in Nat \ {0} /\ Last(stack) = stack[Len(stack)] /\ Last(stack) \in Frames
      /\ stack \in Seq(Frames)
  BY LastCall
<1>2. Last(stack).read = TRUE
  BY <1>1 DEF Frames
<1>3. [stack[Len(stack)] EXCEPT !.rest = R] = [at |-> Last(stack).at, rest |-> R, read |-> TRUE]
  <2>1. \A fr \in Frames : fr.read = TRUE =>
          [fr EXCEPT !.rest = R] = [at |-> fr.at, rest |-> R, read |-> TRUE]
    <3> SUFFICES ASSUME NEW fr \in Frames, fr.read = TRUE
                 PROVE  [fr EXCEPT !.rest = R] = [at |-> fr.at, rest |-> R, read |-> TRUE]
      OBVIOUS
    <3> DEFINE g == [fr EXCEPT !.rest = R]
               h == [at |-> fr.at, rest |-> R, read |-> TRUE]
    <3>1. g \in Frames /\ g.at = fr.at /\ g.rest = R /\ g.read = fr.read
      BY DEF Frames
    <3>2. h \in Frames /\ h.at = fr.at /\ h.rest = R /\ h.read = TRUE
      BY DEF Frames
    <3> HIDE DEF g, h
    <3>3. g = [at |-> g.at, rest |-> g.rest, read |-> g.read]
      BY <3>1 DEF Frames
    <3>4. g = [at |-> fr.at, rest |-> R, read |-> TRUE]
      BY <3>1, <3>3, Zenon
    <3> QED
      BY <3>4, Zenon DEF g
  <2> QED
    BY ONLY <1>1, <1>2, <2>1, Zenon
<1>4. SetRest(R) = [stack EXCEPT ![Len(stack)] = [stack[Len(stack)] EXCEPT !.rest = R]]
  BY DEF SetRest
<1> QED
  BY <1>3, <1>4

\* The recovery goes on with the indexes as they are.
LEMMA IndexesStay ==
  ASSUME ViewsInv, UNCHANGED <<volume, views, rebuilt, wanted>>,
         Calls(stack', wanted), InTree(stack', tree),
         Cover(rows, Todo(stack') \cup refused'), Saving(saved', wanted, Todo(stack'), refused')
  PROVE  ViewsInv'
<1>1. /\ filled' = filled /\ rows' = rows /\ tree' = tree /\ dangling' = dangling
      /\ volume' = volume /\ shown' = shown /\ broken' = broken
      /\ rebuilt' = rebuilt /\ wanted' = wanted
  BY DEF views
<1> QED
  BY <1>1, NextState DEF ViewsInv

\* What mkpath fails for is refused and no more to do.
LEMMA MkpathFailsStep ==
  ASSUME ViewsInv, MkpathFails
  PROVE  ViewsInv'
<1>1. /\ volume \in Volumes /\ Calls(stack, wanted) /\ InTree(stack, tree)
      /\ Cover(rows, Todo(stack) \cup refused) /\ Saving(saved, wanted, Todo(stack), refused)
  BY DEF ViewsInv
<1>2. stack # <<>> /\ UNCHANGED <<volume, views, rebuilt, wanted, saved>>
  BY DEF MkpathFails
<1>3. UNCHANGED <<volume, views, rebuilt, wanted>> /\ saved' = saved
  BY <1>2 DEF views
<1> DEFINE top == Last(stack)
<1>4. CASE ~top.read /\ stack' = Pop /\ refused' = refused \cup {top.at}
  <2>1. stack' = Front(stack)
    BY <1>4 DEF Pop
  <2>2. top.rest = {}
    <3>1. Len(stack) \in 1 .. Len(stack) /\ top = stack[Len(stack)]
      BY <1>1, <1>2, LastCall
    <3> QED
      BY <1>1, <1>4, <3>1 DEF Calls
  <2>3. /\ Calls(stack', wanted) /\ Len(stack') = Len(stack) - 1
        /\ \A i \in 1 .. Len(stack') : stack'[i] = stack[i] /\ i \in 1 .. Len(stack)
        /\ Todo(stack') \subseteq Todo(stack)
        /\ \A d \in Todo(stack) : \/ d \in Todo(stack')
                                  \/ d \in top.rest
                                  \/ d = top.at /\ ~top.read
    BY <1>1, <1>2, <2>1, Returned
  <2>4. InTree(stack', tree)
    BY <1>1, <2>3 DEF InTree
  <2>5. Todo(stack) \cup refused \subseteq Todo(stack') \cup refused'
    BY <1>4, <2>2, <2>3
  <2>6. Cover(rows, Todo(stack') \cup refused') /\ Saving(saved', wanted, Todo(stack'), refused')
    BY <1>1, <1>3, <2>3, <2>5, LessToDo
  <2> QED
    BY <1>3, <2>3, <2>4, <2>6, IndexesStay
<1>5. ASSUME NEW q \in top.rest, top.read, ~IsFolder(q),
             stack' = SetRest(top.rest \ {q}), refused' = refused \cup {q}
      PROVE  ViewsInv'
  <2> DEFINE R == top.rest \ {q}
  <2>2. R \subseteq Kids(top.at)
    BY <1>1, <1>2, LastCall
  <2>1. stack' = [stack EXCEPT ![Len(stack)] = [at |-> top.at, rest |-> R, read |-> TRUE]]
    <3>1. R \in SUBSET Path
      BY <1>1, <2>2, KidIs, LastCall, <1>2
    <3> HIDE DEF R
    <3> QED
      BY <1>1, <1>2, <1>5, <3>1, SetRestIs DEF R
  <2>3. /\ Calls(stack', wanted) /\ Len(stack') = Len(stack)
        /\ \A i \in 1 .. Len(stack) : stack'[i].at = stack[i].at
        /\ \A d \in Todo(stack') : d \in R \/ \E i \in 1 .. Len(stack) - 1 : d \in stack[i].rest
        /\ \A d \in Todo(stack) : \/ d \in Todo(stack')
                                  \/ d \in top.rest \ R
                                  \/ d = top.at /\ ~top.read
    <3>1. GoesOn(stack, wanted, R, stack')
      BY <1>1, <1>2, <2>1, <2>2 DEF GoesOn
    <3> HIDE DEF R
    <3> QED
      BY <1>1, <3>1, GotOn
  <2>4. InTree(stack', tree)
    BY <1>1, <2>3 DEF InTree
  <2>5. Todo(stack) \cup refused \subseteq Todo(stack') \cup refused'
    BY <1>5, <2>3
  <2>6. Todo(stack') \subseteq Todo(stack)
    <3>1. /\ Len(stack) \in 1 .. Len(stack) /\ top = stack[Len(stack)]
          /\ \A i \in 1 .. Len(stack) - 1 : i \in 1 .. Len(stack)
      BY <1>1, <1>2, LastCall
    <3>2. \A i \in 1 .. Len(stack) : stack[i].rest \subseteq Todo(stack)
      BY TodoIs
    <3> QED
      BY <2>3, <3>1, <3>2
  <2>7. Cover(rows, Todo(stack') \cup refused') /\ Saving(saved', wanted, Todo(stack'), refused')
    BY <1>1, <1>3, <2>5, <2>6, LessToDo
  <2> QED
    BY <1>3, <2>3, <2>4, <2>7, IndexesStay
<1> QED
  BY <1>4, <1>5 DEF MkpathFails

\* A call with no children left returns.
LEMMA FolderDoneStep ==
  ASSUME ViewsInv, FolderDone
  PROVE  ViewsInv'
<1>1. /\ volume \in Volumes /\ Calls(stack, wanted) /\ InTree(stack, tree)
      /\ Cover(rows, Todo(stack) \cup refused) /\ Saving(saved, wanted, Todo(stack), refused)
  BY DEF ViewsInv
<1>2. /\ stack # <<>> /\ Last(stack).read /\ Last(stack).rest = {} /\ stack' = Front(stack)
      /\ UNCHANGED <<volume, views, rebuilt, wanted>> /\ saved' = saved /\ refused' = refused
  BY DEF FolderDone, Pop, views
<1>3. /\ Calls(stack', wanted) /\ Len(stack') = Len(stack) - 1
      /\ \A i \in 1 .. Len(stack') : stack'[i] = stack[i] /\ i \in 1 .. Len(stack)
      /\ Todo(stack') \subseteq Todo(stack)
      /\ \A d \in Todo(stack) : \/ d \in Todo(stack')
                                \/ d \in Last(stack).rest
                                \/ d = Last(stack).at /\ ~Last(stack).read
  BY <1>1, <1>2, Returned, ZenonT(30)
<1>4. InTree(stack', tree)
  BY <1>1, <1>3 DEF InTree
<1>5. Todo(stack) \cup refused \subseteq Todo(stack') \cup refused'
  BY <1>2, <1>3
<1>6. Cover(rows, Todo(stack') \cup refused') /\ Saving(saved', wanted, Todo(stack'), refused')
  BY <1>1, <1>2, <1>3, <1>5, LessToDo
<1> QED
  BY <1>2, <1>3, <1>4, <1>6, IndexesStay

\* A path begins with itself, and with its own beginnings.
LEMMA BeginsWith ==
  ASSUME NEW q \in Path, NEW k \in 0 .. Len(q)
  PROVE  IsPrefix(PathTo(q, k), q) /\ IsPrefix(q, q)
<1>1. PathTo(q, k) \in Path /\ Len(PathTo(q, k)) = k /\ Len(q) \in Nat /\ PathTo(q, Len(q)) = q
  BY PathToIs DEF Path
<1> QED
  BY <1>1, PrefixIs

\* A path that begins with an entry of a folder begins with the folder.
LEMMA BeginsAbove ==
  ASSUME volume \in Volumes, NEW p, VolumeEntry(p), IsFolder(p), NEW d \in Kids(p),
         NEW q \in Path, IsPrefix(d, q)
  PROVE  IsPrefix(p, q)
<1>1. /\ d \in Path /\ Len(d) = Len(p) + 1 /\ PathTo(d, Len(p)) = p
      /\ p \in Path /\ Len(p) \in Nat /\ Len(q) \in Nat
  BY KidIs, EntryIs DEF Path
<1>2. Len(d) <= Len(q) /\ d = PathTo(q, Len(d))
  BY <1>1, PrefixIs
<1>3. Len(d) \in 0 .. Len(q) /\ Len(p) \in 0 .. Len(d)
  BY <1>1, <1>2
<1>4. PathTo(PathTo(q, Len(d)), Len(p)) = PathTo(q, Len(p))
  BY <1>3, PathToIs
<1> QED
  BY <1>1, <1>2, <1>3, <1>4, PrefixIs

\* A folder is read: in its stead its children are to do, and only the states of
\* what these hold may differ from theirs.
LEMMA readFoldersStep ==
  ASSUME ViewsInv, readFolders
  PROVE  ViewsInv'
<1>1. /\ volume \in Volumes /\ Filled(filled) /\ Agree(rows, tree, filled) /\ shown \in DOMAIN rows
      /\ Calls(stack, wanted) /\ InTree(stack, tree)
      /\ Stale(dangling, rebuilt, broken)
      /\ Cover(rows, Todo(stack) \cup refused) /\ Saving(saved, wanted, Todo(stack), refused)
  BY DEF ViewsInv
<1> DEFINE p == Last(stack).at
<1>2. /\ stack # <<>> /\ ~Last(stack).read
      /\ volume' = volume /\ shown' = shown /\ broken' = broken /\ wanted' = wanted
      /\ saved' = saved /\ refused' = refused
      /\ IF getFirst(p) THEN Rebuild(p) /\ rebuilt' = rebuilt \cup {p}
                        ELSE UNCHANGED <<filled, tree, rows, dangling, rebuilt>>
      /\ stack' = [stack EXCEPT ![Len(stack)] =
                     [at |-> p, rest |-> KidsIn(rows', p), read |-> TRUE]]
  BY DEF readFolders, ChildsToDo
<1>3. /\ Len(stack) \in Nat \ {0} /\ Last(stack) = stack[Len(stack)]
      /\ VolumeEntry(p) /\ IsFolder(p) /\ p \in Path /\ Len(p) <= MaxDepth /\ Len(p) \in Nat
  BY <1>1, <1>2, LastCall
<1>4. p \in DOMAIN tree /\ p \in Todo(stack) /\ Last(stack).rest = {}
  <2>1. Len(stack) \in 1 .. Len(stack)
    BY <1>3
  <2>2. p \in Todo(stack)
    BY <1>2, <1>3, <2>1, TodoIs
  <2>3. stack[Len(stack)].rest = {}
    BY <1>1, <1>2, <1>3, <2>1 DEF Calls
  <2> QED
    BY <1>1, <1>3, <2>1, <2>2, <2>3 DEF InTree
<1> HIDE DEF p
<1>5. /\ Filled(filled') /\ Agree(rows', tree', filled') /\ (p \in filled' \/ Kids(p) = {})
      /\ DOMAIN rows \subseteq DOMAIN rows' /\ DOMAIN tree \subseteq DOMAIN tree'
  <2>1. CASE getFirst(p)
    BY <1>1, <1>2, <1>3, <1>4, <2>1, Rebuilt
  <2>2. CASE ~getFirst(p)
    <3>1. filled' = filled /\ tree' = tree /\ rows' = rows /\ Kids(p) = {}
      BY <1>2, <2>2 DEF getFirst
    <3> QED
      BY <1>1, <3>1
  <2> QED
    BY <2>1, <2>2
<1>6. KidsIn(rows', p) = Kids(p)
  BY <1>1, <1>3, <1>5, KidsInAre
<1>7. GoesOn(stack, wanted, Kids(p), stack')
  BY <1>1, <1>2, <1>6 DEF GoesOn, p
<1>8. /\ Calls(stack', wanted) /\ Len(stack') = Len(stack)
      /\ \A i \in 1 .. Len(stack) : stack'[i].at = stack[i].at
      /\ Kids(p) \subseteq Todo(stack')
      /\ \A d \in Todo(stack') : d \in Kids(p) \/ \E i \in 1 .. Len(stack) - 1 : d \in stack[i].rest
      /\ \A d \in Todo(stack) : d \in Todo(stack') \/ d = p
  BY <1>1, <1>4, <1>7, GotOn DEF p
<1>9. \A d \in Todo(stack') : d \in Kids(p) \/ d \in Todo(stack)
  <2>1. \A i \in 1 .. Len(stack) - 1 : i \in 1 .. Len(stack)
    BY <1>3
  <2>2. \A i \in 1 .. Len(stack) : stack[i].rest \subseteq Todo(stack)
    BY TodoIs
  <2> QED
    BY <1>8, <2>1, <2>2
<1>10. InTree(stack', tree')
  BY <1>1, <1>5, <1>8 DEF InTree
<1>11. Stale(dangling', rebuilt', broken')
  <2>1. CASE getFirst(p)
    <3>1. /\ dangling' = dangling \cup {q \in DOMAIN tree : Below(q, p)}
          /\ rebuilt' = rebuilt \cup {p}
      BY <1>2, <2>1 DEF Rebuild
    <3> QED
      BY <1>1, <1>2, <3>1 DEF Stale
  <2>2. CASE ~getFirst(p)
    BY <1>1, <1>2, <2>2
  <2> QED
    BY <2>1, <2>2
<1>12. Cover(rows', Todo(stack') \cup refused')
  <2> DEFINE S == Todo(stack) \cup refused
             T == Todo(stack') \cup refused'
  <2>1. S \subseteq T \cup {p} /\ Kids(p) \subseteq T /\ Cover(rows, S)
    BY <1>1, <1>2, <1>8
  <2> HIDE DEF S, T
  <2>2. CASE getFirst(p)
    <3>1. Rebuild(p)
      BY <1>2, <2>2
    <3>2. Cover(rows', T)
      BY <1>1, <1>3, <1>4, <2>1, <3>1, RebuiltCover
    <3> QED
      BY <3>2 DEF T
  <2>3. CASE ~getFirst(p)
    <3>1. rows' = rows /\ Kids(p) = {}
      BY <1>2, <2>3 DEF getFirst
    <3>2. \A q \in DOMAIN rows \ {<<>>} : Front(q) # p
      BY <1>1, <3>1, IndexIs
    <3>3. Cover(rows', T)
      BY <2>1, <3>1, <3>2 DEF Cover
    <3> QED
      BY <3>3 DEF T
  <2> QED
    BY <2>2, <2>3
<1>13. Saving(saved', wanted', Todo(stack'), refused')
  <2>1. ASSUME NEW q \in DOMAIN saved
        PROVE  /\ saved[q] = 1 /\ ToRecover(q, wanted)
               /\ \A d \in Todo(stack') : ~IsPrefix(d, q)
    <3>1. /\ saved[q] = 1 /\ ToRecover(q, wanted)
          /\ \A d \in Todo(stack) : ~IsPrefix(d, q)
      BY <1>1 DEF Saving
    <3>2. q \in Path
      BY <1>1, <3>1, EntryIs DEF ToRecover, FileBelow
    <3>3. ASSUME NEW d \in Kids(p), IsPrefix(d, q) PROVE FALSE
      BY <1>1, <1>3, <1>4, <3>1, <3>2, <3>3, BeginsAbove DEF ToRecover
    <3> QED
      BY <1>9, <3>1, <3>3
  <2>2. ASSUME wanted # <<>>, NEW q, ToRecover(q, wanted)
        PROVE  q \in DOMAIN saved \/ \E r \in refused \cup Todo(stack') : IsPrefix(r, q)
    <3>1. q \in DOMAIN saved \/ \E r \in refused \cup Todo(stack) : IsPrefix(r, q)
      BY <1>1, <2>2 DEF Saving
    <3>2. VolumeEntry(q) /\ q \in Path /\ ~IsFolder(q) /\ Len(q) \in Nat /\ PathTo(q, Len(q)) = q
      BY <1>1, <2>2, EntryIs, PathToIs DEF ToRecover, FileBelow
    <3>3. ASSUME IsPrefix(p, q)
          PROVE  \E r \in Todo(stack') : IsPrefix(r, q)
      <4>1. Len(p) <= Len(q) /\ p = PathTo(q, Len(p))
        BY <1>3, <3>2, <3>3, PrefixIs
      <4>2. Len(p) # Len(q)
        BY <1>3, <3>2, <4>1
      <4>3. Len(p) \in 0 .. Len(q) - 1 /\ Len(p) + 1 \in 0 .. Len(q)
        BY <1>3, <3>2, <4>1, <4>2
      <4>4. PathTo(q, Len(p) + 1) \in Kids(p)
        BY <1>1, <3>2, <4>1, <4>3, FoldersAbove
      <4>5. IsPrefix(PathTo(q, Len(p) + 1), q)
        BY <3>2, <4>3, BeginsWith
      <4> QED
        BY <1>8, <4>4, <4>5
    <3> QED
      BY <1>8, <3>1, <3>3
  <2> QED
    BY <1>2, <2>1, <2>2 DEF Saving
<1> QED
  BY <1>1, <1>2, <1>5, <1>8, <1>10, <1>11, <1>12, <1>13, NextState

\* A child is recovered: of a folder a call is made, a file is written, which no
\* other call has left to do.
LEMMA RecoverChildStep ==
  ASSUME ViewsInv, NEW q \in DOMAIN rows, RecoverChild(q)
  PROVE  ViewsInv'
<1>1. /\ volume \in Volumes /\ Filled(filled) /\ Agree(rows, tree, filled)
      /\ Calls(stack, wanted) /\ InTree(stack, tree)
      /\ Cover(rows, Todo(stack) \cup refused) /\ Saving(saved, wanted, Todo(stack), refused)
  BY DEF ViewsInv
<1> DEFINE top == Last(stack)
           R == top.rest \ {q}
           s == SetRest(R)
<1>2. /\ stack # <<>> /\ top.read /\ q \in top.rest /\ refused' = refused
      /\ UNCHANGED <<volume, views, rebuilt, wanted>>
      /\ IsFolder(q) => Len(q) <= MaxDepth /\ stack' = Append(s, Frame(q)) /\ saved' = saved
      /\ ~IsFolder(q) => stack' = s /\ saved' = RecoverFile(saved, q)
  BY DEF RecoverChild, views
<1>3. /\ Len(stack) \in Nat \ {0} /\ top = stack[Len(stack)]
      /\ VolumeEntry(top.at) /\ IsFolder(top.at) /\ top.at \in Path /\ Len(top.at) <= MaxDepth
      /\ Len(top.at) \in Nat /\ top.rest \subseteq Kids(top.at)
      /\ wanted \in Path /\ Len(wanted) \in Nat /\ wanted = PathTo(top.at, Len(wanted))
      /\ Len(top.at) = Len(wanted) + Len(stack) - 1
  BY <1>1, <1>2, LastCall
<1>4. /\ VolumeEntry(q) /\ q \in Path /\ Len(q) = Len(top.at) + 1 /\ Len(q) \in Nat
      /\ PathTo(q, Len(top.at)) = top.at
  BY <1>1, <1>2, <1>3, KidIs
<1>5. R \subseteq Kids(top.at) /\ R \in SUBSET Path
  BY <1>1, <1>3, KidIs
<1>6. GoesOn(stack, wanted, R, s)
  <2>1. s = [stack EXCEPT ![Len(stack)] = [at |-> top.at, rest |-> R, read |-> TRUE]]
    <3> HIDE DEF R
    <3> QED
      BY <1>1, <1>2, <1>5, SetRestIs
  <2> HIDE DEF R, s
  <2> QED
    BY <1>1, <1>2, <1>5, <2>1 DEF GoesOn
<1> HIDE DEF s
<1>7. /\ Calls(s, wanted) /\ Len(s) = Len(stack) /\ s # <<>>
      /\ \A i \in 1 .. Len(stack) : s[i].at = stack[i].at
      /\ Last(s) = [at |-> top.at, rest |-> R, read |-> TRUE]
      /\ \A d \in Todo(s) : d \in R \/ \E i \in 1 .. Len(stack) - 1 : d \in stack[i].rest
      /\ \A d \in Todo(stack) : \/ d \in Todo(s)
                                \/ d \in top.rest \ R
                                \/ d = top.at /\ ~top.read
  <2> HIDE DEF R
  <2> QED
    BY <1>1, <1>6, GotOn
<1>8. \A i \in 1 .. Len(stack) : stack[i].rest \subseteq Todo(stack)
  BY TodoIs
<1>9. Len(stack) \in 1 .. Len(stack) /\ \A i \in 1 .. Len(stack) - 1 : i \in 1 .. Len(stack)
  BY <1>3
<1>10. q \in Todo(stack) /\ Todo(s) \subseteq Todo(stack) /\ Todo(stack) \subseteq Todo(s) \cup {q}
  <2>1. top.rest \subseteq Todo(stack)
    BY <1>3, <1>8, <1>9
  <2> QED
    BY <1>2, <1>7, <1>8, <1>9, <2>1
<1>11. CASE IsFolder(q)
  <2>1. Last(s).read /\ Last(s).at = top.at /\ Last(s).rest = R
    BY <1>7
  <2>2. q \in Kids(Last(s).at) \ Last(s).rest
    BY <1>2, <1>3, <2>1
  <2>3. /\ Calls(stack', wanted) /\ Len(stack') = Len(s) + 1 /\ stack'[Len(stack')].at = q
        /\ \A i \in 1 .. Len(s) : stack'[i] = s[i]
        /\ \A d : d \in Todo(stack') <=> d \in Todo(s) \/ d = q
    <3>1. Len(q) <= MaxDepth /\ stack' = Append(s, Frame(q))
      BY <1>2, <1>11
    <3>2. CallsFor(s, wanted, q, stack')
      BY <1>7, <1>11, <2>1, <2>2, <3>1 DEF CallsFor
    <3> QED
      BY <1>1, <3>2, Called
  <2>4. InTree(stack', tree)
    <3>1. q \in DOMAIN tree
      BY <1>1, <1>11 DEF Agree
    <3>2. \A i \in 1 .. Len(stack') : i \in 1 .. Len(stack) \/ i = Len(stack')
      BY <1>3, <1>7, <2>3
    <3> QED
      BY <1>1, <1>7, <2>3, <3>1, <3>2 DEF InTree
  <2>5. /\ Todo(stack') \subseteq Todo(stack)
        /\ Todo(stack) \cup refused \subseteq Todo(stack') \cup refused'
    BY <1>2, <1>10, <2>3
  <2>6. saved' = saved
    BY <1>2, <1>11
  <2>7. Cover(rows, Todo(stack') \cup refused') /\ Saving(saved', wanted, Todo(stack'), refused')
    BY <1>1, <2>5, <2>6, LessToDo
  <2> QED
    BY <1>2, <2>3, <2>4, <2>7, IndexesStay
<1>12. CASE ~IsFolder(q)
  <2>1. stack' = s /\ saved' = RecoverFile(saved, q)
    BY <1>2, <1>12
  <2>2. InTree(stack', tree)
    BY <1>1, <1>7, <2>1 DEF InTree
  <2>3. FileBelow(q, wanted) /\ IsPrefix(q, q) /\ IsPrefix(top.at, q)
    <3>1. /\ Len(wanted) \in 0 .. Len(top.at) /\ Len(top.at) \in 0 .. Len(q)
          /\ Len(q) \in 0 .. Len(q)
      BY <1>3, <1>4
    <3>2. PathTo(q, Len(wanted)) = wanted
      <4>1. PathTo(PathTo(q, Len(top.at)), Len(wanted)) = PathTo(q, Len(wanted))
        BY <1>4, <3>1, PathToIs
      <4> QED
        BY <1>3, <1>4, <4>1
    <3>3. Len(wanted) \in 0 .. Len(q)
      BY <1>4, <3>1
    <3>4. IsPrefix(wanted, q) /\ IsPrefix(q, q) /\ IsPrefix(top.at, q)
      <4>1. IsPrefix(PathTo(q, Len(wanted)), q) /\ IsPrefix(PathTo(q, Len(top.at)), q) /\ IsPrefix(q, q)
        BY <1>4, <3>1, <3>3, BeginsWith
      <4> QED
        BY <1>4, <3>2, <4>1
    <3>5. Len(q) <= MaxDepth + 1
      BY <1>1, <1>3, <1>4, VolumeIs
    <3> QED
      BY <1>4, <1>12, <3>4, <3>5 DEF FileBelow
  <2>4. q \notin DOMAIN saved
    BY <1>1, <1>10, <2>3 DEF Saving
  <2>5. /\ \A r \in DOMAIN saved' : saved'[r] = 1 /\ (r \in DOMAIN saved \/ (r = q /\ At(q) = File))
        /\ DOMAIN saved \subseteq DOMAIN saved' /\ (At(q) = File => q \in DOMAIN saved')
    <3>1. \A r \in DOMAIN saved : saved[r] = 1
      BY <1>1 DEF Saving
    <3> QED
      BY <1>1, <1>4, <1>12, <2>1, <2>4, <3>1, FileRecovered
  <2>6. ASSUME NEW d \in Todo(s) PROVE ~IsPrefix(d, q)
    <3>1. CASE d \in R
      <4>1. d \in Path /\ Len(d) = Len(q) /\ d # q
        BY <1>1, <1>3, <1>4, <1>5, <3>1, KidIs
      <4> QED
        BY <1>4, <4>1, PrefixIs, PathToIs
    <3>2. ASSUME NEW i \in 1 .. Len(stack) - 1, d \in stack[i].rest PROVE ~IsPrefix(d, q)
      BY <1>1, <1>2, <1>4, <2>3, <3>2, CallsApart
    <3> QED
      BY <1>7, <3>1, <3>2
  <2>7. Saving(saved', wanted, Todo(stack'), refused')
    <3>1. ASSUME NEW r \in DOMAIN saved'
          PROVE  /\ saved'[r] = 1 /\ ToRecover(r, wanted)
                 /\ \A d \in Todo(s) : ~IsPrefix(d, r)
      BY <1>1, <1>10, <2>3, <2>5, <2>6 DEF Saving, ToRecover
    <3>2. ASSUME wanted # <<>>, NEW r, ToRecover(r, wanted)
          PROVE  r \in DOMAIN saved' \/ \E x \in refused \cup Todo(s) : IsPrefix(x, r)
      <4>1. r \in DOMAIN saved \/ \E x \in refused \cup Todo(stack) : IsPrefix(x, r)
        BY <1>1, <3>2 DEF Saving
      <4>2. IsPrefix(q, r) => r = q
        BY <1>1, <1>4, <1>12, <3>2, FileIsLast DEF ToRecover, FileBelow
      <4>3. At(r) = File
        BY <3>2 DEF ToRecover
      <4> QED
        BY <1>10, <2>5, <4>1, <4>2, <4>3
    <3> QED
      BY <1>2, <2>1, <3>1, <3>2 DEF Saving
  <2>8. Cover(rows, Todo(stack') \cup refused')
    <3>1. \A r \in DOMAIN rows \ {<<>>} : Front(r) # q
      <4> SUFFICES ASSUME NEW r \in DOMAIN rows \ {<<>>}, Front(r) = q PROVE FALSE
        OBVIOUS
      <4>1. Front(r) \in filled
        BY <1>1, IndexIs
      <4> QED
        BY <1>1, <1>12, <4>1 DEF Filled
    <3> QED
      BY <1>1, <1>2, <1>10, <2>1, <3>1 DEF Cover
  <2> QED
    BY <1>2, <1>7, <2>1, <2>2, <2>7, <2>8, IndexesStay
<1> QED
  BY <1>11, <1>12

-----------------------------------------------------------------------------
(* The theorems                                                            *)

\* The invariant holds of the window that was opened.
LEMMA ViewsInitInv ==
  ASSUME ViewsInit
  PROVE  ViewsInv
<1>1. volume \in Volumes /\ MaxDepth \in Nat
  BY VolumeIs DEF ViewsInit
<1>2. VolumeEntry(<<>>) /\ IsFolder(<<>>) /\ <<>> \in Path /\ Len(<<>>) = 0 /\ PathTo(<<>>, 0) = <<>>
  BY <1>1, RootIs, PathToIs
<1>3. filled \in {{}, {<<>>}}
  BY DEF ViewsInit
<1>4. Filled(filled)
  BY <1>1, <1>2, <1>3 DEF Filled
<1>5. Agree(rows, tree, filled)
  BY <1>2 DEF ViewsInit, Agree
<1>6. <<>> \in DOMAIN rows /\ shown = <<>>
  BY DEF ViewsInit
<1>7. /\ stack = <<>> /\ wanted = <<>> /\ dangling = {} /\ broken = FALSE /\ saved = <<>>
  BY DEF ViewsInit
<1>8. Stale(dangling, rebuilt, broken)
  BY <1>7 DEF Stale
<1>9. Cover(rows, Todo(stack) \cup refused)
  <2>1. \A q \in DOMAIN rows : rows[q] = "Unchecked"
    BY DEF ViewsInit
  <2>2. \A q \in DOMAIN rows \ {<<>>} : Front(q) \in DOMAIN rows
    BY <1>1, <1>4, <1>5, IndexIs
  <2> QED
    BY <2>1, <2>2 DEF Cover
<1>10. DOMAIN saved = {}
  BY <1>7
<1>11. Saving(saved, wanted, Todo(stack), refused)
  BY <1>7, <1>10 DEF Saving
<1>12. Calls(stack, wanted) /\ InTree(stack, tree)
  BY <1>2, <1>7, NoCall
<1> QED
  BY <1>1, <1>4, <1>5, <1>6, <1>8, <1>9, <1>11, <1>12 DEF ViewsInv

\* Every step keeps the invariant.
LEMMA ViewsNextInv ==
  ASSUME ViewsInv, [ViewsNext]_viewsVars
  PROVE  ViewsInv'
<1>0. Agree(rows, tree, filled)
  BY DEF ViewsInv
<1>1. ASSUME NEW p \in DOMAIN tree, ClickTree(p) PROVE ViewsInv'
  BY <1>1, OpenFolderStep DEF ClickTree
<1>2. ASSUME NEW p \in DOMAIN tree, WalkTree(p) PROVE ViewsInv'
  BY <1>2, WalkTreeStep
<1>3. ASSUME NEW p \in DOMAIN tree, TickTree(p) PROVE ViewsInv'
  BY <1>3, TickTreeStep
<1>4. ASSUME NEW p \in DOMAIN rows, DoubleClickTable(p) PROVE ViewsInv'
  BY <1>4, OpenFolderStep DEF DoubleClickTable
<1>5. ASSUME NEW p \in DOMAIN rows, TickTable(p) PROVE ViewsInv'
  BY <1>5, TickTableStep
<1>6. ASSUME NEW p \in DOMAIN rows, RecoverySelected(p) PROVE ViewsInv'
  BY <1>6, RecoverySelectedStep
<1>7. CASE UseDeleted
  BY <1>7, UseDeletedStep
<1>8. CASE MkpathFails
  BY <1>8, MkpathFailsStep
<1>9. CASE readFolders
  BY <1>9, readFoldersStep
<1>10. ASSUME NEW q \in DOMAIN rows, RecoverChild(q) PROVE ViewsInv'
  BY <1>10, RecoverChildStep
<1>11. CASE FolderDone
  BY <1>11, FolderDoneStep
<1>12. CASE UNCHANGED viewsVars
  <2>1. /\ volume' = volume /\ filled' = filled /\ tree' = tree /\ rows' = rows /\ shown' = shown
        /\ dangling' = dangling /\ broken' = broken /\ stack' = stack /\ rebuilt' = rebuilt
        /\ wanted' = wanted /\ saved' = saved /\ refused' = refused
    BY <1>12 DEF viewsVars, views, recovery
  <2> QED
    BY <2>1, NextState DEF ViewsInv
<1> QED
  BY <1>1, <1>2, <1>3, <1>4, <1>5, <1>6, <1>7, <1>8, <1>9, <1>10, <1>11, <1>12 DEF ViewsNext

\* The invariant holds of every state.
THEOREM ViewsInvariance == ViewsSpec => []ViewsInv
<1>1. ViewsInit => ViewsInv
  BY ViewsInitInv
<1>2. ViewsInv /\ [ViewsNext]_viewsVars => ViewsInv'
  BY ViewsNextInv
<1> QED
  BY <1>1, <1>2, PTL DEF ViewsSpec

\* Both models have an index for what the filled nodes hold, and no other, for
\* every volume and whatever is opened, ticked and recovered in any order
\* (OnTreeViewClicked, readFolders).
THEOREM ModelsShowTheNodes == ViewsSpec => []ViewsAgree
<1>1. ViewsInv => ViewsAgree
  BY DEF ViewsInv, Agree, ViewsAgree
<1> QED
  BY <1>1, ViewsInvariance, PTL

\* Opening folders never deletes an index that the tree view may hold: what is
\* deleted, or used when it is, a recovery replaced.
THEOREM OnlyRecoveryDeletes == ViewsSpec => []StaleOnlyByRecovery
<1>1. ViewsInv => StaleOnlyByRecovery
  BY DEF ViewsInv, Stale, StaleOnlyByRecovery
<1> QED
  BY <1>1, ViewsInvariance, PTL

\* A box of the table that is ticked, or not, stands for all that was read below
\* it, but below a folder that could not be made on the target (resetChilds,
\* updateCheckChilds, checkFormChilds).
THEOREM TickStandsForAllBelow == ViewsSpec => []TickCoversBelow
<1>1. ASSUME ViewsInv PROVE TickCoversBelow
  <2> SUFFICES ASSUME stack = <<>> PROVE TickCoversBelow
    BY DEF TickCoversBelow
  <2>1. Todo(stack) = {} /\ Cover(rows, Todo(stack) \cup refused)
    BY <1>1, NoCall DEF ViewsInv
  <2> QED
    BY <2>1 DEF Cover, TickCoversBelow
<1> QED
  BY <1>1, ViewsInvariance, PTL

\* A recovery that ends has written the files below the folder that RecoverFile
\* takes, each once, on every volume, save those mkpath failed for, and no other
\* (RecoverFolder, readFolders, RecoverFile).
THEOREM FolderIsRecovered == ViewsSpec => []RecoveredIsTheFolder
<1>1. ASSUME ViewsInv PROVE RecoveredIsTheFolder
  <2>1. /\ volume \in Volumes /\ Calls(stack, wanted) /\ Saving(saved, wanted, Todo(stack), refused)
    BY <1>1 DEF ViewsInv
  <2>2. \A p, q : q \in FilesBelow(p) <=> FileBelow(q, p)
    BY <2>1, FilesAre
  <2>3. \A q \in DOMAIN saved : saved[q] = 1 /\ q \in FilesBelow(wanted) /\ At(q) = File
    BY <2>1, <2>2 DEF Saving, ToRecover
  <2>4. ASSUME stack = <<>>, wanted # <<>>, NEW q \in FilesBelow(wanted), At(q) = File
        PROVE  q \in DOMAIN saved \/ \E r \in refused : IsPrefix(r, q)
    BY <2>1, <2>2, <2>4, NoCall DEF Saving, ToRecover
  <2> QED
    BY <2>3, <2>4 DEF RecoveredIsTheFolder
<1> QED
  BY <1>1, ViewsInvariance, PTL
=============================================================================
