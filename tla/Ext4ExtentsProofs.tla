-------------------------- MODULE Ext4ExtentsProofs --------------------------
(***************************************************************************)
(* Proofs about Ext4Extents, for every device, image and size of the stack *)
(* and of the target: what is written belongs to the file, a mark costs    *)
(* only the rest of its leaf, and the recursion is endless only in a       *)
(* circle.                                                                 *)
(*                                                                         *)
(* The recursion keeps no record of the blocks it has been to.  What the   *)
(* invariant knows is in the stack: each call stands for a block that the  *)
(* entry before the caller's next one leads to, and the entries before     *)
(* that one are walked.                                                    *)
(***************************************************************************)
EXTENDS Ext4Extents, TLAPS, FiniteSetTheorems, WellFoundedInduction

Frame == [block : Nat, next : 0 .. MaxEntries + 1]

IsNode(b) == extent_offset(b) \in Block /\ isValidExtent(NodeAt(b))
EntryOf(b, i) == NodeAt(b).extent[i]

\* A block of the tree is one the root leads to.
InTree(b) == b \in Inner \cup Outer => b \in ReachableFrom({image.root})

\* All that an extent stands for is in the target; and of a leaf, all extents
\* in front of the first mark.
Stored(e) == \A t \in DOMAIN target : Covers(e, t) => target[t] # NotWritten
LeafSaved(l) ==
  \A i \in 1 .. NodeAt(l).entries :
    (\A j \in 1 .. i : ~HasMark(EntryOf(l, j))) => Stored(EntryOf(l, i))

\* A call for block b has returned: what b leads to is saved, and leads to
\* nowhere it came from.
Walked(b) ==
  \A x \in ReachableFrom({b}) :
    (x \in Outer => LeafSaved(x)) /\ x \notin ReachableFrom(Children(x))

\* The loop of a call for block b is past entry i.
Behind(b, i) ==
  IF NodeAt(b).depth = 0 THEN ~HasMark(EntryOf(b, i)) /\ Stored(EntryOf(b, i))
  ELSE Walked(EntryOf(b, i).phys)

\* How many entries the k-th call of the stack is past: the call on top of it,
\* if there is one, is for the entry before the next one.
Passed(k) == IF k = Len(stack) THEN stack[k].next - 1 ELSE stack[k].next - 2
FrameInv(k) ==
  LET b == stack[k].block
      n == stack[k].next
  IN /\ InTree(b)
     /\ n > 0 => IsNode(b) /\ n <= NodeAt(b).entries + 1
     /\ \A i \in 1 .. Passed(k) : Behind(b, i)
     /\ k < Len(stack) => /\ n > 1 /\ NodeAt(b).depth # 0
                          /\ stack[k + 1].block = EntryOf(b, n - 1).phys

WalkInv ==
  /\ pc = "running" => /\ stack[1].block = image.root
                       /\ \A k \in DOMAIN stack : FrameInv(k)
  /\ pc = "returned" => Walked(image.root)

IInv ==
  /\ image \in Images
  /\ PiecesAreRight
  /\ pc = "overflow" /\ Cardinality(Inner) < StackLimit => HasCircle
  /\ WalkInv

-----------------------------------------------------------------------------
(* What is reachable                                                       *)

\* A block of the tree is reachable from itself.
LEMMA ReachesItself ==
  ASSUME NEW b \in Inner \cup Outer
  PROVE  b \in ReachableFrom({b})
BY DEF ReachableFrom

\* What is reachable is of the tree, and so is what it leads to.
LEMMA ReachesOn ==
  ASSUME NEW T, NEW x \in ReachableFrom(T)
  PROVE  /\ x \in Inner \cup Outer
         /\ \A z \in Children(x) \cap (Inner \cup Outer) : z \in ReachableFrom(T)
BY DEF ReachableFrom, Closed

\* It is in every closed set that holds the start.
LEMMA ReachedIsIn ==
  ASSUME NEW T, NEW S \in SUBSET (Inner \cup Outer), Closed(S),
         T \cap (Inner \cup Outer) \subseteq S
  PROVE  ReachableFrom(T) \subseteq S
BY DEF ReachableFrom

\* Nothing is reachable from outside the tree.
LEMMA NothingFromOutside ==
  ASSUME NEW T, T \cap (Inner \cup Outer) = {}
  PROVE  ReachableFrom(T) = {}
<1>1. Closed({})
  BY DEF Closed
<1> QED
  BY <1>1, ReachedIsIn

\* From a set of blocks nothing is reachable that is not from one of them.
LEMMA ReachedFromOne ==
  ASSUME NEW T, NEW x \in ReachableFrom(T)
  PROVE  \E c \in T \cap (Inner \cup Outer) : x \in ReachableFrom({c})
<1> DEFINE S == {y \in Inner \cup Outer :
                   \E c \in T \cap (Inner \cup Outer) : y \in ReachableFrom({c})}
<1>1. Closed(S)
  BY ReachesOn DEF Closed
<1>2. T \cap (Inner \cup Outer) \subseteq S
  BY ReachesItself
<1> QED
  BY <1>1, <1>2, ReachedIsIn

\* And the other way round.
LEMMA ReachedFromAll ==
  ASSUME NEW T, NEW c \in T, NEW x \in ReachableFrom({c})
  PROVE  x \in ReachableFrom(T)
BY DEF ReachableFrom

\* What is reachable from a block is the block or reachable from a child.
LEMMA ReachedFromChild ==
  ASSUME NEW b, NEW x \in ReachableFrom({b}), x # b
  PROVE  \E c \in Children(b) \cap (Inner \cup Outer) : x \in ReachableFrom({c})
<1> DEFINE S == {y \in Inner \cup Outer :
                   y = b \/ \E c \in Children(b) \cap (Inner \cup Outer) : y \in ReachableFrom({c})}
<1>1. Closed(S)
  BY ReachesOn, ReachesItself DEF Closed
<1>2. {b} \cap (Inner \cup Outer) \subseteq S
  OBVIOUS
<1> QED
  BY <1>1, <1>2, ReachedIsIn

\* A leaf leads nowhere.
LEMMA LeafEnds ==
  ASSUME NEW b \in Outer
  PROVE  Children(b) = {} /\ ReachableFrom({b}) = {b} /\ ReachableFrom(Children(b)) = {}
<1>1. Children(b) = {}
  BY DEF Children, Inner, Outer
<1>2. ReachableFrom({b}) = {b}
  BY <1>1, ReachesItself, ReachedFromChild
<1> QED
  BY <1>1, <1>2, NothingFromOutside

\* A block that is not, or has no entries, is not of the tree.
LEMMA NotOfTheTree ==
  ASSUME NEW b, ~IsNode(b) \/ NodeAt(b).entries = 0, NodeAt(b) \in Node \cup {NoNode}
  PROVE  b \notin Inner \cup Outer
BY DEF Inner, Outer, EntriesAt, IsNode, NodeAt, isValidExtent, Node

-----------------------------------------------------------------------------
(* The steps do not change the tree                                        *)

\* What the image says of the tree does not change.
LEMMA TreeStays ==
  ASSUME UNCHANGED image
  PROVE  /\ Inner' = Inner /\ Outer' = Outer /\ image.root' = image.root
         /\ \A b : NodeAt(b)' = NodeAt(b) /\ IsNode(b)' = IsNode(b)
         /\ \A b : Children(b)' = Children(b)
         /\ \A b : EntriesAt(b)' = EntriesAt(b)
         /\ \A e : HasMark(e)' = HasMark(e)
         /\ \A T : ReachableFrom(T)' = ReachableFrom(T)
         /\ Leaves' = Leaves
<1>1. \A b : /\ NodeAt(b)' = NodeAt(b) /\ IsNode(b)' = IsNode(b)
             /\ EntriesAt(b)' = EntriesAt(b)
  BY DEF NodeAt, IsNode, EntriesAt, extent_offset
<1>2. Inner' = Inner /\ Outer' = Outer
  BY <1>1 DEF Inner, Outer
<1>3. \A b : Children(b)' = Children(b)
  BY <1>1, <1>2 DEF Children
<1>4. \A T : ReachableFrom(T)' = ReachableFrom(T)
  BY <1>2, <1>3 DEF ReachableFrom, Closed
<1>5. \A e : HasMark(e)' = HasMark(e)
  BY DEF HasMark
<1> QED
  BY <1>1, <1>2, <1>3, <1>4, <1>5 DEF Leaves

\* Every block of an image is a node or none; a node has its entries.
LEMMA NodesTyped ==
  ASSUME image \in Images
  PROVE  /\ image.root \in Nat /\ image.volume \in Nat
         /\ \A b : NodeAt(b) \in Node \cup {NoNode}
         /\ \A b : IsNode(b) => /\ NodeAt(b) = image.node[extent_offset(b)]
                                /\ NodeAt(b).entries \in 0 .. MaxEntries
                                /\ \A i \in 1 .. NodeAt(b).entries : EntryOf(b, i) \in Entry
                                /\ EntriesAt(b) = {EntryOf(b, i) : i \in 1 .. NodeAt(b).entries}
<1>1. /\ image.root \in Nat /\ image.volume \in Nat
      /\ image.node \in [Block -> Node \cup {NoNode}]
  BY ImagesAssumption
<1>2. \A b : NodeAt(b) \in Node \cup {NoNode}
  BY <1>1 DEF NodeAt
<1>3. ASSUME NEW b, IsNode(b)
      PROVE  /\ NodeAt(b) = image.node[extent_offset(b)] /\ NodeAt(b) \in Node
             /\ NodeAt(b).entries <= MaxEntries
             /\ EntriesAt(b) = {EntryOf(b, i) : i \in 1 .. NodeAt(b).entries}
  BY <1>2, <1>3 DEF NodeAt, IsNode, isValidExtent, EntriesAt, EntryOf
<1>4. ASSUME NEW n \in Node, n.entries <= MaxEntries
      PROVE  n.entries \in 0 .. MaxEntries /\ \A i \in 1 .. n.entries : n.extent[i] \in Entry
  BY <1>4, SizesAssumption DEF Node
<1> QED
  BY <1>1, <1>2, <1>3, <1>4 DEF EntryOf

\* A node with an entry is a block of the tree.
LEMMA NodeIsInTree ==
  ASSUME image \in Images, NEW b \in Nat, IsNode(b), NEW i \in 1 .. NodeAt(b).entries
  PROVE  /\ NodeAt(b).depth = 0 => b \in Outer
         /\ NodeAt(b).depth # 0 => b \in Inner /\ EntryOf(b, i).phys \in Children(b)
         /\ EntryOf(b, i) \in EntriesAt(b)
<1>1. EntryOf(b, i) \in EntriesAt(b)
  BY NodesTyped
<1>2. b \in Block
  <2>1. extent_offset(b) \in Block /\ image.volume \in Nat
    BY NodesTyped DEF IsNode
  <2>2. image.volume + b \in 0 .. DeviceBlocks - 1
    BY <2>1 DEF extent_offset, Block
  <2> QED
    BY <2>1, <2>2, SizesAssumption DEF Block
<1> QED
  BY <1>1, <1>2 DEF Inner, Outer, Children

-----------------------------------------------------------------------------
(* When a call has walked its block                                        *)

\* A leaf that was saved has been walked.
LEMMA LeafWalked ==
  ASSUME NEW b \in Outer, LeafSaved(b)
  PROVE  Walked(b)
BY LeafEnds DEF Walked

\* Outside the tree there is nothing to walk.
LEMMA NothingToWalk ==
  ASSUME NEW b, b \notin Inner \cup Outer
  PROVE  Walked(b)
BY NothingFromOutside DEF Walked

\* An index block is walked when its entries are.  Were it in a circle, a child
\* would lead back to it.
LEMMA IndexWalked ==
  ASSUME NEW b \in Inner, \A c \in Children(b) : Walked(c)
  PROVE  Walked(b)
<1> SUFFICES ASSUME NEW x \in ReachableFrom({b})
             PROVE  (x \in Outer => LeafSaved(x)) /\ x \notin ReachableFrom(Children(x))
  BY DEF Walked
<1>1. CASE x = b
  <2>1. x \notin Outer
    BY <1>1 DEF Inner, Outer
  <2>2. ASSUME b \in ReachableFrom(Children(b)) PROVE FALSE
    <3>1. PICK c \in Children(b) : b \in ReachableFrom({c})
      BY <2>2, ReachedFromOne
    <3> QED
      BY <2>2, <3>1 DEF Walked
  <2> QED
    BY <1>1, <2>1, <2>2
<1>2. CASE x # b
  <2>1. PICK c \in Children(b) : x \in ReachableFrom({c})
    BY <1>2, ReachedFromChild
  <2> QED
    BY <2>1 DEF Walked
<1> QED
  BY <1>1, <1>2

\* The loop over the entries of a block is done.
LEMMA NodeWalked ==
  ASSUME image \in Images, NEW b \in Nat, IsNode(b),
         \A i \in 1 .. NodeAt(b).entries : Behind(b, i)
  PROVE  Walked(b)
<1>1. NodeAt(b).entries \in Nat
  BY NodesTyped, SizesAssumption
<1>2. CASE NodeAt(b).entries = 0
  <2>1. b \notin Inner \cup Outer
    BY <1>2, NodesTyped, NotOfTheTree
  <2> QED
    BY <2>1, NothingToWalk
<1>3. CASE NodeAt(b).entries # 0 /\ NodeAt(b).depth = 0
  <2>1. 1 \in 1 .. NodeAt(b).entries
    BY <1>1, <1>3
  <2>2. b \in Outer
    BY <1>3, <2>1, NodeIsInTree
  <2>3. LeafSaved(b)
    BY <1>3 DEF Behind, LeafSaved
  <2> QED
    BY <2>2, <2>3, LeafWalked
<1>4. CASE NodeAt(b).entries # 0 /\ NodeAt(b).depth # 0
  <2>1. 1 \in 1 .. NodeAt(b).entries
    BY <1>1, <1>4
  <2>2. b \in Inner
    BY <1>4, <2>1, NodeIsInTree
  <2>3. ASSUME NEW c \in Children(b) PROVE Walked(c)
    <3>1. PICK e \in EntriesAt(b) : c = e.phys
      BY <2>2 DEF Children
    <3>2. PICK i \in 1 .. NodeAt(b).entries : e = EntryOf(b, i)
      BY NodesTyped
    <3> QED
      BY <1>4, <3>1, <3>2 DEF Behind
  <2> QED
    BY <2>2, <2>3, IndexWalked
<1> QED
  BY <1>2, <1>3, <1>4

\* What is in the target stays there, and so a walked block stays walked.
Kept ==
  /\ UNCHANGED image
  /\ DOMAIN target' = DOMAIN target
  /\ \A t \in DOMAIN target : target[t] # NotWritten => target'[t] # NotWritten

\* What has been walked stays so while nothing is taken out of the file.
LEMMA WalkedStays ==
  ASSUME Kept
  PROVE  /\ \A b : Walked(b) => Walked(b)'
         /\ \A b, i : Behind(b, i) => Behind(b, i)'
         /\ \A b : InTree(b) => InTree(b)'
<1>0. UNCHANGED image
  BY DEF Kept
<1>1. ASSUME NEW e, Stored(e) PROVE Stored(e)'
  BY <1>1 DEF Kept, Stored, Covers
<1>2. \A b, i : EntryOf(b, i)' = EntryOf(b, i)
  BY <1>0, TreeStays DEF EntryOf
<1>3. ASSUME NEW l, LeafSaved(l) PROVE LeafSaved(l)'
  BY <1>0, <1>1, <1>2, <1>3, TreeStays DEF LeafSaved
<1>4. ASSUME NEW b, Walked(b) PROVE Walked(b)'
  BY <1>0, <1>3, <1>4, TreeStays DEF Walked
<1>5. ASSUME NEW b, NEW i, Behind(b, i) PROVE Behind(b, i)'
  BY <1>0, <1>1, <1>2, <1>4, <1>5, TreeStays DEF Behind
<1>6. ASSUME NEW b, InTree(b) PROVE InTree(b)'
  BY <1>0, <1>6, TreeStays DEF InTree
<1> QED
  BY <1>4, <1>5, <1>6

-----------------------------------------------------------------------------
(* The stack                                                               *)

\* What the calls are when the last one has returned.
LEMMA CallLeft ==
  ASSUME NEW s \in Seq(Frame), s # <<>>
  PROVE  /\ Front(s) \in Seq(Frame)
         /\ Len(Front(s)) = Len(s) - 1
         /\ \A k \in 1 .. Len(s) - 1 : Front(s)[k] = s[k]
<1> DEFINE f == SubSeq(s, 1, Len(s) - 1)
<1>1. Len(s) - 1 \in 0 .. Len(s) /\ Len(s) \in Nat
  <2> HIDE DEF Frame
  <2> QED
    OBVIOUS
<1>2. ASSUME NEW S, NEW a \in Seq(S), NEW n \in 0 .. Len(a)
      PROVE  /\ SubSeq(a, 1, n) \in Seq(S) /\ Len(SubSeq(a, 1, n)) = n
             /\ \A k \in 1 .. n : SubSeq(a, 1, n)[k] = a[k]
  OBVIOUS
<1>3. f \in Seq(Frame) /\ Len(f) = Len(s) - 1 /\ \A k \in 1 .. Len(s) - 1 : f[k] = s[k]
  BY <1>1, <1>2, Zenon
<1> QED
  BY <1>3, Zenon DEF Front

\* What the calls are with one more.
LEMMA CallMade ==
  ASSUME NEW s \in Seq(Frame), NEW f \in Frame
  PROVE  /\ Append(s, f) \in Seq(Frame)
         /\ Len(Append(s, f)) = Len(s) + 1
         /\ \A k \in 1 .. Len(s) : Append(s, f)[k] = s[k]
         /\ Append(s, f)[Len(s) + 1] = f
OBVIOUS

\* What a sequence is with another element at one place.
LEMMA ElementChanged ==
  ASSUME NEW S, NEW a \in Seq(S), NEW i \in 1 .. Len(a), NEW e \in S
  PROVE  /\ [a EXCEPT ![i] = e] \in Seq(S) /\ Len([a EXCEPT ![i] = e]) = Len(a)
         /\ \A k \in 1 .. i - 1 : [a EXCEPT ![i] = e][k] = a[k]
         /\ [a EXCEPT ![i] = e][i] = e
OBVIOUS

\* What the calls are when the last one has turned to its next entry.
LEMMA TopAdvanced ==
  ASSUME stack \in Seq(Frame), stack # <<>>, Top.next <= MaxEntries
  PROVE  /\ Len(stack) \in Nat \ {0} /\ DOMAIN stack = 1 .. Len(stack)
         /\ Top \in Frame
         /\ Advanced \in Seq(Frame)
         /\ Len(Advanced) = Len(stack)
         /\ \A k \in 1 .. Len(stack) - 1 : Advanced[k] = stack[k]
         /\ Advanced[Len(stack)] = [block |-> Top.block, next |-> Top.next + 1]
<1> DEFINE n == Len(stack)
           f == [block |-> Top.block, next |-> Top.next + 1]
<1>1. n \in Nat \ {0} /\ DOMAIN stack = 1 .. n
  OBVIOUS
<1>2. Top \in Frame
  BY <1>1 DEF Top
<1>3. f \in Frame
  BY <1>2, SizesAssumption DEF Frame
<1>4. Advanced = [stack EXCEPT ![n] = f]
  <2>1. [stack[n] EXCEPT !.next = @ + 1] = f
    BY <1>2 DEF Frame, Top
  <2> QED
    BY <2>1 DEF Advanced
<1> HIDE DEF n, f, Frame
<1>5. /\ [stack EXCEPT ![n] = f] \in Seq(Frame) /\ Len([stack EXCEPT ![n] = f]) = n
      /\ \A k \in 1 .. n - 1 : [stack EXCEPT ![n] = f][k] = stack[k]
      /\ [stack EXCEPT ![n] = f][n] = f
  <2>1. stack \in Seq(Frame)
    OBVIOUS
  <2>2. n \in 1 .. Len(stack) /\ n = Len(stack)
    BY <1>1 DEF n
  <2>3. /\ [stack EXCEPT ![n] = f] \in Seq(Frame) /\ Len([stack EXCEPT ![n] = f]) = Len(stack)
        /\ \A k \in 1 .. n - 1 : [stack EXCEPT ![n] = f][k] = stack[k]
        /\ [stack EXCEPT ![n] = f][n] = f
    BY <1>3, <2>1, <2>2, ElementChanged
  <2> QED
    BY <2>2, <2>3, Zenon
<1> QED
  BY <1>1, <1>2, <1>4, <1>5 DEF n, f

-----------------------------------------------------------------------------
(* The invariant is inductive                                              *)

\* The types of the state, one fact each.
LEMMA Known ==
  ASSUME IInv
  PROVE  /\ image \in Images /\ stack \in Seq(Frame) /\ Len(stack) \in Nat
         /\ DOMAIN stack = 1 .. Len(stack)
         /\ DOMAIN target = 0 .. Room - 1
         /\ target \in [0 .. Room - 1 -> Block \cup {NotWritten, Zeros}]
         /\ pc = "running" =>
              /\ stack # <<>> /\ Len(stack) # 0 /\ Len(stack) <= StackLimit
              /\ Top \in Frame /\ Top.block \in Nat /\ Top.next \in Nat
              /\ Top = stack[Len(stack)] /\ FrameInv(Len(stack))
<1>1. /\ image \in Images /\ stack \in Seq(Frame) /\ DOMAIN target = 0 .. Room - 1
      /\ target \in [0 .. Room - 1 -> Block \cup {NotWritten, Zeros}]
      /\ Len(stack) <= StackLimit
      /\ pc = "running" => stack # <<>> /\ \A k \in DOMAIN stack : FrameInv(k)
  BY DEF IInv, PiecesAreRight, TypeOK, WalkInv, Frame
<1>2. Len(stack) \in Nat /\ DOMAIN stack = 1 .. Len(stack) /\ (stack # <<>> => Len(stack) # 0)
  BY <1>1
<1>3. stack # <<>> => Top \in Frame
  BY <1>1, <1>2 DEF Top
<1>4. \A f \in Frame : f.block \in Nat /\ f.next \in Nat
  BY SizesAssumption DEF Frame
<1> QED
  BY <1>1, <1>2, <1>3, <1>4 DEF Top

\* The block of a call that is past its head.
LEMMA AtItsNode ==
  ASSUME IInv, pc = "running", Top.next > 0
  PROVE  /\ IsNode(Top.block) /\ extent_block = NodeAt(Top.block)
         /\ Top.next <= extent_block.entries + 1
         /\ extent_block.entries \in 0 .. MaxEntries
         /\ \A i \in 1 .. Top.next - 1 : Behind(Top.block, i)
         /\ InTree(Top.block)
<1>1. IsNode(Top.block) /\ Top.next <= NodeAt(Top.block).entries + 1 /\ InTree(Top.block)
      /\ \A i \in 1 .. Top.next - 1 : Behind(Top.block, i)
  BY Known DEF FrameInv, Passed
<1>2. extent_block = NodeAt(Top.block)
  BY <1>1 DEF extent_block, NodeAt, IsNode
<1> QED
  BY <1>1, <1>2, Known, NodesTyped

\* Of the pieces nothing changes where the target does not.
LEMMA PiecesStay ==
  ASSUME IInv, UNCHANGED <<image, target>>
  PROVE  EveryPieceBelongs'
<1>1. \A e, t : Belongs(e, t) => Belongs(e, t)'
  BY DEF Belongs, Covers, WithinVolume
<1>2. \A b : EntriesAt(b)' = EntriesAt(b) /\ Leaves' = Leaves
  BY TreeStays
<1> QED
  BY <1>1, <1>2 DEF IInv, PiecesAreRight, EveryPieceBelongs

\* An exception that leaves the stack as it is.
LEMMA ThrowsWell ==
  ASSUME IInv, UNCHANGED <<image, stack>>, pc' \in {"read", "write"},
         target' \in [0 .. Room - 1 -> Block \cup {NotWritten, Zeros}], EveryPieceBelongs'
  PROVE  IInv'
<1>1. TypeOK'
  BY DEF IInv, PiecesAreRight, TypeOK, Ended
<1> QED
  BY <1>1 DEF IInv, PiecesAreRight, WalkInv

\* A call returns: the one below it is past the entry it was made for.
LEMMA LeaveStep ==
  ASSUME IInv, pc = "running", Walked(Top.block), Leave, UNCHANGED <<image, target>>
  PROVE  IInv'
<1> DEFINE n == Len(stack)
<1>1. /\ stack \in Seq(Frame) /\ n \in Nat /\ n # 0 /\ DOMAIN stack = 1 .. n
      /\ n <= StackLimit /\ StackLimit \in Nat /\ stack # <<>>
  BY Known, SizesAssumption
<1>2. /\ stack' = Front(stack) /\ stack' \in Seq(Frame) /\ Len(stack') = n - 1
      /\ DOMAIN stack' = 1 .. n - 1
      /\ \A k \in 1 .. n - 1 : stack'[k] = stack[k]
  <2>1. stack' = Front(stack)
    BY DEF Leave
  <2>2. stack' \in Seq(Frame) /\ Len(stack') = n - 1 /\ \A k \in 1 .. n - 1 : stack'[k] = stack[k]
    BY <1>1, <2>1, CallLeft
  <2> QED
    BY <2>1, <2>2
<1>3. Kept /\ UNCHANGED image
  BY DEF Kept
<1> HIDE DEF n
<1>4. pc' = IF n = 1 THEN "returned" ELSE pc
  BY DEF Leave, n
<1>5. TypeOK'
  <2>1. pc' = "running" => stack' # <<>>
    BY <1>1, <1>2, <1>4
  <2>2. Len(stack') <= StackLimit
    BY <1>1, <1>2
  <2>3. target' \in [0 .. Room - 1 -> Block \cup {NotWritten, Zeros}]
    BY Known
  <2>4. pc' \in {"running"} \cup Ended
    BY <1>4 DEF Ended
  <2> QED
    BY <1>2, <2>1, <2>2, <2>3, <2>4 DEF TypeOK, Frame
<1>6. pc' = "returned" => Walked(image.root)'
  <2> SUFFICES ASSUME n = 1 PROVE Walked(image.root)'
    BY <1>4
  <2>1. stack[1].block = image.root
    BY DEF IInv, WalkInv
  <2>2. Walked(image.root)
    BY <2>1 DEF Top, n
  <2> QED
    BY <1>3, <2>2, WalkedStays
<1>7. ASSUME NEW k \in 1 .. n - 1 PROVE FrameInv(k)'
  <2> DEFINE b == stack[k].block
             m == stack[k].next
  <2>1. /\ stack'[k].block = b /\ stack'[k].next = m
        /\ k \in 1 .. n /\ k < n /\ k \in Nat
    BY <1>1, <1>2
  <2>2. FrameInv(k)
    BY <1>1, <2>1 DEF IInv, WalkInv
  <2>3. m \in Nat
    <3>1. stack[k] \in Frame
      BY <1>1, <2>1
    <3> QED
      BY <3>1, SizesAssumption DEF Frame
  <2>4. /\ InTree(b) /\ (m > 0 => IsNode(b) /\ m <= NodeAt(b).entries + 1)
        /\ \A i \in 1 .. m - 2 : Behind(b, i)
        /\ m > 1 /\ NodeAt(b).depth # 0
        /\ stack[k + 1].block = EntryOf(b, m - 1).phys
    BY <2>1, <2>2 DEF FrameInv, Passed, n
  <2> HIDE DEF b, m
  <2>5. \A i \in 1 .. Passed(k)' : Behind(b, i)
    <3>1. CASE k = n - 1
      <4>1. stack[k + 1].block = Top.block
        BY <1>1, <3>1 DEF Top, n
      <4>2. Behind(b, m - 1)
        BY <2>4, <4>1 DEF Behind
      <4>3. Passed(k)' = m - 1
        BY <1>2, <2>1, <3>1 DEF Passed
      <4> QED
        BY <2>3, <2>4, <4>2, <4>3
    <3>2. CASE k # n - 1
      <4>1. Passed(k)' = m - 2
        BY <1>1, <1>2, <2>1, <3>2 DEF Passed
      <4> QED
        BY <2>4, <4>1
    <3> QED
      BY <3>1, <3>2
  <2>6. k < Len(stack') => stack'[k + 1].block = EntryOf(b, m - 1).phys
    BY <1>1, <1>2, <2>1, <2>4
  <2>7. \A c : /\ InTree(c) => InTree(c)'
               /\ IsNode(c)' = IsNode(c) /\ NodeAt(c)' = NodeAt(c)
               /\ \A i : EntryOf(c, i)' = EntryOf(c, i) /\ (Behind(c, i) => Behind(c, i)')
    BY <1>3, WalkedStays, TreeStays DEF EntryOf
  <2>8. PICK c, l : c = b /\ l = m
    OBVIOUS
  <2>9. stack'[k].block = c /\ stack'[k].next = l
    BY <2>1, <2>8
  <2>10. /\ InTree(c)' /\ (l > 0 => IsNode(c)' /\ l <= NodeAt(c)'.entries + 1)
         /\ \A i \in 1 .. Passed(k)' : Behind(c, i)'
         /\ k < Len(stack') => /\ l > 1 /\ NodeAt(c)'.depth # 0
                               /\ stack'[k + 1].block = EntryOf(c, l - 1)'.phys
    BY <2>4, <2>5, <2>6, <2>7, <2>8
  <2> QED
    BY <2>9, <2>10 DEF FrameInv
<1>8. WalkInv'
  <2>1. pc' = "running" => stack'[1].block = image.root'
    BY <1>1, <1>2, <1>4 DEF IInv, WalkInv
  <2> QED
    BY <1>2, <1>6, <1>7, <2>1 DEF WalkInv
<1>9. EveryPieceBelongs'
  BY PiecesStay
<1>10. pc' # "overflow"
  BY <1>4
<1> QED
  BY <1>5, <1>8, <1>9, <1>10 DEF IInv, PiecesAreRight

\* The calls below the top one stay as they are when the top one goes on.
LEMMA BelowStays ==
  ASSUME IInv, pc = "running", Kept, Len(stack') >= Len(stack), Len(stack') \in Nat,
         \A k \in 1 .. Len(stack) - 1 : stack'[k] = stack[k],
         stack'[Len(stack)].block = Top.block
  PROVE  \A k \in 1 .. Len(stack) - 1 : FrameInv(k)'
<1> SUFFICES ASSUME NEW k \in 1 .. Len(stack) - 1 PROVE FrameInv(k)'
  OBVIOUS
<1> DEFINE b == stack[k].block
           m == stack[k].next
<1>1. /\ k \in 1 .. Len(stack) /\ k < Len(stack) /\ k < Len(stack') /\ k \in Nat
      /\ stack'[k].block = b /\ stack'[k].next = m
  BY Known
<1>2. stack'[k + 1].block = stack[k + 1].block
  <2>1. CASE k + 1 = Len(stack)
    BY <2>1, Known
  <2>2. CASE k + 1 # Len(stack)
    <3>1. k + 1 \in 1 .. Len(stack) - 1
      <4>1. k \in Nat /\ Len(stack) \in Nat /\ k < Len(stack)
        BY <1>1, Known
      <4> QED
        BY <2>2, <4>1
    <3> QED
      BY <3>1
  <2> QED
    BY <2>1, <2>2
<1>3. /\ InTree(b) /\ (m > 0 => IsNode(b) /\ m <= NodeAt(b).entries + 1)
      /\ \A i \in 1 .. m - 2 : Behind(b, i)
      /\ m > 1 /\ NodeAt(b).depth # 0
      /\ stack[k + 1].block = EntryOf(b, m - 1).phys
  <2>1. FrameInv(k)
    BY <1>1, Known DEF IInv, WalkInv
  <2>2. Passed(k) = m - 2
    BY <1>1 DEF Passed
  <2> QED
    BY <1>1, <2>1, <2>2 DEF FrameInv
<1>4. Passed(k)' = m - 2
  BY <1>1 DEF Passed
<1> HIDE DEF b, m
<1>5. \A c : /\ InTree(c) => InTree(c)'
             /\ IsNode(c)' = IsNode(c) /\ NodeAt(c)' = NodeAt(c)
             /\ \A i : EntryOf(c, i)' = EntryOf(c, i) /\ (Behind(c, i) => Behind(c, i)')
  BY WalkedStays, TreeStays DEF EntryOf, Kept
<1>6. PICK c, l : c = b /\ l = m
  OBVIOUS
<1>7. stack'[k].block = c /\ stack'[k].next = l
  BY <1>1, <1>6
<1>8. /\ InTree(c)' /\ (l > 0 => IsNode(c)' /\ l <= NodeAt(c)'.entries + 1)
      /\ \A i \in 1 .. Passed(k)' : Behind(c, i)'
      /\ l > 1 /\ NodeAt(c)'.depth # 0
      /\ stack'[k + 1].block = EntryOf(c, l - 1)'.phys
  BY <1>2, <1>3, <1>4, <1>5, <1>6
<1> QED
  BY <1>7, <1>8 DEF FrameInv

\* The loop goes on to the next entry.
Advances ==
  /\ pc = "running" /\ Kept /\ stack' = Advanced /\ UNCHANGED pc
  /\ IsNode(Top.block) /\ Top.next <= NodeAt(Top.block).entries
  /\ target' \in [0 .. Room - 1 -> Block \cup {NotWritten, Zeros}]
  /\ EveryPieceBelongs'

\* A call turns to its next entry when this one's blocks, or its subtree, are
\* walked.
LEMMA AdvanceStep ==
  ASSUME IInv, Advances,
         \A b, i : b = Top.block /\ i = Top.next /\ i > 0 => Behind(b, i)'
  PROVE  IInv'
<1>0. PICK n, b, m : n = Len(stack) /\ b = Top.block /\ m = Top.next
  OBVIOUS
<1>1. /\ stack \in Seq(Frame) /\ stack # <<>> /\ n \in Nat \ {0} /\ DOMAIN stack = 1 .. n
      /\ n <= StackLimit /\ m \in Nat /\ image \in Images
      /\ stack[n].block = b /\ stack[n].next = m /\ stack[n] = Top /\ FrameInv(n)
  BY <1>0, Known DEF Advances
<1>2. m <= NodeAt(b).entries /\ NodeAt(b).entries \in 0 .. MaxEntries /\ IsNode(b)
  BY <1>0, <1>1, NodesTyped DEF Advances
<1>3. /\ stack' = Advanced /\ Advanced \in Seq(Frame) /\ Len(stack') = n
      /\ \A k \in 1 .. n - 1 : stack'[k] = stack[k]
      /\ stack'[n] = [block |-> b, next |-> m + 1]
  <2>1. Top.next <= MaxEntries
    BY <1>0, <1>1, <1>2, SizesAssumption
  <2>2. stack' = Advanced
    BY DEF Advances
  <2> QED
    BY <1>0, <1>1, <2>1, <2>2, TopAdvanced
<1>4. DOMAIN stack' = 1 .. n
  BY <1>3
<1>5. TypeOK'
  <2>1. stack' # <<>>
    BY <1>1, <1>3, <1>4
  <2>2. pc' \in {"running"} \cup Ended
    BY DEF Advances
  <2> QED
    BY <1>1, <1>3, <2>1, <2>2 DEF Advances, TypeOK, Frame
<1>6. \A k \in 1 .. n - 1 : FrameInv(k)'
  <2>1. /\ stack'[Len(stack)].block = Top.block /\ Len(stack') >= Len(stack)
        /\ Len(stack') \in Nat
    BY <1>0, <1>1, <1>3
  <2>2. \A k \in 1 .. Len(stack) - 1 : stack'[k] = stack[k]
    BY <1>0, <1>3
  <2> QED
    BY <1>0, <2>1, <2>2, BelowStays DEF Advances
<1>7. FrameInv(n)'
  <2>1. /\ InTree(b) /\ \A i \in 1 .. m - 1 : Behind(b, i)
    BY <1>0, <1>1 DEF FrameInv, Passed
  <2>2. /\ InTree(b) => InTree(b)'
        /\ IsNode(b)' = IsNode(b) /\ NodeAt(b)' = NodeAt(b)
        /\ \A i : Behind(b, i) => Behind(b, i)'
    BY WalkedStays, TreeStays DEF Advances, Kept
  <2>3. m > 0 => Behind(b, m)'
    BY <1>0
  <2>4. \A i \in 1 .. m : Behind(b, i)'
    BY <1>1, <2>1, <2>2, <2>3
  <2>5. stack'[n].block = b /\ stack'[n].next = m + 1
    BY <1>3
  <2>6. Passed(n)' = m
    BY <1>1, <1>3, <2>5 DEF Passed
  <2>7. IsNode(b)' /\ m + 1 <= NodeAt(b)'.entries + 1
    BY <1>1, <1>2, <2>2, SizesAssumption
  <2> QED
    BY <1>1, <1>3, <2>1, <2>2, <2>4, <2>5, <2>6, <2>7 DEF FrameInv
<1>8. WalkInv'
  <2>1. stack[1].block = image.root
    BY DEF Advances, IInv, WalkInv
  <2>2. stack'[1].block = stack[1].block
    BY <1>1, <1>3
  <2>3. pc' = "running" /\ image' = image
    BY DEF Advances, Kept
  <2>4. \A k \in DOMAIN stack' : FrameInv(k)'
    <3> SUFFICES ASSUME NEW k \in 1 .. n PROVE FrameInv(k)'
      BY <1>4
    <3>1. k = n \/ k \in 1 .. n - 1
      BY <1>1
    <3> QED
      BY <1>6, <1>7, <3>1
  <2> QED
    BY <2>1, <2>2, <2>3, <2>4 DEF WalkInv
<1>9. image' \in Images /\ EveryPieceBelongs' /\ pc' # "overflow"
  BY <1>1 DEF Advances, Kept
<1> QED
  BY <1>5, <1>8, <1>9 DEF IInv, PiecesAreRight

\* The extent of a leaf the loop of SaveExtent is at.
LEMMA ExtentOfLeaf ==
  ASSUME IInv, AtEntry, extent_block.depth = 0
  PROVE  /\ Extent = EntryOf(Top.block, Top.next) /\ Extent \in Entry
         /\ Extent \in EntriesAt(Top.block) /\ Top.block \in Leaves
         /\ NodeAt(Top.block).depth = 0
<1>1. /\ pc = "running" /\ Top.next > 0 /\ Top.next <= extent_block.entries
  BY DEF AtEntry
<1>2. /\ IsNode(Top.block) /\ extent_block = NodeAt(Top.block) /\ image \in Images
      /\ Top.next \in Nat /\ Top.block \in Nat /\ InTree(Top.block)
      /\ extent_block.entries \in 0 .. MaxEntries
  BY <1>1, Known, AtItsNode
<1>3. Top.next \in 1 .. NodeAt(Top.block).entries
  BY <1>1, <1>2, SizesAssumption
<1>4. Extent = EntryOf(Top.block, Top.next)
  BY <1>2 DEF Extent, EntryOf
<1>5. Top.block \in Outer /\ Extent \in EntriesAt(Top.block)
  BY <1>2, <1>3, <1>4, NodeIsInTree
<1> QED
  BY <1>2, <1>3, <1>4, <1>5, NodesTyped DEF Leaves, InTree

\* Writing n blocks of an extent that was read.
LEMMA PieceWritten ==
  ASSUME IInv, NEW e \in Entry, NEW n \in 0 .. determineSize(e.len),
         \E b \in Leaves : e \in EntriesAt(b),
         IsInitialized(e) => DataBlock(e) + determineSize(e.len) <= DeviceBlocks,
         target' = Written(e, n), UNCHANGED image
  PROVE  /\ target' \in [0 .. Room - 1 -> Block \cup {NotWritten, Zeros}]
         /\ Kept /\ EveryPieceBelongs'
         /\ n = determineSize(e.len) => \A x : x = e => Stored(x)'
<1>e. /\ e.block \in Nat /\ e.phys \in Nat /\ e.len \in Nat
      /\ determineSize(e.len) \in Nat /\ image.volume \in Nat
  BY SizesAssumption, Known, NodesTyped DEF Entry, determineSize
<1>s. /\ DeviceBlocks \in Nat /\ Room \in Nat
      /\ NotWritten \notin Nat /\ NotWritten # Zeros
  BY SizesAssumption
<1>1. /\ target \in [0 .. Room - 1 -> Block \cup {NotWritten, Zeros}]
      /\ DOMAIN target' = 0 .. Room - 1
      /\ \A t \in 0 .. Room - 1 :
           target'[t] = IF e.block <= t /\ t < e.block + n THEN Piece(e, t - e.block)
                        ELSE target[t]
  BY Known DEF Written
<1>2. ASSUME NEW t \in 0 .. Room - 1, e.block <= t, t < e.block + n
      PROVE  /\ Piece(e, t - e.block) \in (Block \cup {Zeros}) \ {NotWritten}
             /\ Covers(e, t)
             /\ Piece(e, t - e.block) =
                  IF IsInitialized(e) THEN WithinVolume(e) - image.volume + (t - e.block) ELSE Zeros
  <2>1. Covers(e, t)
    BY <1>2, <1>e, <1>s DEF Covers
  <2>2. WithinVolume(e) - image.volume + (t - e.block) = e.phys + (t - e.block)
    BY <1>e, <1>s DEF WithinVolume
  <2>3. CASE IsInitialized(e)
    <3>1. e.phys + (t - e.block) \in 0 .. DeviceBlocks - 1
      BY <1>2, <1>e, <1>s, <2>3 DEF DataBlock
    <3>2. Piece(e, t - e.block) = e.phys + (t - e.block)
      BY <2>3 DEF Piece, DataBlock
    <3> QED
      BY <1>s, <2>1, <2>2, <2>3, <3>1, <3>2 DEF Block
  <2>4. CASE ~IsInitialized(e)
    <3>1. Piece(e, t - e.block) = Zeros
      BY <2>4 DEF Piece
    <3> QED
      BY <1>s, <2>1, <2>4, <3>1
  <2> QED
    BY <2>3, <2>4
<1>3. target' \in [0 .. Room - 1 -> Block \cup {NotWritten, Zeros}]
  <2>1. target' = [t \in 0 .. Room - 1 |->
                     IF e.block <= t /\ t < e.block + n THEN Piece(e, t - e.block) ELSE target[t]]
    BY <1>1 DEF Written
  <2> QED
    BY <1>1, <1>2, <2>1
<1>4. Kept
  BY <1>1, <1>2 DEF Kept
<1>5. EveryPieceBelongs'
  <2> SUFFICES ASSUME NEW t \in 0 .. Room - 1, target'[t] # NotWritten
               PROVE  \E b \in Leaves : \E x \in EntriesAt(b) : Belongs(x, t)'
    BY <1>1, TreeStays DEF EveryPieceBelongs
  <2>1. CASE e.block <= t /\ t < e.block + n
    <3>1. Belongs(e, t)'
      BY <1>1, <1>2, <2>1 DEF Belongs, Covers, WithinVolume
    <3> QED
      BY <3>1
  <2>2. CASE ~(e.block <= t /\ t < e.block + n)
    <3>1. target'[t] = target[t] /\ t \in DOMAIN target
      BY <1>1, <2>2
    <3>2. PICK b \in Leaves : \E x \in EntriesAt(b) : Belongs(x, t)
      BY <3>1 DEF IInv, PiecesAreRight, EveryPieceBelongs
    <3>3. PICK x \in EntriesAt(b) : Belongs(x, t)
      BY <3>2
    <3>4. Belongs(x, t)'
      BY <3>1, <3>3 DEF Belongs, Covers, WithinVolume
    <3> QED
      BY <3>4
  <2> QED
    BY <2>1, <2>2
<1>6. ASSUME n = determineSize(e.len), NEW x, x = e PROVE Stored(x)'
  BY <1>1, <1>2, <1>6 DEF Stored, Covers
<1> QED
  BY <1>3, <1>4, <1>5, <1>6

\* An extent is copied to its place, whatever was there.
LEMMA SaveExtentStep ==
  ASSUME IInv, SaveExtent
  PROVE  IInv'
<1> DEFINE e == Extent
           size == determineSize(e.len)
<1>1. /\ AtEntry /\ extent_block.depth = 0 /\ UNCHANGED image
      /\ pc = "running" /\ Top.next > 0 /\ Top.next <= extent_block.entries
  BY DEF SaveExtent, AtEntry
<1>2. /\ e = EntryOf(Top.block, Top.next) /\ e \in Entry
      /\ e \in EntriesAt(Top.block) /\ Top.block \in Leaves
      /\ NodeAt(Top.block).depth = 0
  BY <1>1, ExtentOfLeaf
<1>3. /\ IsNode(Top.block) /\ extent_block = NodeAt(Top.block)
      /\ \A i \in 1 .. Top.next - 1 : Behind(Top.block, i)
      /\ image \in Images /\ Top.next \in Nat
      /\ target \in [0 .. Room - 1 -> Block \cup {NotWritten, Zeros}]
  BY <1>1, Known, AtItsNode
<1> HIDE DEF e, size
<1>4. CASE Throws("read") /\ UNCHANGED target
  BY <1>1, <1>3, <1>4, PiecesStay, ThrowsWell DEF Throws
<1>5. CASE HasMark(e) /\ GiveUpLeaf /\ UNCHANGED target
  <2>1. LeafSaved(Top.block)
    <3> SUFFICES ASSUME NEW i \in 1 .. NodeAt(Top.block).entries,
                        \A j \in 1 .. i : ~HasMark(EntryOf(Top.block, j))
                 PROVE  Stored(EntryOf(Top.block, i))
      BY DEF LeafSaved
    <3>1. i \in 1 .. Top.next - 1
      <4>1. Top.next \notin 1 .. i
        BY <1>2, <1>5
      <4> QED
        BY <1>1, <1>3, <4>1
    <3> QED
      BY <1>2, <1>3, <3>1 DEF Behind
  <2>2. Walked(Top.block)
    BY <1>2, <2>1, LeafWalked DEF Leaves
  <2> QED
    BY <1>1, <1>5, <2>2, LeaveStep DEF GiveUpLeaf
<1>6. ASSUME ~(IsInitialized(e) /\ (size = 0 \/ CannotRead(DataBlock(e), size)))
      PROVE  IsInitialized(e) => DataBlock(e) + determineSize(e.len) <= DeviceBlocks
  <2>1. size \in Nat /\ DataBlock(e) \in Nat /\ DeviceBlocks \in Nat
    BY <1>2, SizesAssumption DEF Entry, size, determineSize, DataBlock
  <2> QED
    BY <1>6, <2>1 DEF CannotRead, size
<1>7. CASE /\ ~(IsInitialized(e) /\ (size = 0 \/ CannotRead(DataBlock(e), size)))
           /\ ~HasMark(e)
           /\ target' = Written(e, size) /\ stack' = Advanced /\ UNCHANGED pc
  <2>1. size \in 0 .. determineSize(e.len)
    BY <1>2, SizesAssumption DEF size, Entry, determineSize
  <2>2. /\ target' \in [0 .. Room - 1 -> Block \cup {NotWritten, Zeros}]
        /\ Kept /\ EveryPieceBelongs'
        /\ \A x : x = e => Stored(x)'
    BY <1>1, <1>2, <1>6, <1>7, <2>1, PieceWritten DEF size
  <2>3. Advances
    BY <1>1, <1>3, <1>7, <2>2 DEF Advances
  <2>4. ASSUME NEW b, NEW i, b = Top.block, i = Top.next, i > 0 PROVE Behind(b, i)'
    <3>1. /\ EntryOf(b, i)' = EntryOf(b, i) /\ NodeAt(b)' = NodeAt(b)
          /\ \A x : HasMark(x)' = HasMark(x)
      BY <1>1, TreeStays DEF EntryOf
    <3>2. EntryOf(b, i) = e
      BY <1>2, <2>4
    <3>3. PICK x : x = e
      OBVIOUS
    <3>4. EntryOf(b, i)' = x /\ Stored(x)' /\ ~HasMark(x)' /\ NodeAt(b)'.depth = 0
      BY <1>2, <1>7, <2>2, <2>4, <3>1, <3>2, <3>3
    <3> QED
      BY <3>4 DEF Behind
  <2> QED
    BY <2>3, <2>4, AdvanceStep
<1>8. CASE /\ ~(IsInitialized(e) /\ (size = 0 \/ CannotRead(DataBlock(e), size)))
           /\ \E n \in 0 .. size : target' = Written(e, n)
           /\ Throws("write")
  <2>1. PICK n \in 0 .. determineSize(e.len) : target' = Written(e, n)
    BY <1>8 DEF size
  <2>2. target' \in [0 .. Room - 1 -> Block \cup {NotWritten, Zeros}] /\ EveryPieceBelongs'
    BY <1>1, <1>2, <1>6, <1>8, <2>1, PieceWritten
  <2> QED
    BY <1>1, <1>8, <2>2, ThrowsWell DEF Throws
<1> QED
  BY <1>4, <1>5, <1>7, <1>8 DEF SaveExtent, e, size

\* A block that cannot be read, or has no header, ends its call.
LEMMA ReadNodeStep ==
  ASSUME IInv, ReadNode
  PROVE  IInv'
<1>1. /\ pc = "running" /\ Top.next = 0 /\ UNCHANGED <<image, target>>
  BY DEF ReadNode, AtHead
<1>2. /\ image \in Images /\ Top.block \in Nat /\ image.volume \in Nat
      /\ target \in [0 .. Room - 1 -> Block \cup {NotWritten, Zeros}]
  BY <1>1, Known, NodesTyped
<1>3. EveryPieceBelongs'
  BY <1>1, PiecesStay
<1>4. CASE CannotRead(extent_offset(Top.block), 1)
  <2>1. pc' = "read" /\ UNCHANGED stack
    BY <1>4 DEF ReadNode, Throws
  <2> QED
    BY <1>1, <1>2, <1>3, <2>1, ThrowsWell
<1>5. CASE ~CannotRead(extent_offset(Top.block), 1)
  <2>1. extent_offset(Top.block) \in Block
    BY <1>2, <1>5, SizesAssumption DEF CannotRead, extent_offset, Block
  <2>2. extent_block = NodeAt(Top.block)
    BY <2>1 DEF extent_block, NodeAt
  <2>3. CASE ~isValidExtent(extent_block) /\ Leave
    <3>1. ~IsNode(Top.block)
      BY <2>2, <2>3 DEF IsNode
    <3>2. Walked(Top.block)
      BY <1>2, <3>1, NodesTyped, NotOfTheTree, NothingToWalk
    <3> QED
      BY <1>1, <2>3, <3>2, LeaveStep
  <2>4. CASE isValidExtent(extent_block) /\ stack' = Advanced /\ UNCHANGED pc
    <3>1. IsNode(Top.block)
      BY <2>1, <2>2, <2>4 DEF IsNode
    <3>2. NodeAt(Top.block).entries \in 0 .. MaxEntries
      BY <1>2, <3>1, NodesTyped
    <3>3. Top.next <= NodeAt(Top.block).entries
      BY <1>1, <3>2, SizesAssumption
    <3>4. Advances
      BY <1>1, <1>2, <1>3, <2>4, <3>1, <3>3 DEF Advances, Kept
    <3> QED
      BY <1>1, <3>4, AdvanceStep
  <2> QED
    BY <1>5, <2>3, <2>4 DEF ReadNode
<1> QED
  BY <1>4, <1>5

\* A call that is at the end of its entries has walked its block.
LEMMA EndOfEntriesStep ==
  ASSUME IInv, EndOfEntries
  PROVE  IInv'
<1>1. /\ pc = "running" /\ Top.next > 0 /\ Top.next > extent_block.entries
      /\ Leave /\ UNCHANGED <<image, target>>
  BY DEF EndOfEntries, AtEnd
<1>2. /\ image \in Images /\ Top.block \in Nat /\ Top.next \in Nat
      /\ IsNode(Top.block) /\ extent_block = NodeAt(Top.block)
      /\ extent_block.entries \in 0 .. MaxEntries
      /\ \A i \in 1 .. Top.next - 1 : Behind(Top.block, i)
  BY <1>1, Known, AtItsNode
<1>3. \A i \in 1 .. NodeAt(Top.block).entries : Behind(Top.block, i)
  BY <1>1, <1>2, SizesAssumption
<1>4. Walked(Top.block)
  BY <1>2, <1>3, NodeWalked
<1> QED
  BY <1>1, <1>4, LeaveStep

\* A set of numbers that is not empty has a least one.
LessThan == {ss \in Nat \X Nat : ss[1] < ss[2]}

\* A set of numbers that is not empty has a least one.
LEMMA LeastElement ==
  ASSUME NEW S \in SUBSET Nat, S # {}
  PROVE  \E m \in S : \A n \in S : m <= n
<1>1. OpToRel(<, Nat) = LessThan
  BY Zenon DEF OpToRel, LessThan
<1>2. IsWellFoundedOn(LessThan, Nat)
  BY <1>1, NatLessThanWellFounded, Zenon
<1>3. \E m \in S : \A n \in S : <<n, m>> \notin LessThan
  BY <1>2, WFMin
<1>4. PICK m \in S : \A n \in S : <<n, m>> \notin LessThan
  BY <1>3
<1>5. ASSUME NEW n \in S PROVE m <= n
  <2>1. <<n, m>> \in Nat \X Nat /\ ~(n < m)
    BY <1>4 DEF LessThan
  <2> QED
    BY <2>1
<1> QED
  BY <1>5

\* The block of a call leads to that of the next one.
LEMMA CallsFollow ==
  ASSUME IInv, pc = "running", NEW k \in 1 .. Len(stack) - 1
  PROVE  /\ stack[k].block \in Inner
         /\ stack[k + 1].block \in Children(stack[k].block)
<1> DEFINE b == stack[k].block
           m == stack[k].next
<1>1. k \in 1 .. Len(stack) /\ k < Len(stack) /\ k \in Nat /\ image \in Images
  BY Known
<1>2. FrameInv(k) /\ stack[k] \in Frame
  BY <1>1, Known DEF IInv, WalkInv
<1>3. b \in Nat /\ m \in Nat
  BY <1>2, SizesAssumption DEF Frame
<1>4. /\ IsNode(b) /\ m <= NodeAt(b).entries + 1 /\ m > 1 /\ NodeAt(b).depth # 0
      /\ stack[k + 1].block = EntryOf(b, m - 1).phys
  BY <1>1, <1>2, <1>3 DEF FrameInv
<1> HIDE DEF b, m
<1>5. m - 1 \in 1 .. NodeAt(b).entries
  <2>1. NodeAt(b).entries \in Nat
    BY <1>1, <1>4, NodesTyped, SizesAssumption
  <2> QED
    BY <1>3, <1>4, <2>1
<1>6. b \in Inner /\ EntryOf(b, m - 1).phys \in Children(b)
  BY <1>1, <1>3, <1>4, <1>5, NodeIsInTree
<1> QED
  BY <1>4, <1>6 DEF b

\* If a block is twice in the stack it is in a circle.
LEMMA TwiceInStack ==
  ASSUME IInv, pc = "running", NEW x \in 1 .. Len(stack), NEW y \in 1 .. Len(stack),
         x < y, stack[x].block = stack[y].block, stack[x].block \in Inner
  PROVE  HasCircle
<1> DEFINE b == stack[x].block
           R == ReachableFrom(Children(b))
           S == {k \in x + 1 .. y : stack[k].block \in Inner \cup Outer /\ stack[k].block \notin R}
<1>1. x \in Nat /\ y \in Nat /\ Len(stack) \in Nat
  BY Known
<1>2. S = {}
  <2> SUFFICES ASSUME S # {} PROVE FALSE
    OBVIOUS
  <2>1. S \in SUBSET Nat
    BY <1>1
  <2>2. PICK k \in S : \A j \in S : k <= j
    BY <2>1, LeastElement
  <2>3. /\ k \in x + 1 .. y /\ k \in Nat
        /\ stack[k].block \in Inner \cup Outer /\ stack[k].block \notin R
    BY <1>1, <2>2
  <2>4. PICK j \in 1 .. Len(stack) - 1 : j = k - 1 /\ j \in x .. y
    BY <1>1, <2>3
  <2>5. stack[j].block \in Inner /\ stack[j + 1].block \in Children(stack[j].block) /\ j + 1 = k
    BY <2>3, <2>4, CallsFollow
  <2>6. CASE j = x
    <3>1. stack[k].block \in Children(b)
      BY <2>5, <2>6
    <3>2. stack[k].block \in ReachableFrom({stack[k].block})
      BY <2>3, ReachesItself
    <3> QED
      BY <2>3, <3>1, <3>2, ReachedFromAll
  <2>7. CASE j # x
    <3>1. j \in x + 1 .. y /\ ~(k <= j)
      BY <1>1, <2>3, <2>4, <2>7
    <3>2. stack[j].block \in R
      BY <2>2, <2>5, <3>1
    <3> QED
      BY <2>3, <2>5, <3>2, ReachesOn
  <2> QED
    BY <2>6, <2>7
<1>3. y \in x + 1 .. y
  BY <1>1
<1>4. b \in R
  BY <1>2, <1>3
<1>5. InTree(b)
  BY Known DEF IInv, WalkInv, FrameInv
<1> QED
  BY <1>4, <1>5 DEF HasCircle, InTree

\* A full stack of calls for index blocks has one of them twice.
LEMMA FullStack ==
  ASSUME IInv, pc = "running", Len(stack) = StackLimit, Top.block \in Inner,
         Cardinality(Inner) < StackLimit
  PROVE  HasCircle
<1> DEFINE n == Len(stack)
           f == [k \in 1 .. n |-> stack[k].block]
<1>1. n \in Nat /\ stack[n] = Top
  BY Known
<1>2. ASSUME NEW k \in 1 .. n PROVE stack[k].block \in Inner
  <2>1. CASE k = n
    BY <1>1, <2>1
  <2>2. CASE k # n
    <3>1. k \in 1 .. Len(stack) - 1
      BY <1>1, <2>2
    <3> QED
      BY <3>1, CallsFollow
  <2> QED
    BY <2>1, <2>2
<1>3. f \in [1 .. n -> Inner]
  BY <1>2
<1>4. IsFiniteSet(1 .. n) /\ Cardinality(1 .. n) = n
  BY <1>1, FS_Interval
<1>5. IsFiniteSet(Inner)
  <2>1. IsFiniteSet(Block)
    BY FS_Interval, SizesAssumption DEF Block
  <2>2. Inner \in SUBSET Block
    BY DEF Inner
  <2> QED
    BY <2>1, <2>2, FS_Subset
<1>6. \E x, y \in 1 .. n : x # y /\ f[x] = f[y]
  <2>1. Cardinality(Inner) < Cardinality(1 .. n)
    BY <1>4
  <2> HIDE DEF f
  <2> QED
    BY <1>3, <1>4, <1>5, <2>1, FS_PigeonHole
<1>7. PICK x \in 1 .. n, y \in 1 .. n : x # y /\ stack[x].block = stack[y].block
  BY <1>6
<1>8. x < y \/ y < x
  BY <1>1, <1>7
<1> QED
  BY <1>2, <1>7, <1>8, TwiceInStack

\* A call for a child adds to the path from the root, or overflows the stack.
LEMMA CallChildStep ==
  ASSUME IInv, CallChild
  PROVE  IInv'
<1>0. PICK n, b, m, child : n = Len(stack) /\ b = Top.block /\ m = Top.next /\ child = Extent.phys
  OBVIOUS
<1>1. /\ pc = "running" /\ m > 0 /\ m <= extent_block.entries /\ extent_block.depth # 0
      /\ UNCHANGED <<image, target>> /\ Descend(child)
  BY <1>0 DEF CallChild, AtEntry
<1>2. /\ stack \in Seq(Frame) /\ stack # <<>> /\ n \in Nat \ {0} /\ DOMAIN stack = 1 .. n
      /\ n <= StackLimit /\ StackLimit \in Nat /\ b \in Nat /\ m \in Nat /\ image \in Images
      /\ stack[n].block = b /\ stack[n].next = m /\ stack[n] = Top
      /\ target \in [0 .. Room - 1 -> Block \cup {NotWritten, Zeros}]
  BY <1>0, <1>1, Known, SizesAssumption
<1>3. /\ IsNode(b) /\ extent_block = NodeAt(b) /\ InTree(b)
      /\ NodeAt(b).entries \in 0 .. MaxEntries
      /\ \A i \in 1 .. m - 1 : Behind(b, i)
  BY <1>0, <1>1, AtItsNode
<1>4. m \in 1 .. NodeAt(b).entries /\ m <= MaxEntries
  BY <1>1, <1>2, <1>3, SizesAssumption
<1>5. /\ b \in Inner /\ child \in Children(b) /\ child = EntryOf(b, m).phys /\ child \in Nat
  <2>1. child = EntryOf(b, m).phys
    BY <1>0, <1>3 DEF Extent, EntryOf
  <2>2. EntryOf(b, m) \in Entry
    BY <1>2, <1>3, <1>4, NodesTyped
  <2> QED
    BY <1>1, <1>2, <1>3, <1>4, <2>1, <2>2, NodeIsInTree DEF Entry
<1>6. EveryPieceBelongs'
  BY <1>1, PiecesStay
<1>7. CASE Len(stack) = StackLimit
  <2>1. pc' = "overflow" /\ UNCHANGED stack
    BY <1>1, <1>7 DEF Descend, Throws
  <2>2. Cardinality(Inner) < StackLimit => HasCircle
    BY <1>0, <1>1, <1>5, <1>7, FullStack
  <2>3. Cardinality(Inner)' < StackLimit => HasCircle'
    BY <1>1, <2>2, TreeStays DEF HasCircle
  <2>4. TypeOK'
    BY <1>1, <2>1 DEF IInv, PiecesAreRight, TypeOK, Ended
  <2> QED
    BY <1>1, <1>2, <1>6, <2>1, <2>3, <2>4 DEF IInv, PiecesAreRight, WalkInv
<1>8. CASE Len(stack) # StackLimit
  <2>1. stack' = Append(Advanced, Call(child)) /\ UNCHANGED pc
    BY <1>1, <1>8 DEF Descend
  <2>2. /\ Len(stack') = n + 1 /\ stack' \in Seq(Frame) /\ DOMAIN stack' = 1 .. n + 1
        /\ \A k \in 1 .. n - 1 : stack'[k] = stack[k]
        /\ stack'[n].block = b /\ stack'[n].next = m + 1
        /\ stack'[n + 1].block = child /\ stack'[n + 1].next = 0
    <3>1. /\ Advanced \in Seq(Frame) /\ Len(Advanced) = n
          /\ \A k \in 1 .. n - 1 : Advanced[k] = stack[k]
          /\ Advanced[n] = [block |-> b, next |-> m + 1]
      BY <1>0, <1>2, <1>4, TopAdvanced
    <3>2. Call(child) = [block |-> child, next |-> 0] /\ Call(child) \in Frame
      BY <1>5, SizesAssumption DEF Call, Frame
    <3>3. /\ Append(Advanced, Call(child)) \in Seq(Frame)
          /\ Len(Append(Advanced, Call(child))) = n + 1
          /\ \A k \in 1 .. n : Append(Advanced, Call(child))[k] = Advanced[k]
          /\ Append(Advanced, Call(child))[n + 1] = Call(child)
      BY <3>1, <3>2, CallMade
    <3>4. stack' \in Seq(Frame) /\ Len(stack') = n + 1 /\ DOMAIN stack' = 1 .. n + 1
      BY <2>1, <3>3
    <3> QED
      BY <1>2, <2>1, <3>1, <3>2, <3>3, <3>4
  <2>3. Kept
    BY <1>1 DEF Kept
  <2>4. TypeOK'
    <3>1. Len(stack') <= StackLimit /\ stack' # <<>>
      BY <1>0, <1>2, <1>8, <2>2
    <3> QED
      BY <1>1, <1>2, <2>1, <2>2, <3>1 DEF TypeOK, Frame
  <2>5. /\ \A c : InTree(c) => InTree(c)'
        /\ IsNode(b)' = IsNode(b) /\ NodeAt(b)' = NodeAt(b)
        /\ EntryOf(b, m)' = EntryOf(b, m)
        /\ \A i : Behind(b, i) => Behind(b, i)'
    BY <2>3, WalkedStays, TreeStays DEF EntryOf, Kept
  <2>6. InTree(child)
    <3> SUFFICES ASSUME child \in Inner \cup Outer PROVE child \in ReachableFrom({image.root})
      BY DEF InTree
    <3>1. b \in ReachableFrom({image.root})
      BY <1>3, <1>5 DEF InTree
    <3> QED
      BY <1>5, <3>1, ReachesOn
  <2>7. FrameInv(n)'
    <3>1. Passed(n)' = m - 1
      BY <1>2, <2>2 DEF Passed
    <3>2. /\ InTree(b)' /\ IsNode(b)' /\ m + 1 <= NodeAt(b)'.entries + 1
          /\ \A i \in 1 .. m - 1 : Behind(b, i)'
          /\ m + 1 > 1 /\ NodeAt(b)'.depth # 0
      BY <1>1, <1>2, <1>3, <1>4, <2>5, SizesAssumption
    <3>3. PICK l : l = m + 1
      OBVIOUS
    <3>4. l - 1 = m
      BY <1>2, <3>3
    <3>5. stack'[n + 1].block = EntryOf(b, l - 1)'.phys
      BY <1>5, <2>2, <2>5, <3>4
    <3>6. stack'[n].block = b /\ stack'[n].next = l
      BY <2>2, <3>3
    <3> QED
      BY <3>1, <3>2, <3>3, <3>5, <3>6 DEF FrameInv
  <2>8. FrameInv(n + 1)'
    <3>1. Passed(n + 1)' = -1
      BY <1>2, <2>2 DEF Passed
    <3>2. InTree(child)'
      BY <2>5, <2>6
    <3>3. ~(n + 1 < n + 1) /\ 1 .. -1 = {} /\ ~(0 > 0)
      BY <1>2
    <3> QED
      BY <2>2, <3>1, <3>2, <3>3 DEF FrameInv
  <2>9. \A k \in 1 .. n - 1 : FrameInv(k)'
    <3>1. Len(stack') >= Len(stack) /\ Len(stack') \in Nat /\ stack'[Len(stack)].block = Top.block
      BY <1>0, <1>2, <2>2
    <3>2. \A k \in 1 .. Len(stack) - 1 : stack'[k] = stack[k]
      BY <1>0, <2>2
    <3> QED
      BY <1>0, <1>1, <2>3, <3>1, <3>2, BelowStays
  <2>10. WalkInv'
    <3>1. stack'[1].block = stack[1].block
      BY <1>2, <2>2
    <3>2. \A k \in DOMAIN stack' : FrameInv(k)'
      <4> SUFFICES ASSUME NEW k \in 1 .. n + 1 PROVE FrameInv(k)'
        BY <2>2
      <4>1. k = n \/ k = n + 1 \/ k \in 1 .. n - 1
        BY <1>2
      <4> QED
        BY <2>7, <2>8, <2>9, <4>1
    <3> QED
      BY <1>1, <2>1, <3>1, <3>2 DEF IInv, WalkInv
  <2> QED
    BY <1>1, <1>2, <1>6, <2>1, <2>4, <2>10 DEF IInv, PiecesAreRight
<1> QED
  BY <1>7, <1>8

\* The first call is for the root, and the file is empty.
LEMMA InitIInv == Init => IInv
<1> SUFFICES ASSUME Init PROVE IInv
  OBVIOUS
<1>1. /\ image \in Images /\ pc = "running" /\ stack = <<Call(image.root)>>
      /\ target = [t \in 0 .. Room - 1 |-> NotWritten]
  BY DEF Init
<1>2. image.root \in Nat /\ Call(image.root) \in Frame
  BY <1>1, NodesTyped, SizesAssumption DEF Call, Frame
<1>3. /\ stack \in Seq(Frame) /\ Len(stack) = 1 /\ DOMAIN stack = {1}
      /\ stack[1].block = image.root /\ stack[1].next = 0
  BY <1>1, <1>2 DEF Call
<1>4. TypeOK
  <2>1. target \in [0 .. Room - 1 -> Block \cup {NotWritten, Zeros}]
    BY <1>1
  <2> QED
    BY <1>1, <1>3, <2>1, SizesAssumption DEF TypeOK, Frame
<1>5. EveryPieceBelongs
  BY <1>1 DEF EveryPieceBelongs
<1>6. FrameInv(1)
  <2>1. InTree(image.root)
    BY ReachesItself DEF InTree
  <2>2. Passed(1) = -1 /\ 1 .. -1 = {}
    BY <1>3 DEF Passed
  <2> QED
    BY <1>3, <2>1, <2>2 DEF FrameInv
<1> QED
  BY <1>1, <1>3, <1>4, <1>5, <1>6 DEF IInv, PiecesAreRight, WalkInv

\* Every step of the recursion preserves the invariant.
LEMMA StepIInv == IInv /\ [Next]_vars => IInv'
<1> SUFFICES ASSUME IInv, [Next]_vars PROVE IInv'
  OBVIOUS
<1>1. CASE ReadNode
  BY <1>1, ReadNodeStep
<1>2. CASE SaveExtent
  BY <1>2, SaveExtentStep
<1>3. CASE CallChild
  BY <1>3, CallChildStep
<1>4. CASE EndOfEntries
  BY <1>4, EndOfEntriesStep
<1>5. CASE UNCHANGED vars
  <2>1. UNCHANGED <<image, pc, stack, target>>
    BY <1>5 DEF vars
  <2>2. TypeOK'
    BY <2>1 DEF IInv, PiecesAreRight, TypeOK
  <2>3. EveryPieceBelongs'
    BY <2>1, PiecesStay
  <2>4. /\ \A b : (Walked(b) => Walked(b)') /\ (InTree(b) => InTree(b)')
        /\ \A b, i : Behind(b, i) => Behind(b, i)'
    BY <2>1, WalkedStays DEF Kept
  <2>5. /\ \A b : IsNode(b)' = IsNode(b) /\ NodeAt(b)' = NodeAt(b)
        /\ \A b, i : EntryOf(b, i)' = EntryOf(b, i)
        /\ Inner' = Inner /\ HasCircle' = HasCircle
    BY <2>1, TreeStays DEF EntryOf, HasCircle
  <2>6. \A k : FrameInv(k) => FrameInv(k)'
    <3> SUFFICES ASSUME NEW k, FrameInv(k) PROVE FrameInv(k)'
      OBVIOUS
    <3>1. PICK b, m, N : b = stack[k].block /\ m = stack[k].next /\ N = Passed(k)
      OBVIOUS
    <3>2. stack'[k].block = b /\ stack'[k].next = m /\ Passed(k)' = N
      BY <2>1, <3>1 DEF Passed
    <3> QED
      BY <2>1, <2>4, <2>5, <3>1, <3>2 DEF FrameInv
  <2>7. WalkInv'
    BY <2>1, <2>4, <2>6 DEF IInv, WalkInv
  <2> QED
    BY <2>1, <2>2, <2>3, <2>5, <2>7 DEF IInv, PiecesAreRight
<1> QED
  BY <1>1, <1>2, <1>3, <1>4, <1>5 DEF Next

-----------------------------------------------------------------------------
(* Theorems                                                                *)

\* The invariant holds at any time.
LEMMA Invariance == Spec => []IInv
<1>1. Init => IInv
  BY InitIInv
<1>2. IInv /\ [Next]_vars => IInv'
  BY StepIInv
<1> QED
  BY <1>1, <1>2, PTL DEF Spec

\* What saveToFile writes is what an extent of a leaf of the tree has for that
\* place of the file, at every moment and also after a write that failed.
THEOREM EveryPieceIsRight == Spec => []PiecesAreRight
<1>1. IInv => PiecesAreRight
  BY DEF IInv
<1> QED
  BY <1>1, Invariance, PTL

\* When saveToFile returns it has saved every extent of the tree but those
\* behind a mark of the same leaf.
THEOREM OnlyTheLeafIsLost == Spec => []DamageStaysInLeaf
<1>1. IInv => DamageStaysInLeaf
  BY DEF IInv, WalkInv, DamageStaysInLeaf, Walked, LeafSaved, Leaves, Stored, EntryOf
<1> QED
  BY <1>1, Invariance, PTL

\* saveToFile returns only from a tree without circles, and overflows a stack
\* with room for each index block only in one with a circle.
THEOREM OnlyCirclesAreEndless == Spec => []EndlessOnlyInCircle
<1>1. IInv => EndlessOnlyInCircle
  BY DEF IInv, WalkInv, EndlessOnlyInCircle, Walked, HasCircle
<1> QED
  BY <1>1, Invariance, PTL
=============================================================================
