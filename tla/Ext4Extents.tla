----------------------------- MODULE Ext4Extents -----------------------------
(***************************************************************************)
(* libraw: ext4_raw::saveToFile, which saves a file of a damaged ext4      *)
(* volume from one block of its extent tree.  A leaf lists extents: runs   *)
(* of blocks of the disk and their place in the file.  An index block      *)
(* lists further blocks of the tree, for which saveToFile calls itself.    *)
(*                                                                         *)
(* The unit of data is a block.  A block of the target is the address of   *)
(* the device's block it is a copy of.  An image is what a disk may hold:  *)
(* the block to start from, where the volume begins, the blocks that carry *)
(* the magic number of an extent block, those that begin with the mark an  *)
(* imaging tool leaves in place of a bad sector, and unreadable ones.      *)
(***************************************************************************)
EXTENDS Integers, SequencesExt

CONSTANTS
  DeviceBlocks,  \* device_->Size(), in blocks
  MaxEntries,    \* max_extents_in_block_
  Initialized,   \* 0x8000: a longer extent is allocated and not initialized
  StackLimit,    \* calls that fit the stack of the program
  Room,          \* blocks the target volume can take
  NoNode,        \* a block without the magic number
  NotWritten, Zeros,   \* a block of the target never written; of zeros
  Images

ASSUME SizesAssumption ==
  /\ {DeviceBlocks, MaxEntries, Initialized, Room} \subseteq Nat
  /\ StackLimit \in Nat \ {0}
  /\ NotWritten \notin Nat /\ Zeros \notin Nat /\ NotWritten # Zeros

Block == 0 .. DeviceBlocks - 1

\* struct ext4_extent; of an ext4_extent_idx, of which `block' and `phys' are
\* looked at in the same way.
Entry == [block : Nat, len : Nat, phys : Nat]

\* struct EXTENT_BLOCK with its magic number.
Node == [entries : Nat, max : Nat, depth : Nat, extent : [1 .. MaxEntries -> Entry]]

ASSUME ImagesAssumption ==
  /\ NoNode \notin Node
  /\ Images \subseteq [root : Nat, volume : Nat, node : [Block -> Node \cup {NoNode}],
                       marked : SUBSET Block, bad : SUBSET Block]

VARIABLES
  image,
  pc,        \* "running"; or how it ended: "returned", or an exception
  stack,     \* the calls of saveToFile: block_num, and the entry whose turn it
             \* is, 0 before the block is read
  target     \* block of the target file -> what was written there

vars == <<image, pc, stack, target>>

Ended == {"returned", "read", "write", "overflow"}
Throws(why) == pc' = why /\ UNCHANGED stack

Call(block_num) == [block |-> block_num, next |-> 0]

\* Execute, and the main program: a call for the block the user names.
Init ==
  /\ image \in Images
  /\ pc = "running"
  /\ stack = <<Call(image.root)>>
  /\ target = [t \in 0 .. Room - 1 |-> NotWritten]

Top == stack[Len(stack)]

\* Blocks of the tree are numbered from the start of the volume.
extent_offset(block_num) == image.volume + block_num
extent_block == image.node[extent_offset(Top.block)]

CannotRead(a, n) == a + n > DeviceBlocks \/ \E b \in image.bad : a <= b /\ b < a + n

isValidExtent(n) == n # NoNode /\ n.max = MaxEntries /\ n.entries <= MaxEntries

\* saveToFile returns to its caller: to the loop over the entries of the index
\* block above, which looks at no result.
Leave == /\ stack' = Front(stack)
         /\ pc' = IF Len(stack) = 1 THEN "returned" ELSE pc

Advanced == [stack EXCEPT ![Len(stack)].next = @ + 1]

AtHead == pc = "running" /\ Top.next = 0
AtEntry == pc = "running" /\ Top.next > 0 /\ Top.next <= extent_block.entries
AtEnd == pc = "running" /\ Top.next > 0 /\ Top.next > extent_block.entries

\* The head of the function.
ReadNode ==
  /\ AtHead
  /\ IF CannotRead(extent_offset(Top.block), 1)
     THEN Throws("read")
     ELSE \/ ~isValidExtent(extent_block) /\ Leave
          \/ isValidExtent(extent_block) /\ stack' = Advanced /\ UNCHANGED pc
  /\ UNCHANGED <<image, target>>

Extent == extent_block.extent[Top.next]

\* The number of blocks an extent stands for.
determineSize(len) == IF len <= Initialized THEN len ELSE len - Initialized

IsInitialized(e) == e.len <= Initialized

\* Extents are read at `offset = 0 + PysicalBlock * block_size_', from the start
\* of the device.
WithinVolume(e) == image.volume + e.phys
DataBlock(e) == e.phys

Piece(e, k) == IF IsInitialized(e) THEN DataBlock(e) + k ELSE Zeros

\* target_file.setPosition, WriteData: n blocks of the extent reach the file.
FirstFree == CHOOSE f \in 0 .. Room :
  /\ \A t \in f .. Room - 1 : target[t] = NotWritten
  /\ f > 0 => target[f - 1] # NotWritten
WrittenBehind(e, n) ==
  [t \in DOMAIN target |->
     IF FirstFree <= t /\ t < FirstFree + n THEN Piece(e, t - FirstFree) ELSE target[t]]
Written(e, n) ==
  [t \in DOMAIN target |->
     IF e.block <= t /\ t < e.block + n THEN Piece(e, t - e.block) ELSE target[t]]

\* data_array begins with bad_sector_marker.
HasMark(e) == IsInitialized(e) /\ DataBlock(e) \in image.marked
GiveUpFile == stack' = <<>> /\ pc' = "returned"
GiveUpLeaf == Leave

\* One turn of the loop over the extents of a leaf.  Reading and writing 0
\* bytes throws.  A mark ends the leaf.  A write may fail half-way, and does
\* so when the volume is full.
SaveExtent ==
  /\ AtEntry
  /\ extent_block.depth = 0
  /\ LET e == Extent
         size == determineSize(e.len)
     IN IF IsInitialized(e) /\ (size = 0 \/ CannotRead(DataBlock(e), size))
        THEN Throws("read") /\ UNCHANGED target
        ELSE IF HasMark(e)
        THEN GiveUpLeaf /\ UNCHANGED target
        ELSE \/ /\ e.block + size <= Room
                /\ target' = Written(e, size)
                /\ stack' = Advanced
                /\ UNCHANGED pc
             \/ /\ \E n \in 0 .. size : target' = Written(e, n)
                /\ Throws("write")
  /\ UNCHANGED image

\* One turn of the loop over an index block.  Depths are not compared.
DescendOnce(child) ==
  IF \E k \in DOMAIN stack : stack[k].block = child THEN stack' = Advanced /\ UNCHANGED pc
  ELSE stack' = Append(Advanced, Call(child)) /\ UNCHANGED pc
Descend(child) ==
  IF Len(stack) = StackLimit THEN Throws("overflow")
  ELSE stack' = Append(Advanced, Call(child)) /\ UNCHANGED pc

CallChild ==
  /\ AtEntry
  /\ extent_block.depth # 0
  /\ Descend(Extent.phys)
  /\ UNCHANGED <<image, target>>

EndOfEntries ==
  /\ AtEnd
  /\ Leave
  /\ UNCHANGED <<image, target>>

Next == ReadNode \/ SaveExtent \/ CallChild \/ EndOfEntries

Spec == Init /\ [][Next]_vars

-----------------------------------------------------------------------------
(* Properties                                                              *)

TypeOK ==
  /\ pc \in {"running"} \cup Ended
  /\ stack \in Seq([block : Nat, next : 0 .. MaxEntries + 1])
  /\ Len(stack) <= StackLimit
  /\ pc = "running" => stack # <<>>
  /\ target \in [0 .. Room - 1 -> Block \cup {NotWritten, Zeros}]

\* The tree as ext4 means it: the blocks that entries of index blocks lead to.
NodeAt(b) == IF extent_offset(b) \in Block THEN image.node[extent_offset(b)] ELSE NoNode
EntriesAt(b) ==
  IF isValidExtent(NodeAt(b)) THEN {NodeAt(b).extent[i] : i \in 1 .. NodeAt(b).entries} ELSE {}
Inner == {b \in Block : EntriesAt(b) # {} /\ NodeAt(b).depth # 0}
Outer == {b \in Block : EntriesAt(b) # {} /\ NodeAt(b).depth = 0}
Children(b) == IF b \in Inner THEN {e.phys : e \in EntriesAt(b)} ELSE {}

\* A block is reached when it is in every set that holds the start and, of each
\* block, the children.
Closed(S) == \A b \in S : Children(b) \cap (Inner \cup Outer) \subseteq S
ReachableFrom(start) ==
  {b \in Inner \cup Outer :
     \A S \in SUBSET (Inner \cup Outer) :
       start \cap (Inner \cup Outer) \subseteq S /\ Closed(S) => b \in S}
Leaves == Outer \cap ReachableFrom({image.root})

Covers(e, t) == e.block <= t /\ t < e.block + determineSize(e.len)

\* What the target holds, at any time, comes from the extents of the tree: each
\* block of it is zeros, or the block of the disk that an extent of a leaf has
\* for that place of the file.  The block is right when the volume starts where
\* the device does, and is image.volume short of it otherwise.
Belongs(e, t) ==
  /\ Covers(e, t)
  /\ target[t] = IF IsInitialized(e) THEN WithinVolume(e) - image.volume + (t - e.block) ELSE Zeros
EveryPieceBelongs ==
  LET extents == UNION {EntriesAt(b) : b \in Leaves}
  IN \A t \in DOMAIN target : target[t] # NotWritten => \E e \in extents : Belongs(e, t)

\* A mark of a bad sector costs the rest of its leaf, and nothing of other
\* leaves: when saveToFile returns, all extents of the tree are in the file
\* but for those behind a marked one of the same leaf.
DamageStaysInLeaf ==
  pc = "returned" =>
    \A b \in Leaves : \A i \in 1 .. NodeAt(b).entries :
      (\A j \in 1 .. i : ~HasMark(NodeAt(b).extent[j])) =>
        \A t \in DOMAIN target : Covers(NodeAt(b).extent[i], t) => target[t] # NotWritten

\* The recursion is bounded by the tree alone.  It comes back only from a tree
\* without circles, and overflows a stack with room for a call of each index
\* block only in one with a circle.
HasCircle ==
  \E b \in ReachableFrom({image.root}) : b \in ReachableFrom(Children(b))
EndlessOnlyInCircle ==
  /\ pc = "overflow" /\ Cardinality(Inner) < StackLimit => HasCircle
  /\ pc = "returned" => ~HasCircle

\* The walk stays among the state it was made for, and every piece it writes
\* belongs to the file (ext4_raw::saveToFile).
PiecesAreRight == TypeOK /\ EveryPieceBelongs
=============================================================================
