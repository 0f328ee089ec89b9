---------------------------- MODULE MCExt4Extents ----------------------------
(***************************************************************************)
(* Ext4Extents on a device of eight blocks.  The root and two more blocks  *)
(* are leaves, index blocks of one or two entries that may lead to each    *)
(* other, back, to data or behind the device, or blocks with a wrong       *)
(* header; extents follow each other, leave gaps, are empty, unreadable,   *)
(* or not initialized; marks in the first blocks of two extents.              *)
(***************************************************************************)
EXTENDS Ext4Extents

E(b, n, p) == [block |-> b, len |-> n, phys |-> p]
Block4(max, depth, s) ==
  [entries |-> Len(s), max |-> max, depth |-> depth,
   extent |-> [i \in 1 .. MaxEntries |-> IF i <= Len(s) THEN s[i] ELSE E(0, 0, 0)]]

Leaf(s) == Block4(MaxEntries, 0, s)
Index(depth, s) == Block4(MaxEntries, depth, [i \in DOMAIN s |-> E(0, 0, s[i])])

Extents == {<<>>, <<E(0, 1, 4), E(1, 2, 5)>>, <<E(0, 2, 5), E(3, Initialized + 1, 4)>>,
            <<E(2, 1, 6), E(1, 1, 4)>>, <<E(2, 2, 7)>>, <<E(1, 0, 6)>>, <<E(3, 2, 4)>>}
SomeLeaves == {Leaf(s) : s \in Extents}

Roots == SomeLeaves \cup {Index(d, s) : d \in {1, 2}, s \in {<<2>>, <<2, 3>>, <<3, 1>>, <<5, 2>>, <<9, 2>>}}
           \cup {NoNode, Block4(MaxEntries + 1, 1, <<E(0, 0, 2)>>),
                 [Index(1, <<2, 3>>) EXCEPT !.entries = MaxEntries + 1]}
Seconds == SomeLeaves \cup {Index(1, s) : s \in {<<3>>, <<3, 3>>, <<2>>, <<3, 1>>}} \cup {NoNode}
Thirds == SomeLeaves \cup {Index(1, <<2>>)}

MCImages ==
  {[root |-> 1, volume |-> v, marked |-> m, bad |-> IF v = 0 THEN {7} ELSE {},
    node |-> [b \in Block |-> CASE b = v + 1 -> x [] b = v + 2 -> y [] b = v + 3 -> z
                                [] OTHER -> NoNode]] :
     v \in {0, 1}, m \in {{}, {4}, {5}}, x \in Roots, y \in Seconds, z \in Thirds}
=============================================================================
