------------------------------ MODULE MCGoPro -------------------------------
(***************************************************************************)
(* QuickTime and GoPro on a device of 41 header-sized cells, 20 sectors    *)
(* and a half.  Walks: lists of atoms in every order, sizes of 0, up to the end and     *)
(* beyond it, 64-bit sizes that are small, run to just below 2^64 and lead *)
(* back to the beginning.  Fragments: index before and behind the media.   *)
(* GoPro: an MP4 of four clusters among which the LRV's lie.               *)
(***************************************************************************)
EXTENDS GoPro

MCExtended == -1

None == [i \in {} |-> NoAtom]
At(a, type, size) == a :> [type |-> type, size |-> size, ext |-> 0]
Ext(a, type, ext) == a :> [type |-> type, size |-> MCExtended, ext |-> ext]

Blank0 ==
  [algorithm |-> "quicktime", start |-> 0, atoms |-> None, bad |-> {}, fullSize |-> 0,
   stco |-> None, longer |-> {}, gp |-> {}, quiet |-> {}, mp4 |-> {}, ids |-> None]

\* readAllQtAtoms: up to three atoms, the last of which may lead anywhere.
Second(a) ==
  {At(a, u, 4) : u \in {"mdat", "moov"}} \cup
  {Ext(a, "mdat", e) : e \in {0, 1, 4, 37, Wide - a - 1, Wide - a, Wide - 2}}
Walks ==
  UNION {{[Blank0 EXCEPT !.start = s, !.bad = b,
             !.atoms = At(s, "ftyp", 2) @@ second @@ At(s + 6, t, n)] :
            b \in {{}, {8}, {30}}, t \in {"mdat", "moov", "free"}, n \in {0, 3, 29, 30, 33, 36},
            second \in Second(s + 2)} : s \in {0, 4}}

\* A size that wraps around to an atom in front of the header.
Wraps ==
  {[Blank0 EXCEPT !.start = 4,
      !.atoms = At(4, "ftyp", 2) @@ Ext(6, "mdat", Wide - 6) @@ At(0, "moov", n)] : n \in {3, 4, 5}}

\* Media data at 2; behind it, or not, an index in two or three atoms.
Fragments ==
  {[Blank0 EXCEPT !.algorithm = "canonfragment", !.start = 2, !.bad = b,
      !.atoms = At(2, "mdat", n) @@ At(f, "ftyp", z) @@ At(f + 3, "ftyp", 2) @@
                At(f + 5, u, 2) @@ At(f + 2, "moov", 1) @@ Ext(f + 7, v, e)] :
     n \in {0, 5, 12, 39}, f \in {9, 12, 20, 31, 32}, z \in {0, 2}, u \in {"moov", "mdat"},
     v \in {"free", "mdat"}, e \in {2, 25}, b \in {{}, {3}, {24}}}

\* An index at 12, and media data at three places that may be the right one.
Starts ==
  {[Blank0 EXCEPT !.algorithm = "canonstartfragment", !.start = 12, !.bad = b, !.fullSize = n,
      !.atoms = At(12, "ftyp", z) @@ At(14, "moov", 3) @@ Ext(4, "mdat", 6) @@
                Ext(c, "mdat", e) @@ Ext(33, "mdat", 4)] :
     z \in {0, 2}, b \in {{}, {15}, {25}, {39}}, n \in {0, 5, 8, 9, 11, 23}, c \in {24, 30, 31, 38},
     e \in {4, 6, 18}}

\* An MP4 at 0 and an LRV from some cluster on, with an index each.
Mixed ==
  {[Blank0 EXCEPT !.algorithm = "go_pro", !.start = s, !.bad = b,
      !.atoms = At(s, "ftyp", 1) @@ At(s + 1, "mdat", d) @@ At(s + l, "ftyp", 1)
                @@ At(m, "moov", 2) @@ At(n, "moov", 3),
      !.stco = (m :> <<>>) @@ (n :> t), !.gp = g, !.quiet = q,
      !.ids = (s + 1 :> 1) @@ (s + l + 1 :> i)] :
     s \in {0, 2, 10}, l \in {4, 6}, d \in {7, 15}, m \in {26, 27}, n \in {28, 34, 38},
     i \in {1, 2}, b \in {{}, {21}}, t \in {<<>>, <<3, 8, 1>>},
     g \in {{9, 16, 21}, {15, 22}}, q \in SUBSET {12, 16, 20, 22}}

\* GoProRawNew: two clusters of four cells with markers, one without, an index.
Marked ==
  {[Blank0 EXCEPT !.algorithm = "go_pro_new", !.start = 4, !.mp4 = p, !.bad = b,
      !.atoms = At(4, "ftyp", 1) @@ At(5, "free", 1) @@ At(6, "mdat", d) @@
                At(28, "moov", 2) @@ At(32, "moov", 2),
      !.stco = (28 :> t) @@ (32 :> u), !.gp = g] :
     p \in {{}, {4}}, b \in {{}, {17}}, d \in {0, 3, 12}, t \in {<<>>, <<1, 6>>, <<2, 3>>},
     u \in {<<2, 5>>, <<2, 9, 10>>, <<2, 9, 3>>},
     g \in {{6, 7, 13, 17, 18}, {6, 9, 11}, {6, 17, 21, 22}, {6, 21, 22}}}

\* Indices of which 32 bits hold only the rest, or whose table is longer.
Large ==
  {[Blank0 EXCEPT !.algorithm = "go_pro",
      !.atoms = At(0, "ftyp", 1) @@ At(1, "mdat", 7) @@ At(4, "ftyp", 1)
                @@ Ext(26, "moov", e) @@ At(n, "moov", 3),
      !.stco = (26 :> <<>>) @@ (n :> <<3, 8, 1>>), !.longer = o, !.gp = {9, 16, 21}, !.quiet = q,
      !.ids = (1 :> 1) @@ (5 :> 1)] :
     n \in {30, 36}, e \in {3, DWord, DWord + 2, DWord + 5, Wide - 8, Wide - 16},
     o \in {{}, {30, 36}}, q \in {{12}, {16, 22}}} \cup
  {[Blank0 EXCEPT !.algorithm = "go_pro_new", !.start = 4, !.mp4 = {4},
      !.atoms = At(4, "ftyp", 1) @@ At(5, "free", 1) @@ At(6, "mdat", d) @@ Ext(28, "moov", e),
      !.stco = (28 :> t), !.longer = o, !.gp = {6, 9, 11}] :
     d \in {0, 3, 12}, e \in {3, DWord, DWord + 2, DWord + 5, Wide - 2}, o \in {{}, {28}},
     t \in {<<2, 5>>, <<2, 9, 10>>}}

MCImages == Walks \cup Wraps \cup Fragments \cup Starts \cup Mixed \cup Marked \cup Large

=============================================================================
