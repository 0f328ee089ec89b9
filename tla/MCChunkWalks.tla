---------------------------- MODULE MCChunkWalks ----------------------------
(***************************************************************************)
(* Signature files: one format with up to two headers of every kind and    *)
(* one offset or two, behind one that is never there.  Algorithms: size    *)
(* fields of 0, inside the device, at its end, beyond it and near the      *)
(* width; chains of up to four chunks; nulls anywhere in three places; a   *)
(* recorder's two tracks up to the end of the device.  16 bits stand for   *)
(* 2^64, 5 bits for 2^32.                                                  *)
(***************************************************************************)
EXTENDS ChunkWalks

MCHeaderLength == [f \in BySize |-> IF f = "mxf" THEN 6 ELSE 3]
MCAddition == [riff |-> 4, mxf |-> 5, webm |-> 3, djvu |-> 3]

Blank0 ==
  [formats |-> <<>>, block |-> <<0, 1, 1, 0>>, start |-> 0, field |-> 0, mono |-> 0,
   bad |-> {}, nulls |-> {}, chunks |-> [a \in {} |-> 0]]

E(kind, bytes, odd, o) == [kind |-> kind, bytes |-> bytes, odd |-> odd, offset |-> o]
Words == {<<>>, <<0>>, <<1>>, <<0, 1>>, <<1, 1>>}
Entries ==
  {E("no object", <<>>, FALSE, 0), E("no text", <<>>, FALSE, 0), E("hexdata", <<1>>, TRUE, 1)}
  \cup {E("textdata", w, FALSE, o) : w \in Words, o \in {0, 2}}
Other == [algorithm |-> "ole", header |-> <<E("textdata", <<1>>, FALSE, 0)>>]
Loads ==
  {[Blank0 EXCEPT !.formats = <<Other, [algorithm |-> a, header |-> h]>>] :
     a \in {"ole", "unknown"}, h \in BoundedSeq(Entries, 2)} \cup
  {[Blank0 EXCEPT !.formats = <<[algorithm |-> "ole", header |-> h]>>] :
     h \in {<<e, f, g>> : e, f, g \in {E("textdata", w, FALSE, 1) : w \in Words}}}

Of(name) == <<[algorithm |-> name, header |-> <<E("textdata", <<0, 1>>, FALSE, 0)>>]>>
Fields ==
  {[Blank0 EXCEPT !.formats = Of(f), !.start = s, !.field = n, !.bad = b] :
     f \in BySize, s \in {0, 5, 34}, b \in {{}, {7}, {36}},
     n \in 0 .. 40 \cup 56 .. 63 \cup {70, 128, Wide - 6, Wide - 5, Wide - 2}}

Chunk(n, a) == a :> n
Chains ==
  {[Blank0 EXCEPT !.formats = Of("pln_bl"), !.start = s, !.bad = b,
      !.chunks = Chunk(n, s + 3) @@ Chunk(m, s + 3 + 4 * n) @@ Chunk(l, s + 3 + 4 * (n + m))] :
     s \in {0, 6}, b \in {{}, {12}}, n \in 0 .. 3, m \in {0, 1, 2, 16}, l \in {0, 1, 5, 17}}

Projects ==
  {[Blank0 EXCEPT !.formats = Of("prproj"), !.start = s, !.bad = b, !.nulls = u] :
     s \in {0, 4}, b \in {{}, {9}, {21}},
     u \in {{5, 6}, {11}, {11, 12}, {11, 12, 13, 20}, {19, 20}, {27, 28}, {36, 37}, {35, 36, 38, 39}, {}}}

Tracks ==
  {[Blank0 EXCEPT !.formats = Of("ZOOMHandyRecorder"), !.start = s, !.field = n, !.mono = m, !.bad = b] :
     s \in {0, 1, 4, 7}, n \in 0 .. 36 \cup {61, 62, 63}, m \in {0, 3, 8, 20, 30}, b \in {{}, {2}, {5}, {11}}}

Others ==
  {[Blank0 EXCEPT !.formats = Of(f), !.start = s, !.bad = b] :
     f \in {"pln", "ole", "zip"}, s \in {0, 38}, b \in {{}, {2}}}

MCImages == Loads \cup Fields \cup Chains \cup Projects \cup Tracks \cup Others

=============================================================================
