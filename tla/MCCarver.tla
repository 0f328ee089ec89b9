------------------------------ MODULE MCCarver ------------------------------
(***************************************************************************)
(* Carver on a device of eight sectors and a half, read in blocks of two   *)
(* sectors: saves of one to four blocks, a last block of one cell or       *)
(* three, three folders.  A bad cell, footers inside a block, on its       *)
(* border, across it, two in one block, and one longer than the last       *)
(* block; headers inside another file and near the end.                    *)
(***************************************************************************)
EXTENDS Carver

Format(how, footers, maxSize, tail) ==
  [how |-> how, footers |-> footers, maxSize |-> maxSize, tail |-> tail]

plain   == Format("standard", 0, 5, 0)
huge    == Format("standard", 0, 16, 0)
empty   == Format("standard", 0, 0, 0)
footed  == Format("standard", 2, 8, 1)
long    == Format("standard", 1, 6, 3)
many    == Format("standard", 4, 0, 1)
special == Format("special", 0, 0, 0)
factory == Format("factory", 0, 0, 0)

MCFormats      == {plain, huge, empty, footed, long, many, special, factory}
MCNoFormat     == Format("none", 0, 0, 0)
MCFooterLength == <<1, 2, 4, 1>>
MCStartSectors == {0, 2}

\* Four or five headers, in sectors next to each other and apart.
Layouts ==
  {[a \in Sectors |-> IF a \in p THEN f[Cardinality({b \in p : b <= a})] ELSE MCNoFormat] :
     p \in {{0, 2, 8, 14, 16}, {0, 4, 6, 12}, {4, 6, 10, 14}, {2, 6, 8, 12}},
     f \in {<<footed, plain, footed, plain, long>>, <<footed, long, plain, empty, plain>>,
            <<plain, factory, special, footed, footed>>, <<special, empty, plain, long, huge>>,
            <<factory, empty, footed, special, empty>>, <<long, many, plain, huge, footed>>}}

\* Where each footer is.
Footers == {{}, {3, 15}, {7, 12}} \X {{}, {5, 6}, {3, 9, 10}} \X {{}} \X {{}, {14}}

MCSources == [sig : Layouts, foot : Footers, bad : {{}, {11}}]
=============================================================================
