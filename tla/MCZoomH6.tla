------------------------------ MODULE MCZoomH6 ------------------------------
(***************************************************************************)
(* ZoomH6 on a device of ten clusters and a half, of four cells each:      *)
(* three tracks of up to three clusters, or two of four.  Size fields that *)
(* are 0, less than a cluster, a whole number of them, more, so large that *)
(* the sums of WriteBlock wrap, with the track ready before and without,   *)
(* and so large that the 32-bit size of the track wraps around; a second   *)
(* recording at the end, or right behind the first clusters, or none; a    *)
(* bad cell.                                                               *)
(***************************************************************************)
EXTENDS ZoomH6

MCNoRiff == -1

Fields == {MCNoRiff, 0, 2, 7, 9, 11, 13, 15}

MCSources ==
  {[header |-> 0, zoom |-> z, later |-> l, bad |-> b,
    riff |-> [a \in Cell |-> IF a % 4 = 0 /\ a \div 4 \in DOMAIN f THEN f[a \div 4] ELSE MCNoRiff]] :
     z \in BOOLEAN, l \in {{}, {26}, {6, 30}}, b \in {{}, {17}},
     f \in {g \in [1 .. 4 -> Fields] : g[4] \in {MCNoRiff, 7}}}
=============================================================================
