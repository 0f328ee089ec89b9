------------------------------ MODULE MCViews ------------------------------
(* Three small volumes: folders in folders with files on every level, a folder *)
(* beside another, an empty folder, one that leads back to its parent, and     *)
(* files that are not recovered in the root and below.                         *)
EXTENDS Views

Empty == <<>>
Volume(folders) == [k \in 0 .. Len(folders) - 1 |-> folders[k + 1]]

MCVolumes == {
    Volume(<<[A |-> 1, f |-> File], [B |-> 2, g |-> NoClusters], [h |-> File]>>),
    Volume(<<[A |-> 1, C |-> 2, g |-> OtherSize], [f |-> File, h |-> OtherSize], [B |-> 3], Empty>>),
    Volume(<<[A |-> 1], [B |-> 1, g |-> File]>>)}
=============================================================================
