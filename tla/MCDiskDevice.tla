---------------------------- MODULE MCDiskDevice ----------------------------
(***************************************************************************)
(* DiskDevice on a drive of three sectors of three bytes, moved two sectors*)
(* at a time.  Every byte of the drive differs from every other, so that a *)
(* byte from the wrong place is told apart; writes write zeros.  Requests  *)
(* start and end everywhere, also beyond the drive.                        *)
(***************************************************************************)
EXTENDS DiskDevice

MCByte    == 0 .. 9
MCDisks   == {[a \in Addr |-> a + 1]}
MCOffsets == 0 .. 9
MCSizes   == {0, 1, 2, 3, 5, 6, 9}
MCBadSets == {{}, {6}}
=============================================================================
