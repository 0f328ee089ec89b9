---------------------------- MODULE MCFileDevice ----------------------------
(***************************************************************************)
(* FileDevice on a volume of three bytes, moved two at a time: a request   *)
(* of three bytes is a full block and a short one, can run into the end of *)
(* the file, the end of the volume or a bad byte at any of its addresses.  *)
(***************************************************************************)
EXTENDS FileDevice

MCByte    == {0, 1}
MCOffsets == {0, 2, 4}
MCSizes   == {0, 1, 3}
MCBadSets == {{}, {1}}

=============================================================================
