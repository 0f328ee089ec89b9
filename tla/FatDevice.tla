------------------------------ MODULE FatDevice ------------------------------
(***************************************************************************)
(* libfs: what the two models of FatFileSystem share, the source below the *)
(* file system and the width of its sector numbers.                        *)
(***************************************************************************)
EXTENDS Integers

CONSTANTS
  DWord,         \* 2^32
  DeviceSectors  \* sectors the source holds

ASSUME DeviceAssumption == DWord \in Nat \ {0} /\ DeviceSectors \in Nat
=============================================================================
