CONSTANTS
  Byte <- MCByte
  Zero = 0
  Capacity = 9
  TransferSize = 6
  SectorSize = 3
  Offsets <- MCOffsets
  Sizes <- MCSizes
  Disks <- MCDisks
  BadSets <- MCBadSets
SPECIFICATION Spec
INVARIANT ReadsAreRight
INVARIANT WrittenOrRefused
