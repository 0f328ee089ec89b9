CONSTANTS
  Byte <- MCByte
  Zero = 0
  Capacity = 3
  TransferSize = 2
  Offsets <- MCOffsets
  Sizes <- MCSizes
  MaxSize = 4
  BadSets <- MCBadSets
SPECIFICATION FairSpec
INVARIANT TypeOK
INVARIANT SizeCoversFile
INVARIANT AppendedSizeIsExact
PROPERTY EveryCallReturns
PROPERTY ImplementsDevice
