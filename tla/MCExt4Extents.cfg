CONSTANTS
  DeviceBlocks = 8
  MaxEntries = 2
  Initialized = 4
  StackLimit = 9
  Room = 5
  NoNode = NoNode
  NotWritten = NotWritten
  Zeros = Zeros
  Images <- MCImages
SPECIFICATION Spec
CHECK_DEADLOCK FALSE
INVARIANT PiecesAreRight
INVARIANT DamageStaysInLeaf
INVARIANT EndlessOnlyInCircle
