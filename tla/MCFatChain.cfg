CONSTANTS
  Mask = 24
  DWord = 50
  Cells = 8
  CellsPerSector = 2
  SectorsPerCluster = 2
  SectorSize = 5
  DWordSectors = 10
  DataStart = 3
  PartStart = 1
  PartSectors = 14
  DeviceSectors = 15
  CopyLimit = 3
  MaxWalk = 10
  Tables <- MCTables
  FirstClusters <- MCFirstClusters
  BadSets <- MCBadSets
SPECIFICATION Spec
CHECK_DEADLOCK FALSE
INVARIANT WalkIsRight
INVARIANT RecoveredIsChain
INVARIANT EndlessOnlyInCircle
INVARIANT FolderIsChain
