CONSTANTS
  Size = 41
  Wide = 65536
  DWord = 34
  SectorSize = 2
  BlockSize = 8
  FragmentBlock = 4
  FullSizeAt = 3
  Cluster = 2
  MarkerCluster = 4
  Together = 3
  IdAt = 1
  Extended <- MCExtended
  Images <- MCImages
SPECIFICATION Spec
CHECK_DEADLOCK FALSE
INVARIANT EndlessOnlyByWrap
INVARIANT SavedFileParses
INVARIANT OnlyTheVideo
INVARIANT TempFileRemoved
