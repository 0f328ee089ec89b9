CONSTANTS
  Size = 17
  SectorSize = 2
  BlockSize = 4
  OffsetMod = 64
  FilesPerFolder = 2
  Formats <- MCFormats
  NoFormat <- MCNoFormat
  SigLength = 2
  FooterLength <- MCFooterLength
  Sources <- MCSources
  StartSectors <- MCStartSectors
SPECIFICATION Spec
CHECK_DEADLOCK FALSE
INVARIANT EveryHeaderSeen
INVARIANT TargetsAreKept
INVARIANT SavedIsSource
PROPERTY Termination
