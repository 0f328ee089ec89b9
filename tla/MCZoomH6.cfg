CONSTANTS
  Size = 42
  SectorSize = 2
  BlockSize = 4
  RiffHeader = 1
  DWord = 16
  MAXZOOMFILES = 3
  NoRiff <- MCNoRiff
  Sources <- MCSources
SPECIFICATION Spec
CHECK_DEADLOCK FALSE
INVARIANT TracksAreDealt
INVARIANT WholeOrThrown
