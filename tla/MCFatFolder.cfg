CONSTANTS
  DWord = 64
  DeviceSectors = 12
  Disks <- MCDisks
  Behinds <- MCBehinds
SPECIFICATION FolderSpec
CHECK_DEADLOCK FALSE
INVARIANT VolumeIsMounted
INVARIANT ListsTheFolder
