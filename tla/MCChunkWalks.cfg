CONSTANTS
  Size = 40
  Wide = 65536
  DWord = 32
  Byte = {0, 1}
  Registered = {"riff", "mxf", "webm", "djvu", "pln_bl", "pln", "prproj", "ole", "zip", "ZOOMHandyRecorder"}
  Images <- MCImages
  SectorSize = 4
  BlockSize = 8
  HeaderLength <- MCHeaderLength
  Addition <- MCAddition
  RiffHeader = 2
  WebmShift = 4
  PlnHeader = 3
  BlHeader = 2
  BlUnit = 4
  NullLength = 2
  Cluster = 4
SPECIFICATION Spec
CHECK_DEADLOCK FALSE
INVARIANT HeadersRecognised
INVARIANT SavedBySize
INVARIANT TakenApart
PROPERTY Done
