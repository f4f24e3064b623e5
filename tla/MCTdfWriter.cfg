CONSTANTS
  Sources <- MCSources
  segmentSizeDefault = 3
  chunkSize = 4
  CipherOverhead = 1
  ByteLimits = {60, 72, 100, 200, 1000}
  ManifestSize = 40
  manifestMaxSize = 50
SPECIFICATION FairSpec
INVARIANTS
  FileDescribesItself
  EvenSegments
  PayloadQueueBound
PROPERTY
  WriteEnds
CHECK_DEADLOCK FALSE
