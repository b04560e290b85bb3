SPECIFICATION FairSpec
CONSTANTS
  HeaderSize = 2
  ImageSize = 3
  FrameMod = 3
  Window = 6
CHECK_DEADLOCK FALSE
INVARIANTS
  BuffersBounded
  ImageIsOnePiece
  FrameIsWhole
PROPERTIES
  EveryFrameOnce
  FramesKeepComing
