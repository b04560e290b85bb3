SPECIFICATION FairSpec
CONSTANTS
  MaxFrames = 3
  WireSize = 2
CHECK_DEADLOCK FALSE
INVARIANTS
  WindowOfOne
  PublishedInOrder
  DestroyedIsQuiet
PROPERTIES
  FramesAreAnswered
  BothEndsEnd
