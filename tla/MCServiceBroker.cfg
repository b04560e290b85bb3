SPECIFICATION FairSpec
CONSTANTS
  MaxAttempts = 2
  MaxAccepts = 1
CHECK_DEADLOCK FALSE
INVARIANTS
  BrokerInOrder
PROPERTIES
  ImplementsDirectory
  CameraOrEnd
  GrayscaleGetsImages
