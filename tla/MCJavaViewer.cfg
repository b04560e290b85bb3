SPECIFICATION FairSpec
CONSTANTS
  Parts = 2
  WireSize = 5
  AckRoom = 2
  MaxExtra = 3
  MaxGarbage = 2
  MaxObjects = 2
  MaxTimeouts = 1
  Fds = {1, 2}
CHECK_DEADLOCK FALSE
INVARIANTS
  TimersInOrder
  InStep
  Window
PROPERTIES
  BothSidesGetAway
