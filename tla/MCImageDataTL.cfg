SPECIFICATION FairSpec
CONSTANTS
  c1 = c1
  c2 = c2
  c3 = c3
  NoClient = NoClient
  Clients <- ThreeClients
  FrameMod = 3
  AckHeader <- ShortHeader
CHECK_DEADLOCK FALSE
INVARIANTS
  OneFrameInFlight
  NoStaleAck
  InStep
PROPERTY FirstClientIsServed
