SPECIFICATION FairSpec
CONSTANTS
  Clients = {c1, c2, c3}
  Parts = 2
  Room = 1
  MaxStrays = 1
INVARIANTS
  StreamsInStep
PROPERTIES
  SkipsOnlyAfterRemoved
  AskerIsConnected
