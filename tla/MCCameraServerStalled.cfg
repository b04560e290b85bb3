SPECIFICATION FairSpec
CONSTANTS
  Clients = {c1, c2}
  Parts = 2
  Room = 1
  MaxStrays = 0
PROPERTY EveryoneIsSent
