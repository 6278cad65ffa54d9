SPECIFICATION FairSpec
CHECK_DEADLOCK FALSE
CONSTANTS
  server = server
  seed = seed
  Processes = {server, seed}
  nodeID <- OwnNodes
  Nodes = 2
  Seqs = 2
  Start = 1
  End = 4
  Skew = 2
  Skews = 1
  Restarts = 1
INVARIANTS
  TypeOK
  IdsAreUnique
PROPERTIES
  IdsIncrease
  EveryCallReturns
