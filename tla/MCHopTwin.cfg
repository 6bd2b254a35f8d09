CONSTANTS
  Phases = {1, 2, 3, 4, 5}
  Edges <- TwinEdges
  Kind <- TwinKind
  SyncPairs <- TwinSync
  First = 1
  Slots = {1, 2, 3, 4}
  Jumps <- TwinJumps
  AllJumps = {5}
  Enders = {4}
  MaxReady = 1
  MaxRaise = 1
  MaxCalls = 1
SPECIFICATION FairSpec
PROPERTIES EndsUnopposed RunEnds
CHECK_DEADLOCK FALSE
