CONSTANTS
  Phases = {1, 2, 3, 4, 5, 6}
  Edges <- MainEdges
  Kind <- MainKind
  SyncPairs <- NoPairs
  First = 1
  Slots = {1, 2, 3, 4, 5}
  Jumps <- BothWays
  AllJumps = {}
  Enders = {}
  MaxReady = 2
  MaxRaise = 1
  MaxCalls = 1
SPECIFICATION Spec
INVARIANTS InHopperOnce BodiesBelong
PROPERTIES OrderSpec
CHECK_DEADLOCK FALSE
