CONSTANTS
  A = A  B = B  a1 = a1  a2 = a2  b1 = b1  None = None
  Seqs <- Pair
  Ancestors <- PairAncestors
  Threads <- TwoThreads
  SeqOf <- TwoThreadsSeqOf
  Priority <- Flat
  Calls = {"next", "get", "peek"}
  Forked = {}
  Lockers = {}
  Grabbers = {}
  Volatile = {}
  Modes = {}
  ByItem = {}
  NbaCount = 1
  MaxLocks = 0
  Explicit = {}
  Stops = FALSE
SPECIFICATION FairDriverSpec
INVARIANTS ItemDonePaired FifoFree
PROPERTIES FinishItemReturns GrantServed
CHECK_DEADLOCK FALSE
