CONSTANTS
  A = A  B = B  a1 = a1  a2 = a2  b1 = b1  None = None
  Seqs <- Pair
  Ancestors <- PairAncestors
  Threads <- TwoThreads
  SeqOf <- TwoThreadsSeqOf
  Priority <- Flat
  Calls = {"next", "try", "push"}
  Forked = {}
  Lockers = {}
  Grabbers = {b1}
  Volatile = {}
  Modes = {}
  ByItem = {}
  NbaCount = 1
  MaxLocks = 1
  Explicit = {b1}
  Stops = TRUE
SPECIFICATION DriverSpec
 
PROPERTIES ArbSpec
CHECK_DEADLOCK FALSE
