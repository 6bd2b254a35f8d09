CONSTANTS
  A = A  B = B  C = C  a1 = a1  a2 = a2  b1 = b1  c1 = c1
  Seqs <- Pair
  Ancestors <- PairAncestors
  Threads <- TwoThreads
  SeqOf <- TwoThreadsSeqOf
  Priority <- Flat
  Forked = {a2}
  Lockers = {a1}
  Grabbers = {}
  Volatile = {}
  Modes = {}
  ByItem = {}
  NbaCount = 1
  MaxLocks = 2
SPECIFICATION Spec
INVARIANTS NoLostRequest
CHECK_DEADLOCK FALSE
