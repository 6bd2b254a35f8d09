CONSTANTS
  A = A  B = B  C = C  a1 = a1  a2 = a2  b1 = b1  c1 = c1
  Seqs <- Pair
  Ancestors <- PairAncestors
  Threads <- OneEach
  SeqOf <- OneEachSeqOf
  Priority <- Graded
  Forked = {}
  Lockers = {a1,b1}
  Grabbers = {}
  Volatile = {B}
  Modes = {"STRICT_FIFO"}
  ByItem = {a1}
  NbaCount = 1
  MaxLocks = 2
SPECIFICATION FairSpec
INVARIANTS NoLostRequest
PROPERTIES LockServed
CHECK_DEADLOCK FALSE
