CONSTANTS
  A = A  B = B  C = C  a1 = a1  a2 = a2  b1 = b1  c1 = c1
  Seqs <- FamilySeqs
  Ancestors <- FamilyAncestors
  Threads <- OneThread
  SeqOf <- OneThreadSeqOf
  Priority <- Graded
  Forked = {a1}
  Lockers = {a1, c1}
  Grabbers = {b1}
  Volatile = {}
  Modes = {"WEIGHTED"}
  ByItem = {c1}
  NbaCount = 1
  MaxLocks = 2
SPECIFICATION Spec
INVARIANTS TypeOK LockChain CleanExit WakeNotLost
PROPERTIES OnlyEndsForget
CHECK_DEADLOCK FALSE
