CONSTANTS
  T = T  E = E  A = A  B = B  Q = Q  None = None
  Objs <- PairSeq
  Parent <- PairSeqParent
  Top = T
  Movers = {Q}
  Callers = {A, B, E}
  PropModes = {TRUE, FALSE}
  Clears = TRUE
  StaleDrops = FALSE
  MaxStep = 2
  MaxCount = 3
  MaxForks = 3
SPECIFICATION FairSpec
INVARIANTS DrainIsIdle TotalsAddUp NoUnderflow DrainsBottomUp
PROPERTIES PromiseSpec DropsReachTop
CHECK_DEADLOCK FALSE
