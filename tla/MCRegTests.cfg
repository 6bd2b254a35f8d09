CONSTANTS
  F = F  G = G  t1 = t1  t2 = t2  None = None
  Fields <- TwoFields
  Threads <- TwoThreads
  Settings <- AllTests
SPECIFICATION Spec
INVARIANTS LockComesBack MirrorTracks
PROPERTIES MirrorAgrees SiblingsSpared UpdateArrives
CHECK_DEADLOCK FALSE
