SPECIFICATION FairSpec
CONSTANTS
  c1 = c1
  c2 = c2
  c3 = c3
  Calls <- ThreeCalls
  prim <- WritePatchShell
INVARIANTS
  OkStands
  RestoredIsUndone
PROPERTY EveryCallEnds
CHECK_DEADLOCK FALSE
