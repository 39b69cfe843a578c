SPECIFICATION FairSpec
CONSTANTS
  t1 = t1
  t2 = t2
  Tasks <- OneTask
  NumSteps = 2
  MaxRetries = 4
  Primitives <- LedgerPrimitives
  DefaultStrategy = TRUE
  ExecOutcomes <- AnyOutcome
INVARIANTS
  SoleTaskKeepsPassedWork
PROPERTIES
  LedgerSpec
  EveryTaskEnds
CHECK_DEADLOCK FALSE
