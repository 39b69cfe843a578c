SPECIFICATION Spec
CONSTANTS
  t1 = t1
  t2 = t2
  Tasks <- TwoTasks
  NumSteps = 1
  MaxRetries = 1
  Primitives <- SharedPrimitives
  DefaultStrategy = TRUE
  ExecOutcomes <- AnyOutcome
INVARIANT SnapshotPrecedesEffect
PROPERTY RollbackUndoesAttempt
CHECK_DEADLOCK FALSE
