SPECIFICATION Spec
CONSTANTS
  c1 = c1
  c2 = c2
  c3 = c3
  Conns <- ThreeConns
  MaxProcs = 1
  Callers <- TwoConns
  MaxNotes = 1
  Main = main
  Nobody = nobody
INVARIANTS
  WaitTellsExit
  SpawnedIsListed
  EndIsFinal
  ReplyMatches
  RegisteredAnswers
PROPERTIES
  EveryProcessCallEnds
  TeardownReleases
CHECK_DEADLOCK FALSE
