SPECIFICATION FairSpec
CONSTANTS
  i1 = i1
  i2 = i2
  Installers <- TwoInstallers
  LongLived <- OneLongLived
  Boxfiles <- ThreeBoxfiles
  AppIsName = TRUE
  NoVersion = NoVersion
  MaxLaunches = 2
  MaxCommands = 3
INVARIANTS
  RecordedHasRows
  NoStrayAdapter
  DeadSocketMeansCrash
  FirstInstallAnswered
PROPERTY EveryCommandEnds
CHECK_DEADLOCK FALSE
