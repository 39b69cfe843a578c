SPECIFICATION Spec
CONSTANTS
  a1 = a1
  a2 = a2
  c1 = c1
  c2 = c2
  k1 = k1
  k2 = k2
  Apps <- TwoApps
  Callers <- TwoCallers
  Keys <- TwoKeys
  Requests <- KVRequests
  Manifests <- KVManifests
  NoApp = NoApp
  Backend <- OneOfEach
  Absent = Absent
  NoCount = NoCount
  MaxStarts = 2
  MaxCalls = 2
INVARIANTS
  RowsAgree
  FailedDialMarksApp
  SoleCallAtomic
  NormalizeStable
PROPERTIES
  DirectorySpec
SYMMETRY Symmetry
CHECK_DEADLOCK FALSE
