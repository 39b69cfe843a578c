SPECIFICATION Spec
CONSTANTS
  w1 = w1
  w2 = w2
  d1 = d1
  d2 = d2
  Workers <- TwoWorkers
  Deciders <- OneDecider
  NumSteps = 2
  NumChecks = 0
  MaxRequests = 3
  MaxCrashes = 1
  StoreMayFail = TRUE
SYMMETRY Symmetry
INVARIANT GateHolds
PROPERTY GateSpec
CHECK_DEADLOCK FALSE
