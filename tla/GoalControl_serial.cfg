SPECIFICATION Spec
CONSTANTS
  w1 = w1
  w2 = w2
  d1 = d1
  d2 = d2
  Workers <- OneWorker
  Deciders <- OneDecider
  NumSteps = 2
  NumChecks = 1
  MaxRequests = 4
  MaxCrashes = 1
  StoreMayFail = FALSE
INVARIANT ApprovalStands
INVARIANT StepsInOrder
INVARIANT CompletedMeansDone
INVARIANT PausedHasReview
CHECK_DEADLOCK FALSE
