SPECIFICATION FairSpec
CONSTANTS
  r1 = r1
  s1 = s1
  Requests <- OneRequest
  Subs <- OneSub
  Kinds = {"local", "shell", "job", "proxy", "probe", "relay"}
  Buffer = 1
  Lines = 1
  MaxFaults = 1
INVARIANTS
  NoSendOnClosed
  CatchUpComplete
  OutputBracketed
  OneEnd
PROPERTY EveryRequestEnds
CHECK_DEADLOCK FALSE
