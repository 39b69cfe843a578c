SPECIFICATION FairSpec
CONSTANTS
  a = a
  b = b
  c1 = c1
  c2 = c2
  Sandboxes <- TwoSandboxes
  Clients <- OneClient
  DockerSandboxes = {}
  TTL = 1
  IdleTTL = 0
  ReapLimit = 1
  CallsMayFail = FALSE
  MaxTime = 3
  MaxOps = 3
  MaxCrashes = 1
PROPERTY TTLEnds
CHECK_DEADLOCK FALSE
