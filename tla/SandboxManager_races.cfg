SPECIFICATION Spec
CONSTANTS
  a = a
  b = b
  c1 = c1
  c2 = c2
  Sandboxes <- TwoSandboxes
  Clients <- TwoClients
  DockerSandboxes <- OneSandbox
  TTL = 1
  IdleTTL = 1
  ReapLimit = 2
  CallsMayFail = TRUE
  MaxTime = 3
  MaxOps = 3
  MaxCrashes = 1
INVARIANTS
  ExpiryWithinTTL
  NoOrphan
SYMMETRY Symmetry
CHECK_DEADLOCK FALSE
