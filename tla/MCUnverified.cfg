SPECIFICATION Spec
CONSTANTS
  r1 = r1
  r2 = r2
  r3 = r3
  Ids <- ThreeRequests
  NoId = NoId
  Contents = {0, 1}
  TTL = 1
  Lag = 1
  Window = 2
  MaxClock = 0
  MaxAttempts = 3
  MaxEdits = 0
  Deciders = 1
  MaxFaults = 1
SYMMETRY RequestSymmetry
CHECK_DEADLOCK FALSE
INVARIANTS WritesVerified
