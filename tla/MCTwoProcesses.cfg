SPECIFICATION Spec

CONSTANTS
  MaxAttempts = 2
  Cell = TRUE
  ReadyAtSpawn = FALSE
  AcceptsMidTurn = FALSE
  MaxFaults = 1
  FaultKinds <- CrashOnly
  MaxRequests = 1
  RequestKinds <- SendOnly
  MaxRepeats = 1

INVARIANTS
  AtMostOneProcess
