SPECIFICATION Spec

CONSTANTS
  MaxAttempts = 2
  Cell = TRUE
  ReadyAtSpawn = TRUE
  AcceptsMidTurn = TRUE
  MaxFaults = 3
  FaultKinds <- BootFaults
  MaxRequests = 1
  RequestKinds <- BootRequests
  MaxRepeats = 1

INVARIANTS
  BudgetHolds
  FailuresEarned
  FlagEarned
  NoZombie
  NoStrayProcess
