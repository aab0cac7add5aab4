SPECIFICATION FairSpec

CONSTANTS
  MaxAttempts = 2
  Cell = FALSE
  ReadyAtSpawn = FALSE
  AcceptsMidTurn = FALSE
  MaxFaults = 1
  FaultKinds <- ExitOnly
  MaxRequests = 1
  RequestKinds <- SwapOnly
  MaxRepeats = 1

PROPERTIES
  SwapHonoured
