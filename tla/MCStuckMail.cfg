SPECIFICATION FairSpec

CONSTANTS
  MaxAttempts = 2
  Cell = FALSE
  ReadyAtSpawn = TRUE
  AcceptsMidTurn = FALSE
  MaxFaults = 1
  FaultKinds <- CrashOnly
  MaxRequests = 1
  RequestKinds <- SendOnly
  MaxRepeats = 1

PROPERTIES
  MailDelivered
