SPECIFICATION FairSpec

CONSTANTS
  MaxAttempts = 2
  Cell = FALSE
  ReadyAtSpawn = FALSE
  AcceptsMidTurn = FALSE
  MaxFaults = 1
  FaultKinds <- FairFaults
  MaxRequests = 1
  RequestKinds <- FairRequests
  MaxRepeats = 1

PROPERTIES
  MailDelivered
  QueueDrains
  RestartSurvives
