SPECIFICATION Spec

CONSTANTS
  MaxAttempts = 2
  Cell = FALSE
  ReadyAtSpawn = FALSE
  AcceptsMidTurn = FALSE
  MaxFaults = 3
  FaultKinds <- LifeFaults
  MaxRequests = 3
  RequestKinds <- LifeRequests
  MaxRepeats = 1

CONSTRAINT Together

INVARIANTS
  TypeOK
  OneWakePerGeneration
  StartFindsNoProcess
  UserStopSupersedes
  ClosedStateModel
  OnlyUnrecordedOrphans
  NoStrayProcess

PROPERTIES
  SettledIsFinal
  ImplementsLifecycle
