SPECIFICATION Spec
CONSTANTS
  Requests <- Landings
  Claimants = {"apiary"}
  MaxActions = 1
  MaxAttempt = 2
  MaxCommits = 3
  MaxRequests = 1
  MaxFaults = 1
INVARIANTS
  FailedNeverLanded

CHECK_DEADLOCK FALSE
