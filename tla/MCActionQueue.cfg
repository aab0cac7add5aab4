SPECIFICATION FairSpec
CONSTANTS
  Requests <- Palette
  Claimants = {"apiary"}
  MaxActions = 2
  MaxAttempt = 2
  MaxCommits = 3
  MaxRequests = 2
  MaxFaults = 2
CONSTRAINT Together
INVARIANTS
  TypeOK
  Sequential
  RefsHonest
  OutcomeIsCurrent
  LandHonest
PROPERTIES
  CaptureSettles

CHECK_DEADLOCK FALSE
