SPECIFICATION FairSpec
CONSTANTS
  MaxAttempts = 2
  Names <- TwoRelocations
  MaxMail = 1
  MaxRequests = 2
  MaxFaults = 2
INVARIANTS
  TypeOK
  SourceStaysDown
  RunsAsRecorded
  CalledOffIsOff
  BlamesTheTarget
PROPERTIES
  ReceiptsAreFinal
  RelocationSettles
  MailNotStranded

CHECK_DEADLOCK FALSE
