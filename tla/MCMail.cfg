SPECIFICATION FairSpec

CONSTANTS
  MaxMessages = 2
  Encodings <- TwoEncodings
  MaxGen = 2
  MaxFaults = 2

INVARIANTS
  TypeOK
  AtMostOnce
  DeliveredWasTaken
  InOrder

PROPERTIES
  MailSettles

CHECK_DEADLOCK FALSE
