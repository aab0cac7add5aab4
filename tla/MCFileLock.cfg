SPECIFICATION FairSpec

CONSTANTS
  Clients = {c1, c2, c3}
  MaxGen = 3

INVARIANTS
  TypeOK
  HolderSafe

PROPERTIES
  MovesWhatItSaw
  DeadLockReclaimed

CHECK_DEADLOCK FALSE
