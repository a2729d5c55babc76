SPECIFICATION FairSpec
CONSTANTS
  user1 = user1
  user2 = user2
  A <- user1
  B <- user2
  Senders <- MCUser1
  Receivers <- MCUser2
  MaxChunks = 4
  CharMax = 3
CHECK_DEADLOCK FALSE
INVARIANTS
  TypeOK
  StopAndWait
  AckMeansDelivered
  CharLimit
PROPERTIES
  ImplementsTransfer
  TransferCompletes
