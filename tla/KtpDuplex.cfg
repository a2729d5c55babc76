SPECIFICATION Spec
CONSTANTS
  user1 = user1
  user2 = user2
  A <- user1
  B <- user2
  Senders <- MCBoth
  Receivers <- MCBoth
  MaxChunks = 2
  CharMax = 3
CHECK_DEADLOCK FALSE
INVARIANTS
  AckMeansDelivered
