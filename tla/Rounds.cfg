SPECIFICATION FairSpec
CONSTANTS
  c1 = c1
  c2 = c2
  c3 = c3
  Clients <- MCClients
  MAX_CL = 2
  Numbers = {1, 2}
  INT_MIN = 0
  MaxSends = 3
CONSTRAINT
  InOrder
CHECK_DEADLOCK FALSE
INVARIANTS
  TypeOK
  CountedWasSent
PROPERTIES
  ImplementsRounds
  NumbersAreRead
  RoundEnds
