SPECIFICATION Spec
CONSTANTS
  c1 = c1
  c2 = c2
  nobody = nobody
  Clients <- MCClients
  NoPid <- nobody
  Impatient <- MCNoOne
  NTasks = 2
  MaxQueued = 2
SYMMETRY Symmetric
CHECK_DEADLOCK FALSE
INVARIANTS
  TypeOK
  MutualExclusion
  NoTaskLost
  NoZombieForgotten
  RightAnswer
  ActiveClientsExact
PROPERTIES
  CleanShutdown
  ImplementsPool
