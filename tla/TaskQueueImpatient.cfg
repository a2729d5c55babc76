SPECIFICATION FairSpec
CONSTANTS
  c1 = c1
  c2 = c2
  nobody = nobody
  Clients <- MCOne
  NoPid <- nobody
  Impatient <- MCOne
  NTasks = 2
  MaxQueued = 3
CHECK_DEADLOCK FALSE
INVARIANTS
  MutualExclusion
  OneTaskPerClient
PROPERTIES
  ServerTerminates
