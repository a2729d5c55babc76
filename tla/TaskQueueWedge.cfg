SPECIFICATION FairSpec
CONSTANTS
  c1 = c1
  c2 = c2
  nobody = nobody
  Clients <- MCClients
  NoPid <- nobody
  Impatient <- MCNoOne
  NTasks = 1
  MaxQueued = 2
CHECK_DEADLOCK FALSE
PROPERTIES
  ReadmeDeathReleases
