SPECIFICATION Spec
CONSTANTS
  c1 = c1
  c2 = c2
  d1 = d1
  d2 = d2
  r1 = r1
  other = other
  none = none
  torn = torn
  Clients <- MCClients
  Domains <- MCDomains
  Boxes <- MCBoxes
  MaxMails = 2
  MaxFails = 1
  Others <- MCOthers
  None <- none
  Torn <- torn
CHECK_DEADLOCK FALSE
INVARIANTS
  DedicatedThread
