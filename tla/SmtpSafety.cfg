SPECIFICATION Spec
CONSTANTS
  c1 = c1
  c2 = c2
  d1 = d1
  d2 = d2
  r1 = r1
  other = other
  none = none
  torn = torn
  Clients <- MCClients
  Domains <- MCDomain
  Boxes <- MCBoxes
  MaxMails = 2
  MaxFails = 1
  Others <- MCOthers
  None <- none
  Torn <- torn
SYMMETRY Symmetric
VIEW Live
CHECK_DEADLOCK FALSE
INVARIANTS
  TypeOK
  SenderChecked
  OnePlace
  AckedIsStored
PROPERTIES
  IdsStable
