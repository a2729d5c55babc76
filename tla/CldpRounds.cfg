SPECIFICATION Spec
CONSTANTS
  s1 = s1
  s2 = s2
  s3 = s3
  Servers <- MCThree
  TransIds = {1, 2}
  MaxServers = 2
SYMMETRY Symmetric
INVARIANTS
  TypeOK
  DistinctAddresses
  FreshAnswers
  RoundKeepsHeard
  EarlyEndIsComplete
  SummaryCounts
