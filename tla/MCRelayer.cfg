CONSTANTS
  r1 = r1
  r2 = r2
  r3 = r3
  Request <- MCRequest

SPECIFICATION RelayerSpec

SYMMETRY Symmetry

INVARIANTS
  RelayerTypeOK
  MutualExclusion
  NonceFresh
  ArrivalOrder

PROPERTIES
  AcceptedForGood
