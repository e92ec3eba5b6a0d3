SPECIFICATION Spec
CONSTANTS
  Items <- MCItems
  ConstructOf <- MCConstructOf
  Loadings <- MCLoadings
  Bound = 2
  Floor = 2
  Pairs <- MCPairs
  MiReports <- MCMiReports
  MiFloor = 2
  Cap = 2
  Attestations <- MCAttestations
  FitReports <- MCFitReports
INVARIANTS
  TypeOK
  DeletionsEarned
  DeletionsAccounted
  ModificationsEarned
PROPERTIES
  EveryStageEnds
CHECK_DEADLOCK FALSE
