SPECIFICATION MCSpec
CONSTANTS
  Studies <- MCStudies
  Policies <- MCPolicies
  Block = 3
  Threshold = 60
  MinItems = 2
INVARIANTS
  TypeOK
  EverythingAccounted
  FailuresExplained
  ChecksAreExact
CHECK_DEADLOCK FALSE
