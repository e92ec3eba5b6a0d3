SPECIFICATION MCSpec
CONSTANTS
  Contracts <- MCContracts
  Documents <- MCDocuments
  Dictionaries <- MCDictionaries
  MinDesigned = 2
  Retries = {0, 1, 2, 3}
  Lineages = {"l1", "l2"}
  Blocks <- MCBlocks
  Foreign = "W"
INVARIANTS
  TypeOK
  AcceptedContractHolds
  GateHolds
  ReportsMatch
  MatrixFollows
CHECK_DEADLOCK FALSE
