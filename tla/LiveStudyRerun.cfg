SPECIFICATION Spec
CONSTANTS
  Answers = {a1, a2}
  None = None
  Torn = Torn
  MaxExtracts = 2
  MaxRuns = 1
  MaxReruns = 1
  MaxEdits = 0
INVARIANTS
  SealedRunsRerun
\* When the bounds are reached no command is left to give.
CHECK_DEADLOCK FALSE
