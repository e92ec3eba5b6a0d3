SPECIFICATION Spec
CONSTANTS
  Answers = {a1, a2}
  None = None
  Torn = Torn
  MaxExtracts = 2
  MaxRuns = 1
  MaxReruns = 2
  MaxEdits = 2
INVARIANTS
  TypeOK
  TokenIsFresh
  RunsWhatWasGlanced
  RerunIsExact
\* When the bounds are reached no command is left to give.
CHECK_DEADLOCK FALSE
