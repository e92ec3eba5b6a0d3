SPECIFICATION Spec
CONSTANTS
  p1 = p1
  p2 = p2
  p3 = p3
  d1 = d1
  d2 = d2
  NStages = 1
  Procs <- MCProcs
  Dirs <- MCDirs
  NoDir = NoDir
  Flaky <- MCNone
  Outcome <- MCOutcome
  MaxEdits = 0
  Collisions <- MCReruns
INVARIANTS
  OneWriter
CHECK_DEADLOCK FALSE
