SPECIFICATION FairSpec
CONSTANTS
  p1 = p1
  p2 = p2
  p3 = p3
  d1 = d1
  d2 = d2
  NStages = 2
  Procs <- MCProcs
  Dirs <- MCDirs
  NoDir = NoDir
  Flaky <- MCFlaky
  Outcome <- MCOutcome
  MaxEdits = 2
  Collisions <- MCReruns
ACTION_CONSTRAINT InTurn
INVARIANTS
  TypeOK
  OneWriter
  VerifiedIsConsistent
  VerifyIsExact
  LedgersInStep
  RerunReproduces
PROPERTIES
  SealedIsForever
  ImplementsRunSpec
  EveryRunEnds
\* Every invocation ends, and then nothing is left to do.
CHECK_DEADLOCK FALSE
