SPECIFICATION Spec
CONSTANTS
  Studies <- MCFull
  ForgedRows <- MCNoRows
  MaxForged = 0
INVARIANTS
  FullMediationIsClassified
\* A run ends, and then nothing is left to do.
CHECK_DEADLOCK FALSE
