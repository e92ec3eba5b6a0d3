SPECIFICATION Spec
CONSTANTS
  Studies <- MCParallel
  ForgedRows <- MCNoRows
  MaxForged = 0
INVARIANTS
  EffectsRowsAreWritable
\* A run ends, and then nothing is left to do.
CHECK_DEADLOCK FALSE
