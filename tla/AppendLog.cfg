SPECIFICATION FairSpec
CONSTANTS
  Objects = {o1, o2}
  Threads = {t1, t2, t3}
  NoThread = NoThread
  MaxLines = 4
INVARIANTS
  TypeOK
  GapFreeUpToTear
  MemoryIsCurrent
PROPERTIES
  EveryAppendEnds
\* After a torn entry or a line of two, or at the bound, no object may be left to open.
CHECK_DEADLOCK FALSE
