SPECIFICATION FairSpec
CONSTANTS
  Studies <- MCStudies
  ForgedRows <- MCForgedRows
  MaxForged = 1
INVARIANTS
  TypeOK
  CompletedIsEvidenced
  JournalFollowsPlaybook
  HaltsAreNotSelfInflicted
  ArtifactsAccounted
PROPERTIES
  EveryStudyEnds
\* A run ends, and then nothing is left to do.
CHECK_DEADLOCK FALSE
