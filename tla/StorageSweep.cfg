CONSTANTS
  j1 = j1
  s1 = s1
  k1 = k1
  Jobs <- OneJob
  MaxAttempts = 2
  Keys <- OneKey
  MaxSaves = 1
  Sources <- OneSource
  MaxInterruptions = 1
SPECIFICATION FairSpec
CHECK_DEADLOCK FALSE
INVARIANTS TypeOK ObjectsTracked ArtifactKept RestoreFinds
PROPERTIES NewestCheckpointKept ObjectsReclaimed
