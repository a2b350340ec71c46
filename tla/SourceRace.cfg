CONSTANTS
  j1 = j1
  s1 = s1
  k1 = k1
  Jobs <- OneJob
  MaxAttempts = 1
  Keys <- OneKey
  MaxSaves = 0
  Sources <- OneSource
  MaxInterruptions = 0
SPECIFICATION Spec
CHECK_DEADLOCK FALSE
INVARIANTS SourceKept
