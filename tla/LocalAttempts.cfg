CONSTANTS
  j1 = j1
  j2 = j2
  s1 = s1
  s2 = s2
  Jobs <- OneJob
  Servers <- TwoServers
  MaxAttempts = 2
  Limit = 1
  Managed = FALSE
  MaxVersion = 3
  MaxInterruptions = 1
  SupervisorMayFail = TRUE
SPECIFICATION Spec
CHECK_DEADLOCK FALSE
INVARIANTS TypeOK HistoryMatchesSnapshot OutcomeRecorded PublishedFileKept NewestPublishes DispatchTracksJob
PROPERTIES NewestAttemptMarks LifecycleSpec
SYMMETRY ServerSymmetry
