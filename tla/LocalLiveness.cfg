CONSTANTS
  j1 = j1
  j2 = j2
  s1 = s1
  s2 = s2
  Jobs <- OneJob
  Servers <- OneServer
  MaxAttempts = 2
  Limit = 1
  Managed = TRUE
  MaxVersion = 2
  MaxInterruptions = 1
  SupervisorMayFail = FALSE
SPECIFICATION FairSpec
CHECK_DEADLOCK FALSE
PROPERTIES EveryJobEnds CancellationEnds
