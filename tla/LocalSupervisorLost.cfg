CONSTANTS
  j1 = j1
  j2 = j2
  s1 = s1
  s2 = s2
  Jobs <- TwoJobs
  Servers <- OneServer
  MaxAttempts = 1
  Limit = 1
  Managed = FALSE
  MaxVersion = 1
  MaxInterruptions = 1
  SupervisorMayFail = TRUE
SPECIFICATION FairSpec
CHECK_DEADLOCK FALSE
PROPERTIES CommittedWorkIsScheduled
