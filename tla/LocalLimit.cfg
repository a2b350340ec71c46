CONSTANTS
  j1 = j1
  j2 = j2
  s1 = s1
  s2 = s2
  Jobs <- TwoJobs
  Servers <- TwoServers
  MaxAttempts = 1
  Limit = 1
  Managed = FALSE
  MaxVersion = 1
  MaxInterruptions = 1
  SupervisorMayFail = FALSE
SPECIFICATION Spec
CHECK_DEADLOCK FALSE
INVARIANTS ActiveWithinLimit
SYMMETRY ServerSymmetry
