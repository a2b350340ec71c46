CONSTANTS
  j1 = j1
  j2 = j2
  Jobs <- TwoJobs
  MaxAttempts = 1
  Limit = 1
  ActiveLimit = 2
  Allowance = 3
  Price <- Prices
  MaxVersion = 1
  MaxInterruptions = 1
SPECIFICATION Spec
CHECK_DEADLOCK FALSE
INVARIANTS CreditsConserved
PROPERTIES ClaimsWithinLimit
