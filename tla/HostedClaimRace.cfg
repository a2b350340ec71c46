CONSTANTS
  j1 = j1
  j2 = j2
  Jobs <- OneJob
  MaxAttempts = 2
  Limit = 1
  ActiveLimit = 1
  Allowance = 1
  Price <- Prices
  MaxVersion = 2
  MaxInterruptions = 0
SPECIFICATION Spec
CHECK_DEADLOCK FALSE
INVARIANTS SettlementMatchesOutcome
