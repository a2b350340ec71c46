CONSTANTS
  old = old
  new = new
  i0 = i0
  i1 = i1
  j1 = j1
  j2 = j2
  p1 = p1
  p2 = p2
  Accounts = {old, new}
  Jobs = {i0, i1, j1, j2}
  Request <- Requests
  NoKey = "none"
  Payments = {p1, p2}
  Session <- Sessions
  Allowances = {2, 3}
  OldAllowance = 2
  Migrated = {old}
  OldJobs = {i0, i1}
  ActiveLimit = 2
SPECIFICATION Spec
CHECK_DEADLOCK FALSE
INVARIANTS TypeOK LotsMatchBalance LedgerMatchesBalance LotsMatchAllocations OneJobPerKey AccountWithinLimit
PROPERTIES GrantsSpentFirst LedgerAppendOnly PaidIsCredited FollowsBook
