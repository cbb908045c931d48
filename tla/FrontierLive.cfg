SPECIFICATION FairSpec
CONSTANTS
  Workers = {w1}
  Entries = {e1, e2}
  Routes = {r1}
  MaxRevision = 1
  MaxClaims = 3
  MaxAttempts = 2
  Concurrency = 2
  CanCrash = FALSE
  CanFail = FALSE
CHECK_DEADLOCK FALSE
INVARIANTS CallLimit
PROPERTIES Reported FrontierReturns
