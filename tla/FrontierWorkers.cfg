SPECIFICATION Spec
CONSTANTS
  Workers = {w1, w2}
  Entries = {e1}
  Routes = {r1}
  MaxRevision = 1
  MaxClaims = 4
  MaxAttempts = 2
  Concurrency = 1
  CanCrash = TRUE
  CanFail = FALSE
CHECK_DEADLOCK FALSE
INVARIANT ClaimsSound
