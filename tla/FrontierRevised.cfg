SPECIFICATION Spec
CONSTANTS
  Workers = {w1}
  Entries = {e1, e2}
  Routes = {r1}
  MaxRevision = 2
  MaxClaims = 1
  MaxAttempts = 1
  Concurrency = 2
  CanCrash = TRUE
  CanFail = TRUE
CHECK_DEADLOCK FALSE
INVARIANT UnitsSound
PROPERTIES NotResent PublishedApproved
SYMMETRY Interchangeable
