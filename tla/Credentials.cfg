SPECIFICATION Spec
CONSTANTS
  Profiles = {p1, p2}
  MaxRequests = 4
  VaultVaries = TRUE
INVARIANTS TypeOK Paired Told
PROPERTIES NeverRevived
SYMMETRY Alike
