CONSTANTS
    Threads   = {t1}
    Profiles  = {p1}
    Tools     = {"kernel", "inspect"}
    MaxRuns   = 3
    MaxParts  = 0
    CanCrash  = TRUE
    CanFail   = TRUE
SPECIFICATION Spec
INVARIANTS TypeOK RestIsAnnounced OwnGraph
PROPERTIES NoneStranded ImplementsQueue
CHECK_DEADLOCK FALSE
