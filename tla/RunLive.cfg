CONSTANTS
    Threads   = {t1}
    Profiles  = {p1}
    Tools     = {"kernel", "staged"}
    MaxRuns   = 2
    MaxParts  = 1
    CanCrash  = FALSE
    CanFail   = FALSE
SPECIFICATION FairSpec
INVARIANTS CarriedOnce
PROPERTIES AskedPause FirstStopHeld StopSettles QueueMoves ShutdownEnds
CHECK_DEADLOCK FALSE
