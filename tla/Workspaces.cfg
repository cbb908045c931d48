SPECIFICATION Spec
INVARIANT Sound
PROPERTY JobsSettle
CONSTANTS
    Keys = {a, b}
    Callers = {c1, c2}
    Starter = Starter
    MaxOps = 4
    MaxFaults = 1
    MaxDeaths = 2
