SPECIFICATION Spec
INVARIANT OneOperation
CONSTANTS
    MaxPart = 4
    PagesPerPart = 3
    MaxOutput = 3
    MaxFrames = 5
    MaxMembers = 2
    MaxExpanded = 4
    Names = {"a", "b", "m", "n"}
    Documents <- MCDocuments
    Entries = {a, b}
    Contents <- MCContents
    Found <- MCFound
    Unknown = Unknown
    Threads = {t1, t2}
    NoOne = NoOne
    MaxOps = 4
    MaxWrites = 1
    MaxFaults = 1
SYMMETRY ThreadSymmetry
