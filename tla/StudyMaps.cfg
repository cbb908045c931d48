SPECIFICATION Spec
CONSTANTS
  Parts = {a, b}
  Urgent = {a}
  Unreadable = {b}
  Nodes = {n1, n2, n3}
  Threads = {t1, t2}
  NoOne = nobody
  MaxRev = 2
  MaxPolicy = 2
  MaxTime = 2
  MaxOps = 3
  MaxMaps = 2
  MaxFaults = 1
INVARIANTS MapsSound CyclesRefused
PROPERTIES AnswerCurrent PublicationReadable
CONSTRAINT OneChange
SYMMETRY Symmetry
