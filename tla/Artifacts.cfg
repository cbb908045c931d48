SPECIFICATION Spec
CONSTANTS
  Slots = {part, map}
  Lasting = {map}
  Contents = {document, gone}
  Tombstone = gone
  Nothing = nothing
  MaxOps = 3
  MaxFaults = 2
  MaxForeign = 1
INVARIANTS RegistryLoads NothingLost NoLitter
PROPERTIES ForeignKept KeepsPromise DeletionEnds
CHECK_DEADLOCK FALSE
