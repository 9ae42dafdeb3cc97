CONSTANTS
  f1 = f1
  f2 = f2
  Facts = {f1, f2}
  Said <- MCSaid
  MaxText = 2
  MaxStores = 3
  MaxEdits = 2
  MaxFaults = 1
  MaxEntries = 2
  MaxBoots = 1
SPECIFICATION Spec
INVARIANTS MemoryIsConsistent SavesInOrder
CHECK_DEADLOCK FALSE
