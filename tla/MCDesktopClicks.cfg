\* The claim of automation.py, that a click clicks.
CONSTANTS
  Calls = {c1, c2}
  NoCall = NoCall
  MaxAttempts = 2
  None = None
  Sessions = {ps1, ps2}
  PollInterval = 4
  InitTimeout = 4
  QueryTimeout = 2
  Keys = {k1, k2, k3}
  Contents = {x, y}
  MaxSurfaces = 2
  Loops = {j1, j2, j3}
  Hashes = {x, y}
  MaxBlocks = 2
  Jobs = {j1, j2, j3}
  BatchSize = 3
  MaxEvents = 6
SPECIFICATION MCSpec
INVARIANT UndisturbedClicks
CHECK_DEADLOCK FALSE
