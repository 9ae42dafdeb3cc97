\* Three requests to the sandbox; two calls of Python and three of its workers.
CONSTANTS
  MaxRuns = 3
  MaxCalls = 2
  MaxSpawns = 3
SPECIFICATION MCSpec
INVARIANTS NoOrphanWorker OneWorkerInOrder StopInOrder
PROPERTIES RunawaysDie ImplementsToolCalls EveryCallSettles
CHECK_DEADLOCK FALSE
