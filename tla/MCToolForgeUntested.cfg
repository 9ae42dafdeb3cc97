\* The claim of forge.py and worker.py, that production never runs untested code.
CONSTANTS
  Builds = {b1, b2}
  Autonomous = {}
  TechIds = {x}
  NoId = NoId
  MaxRepairs = 2
SPECIFICATION Spec
INVARIANT ProductionRunsTested
CHECK_DEADLOCK FALSE
