\* Two queued builds and one forge of the execution engine, all in one directory;
\* two typed requests.
CONSTANTS
  Builds = {b1, b2}
  Autonomous = {a1}
  TechIds = {x}
  NoId = NoId
  MaxRepairs = 2
  t1 = t1
  t2 = t2
  Tasks = {t1, t2}
  Tools = {old, new}
  Installed = {old}
  None = None
  MaxSteps <- MCSteps
  MaxAttempts = 3
  MaxToggles = 2
  Requests = {r1, r2}
  User = user
  Tokens = 2
  MaxCalls = 2
  MaxTalks = 1
  MaxLosses = 1
SPECIFICATION MCSpec
SYMMETRY Alike
INVARIANTS RecordIsTested TracesAreTrue AnswersAreOwn
CHECK_DEADLOCK FALSE
