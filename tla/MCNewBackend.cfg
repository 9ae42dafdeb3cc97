CONSTANTS
  j1 = j1
  j2 = j2
  c1 = c1
  c2 = c2
  None = None
  Jobs <- MCJobs
  Caps <- MCCaps
  Templates <- MCTemplates
  Proposed <- MCProposed
  MaxSources = 2
  MaxRepairs = 1
  MaxAttempts = 2
  MaxBoots = 1
  Requests = {r1}
  MaxTurns = 3
  MaxSteps = 2
  MaxFaults = 1
  Proposals = {p1, p2}
  MaxTrials = 3
  MaxChecks = 2
  MaxAppBoots = 2
  Tools = {t1}
  MaxRetries = 2
  MaxCalls = 4
  MaxLedger = 1
  MaxRestarts = 1
SPECIFICATION MCSpec
CONSTRAINT OneTemplateAtOnce
SYMMETRY Symmetry
INVARIANTS LibraryIsSound ForgedOnce
INVARIANTS ExecutedOnceInOrder AnswersAreRecorded PausedInTurns
INVARIANTS TrialsAreSound StagedIsTested
CHECK_DEADLOCK FALSE
