---------------------------- MODULE MCNewBackend ----------------------------
(***************************************************************************)
(* The New Backend for TLC: its forge, its turns, its upgrades and its     *)
(* maintenance.  They share no state that is modelled, so that each        *)
(* behaviour moves one of them, its focus, and the others stay as they     *)
(* began.                                                                  *)
(***************************************************************************)
EXTENDS BackendForge, TLC

CONSTANTS
  c1, c2, j1, j2,
  Requests, MaxTurns, MaxSteps, MaxFaults,
  Proposals, MaxTrials, MaxChecks, MaxAppBoots,
  Tools, MaxRetries, MaxCalls, MaxLedger, MaxRestarts

VARIABLES
  focus,
  pc, request, left, done, attempts, answer, ledger, disk, suppressed, running, faults,
  boots, executions, repeated, unsaved, overlapped, torn,
  status, listed, state, current, late, trial, waiting, appBoots, validated, kept,
  untimely, outrun,
  calls, savedCalls, errors, paused, findings, repair, inFlight, staging, passed, outcome,
  restarts

turnsVars ==
  <<pc, request, left, done, attempts, answer, ledger, disk, suppressed, running, faults,
    boots, executions, repeated, unsaved, overlapped, torn>>
upgradesVars ==
  <<status, listed, state, current, late, trial, waiting, appBoots, validated, kept,
    untimely, outrun>>
upkeepVars ==
  <<calls, savedCalls, errors, paused, findings, repair, inFlight, staging, passed, outcome,
    restarts>>

T == INSTANCE BackendTurns WITH crossed <- repeated

U == INSTANCE UpgradeTrial WITH
       MaxBoots <- MaxAppBoots, boots <- appBoots

S == INSTANCE SelfMaintenance WITH
       NoSource <- None, MaxAttempts <- MaxRetries, MaxBoots <- MaxRestarts,
       suppressed <- paused, ends <- restarts

ASSUME T!TurnAssumption /\ U!TrialAssumption /\ S!MaintenanceAssumption

MCJobs == {j1, j2}
MCCaps == {c1, c2}
MCTemplates == {c2}
MCProposed == {<< >>}
Symmetry == Permutations(MCJobs)

\* Two forgings of the template's capability are no other than two of a designed one.
OneTemplateAtOnce == Cardinality({j \in Jobs : job[j].cap \in Templates}) <= 1

MCInit == focus \in {"forge", "turns", "upgrades", "upkeep"} /\ Init /\ T!Init /\ U!Init /\ S!Init

ForgeMoves == focus = "forge" /\ Next /\ UNCHANGED <<focus, turnsVars, upgradesVars, upkeepVars>>
TurnsMove == focus = "turns" /\ T!Next /\ UNCHANGED <<focus, vars, upgradesVars, upkeepVars>>
UpgradesMove == focus = "upgrades" /\ U!Next /\ UNCHANGED <<focus, vars, turnsVars, upkeepVars>>
UpkeepMoves == focus = "upkeep" /\ S!Next /\ UNCHANGED <<focus, vars, turnsVars, upgradesVars>>

MCNext == ForgeMoves \/ TurnsMove \/ UpgradesMove \/ UpkeepMoves

MCSpec == MCInit /\ [][MCNext]_<<focus, vars, turnsVars, upgradesVars, upkeepVars>>

ExecutedOnceInOrder == T!ExecutedOnceInOrder
AnswersAreRecorded == T!AnswersAreRecorded
PausedInTurns == T!PausedInTurns
TrialsAreSound == U!TrialsAreSound
StagedIsTested == S!StagedIsTested
=============================================================================
