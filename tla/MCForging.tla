------------------------------ MODULE MCForging ------------------------------
(***************************************************************************)
(* ToolForge and TaskRuns for TLC: the forge as the tools directory sees   *)
(* it, queued builds beside one forge of the execution engine; the tasks   *)
(* of the execution engine, to which a forge is one answer; and the        *)
(* prompts of both, to which a forge is a few answers.  Each behaviour     *)
(* moves one of the three, its focus.                                      *)
(***************************************************************************)
EXTENDS ToolForge, TLC

CONSTANTS
  Tasks, Tools, Installed, None, MaxSteps, MaxAttempts, MaxToggles, \* TaskRuns
  Requests, User, Tokens, MaxCalls, MaxTalks, MaxLosses,            \* LiveGeneration
  t1, t2  \* the tasks of the runs

VARIABLES
  focus,
  registered, enabled, toggles, pc, left, step, attempt, tool, final, results, status,
  lastRun, accepted,
  groq, gemini, live, asks, said, at, via, calls, buffer, answer, talks, losses, disturbed

tasksVars ==
  <<registered, enabled, toggles, pc, left, step, attempt, tool, final, results, status,
    lastRun, accepted>>

T == INSTANCE TaskRuns

promptsVars ==
  <<groq, gemini, live, asks, said, at, via, calls, buffer, answer, talks, losses, disturbed>>

G == INSTANCE LiveGeneration

ASSUME TaskRunsAssumption == T!TasksAssumption
ASSUME LiveGenerationAssumption == G!GenerationAssumption

\* One task has two steps, the other one.
MCSteps == (t1 :> 2) @@ (t2 :> 1)

MCInit ==
  /\ focus \in {"forge", "tasks", "prompts"} /\ Init /\ T!Init /\ G!Init
  /\ focus # "prompts" => ~groq /\ ~gemini

ForgeMoves == focus = "forge" /\ Next /\ UNCHANGED <<focus, tasksVars, promptsVars>>
TasksMove == focus = "tasks" /\ T!Next /\ UNCHANGED <<focus, vars, promptsVars>>
PromptsMove == focus = "prompts" /\ G!Next /\ UNCHANGED <<focus, vars, tasksVars>>

MCNext == ForgeMoves \/ TasksMove \/ PromptsMove

MCSpec == MCInit /\ [][MCNext]_<<focus, vars, tasksVars, promptsVars>>

\* Typed requests are all alike.
Alike == Permutations(Requests)

TracesAreTrue == T!TracesAreTrue
AnswersAreOwn == G!AnswersAreOwn
=============================================================================
