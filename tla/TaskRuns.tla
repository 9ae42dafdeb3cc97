------------------------------ MODULE TaskRuns ------------------------------
(***************************************************************************)
(* Tasks of the AutonomousExecutionEngine                                  *)
(* (src/src/main/services/autonomous_execution_engine.ts), which           *)
(* TaskRunner.runTask runs for a spoken, a typed or an RUN_TASK request:   *)
(* plan, find or forge a tool for each step, execute it, verify, retry.    *)
(*                                                                         *)
(* Tasks overlap: each awaits the planner, a forge, an execution and the   *)
(* verifying model, while the user switches tools off and on.  The steps   *)
(* of a plan are drawn when they are reached, since nothing reads one      *)
(* before; the code between two awaits is split where it commutes with     *)
(* what other tasks do.                                                    *)
(***************************************************************************)
EXTENDS Naturals, Sequences, SequencesExt

CONSTANTS
  Tasks,
  Tools,      \* ids of tools, those to be forged included
  Installed, \* the tools the app starts with
  None,
  MaxSteps,   \* bound: steps in the plan of each task (the code: 12)
  MaxAttempts,\* MAX_RETRIES_PER_STEP (3)
  MaxToggles  \* bound: how often the user switches a tool

TasksAssumption ==
  /\ Installed \subseteq Tools /\ None \notin Tools
  /\ MaxSteps \in [Tasks -> Nat \ {0}]
  /\ MaxAttempts \in Nat \ {0} /\ MaxToggles \in Nat

VARIABLES
  registered, enabled, toggles, \* the tool registry
  pc,      \* what the task waits for
  left,    \* steps of the plan not yet done
  step,    \* the step at hand
  attempt,
  tool,    \* ensured.tool
  final,   \* the result of the step so far
  results,
  status,
  lastRun, \* history: the tool the step last executed well, or took a result of
  accepted \* history: tools with an accepted execution in the task

registry == <<registered, enabled, toggles>>
history == <<lastRun, accepted>>
vars == <<registry, pc, left, step, attempt, tool, final, results, status, history>>

\* A step may name its tool, and its goal may say to "execute, run, perform, use".
Steps == [tool : Tools \cup {None}, runs : BOOLEAN]
NoStep == [tool |-> None, runs |-> FALSE]
Results == [tool : Tools \cup {None}, success : BOOLEAN]
NoResult == [tool |-> None, success |-> FALSE]

TypeOK ==
  /\ registered \subseteq Tools /\ enabled \subseteq registered
  /\ toggles \in 0 .. MaxToggles
  /\ pc \in [Tasks -> {"idle", "planning", "step", "attempt", "forging", "executing",
                       "verifying", "ended"}]
  /\ left \in [Tasks -> Nat]
  /\ step \in [Tasks -> Steps]
  /\ attempt \in [Tasks -> 0 .. MaxAttempts]
  /\ tool \in [Tasks -> Tools \cup {None}]
  /\ final \in [Tasks -> Results]
  /\ results \in [Tasks -> Seq(Results)]
  /\ \A t \in Tasks : Len(results[t]) + left[t] <= MaxSteps[t]
  /\ status \in [Tasks -> {"none", "completed", "partial"}]
  /\ lastRun \in [Tasks -> Tools \cup {None}]
  /\ accepted \in [Tasks -> SUBSET Tools]

Init ==
  /\ registered = Installed /\ enabled = Installed /\ toggles = 0
  /\ pc = [t \in Tasks |-> "idle"]
  /\ left = [t \in Tasks |-> 0]
  /\ step = [t \in Tasks |-> NoStep]
  /\ attempt = [t \in Tasks |-> 0]
  /\ tool = [t \in Tasks |-> None]
  /\ final = [t \in Tasks |-> NoResult]
  /\ results = [t \in Tasks |-> <<>>]
  /\ status = [t \in Tasks |-> "none"]
  /\ lastRun = [t \in Tasks |-> None]
  /\ accepted = [t \in Tasks |-> {}]

Goto(t, p) == pc' = [pc EXCEPT ![t] = p]

-----------------------------------------------------------------------------

\* The task is submitted.  Without a provider the plan is one step at once.
RunTask(t) ==
  /\ pc[t] = "idle"
  /\ \/ Goto(t, "planning") /\ UNCHANGED left
     \/ Goto(t, "step") /\ left' = [left EXCEPT ![t] = 1]
  /\ UNCHANGED <<registry, step, attempt, tool, final, results, status, history>>

\* The planner's steps, cut to the limit; or the one step of the fallback, if it
\* timed out or its answer has no steps.
PlanReady(t) ==
  /\ pc[t] = "planning"
  /\ Goto(t, "step")
  /\ \E n \in 1 .. MaxSteps[t] : left' = [left EXCEPT ![t] = n]
  /\ UNCHANGED <<registry, step, attempt, tool, final, results, status, history>>

\* A bug: a failed step does not count against the task.
StatusRegardless(r) == "completed"

StatusAfter(r) == IF r.success THEN "completed" ELSE "partial"

\* The step's result is kept; the plan goes on, is done, or is broken off.
StepEnds(t, r) ==
  /\ results' = [results EXCEPT ![t] = Append(@, r)]
  /\ left' = [left EXCEPT ![t] = @ - 1]
  /\ final' = [final EXCEPT ![t] = NoResult]
  /\ attempt' = [attempt EXCEPT ![t] = 0]
  /\ step' = [step EXCEPT ![t] = NoStep]
  /\ tool' = [tool EXCEPT ![t] = None]
  /\ IF r.success /\ left[t] > 1
     THEN Goto(t, "step") /\ UNCHANGED status
     ELSE Goto(t, "ended") /\ status' = [status EXCEPT ![t] = StatusAfter(r)]

BeginStep(t, s) ==
  /\ pc[t] = "step"
  /\ step' = [step EXCEPT ![t] = s]
  /\ attempt' = [attempt EXCEPT ![t] = 1]
  /\ lastRun' = [lastRun EXCEPT ![t] = None]
  /\ Goto(t, "attempt")
  /\ UNCHANGED <<registry, left, tool, final, results, status, accepted>>

\* verifyPreviousResult: a step that asks to "verify, validate, confirm or check"
\* a user name just found compares it with the signed-in user's and runs nothing.
CheckPrevious(t) ==
  /\ pc[t] = "step" /\ results[t] # <<>>
  /\ \E passed \in BOOLEAN : StepEnds(t, [tool |-> Last(results[t]).tool, success |-> passed])
  /\ UNCHANGED <<registry, history>>

\* A bug: what was executed is not in the result of a failed attempt.
FailedForgetting(t) == NoResult

Failed(t) == [tool |-> final[t].tool, success |-> FALSE]

TriesAgain(t) == attempt[t] < MaxAttempts

\* The attempt threw, and r is what there is of it; after the last one the step
\* has failed.
AttemptFails(t, r) ==
  \/ /\ TriesAgain(t)
     /\ attempt' = [attempt EXCEPT ![t] = @ + 1]
     /\ final' = [final EXCEPT ![t] = r]
     /\ tool' = [tool EXCEPT ![t] = None]
     /\ Goto(t, "attempt")
     /\ UNCHANGED <<left, step, results, status, lastRun>>
  \/ ~TriesAgain(t) /\ StepEnds(t, r) /\ UNCHANGED lastRun

ResultBefore(t, e) == \E r \in ToSet(results[t]) : r.success /\ r.tool = e

\* ensureTool returned e: "duplicate execution prevented", or execute it.
Use(t, e) ==
  \/ /\ step[t].runs /\ ResultBefore(t, e)
     /\ StepEnds(t, [tool |-> e, success |-> TRUE])
     /\ lastRun' = [lastRun EXCEPT ![t] = e]
  \/ /\ ~(step[t].runs /\ ResultBefore(t, e))
     /\ tool' = [tool EXCEPT ![t] = e]
     /\ Goto(t, "executing")
     /\ UNCHANGED <<left, step, attempt, final, results, status, lastRun>>

\* The step names a registered tool, switched on or not.
FindByName(t) ==
  /\ pc[t] = "attempt" /\ step[t].tool \in registered
  /\ Use(t, step[t].tool)
  /\ UNCHANGED <<registry, accepted>>

\* findCapability matches one that is switched on.
FindCapability(t, e) ==
  /\ pc[t] = "attempt" /\ step[t].tool \notin registered
  /\ e \in enabled
  /\ Use(t, e)
  /\ UNCHANGED <<registry, accepted>>

\* Nothing matches well enough.
BeginForge(t) ==
  /\ pc[t] = "attempt" /\ step[t].tool \notin registered
  /\ Goto(t, "forging")
  /\ UNCHANGED <<registry, left, step, attempt, tool, final, results, status, history>>

\* forgeTool registers a tool, under a new id, and sets out to run it.
ForgeRegisters(t, e) ==
  /\ pc[t] = "forging" /\ tool[t] = None
  /\ e \notin registered
  /\ registered' = registered \cup {e} /\ enabled' = enabled \cup {e}
  /\ tool' = [tool EXCEPT ![t] = e]
  /\ UNCHANGED <<toggles, pc, left, step, attempt, final, results, status, lastRun, accepted>>

\* That run went well: forge.run's answer has no field success, so that it does not
\* count as the step's execution, and the tool is executed once more.
ForgeReturns(t) ==
  /\ pc[t] = "forging" /\ tool[t] # None
  /\ Use(t, tool[t])
  /\ UNCHANGED <<registry, accepted>>

\* No provider, no design that passes, or the run in production failed.
ForgeFails(t) ==
  /\ pc[t] = "forging"
  /\ AttemptFails(t, Failed(t))
  /\ UNCHANGED <<registry, accepted>>

\* executeDefinition returns a payload; the model or the objective check looks at it.
ExecutionOk(t) ==
  /\ pc[t] = "executing"
  /\ lastRun' = [lastRun EXCEPT ![t] = tool[t]]
  /\ Goto(t, "verifying")
  /\ UNCHANGED <<registry, left, step, attempt, tool, final, results, status, accepted>>

\* It reports a failure: a refused permission, an error, a timeout.
ExecutionFails(t) ==
  /\ pc[t] = "executing"
  /\ AttemptFails(t, Failed(t))
  /\ UNCHANGED <<registry, accepted>>

Accepted(t) ==
  /\ pc[t] = "verifying"
  /\ accepted' = [accepted EXCEPT ![t] = @ \cup {tool[t]}]
  /\ StepEnds(t, [tool |-> tool[t], success |-> TRUE])
  /\ UNCHANGED <<registry, lastRun>>

\* The result is kept with the tool, and the attempt has failed.
Rejected(t) ==
  /\ pc[t] = "verifying"
  /\ AttemptFails(t, [tool |-> tool[t], success |-> FALSE])
  /\ UNCHANGED <<registry, accepted>>

\* TOOL_TOGGLE
SetEnabled(e) ==
  /\ e \in registered /\ toggles < MaxToggles
  /\ enabled' = IF e \in enabled THEN enabled \ {e} ELSE enabled \cup {e}
  /\ toggles' = toggles + 1
  /\ UNCHANGED <<registered, pc, left, step, attempt, tool, final, results, status, history>>

TaskStep(t) ==
  \/ PlanReady(t) \/ CheckPrevious(t) \/ \E s \in Steps : BeginStep(t, s)
  \/ FindByName(t) \/ BeginForge(t) \/ \E e \in Tools : FindCapability(t, e)
  \/ ForgeReturns(t) \/ ForgeFails(t) \/ \E e \in Tools : ForgeRegisters(t, e)
  \/ ExecutionOk(t) \/ ExecutionFails(t) \/ Accepted(t) \/ Rejected(t)

Next ==
  \/ \E t \in Tasks : RunTask(t) \/ TaskStep(t)
  \/ \E e \in Tools : SetEnabled(e)

Spec == Init /\ [][Next]_vars

-----------------------------------------------------------------------------

\* "without claiming success" (autonomous_execution_engine.ts, summarize): a
\* success in a task's results names a tool that this very task executed and
\* whose outcome was accepted, reused and compared results included; a completed
\* task has no other results, and a failure ends the task.
ClaimsAreBacked ==
  \A t \in Tasks :
    /\ \A i \in DOMAIN results[t] :
         LET r == results[t][i] IN
         /\ r.success => r.tool \in accepted[t]
         /\ ~r.success => i = Len(results[t]) /\ pc[t] = "ended"
    /\ status[t] = "completed" =>
         results[t] # <<>> /\ Last(results[t]).success

\* The trace tells which tool acted ("toolsUsed"): a step that is retried or has
\* ended names in its result the last tool whose execution it brought to an end
\* without an error, whatever was found, forged or failed in the attempts after.
TraceNamesTheTool ==
  \A t \in Tasks :
    /\ pc[t] \in {"attempt", "forging", "executing"} => final[t].tool = lastRun[t]
    /\ pc[t] \in {"step", "ended"} /\ results[t] # <<>> => Last(results[t]).tool = lastRun[t]

\* A trace claims what was done, and names the tool that did it.
TracesAreTrue == ClaimsAreBacked /\ TraceNamesTheTool

=============================================================================
