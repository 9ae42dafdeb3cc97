------------------------------ MODULE ToolForge ------------------------------
(***************************************************************************)
(* The Tool Forge: forgeTool of src/src/main/services/tool_forge.ts, the   *)
(* forge.test and forge.run services of the Python worker, the execution   *)
(* of forged tools by ToolExecutor and the hydration of the tools          *)
(* directory at start-up (autonomous_execution_engine.ts).                 *)
(*                                                                         *)
(* A design is the pair of its forge and the number of repairs before it.  *)
(* Its source, tests and manifest are written together, to the directory   *)
(* of its technical id.  A job waits for the AI provider or for the worker *)
(* between two steps; everything else it does is in one step.              *)
(***************************************************************************)
EXTENDS Integers

CONSTANTS
  Builds,    \* forges begun by ToolBuilder, one at a time (buildQueue)
  Autonomous, \* forges begun by AutonomousExecutionEngine, which do not queue
  TechIds,   \* technical ids the provider or a template may choose
  NoId,
  MaxRepairs \* MAX_REPAIR_ATTEMPTS

ASSUME ForgeAssumption ==
  /\ MaxRepairs \in Nat \ {0}
  /\ NoId \notin TechIds

Jobs == Builds \cup Autonomous
Designs == Jobs \X (0 .. MaxRepairs)

Phases == {"idle",
           "generating",   \* awaits provider.generate
           "test",         \* awaits forge.test in the repair loop
           "finalTest",    \* awaits forge.test before the registration
           "running",      \* registered, awaits forge.run
           "over"}         \* returned, threw, or the app ended under it

Verdicts == {"none", "pass", "fail"}

\* Ways in which production can come to hold a design that was not tested.
Hazards == {"collision",   \* written over the files of a job that relies on them
            "overwrite",   \* written over the files of a registered tool
            "hydrated"}    \* left by a failed or lost job, registered at start-up

VARIABLES
  phase,     \* where each job stands
  repairs,   \* repairCount of each job
  jobId,     \* technical id of each job's current design
  verdict,   \* answer of the worker to each job's test
  files,     \* the design in each directory below the tools root, {} if none
  registry,  \* registered tools: their technical id and their recorded source
  passed,    \* history: designs that passed a sandbox test
  ranUntested, \* history: forge.run executed a design that had not passed
  met        \* history: hazards met so far

jobs    == <<phase, repairs, jobId, verdict>>
history == <<passed, ranUntested, met>>
vars    == <<jobs, files, registry, history>>

TypeOK ==
  /\ phase \in [Jobs -> Phases]
  /\ repairs \in [Jobs -> 0 .. MaxRepairs]
  /\ jobId \in [Jobs -> TechIds \cup {NoId}]
  /\ verdict \in [Jobs -> Verdicts]
  /\ files \in [TechIds -> SUBSET Designs]
  /\ registry \subseteq [id : TechIds, source : Designs]
  /\ passed \subseteq Designs
  /\ ranUntested \in BOOLEAN
  /\ met \subseteq Hazards

Init ==
  /\ phase = [j \in Jobs |-> "idle"]
  /\ repairs = [j \in Jobs |-> 0]
  /\ jobId = [j \in Jobs |-> NoId]
  /\ verdict = [j \in Jobs |-> "none"]
  /\ files = [i \in TechIds |-> {}]
  /\ registry = {}
  /\ passed = {} /\ ranUntested = FALSE /\ met = {}

-----------------------------------------------------------------------------

Design(j) == <<j, repairs[j]>>
Finished == {"idle", "over"}
Registered(i) == \E t \in registry : t.id = i

\* Jobs that rely on the files in the directory of i.
RelyingOn(i) == {j \in Jobs : jobId[j] = i /\ phase[j] \in {"test", "finalTest", "running"}}

\* ensureCapability runs one build after the other.
MayBegin(j) == j \in Builds => \A b \in Builds : phase[b] \in Finished

\* writeArtifacts: nothing is looked at, whatever is there is overwritten.
WriteArtifacts(j, i) ==
  /\ files' = [files EXCEPT ![i] = {Design(j)}]
  /\ met' = met \cup (IF RelyingOn(i) \ {j} # {} THEN {"collision"} ELSE {})
                \cup (IF Registered(i) THEN {"overwrite"} ELSE {})

Await(j, p) ==
  /\ phase' = [phase EXCEPT ![j] = p]
  /\ verdict' = [verdict EXCEPT ![j] = "none"]

\* The jobs in J are over, and their local state is gone with them.
End(J) ==
  /\ phase' = [j \in Jobs |-> IF j \in J THEN "over" ELSE phase[j]]
  /\ verdict' = [j \in Jobs |-> IF j \in J THEN "none" ELSE verdict[j]]
  /\ jobId' = [j \in Jobs |-> IF j \in J THEN NoId ELSE jobId[j]]
  /\ repairs' = [j \in Jobs |-> IF j \in J THEN 0 ELSE repairs[j]]

BeginWithProvider(j) ==
  /\ phase[j] = "idle"
  /\ MayBegin(j)
  /\ Await(j, "generating")
  /\ UNCHANGED <<repairs, jobId, files, registry, history>>

\* A template is reviewed with the project and goes straight to the final test.
BeginWithTemplate(j) ==
  /\ phase[j] = "idle"
  /\ MayBegin(j)
  /\ \E i \in TechIds : WriteArtifacts(j, i) /\ jobId' = [jobId EXCEPT ![j] = i]
  /\ Await(j, "finalTest")
  /\ UNCHANGED <<repairs, registry, passed, ranUntested>>

\* No usable answer, a banned import or call, or no attempt left.
GenerationFails(j) ==
  /\ phase[j] = "generating"
  /\ End({j})
  /\ UNCHANGED <<files, registry, history>>

\* The design of the last repair is not tested any more.
HasAttempt(j) == repairs[j] < MaxRepairs

\* The design is there and passes the strict audit; it is written and tested.
GenerationSucceeds(j) ==
  /\ phase[j] = "generating"
  /\ HasAttempt(j)
  /\ \E i \in TechIds : WriteArtifacts(j, i) /\ jobId' = [jobId EXCEPT ![j] = i]
  /\ Await(j, "test")
  /\ UNCHANGED <<repairs, registry, passed, ranUntested>>

\* The worker copies what is in the directory now and runs its tests; a worker
\* that is lost or times out counts as a failed test.
ForgeTest(j) ==
  /\ phase[j] \in {"test", "finalTest"}
  /\ verdict[j] = "none"
  /\ \E v \in {"pass", "fail"} :
       /\ verdict' = [verdict EXCEPT ![j] = v]
       /\ passed' = IF v = "pass" THEN passed \cup files[jobId[j]] ELSE passed
  /\ UNCHANGED <<phase, repairs, jobId, files, registry, ranUntested, met>>

\* The files are written once more before the final test.
TestPassed(j) ==
  /\ phase[j] = "test" /\ verdict[j] = "pass"
  /\ WriteArtifacts(j, jobId[j])
  /\ Await(j, "finalTest")
  /\ UNCHANGED <<repairs, jobId, registry, passed, ranUntested>>

TestFailed(j) ==
  /\ phase[j] = "test" /\ verdict[j] = "fail"
  /\ repairs' = [repairs EXCEPT ![j] = @ + 1]
  /\ Await(j, "generating")
  /\ UNCHANGED <<jobId, files, registry, history>>

\* A bug: any answer of the final test will do.
AnyVerdict(j) == verdict[j] # "none"

FinalTestOk(j) == verdict[j] = "pass"

\* The tool is registered, and forge.run is requested at once.
Register(j) ==
  /\ phase[j] = "finalTest" /\ FinalTestOk(j)
  /\ registry' = registry \cup {[id |-> jobId[j], source |-> Design(j)]}
  /\ Await(j, "running")
  /\ UNCHANGED <<repairs, jobId, files, history>>

FinalTestFailed(j) ==
  /\ phase[j] = "finalTest" /\ verdict[j] = "fail"
  /\ End({j})
  /\ UNCHANGED <<files, registry, history>>

\* forge.run executes the file in the directory of i.
RunsFile(i) == ranUntested' = (ranUntested \/ ~(files[i] \subseteq passed))

\* forge.run loads what is in the directory now; or the request fails.
RunProduction(j) ==
  /\ phase[j] = "running"
  /\ RunsFile(jobId[j]) \/ UNCHANGED ranUntested
  /\ End({j})
  /\ UNCHANGED <<files, registry, passed, met>>

\* ToolExecutor runs a registered tool for the user: the source on record is
\* not what runs, the file at its sourcePath is.
Execute(t) ==
  /\ t \in registry
  /\ RunsFile(t.id)
  /\ UNCHANGED <<jobs, files, registry, passed, met>>

\* Directories the hydration registers: it looks for a manifest and a tool.py.
Hydratable == {i \in TechIds : files[i] # {} /\ ~Registered(i)}

\* The app ends at any moment and starts again; the registry is persistent.
Restart ==
  /\ End({j \in Jobs : phase[j] \notin Finished})
  /\ registry' = registry \cup {t \in [id : Hydratable, source : Designs] :
                                 t.source \in files[t.id]}
  /\ met' = IF \E i \in Hydratable : ~(files[i] \subseteq passed)
            THEN met \cup {"hydrated"} ELSE met
  /\ UNCHANGED <<files, passed, ranUntested>>

Next ==
  \/ \E j \in Jobs :
       \/ BeginWithProvider(j) \/ BeginWithTemplate(j)
       \/ GenerationFails(j) \/ GenerationSucceeds(j)
       \/ ForgeTest(j) \/ TestPassed(j) \/ TestFailed(j)
       \/ Register(j) \/ FinalTestFailed(j) \/ RunProduction(j)
  \/ \E t \in [id : TechIds, source : Designs] : Execute(t)
  \/ Restart

Spec == Init /\ [][Next]_vars

-----------------------------------------------------------------------------

\* "production never runs untested code" (python/nova_runtime/services/
\* forge.py:13, runtime/worker.py:87-90).
ProductionRunsTested == ~ranUntested

\* As long as nothing is overwritten or hydrated, what a forge puts on record
\* is what it tested and what runs: the recorded source of each registered
\* tool passed its tests and is the content of the file at its sourcePath.
RecordIsTested ==
  met = {} => \A t \in registry : t.source \in passed /\ t.source \in files[t.id]
=============================================================================
