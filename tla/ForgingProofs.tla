---------------------------- MODULE ForgingProofs ----------------------------
(***************************************************************************)
(* Theorems about what forges, asks for and uses tools, for all sets of    *)
(* builds, tasks, tools and requests and all bounds: the Tool Forge, the   *)
(* tasks of the execution engine (T), and the prompts of both (G).         *)
(*                                                                         *)
(*  - RecordsAreTested: what is on record was tested, until a directory is *)
(*    overwritten or an untested one hydrated.                             *)
(*  - TracesTellTheTruth: a trace claims what was done, and names the tool *)
(*    that did it.                                                         *)
(*  - AnswersAreWhole: an undisturbed answer is all of the prompt's own.   *)
(***************************************************************************)
EXTENDS MCForging, SequenceTheorems, TLAPS

-----------------------------------------------------------------------------
(* The Tool Forge.                                                         *)

Testing(j) == phase[j] \in {"test", "finalTest"}

\* A job that is tested has a directory, and one more repair if its test is not the last.
JobsInOrder ==
  \A j \in Jobs : /\ Testing(j) => jobId[j] \in TechIds
                  /\ phase[j] = "test" => repairs[j] < MaxRepairs

\* Without a hazard, the directory of a job that is tested holds its design, and a
\* test that passed is that design's.
FilesAreTheJobs ==
  \A j \in Jobs : Testing(j) => /\ files[jobId[j]] = {Design(j)}
                                /\ verdict[j] = "pass" => Design(j) \in passed

RecordedIsTested == \A t \in registry : t.source \in passed /\ t.source \in files[t.id]

IInv ==
  /\ TypeOK /\ JobsInOrder
  /\ met = {} => FilesAreTheJobs /\ RecordedIsTested

-----------------------------------------------------------------------------

LEMMA InitIInv == Init => IInv
<1> SUFFICES ASSUME Init PROVE IInv
  OBVIOUS
<1> USE ForgeAssumption DEF Init
<1>1. TypeOK
  <2>1. phase \in [Jobs -> Phases] /\ verdict \in [Jobs -> Verdicts]
    BY DEF Phases, Verdicts
  <2>2. repairs \in [Jobs -> 0 .. MaxRepairs] /\ jobId \in [Jobs -> TechIds \cup {NoId}]
    OBVIOUS
  <2>3. QED
    BY <2>1, <2>2 DEF TypeOK
<1>2. \A j \in Jobs : ~Testing(j)
  BY DEF Testing
<1>3. QED
  BY <1>1, <1>2 DEF IInv, JobsInOrder, FilesAreTheJobs, RecordedIsTested, Testing

\* Writing is of the job's design; it is a hazard unless no other job and no tool
\* rely on the directory.
LEMMA WriteEffect ==
  ASSUME TypeOK, NEW j \in Jobs, NEW i \in TechIds, WriteArtifacts(j, i)
  PROVE  /\ files' \in [TechIds -> SUBSET Designs] /\ met' \subseteq Hazards
         /\ files'[i] = {Design(j)}
         /\ \A k \in TechIds : k # i => files'[k] = files[k]
         /\ met' = {} => /\ met = {}
                         /\ \A k \in Jobs : k # j /\ Testing(k) => jobId[k] # i
                         /\ \A t \in registry : t.id # i
<1>1. Design(j) \in Designs
  BY DEF Design, Designs, TypeOK
<1>2. files' \in [TechIds -> SUBSET Designs]
  BY <1>1 DEF WriteArtifacts, TypeOK
<1>3. met' \subseteq Hazards
  BY DEF WriteArtifacts, TypeOK, Hazards
<1>4. files'[i] = {Design(j)} /\ \A k \in TechIds : k # i => files'[k] = files[k]
  BY DEF WriteArtifacts, TypeOK
<1>5. met' = {} => met = {} /\ RelyingOn(i) \ {j} = {} /\ ~Registered(i)
  BY DEF WriteArtifacts
<1>6. QED
  BY <1>2, <1>3, <1>4, <1>5 DEF RelyingOn, Registered, Testing

\* The effect of Await and End on the jobs.
LEMMA AwaitEffect ==
  ASSUME TypeOK, NEW j \in Jobs, NEW p \in Phases, Await(j, p)
  PROVE  /\ phase' \in [Jobs -> Phases] /\ verdict' \in [Jobs -> Verdicts]
         /\ phase'[j] = p /\ verdict'[j] = "none"
         /\ \A k \in Jobs : k # j => phase'[k] = phase[k] /\ verdict'[k] = verdict[k]
BY DEF Await, TypeOK, Verdicts

LEMMA EndEffect ==
  ASSUME TypeOK, NEW J \in SUBSET Jobs, End(J)
  PROVE  /\ phase' \in [Jobs -> Phases] /\ verdict' \in [Jobs -> Verdicts]
         /\ jobId' \in [Jobs -> TechIds \cup {NoId}] /\ repairs' \in [Jobs -> 0 .. MaxRepairs]
         /\ \A k \in J : phase'[k] = "over"
         /\ \A k \in Jobs \ J : /\ phase'[k] = phase[k] /\ verdict'[k] = verdict[k]
                                /\ jobId'[k] = jobId[k] /\ repairs'[k] = repairs[k]
BY ForgeAssumption DEF End, TypeOK, Phases, Verdicts

-----------------------------------------------------------------------------

\* Jobs that end are no longer tested.
LEMMA EndStep ==
  ASSUME IInv, NEW J \in SUBSET Jobs, End(J), UNCHANGED files,
         registry' \subseteq [id : TechIds, source : Designs], passed' = passed,
         ranUntested' \in BOOLEAN, met' \subseteq Hazards,
         met' = {} => met = {} /\ \A t \in registry' \ registry :
                                    t.source \in passed /\ t.source \in files[t.id]
  PROVE  IInv'
<1> USE DEF IInv
<1>1. TypeOK'
  BY EndEffect DEF TypeOK
<1>2. \A k \in Jobs : Testing(k)' => k \notin J /\ Testing(k)
  BY EndEffect DEF Testing
<1>3. JobsInOrder'
  BY <1>2, EndEffect DEF JobsInOrder
<1>4. met' = {} => FilesAreTheJobs' /\ RecordedIsTested'
  BY <1>2, EndEffect DEF FilesAreTheJobs, RecordedIsTested, Design
<1>5. QED
  BY <1>1, <1>3, <1>4

\* A design is written before each test.
LEMMA WriteStep ==
  ASSUME IInv, NEW j \in Jobs, NEW i \in TechIds, NEW p \in {"test", "finalTest"},
         WriteArtifacts(j, i), Await(j, p), jobId' = [jobId EXCEPT ![j] = i],
         p = "test" => repairs[j] < MaxRepairs,
         UNCHANGED <<repairs, registry, passed, ranUntested>>
  PROVE  IInv'
<1> USE DEF IInv
<1>1. p \in Phases
  BY DEF Phases
<1>2. /\ jobId' \in [Jobs -> TechIds \cup {NoId}] /\ jobId'[j] = i
      /\ \A k \in Jobs : k # j => jobId'[k] = jobId[k]
  BY DEF TypeOK
<1>3. TypeOK'
  BY <1>1, <1>2, WriteEffect, AwaitEffect DEF TypeOK
<1>4. /\ Testing(j)' /\ phase'[j] = p /\ verdict'[j] = "none"
      /\ \A k \in Jobs : k # j => /\ phase'[k] = phase[k] /\ verdict'[k] = verdict[k]
                                  /\ Testing(k)' = Testing(k)
      /\ \A k \in Jobs : Design(k)' = Design(k)
  BY <1>1, AwaitEffect DEF Testing, Design
<1>5. JobsInOrder'
  BY <1>2, <1>4 DEF JobsInOrder
<1>6. ASSUME met' = {} PROVE FilesAreTheJobs' /\ RecordedIsTested'
  <2>1. /\ FilesAreTheJobs /\ RecordedIsTested
        /\ \A k \in Jobs : k # j /\ Testing(k) => jobId[k] # i
        /\ \A t \in registry : t.id # i
    BY <1>6, WriteEffect
  <2>2. FilesAreTheJobs'
    BY <1>2, <1>4, <2>1, WriteEffect DEF FilesAreTheJobs, JobsInOrder
  <2>3. RecordedIsTested'
    BY <2>1, WriteEffect DEF RecordedIsTested, TypeOK
  <2>4. QED
    BY <2>2, <2>3
<1>7. QED
  BY <1>3, <1>5, <1>6

LEMMA StepIInv == IInv /\ [Next]_vars => IInv'
<1> SUFFICES ASSUME IInv, [Next]_vars PROVE IInv'
  OBVIOUS
<1> USE DEF IInv
<1>1. ASSUME NEW j \in Jobs, BeginWithProvider(j) PROVE IInv'
  <2>1. /\ Await(j, "generating") /\ UNCHANGED <<repairs, jobId, files, registry, passed, ranUntested, met>>
    BY <1>1 DEF BeginWithProvider, history
  <2>2. TypeOK'
    BY <2>1, AwaitEffect DEF TypeOK, Phases
  <2>3. \A k \in Jobs : Testing(k)' => k # j /\ Testing(k)
    BY <2>1, AwaitEffect DEF Testing, Phases
  <2>4. JobsInOrder' /\ (met' = {} => FilesAreTheJobs' /\ RecordedIsTested')
    BY <2>1, <2>3, AwaitEffect DEF JobsInOrder, FilesAreTheJobs, RecordedIsTested, Design, Phases, Testing
  <2>5. QED
    BY <2>2, <2>4
<1>2. ASSUME NEW j \in Jobs, BeginWithTemplate(j) PROVE IInv'
  BY <1>2, WriteStep DEF BeginWithTemplate
<1>3. ASSUME NEW j \in Jobs, GenerationFails(j) \/ FinalTestFailed(j) PROVE IInv'
  <2>1. End({j}) /\ UNCHANGED <<files, registry, passed, ranUntested, met>>
    BY <1>3 DEF GenerationFails, FinalTestFailed, history
  <2>2. QED
    BY <2>1, EndStep DEF TypeOK
<1>4. ASSUME NEW j \in Jobs, GenerationSucceeds(j) PROVE IInv'
  BY <1>4, WriteStep DEF GenerationSucceeds, HasAttempt
\* What is tested is what is in the directory; without a collision it is the job's design.
<1>5. ASSUME NEW j \in Jobs, ForgeTest(j) PROVE IInv'
  <2>1. PICK v \in {"pass", "fail"} :
          /\ verdict' = [verdict EXCEPT ![j] = v]
          /\ passed' = IF v = "pass" THEN passed \cup files[jobId[j]] ELSE passed
    BY <1>5 DEF ForgeTest
  <2>2. Testing(j) /\ UNCHANGED <<phase, repairs, jobId, files, registry, ranUntested, met>>
    BY <1>5 DEF ForgeTest, Testing
  <2>3. jobId[j] \in TechIds
    BY <2>2 DEF JobsInOrder
  <2>4. TypeOK'
    BY <2>1, <2>2, <2>3 DEF TypeOK, Verdicts
  <2>5. JobsInOrder'
    BY <2>2 DEF JobsInOrder, Testing
  <2>6. ASSUME met = {} PROVE FilesAreTheJobs' /\ RecordedIsTested'
    <3>1. FilesAreTheJobs /\ RecordedIsTested
      BY <2>6
    <3>2. /\ passed \subseteq passed' /\ (v = "pass" => Design(j) \in passed')
          /\ verdict'[j] = v /\ \A k \in Jobs : k # j => verdict'[k] = verdict[k]
      BY <2>1, <2>2, <3>1 DEF FilesAreTheJobs, TypeOK
    <3>3. FilesAreTheJobs'
      BY <2>2, <3>1, <3>2 DEF FilesAreTheJobs, Testing, Design
    <3>4. RecordedIsTested'
      BY <2>2, <3>1, <3>2 DEF RecordedIsTested
    <3>5. QED
      BY <3>3, <3>4
  <2>7. QED
    BY <2>2, <2>4, <2>5, <2>6
<1>6. ASSUME NEW j \in Jobs, TestPassed(j) PROVE IInv'
  <2>1. jobId[j] \in TechIds /\ jobId' = [jobId EXCEPT ![j] = jobId[j]]
    BY <1>6 DEF TestPassed, JobsInOrder, Testing, TypeOK
  <2>2. QED
    BY <1>6, <2>1, WriteStep DEF TestPassed
<1>7. ASSUME NEW j \in Jobs, TestFailed(j) PROVE IInv'
  <2>1. /\ phase[j] = "test" /\ Await(j, "generating") /\ repairs' = [repairs EXCEPT ![j] = @ + 1]
        /\ UNCHANGED <<jobId, files, registry, passed, ranUntested, met>>
    BY <1>7 DEF TestFailed, history
  <2>2. repairs' \in [Jobs -> 0 .. MaxRepairs] /\ \A k \in Jobs : k # j => repairs'[k] = repairs[k]
    BY <2>1, ForgeAssumption DEF TypeOK, JobsInOrder
  <2>3. TypeOK'
    BY <2>1, <2>2, AwaitEffect DEF TypeOK, Phases
  <2>4. \A k \in Jobs : Testing(k)' => k # j /\ Testing(k)
    BY <2>1, AwaitEffect DEF Testing, Phases
  <2>5. JobsInOrder' /\ (met' = {} => FilesAreTheJobs' /\ RecordedIsTested')
    BY <2>1, <2>2, <2>4, AwaitEffect
    DEF JobsInOrder, FilesAreTheJobs, RecordedIsTested, Design, Phases, Testing
  <2>6. QED
    BY <2>3, <2>5
<1>8. ASSUME NEW j \in Jobs, Register(j) PROVE IInv'
  <2>1. /\ phase[j] = "finalTest" /\ verdict[j] = "pass" /\ Await(j, "running")
        /\ registry' = registry \cup {[id |-> jobId[j], source |-> Design(j)]}
        /\ UNCHANGED <<repairs, jobId, files, passed, ranUntested, met>>
    BY <1>8 DEF Register, FinalTestOk, history
  <2>2. Testing(j) /\ jobId[j] \in TechIds /\ Design(j) \in Designs
    BY <2>1 DEF Testing, JobsInOrder, Design, Designs, TypeOK
  <2>3. TypeOK'
    BY <2>1, <2>2, AwaitEffect DEF TypeOK, Phases
  <2>4. \A k \in Jobs : Testing(k)' => k # j /\ Testing(k)
    BY <2>1, AwaitEffect DEF Testing, Phases
  <2>5. JobsInOrder' /\ (met' = {} => FilesAreTheJobs')
    BY <2>1, <2>4, AwaitEffect DEF JobsInOrder, FilesAreTheJobs, Design, Phases, Testing
  <2>6. met' = {} => RecordedIsTested'
    BY <2>1, <2>2 DEF FilesAreTheJobs, RecordedIsTested
  <2>7. QED
    BY <2>3, <2>5, <2>6
<1>9. ASSUME NEW j \in Jobs, RunProduction(j) PROVE IInv'
  <2>1. End({j}) /\ UNCHANGED <<files, registry, passed, met>> /\ ranUntested' \in BOOLEAN
    BY <1>9 DEF RunProduction, RunsFile, TypeOK
  <2>2. QED
    BY <2>1, EndStep DEF TypeOK
<1>10. ASSUME NEW t \in [id : TechIds, source : Designs], Execute(t) PROVE IInv'
  <2>1. UNCHANGED <<phase, repairs, jobId, verdict, files, registry, passed, met>> /\ ranUntested' \in BOOLEAN
    BY <1>10 DEF Execute, RunsFile, jobs, TypeOK
  <2>2. QED
    BY <2>1 DEF TypeOK, JobsInOrder, FilesAreTheJobs, RecordedIsTested, Testing, Design
<1>11. CASE Restart
  <2>1. PICK J \in SUBSET Jobs : End(J)
    BY <1>11 DEF Restart
  <2>2. UNCHANGED <<files, passed, ranUntested>>
        /\ registry' = registry \cup {t \in [id : Hydratable, source : Designs] : t.source \in files[t.id]}
    BY <1>11 DEF Restart
  <2>3. met' \subseteq Hazards /\ (met' = {} => met = {} /\ \A i \in Hydratable : files[i] \subseteq passed)
    BY <1>11 DEF Restart, TypeOK, Hazards
  <2>4. Hydratable \subseteq TechIds
    BY DEF Hydratable
  <2>5. registry' \subseteq [id : TechIds, source : Designs]
    BY <2>2, <2>4 DEF TypeOK
  <2>6. met' = {} => \A t \in registry' \ registry : t.source \in passed /\ t.source \in files[t.id]
    BY <2>2, <2>3
  <2>7. QED
    BY <2>1, <2>2, <2>3, <2>5, <2>6, EndStep DEF TypeOK
<1>12. CASE UNCHANGED vars
  BY <1>12 DEF vars, jobs, history, TypeOK, JobsInOrder, FilesAreTheJobs, RecordedIsTested, Testing, Design
<1>13. QED
  BY <1>1, <1>2, <1>3, <1>4, <1>5, <1>6, <1>7, <1>8, <1>9, <1>10, <1>11, <1>12 DEF Next

-----------------------------------------------------------------------------

\* "production never runs untested code" (forge.py:13), as far as the forge's own books
\* go: what it puts on record passed its tests and is in the file that runs.
THEOREM RecordsAreTested == Spec => []RecordIsTested
<1>1. IInv => RecordIsTested
  BY DEF IInv, RecordIsTested, RecordedIsTested
<1>2. QED
  BY <1>1, InitIInv, StepIInv, PTL DEF Spec

\* Every job, directory and record has its type; a design is never repaired more often
\* than MAX_REPAIR_ATTEMPTS allows.
THEOREM TypeCorrect == Spec => []TypeOK
<1>1. IInv => TypeOK
  BY DEF IInv
<1>2. QED
  BY <1>1, InitIInv, StepIInv, PTL DEF Spec

-----------------------------------------------------------------------------
(* Tasks.                                                                  *)

Active == {"step", "attempt", "forging", "executing", "verifying"}

\* Until it has ended a task only has successes; the tool a result will name is the
\* one that was last executed.
TaskInOrder(t) ==
  /\ pc[t] \in {"idle", "planning"} => results[t] = <<>> /\ left[t] = 0
  /\ pc[t] \in Active => left[t] >= 1
  /\ pc[t] \in {"idle", "planning", "step"} => final[t] = T!NoResult
  /\ pc[t] \in {"attempt", "forging", "executing"} => final[t].tool = lastRun[t]
  /\ pc[t] \in {"executing", "verifying"} => tool[t] # None
  /\ pc[t] = "verifying" => tool[t] = lastRun[t]
  /\ pc[t] # "ended" => status[t] = "none" /\ \A i \in DOMAIN results[t] : results[t][i].success
  /\ pc[t] \in {"step", "ended"} /\ results[t] # <<>> =>
       results[t][Len(results[t])].tool = lastRun[t]
  /\ \A i \in DOMAIN results[t] :
       /\ results[t][i].success => results[t][i].tool \in accepted[t]
       /\ ~results[t][i].success => i = Len(results[t]) /\ pc[t] = "ended"
  /\ status[t] = "completed" => results[t] # <<>> /\ results[t][Len(results[t])].success

TasksInv == T!TypeOK /\ \A t \in Tasks : TaskInOrder(t)

\* A task of which nothing has changed is still in order.
Untouched(q) ==
  /\ pc'[q] = pc[q] /\ left'[q] = left[q] /\ tool'[q] = tool[q] /\ final'[q] = final[q]
  /\ results'[q] = results[q] /\ status'[q] = status[q]
  /\ lastRun'[q] = lastRun[q] /\ accepted'[q] = accepted[q]

LEMMA UntouchedInOrder ==
  ASSUME NEW q, Untouched(q), TaskInOrder(q) PROVE TaskInOrder(q)'
BY DEF Untouched, TaskInOrder

LEMMA Appended ==
  ASSUME NEW S, NEW s \in Seq(S), NEW e \in S
  PROVE  /\ Append(s, e) \in Seq(S) /\ Append(s, e) # <<>>
         /\ Len(Append(s, e)) = Len(s) + 1 /\ Append(s, e)[Len(s) + 1] = e
         /\ DOMAIN Append(s, e) = 1 .. Len(s) + 1 /\ DOMAIN s = 1 .. Len(s)
         /\ \A i \in 1 .. Len(s) : Append(s, e)[i] = s[i]
OBVIOUS

\* A step ends with a result that names the tool last executed, and claims a success
\* only of an accepted one.
LEMMA StepEndsInOrder ==
  ASSUME T!TasksAssumption, TasksInv, NEW t \in Tasks, NEW r \in T!Results, T!StepEnds(t, r),
         pc[t] \in Active,
         lastRun' \in [Tasks -> Tools \cup {None}], accepted' \in [Tasks -> SUBSET Tools],
         r.tool = lastRun'[t], r.success => r.tool \in accepted'[t],
         accepted[t] \subseteq accepted'[t],
         \A q \in Tasks \ {t} : lastRun'[q] = lastRun[q] /\ accepted'[q] = accepted[q],
         UNCHANGED T!registry
  PROVE  TasksInv'
<1> USE DEF TasksInv
<1>1. results[t] \in Seq(T!Results) /\ left[t] \in Nat /\ left[t] >= 1 /\ r.success \in BOOLEAN
      /\ MaxSteps[t] \in Nat /\ Len(results[t]) + left[t] <= MaxSteps[t]
  BY DEF T!TypeOK, TaskInOrder, T!Results, T!TasksAssumption
<1>2. /\ results'[t] = Append(results[t], r) /\ left'[t] = left[t] - 1
      /\ final'[t] = T!NoResult /\ tool'[t] = None
  BY DEF T!StepEnds, T!TypeOK
<1>3. \/ r.success /\ left[t] > 1 /\ pc'[t] = "step" /\ status'[t] = status[t]
      \/ ~(r.success /\ left[t] > 1) /\ pc'[t] = "ended" /\ status'[t] = T!StatusAfter(r)
  BY DEF T!StepEnds, T!Goto, T!TypeOK
<1>4. \A q \in Tasks \ {t} : Untouched(q)
  BY DEF T!StepEnds, T!Goto, T!TypeOK, Untouched
<1>5. T!TypeOK'
  <2>1. registered' \subseteq Tools /\ enabled' \subseteq registered' /\ toggles' \in 0 .. MaxToggles
    BY DEF T!TypeOK, T!registry
  <2>2. /\ left[t] - 1 \in Nat /\ T!NoResult \in T!Results /\ T!NoStep \in T!Steps
        /\ 0 \in 0 .. MaxAttempts /\ T!StatusAfter(r) \in {"none", "completed", "partial"}
    BY <1>1 DEF T!NoResult, T!Results, T!NoStep, T!Steps, T!StatusAfter, T!TasksAssumption
  <2>3. Append(results[t], r) \in Seq(T!Results)
    BY <1>1, Appended
  <2>4. left' \in [Tasks -> Nat] /\ attempt' \in [Tasks -> 0 .. MaxAttempts]
    BY <2>2 DEF T!TypeOK, T!StepEnds
  <2>5. step' \in [Tasks -> T!Steps] /\ final' \in [Tasks -> T!Results]
        /\ tool' \in [Tasks -> Tools \cup {None}]
    BY <2>2 DEF T!TypeOK, T!StepEnds
  <2>6. results' \in [Tasks -> Seq(T!Results)]
    BY <2>3 DEF T!TypeOK, T!StepEnds
  <2>7. /\ pc' \in [Tasks -> {"idle", "planning", "step", "attempt", "forging", "executing",
                              "verifying", "ended"}]
        /\ status' \in [Tasks -> {"none", "completed", "partial"}]
    BY <2>2 DEF T!TypeOK, T!StepEnds, T!Goto
  <2>8. Len(results'[t]) + left'[t] <= MaxSteps[t]
    BY <1>1, <1>2, Appended
  <2>9. \A q \in Tasks : Len(results'[q]) + left'[q] <= MaxSteps[q]
    BY <1>4, <2>8 DEF T!TypeOK, Untouched
  <2>10. QED
    BY <2>1, <2>4, <2>5, <2>6, <2>7, <2>9 DEF T!TypeOK
<1>6. TaskInOrder(t)'
  <2>1. /\ DOMAIN results'[t] = 1 .. Len(results[t]) + 1 /\ DOMAIN results[t] = 1 .. Len(results[t])
        /\ Len(results'[t]) = Len(results[t]) + 1 /\ results'[t][Len(results[t]) + 1] = r
        /\ results'[t] # <<>>
        /\ \A i \in 1 .. Len(results[t]) : results'[t][i] = results[t][i]
    BY <1>1, <1>2, Appended, SMTT(30)
  <2>2. /\ \A i \in 1 .. Len(results[t]) : results[t][i].success /\ results[t][i].tool \in accepted[t]
        /\ status[t] = "none" /\ pc[t] \notin {"ended"}
    BY <2>1 DEF TaskInOrder, Active
  <2>3. \A i \in 1 .. Len(results[t]) + 1 : i \in 1 .. Len(results[t]) \/ i = Len(results[t]) + 1
    BY <1>1
  <2>4. \A i \in DOMAIN results'[t] :
          /\ results'[t][i].success => results'[t][i].tool \in accepted'[t]
          /\ ~results'[t][i].success => i = Len(results'[t]) /\ pc'[t] = "ended"
    BY <1>3, <2>1, <2>2, <2>3
  <2>5. pc'[t] # "ended" => status'[t] = "none" /\ \A i \in DOMAIN results'[t] : results'[t][i].success
    BY <1>3, <2>1, <2>2, <2>3
  <2>6. status'[t] = "completed" => results'[t][Len(results'[t])].success
    BY <1>3, <2>1, <2>2 DEF T!StatusAfter
  <2>7. results'[t][Len(results'[t])].tool = lastRun'[t]
    BY <2>1
  <2>8. pc'[t] \in Active => left'[t] >= 1
    BY <1>1, <1>2, <1>3 DEF Active
  <2>9. pc'[t] \in {"step", "ended"}
    BY <1>3
  <2>10. QED
    BY <1>2, <2>1, <2>4, <2>5, <2>6, <2>7, <2>8, <2>9 DEF TaskInOrder
<1>7. QED
  BY <1>4, <1>5, <1>6, UntouchedInOrder

\* What the task waits for changes, and no result is added.
LEMMA TaskMoves ==
  ASSUME T!TasksAssumption, TasksInv, NEW t \in Tasks, T!TypeOK',
         \A q \in Tasks \ {t} : Untouched(q), TaskInOrder(t)'
  PROVE  TasksInv'
BY UntouchedInOrder DEF TasksInv

LEMMA AttemptFailsInOrder ==
  ASSUME T!TasksAssumption, TasksInv, NEW t \in Tasks, NEW r \in T!Results, T!AttemptFails(t, r),
         pc[t] \in Active, r.tool = lastRun[t], ~r.success, UNCHANGED <<T!registry, accepted>>
  PROVE  TasksInv'
<1>1. CASE ~T!TriesAgain(t)
  BY <1>1, StepEndsInOrder DEF T!AttemptFails, TasksInv, T!TypeOK
<1>2. CASE T!TriesAgain(t)
  <2>1. /\ attempt' = [attempt EXCEPT ![t] = @ + 1] /\ final' = [final EXCEPT ![t] = r]
        /\ tool' = [tool EXCEPT ![t] = None] /\ pc' = [pc EXCEPT ![t] = "attempt"]
        /\ UNCHANGED <<left, step, results, status, lastRun, accepted>>
    BY <1>2 DEF T!AttemptFails, T!Goto
  <2>2. attempt[t] + 1 \in 0 .. MaxAttempts
    BY <1>2 DEF T!TriesAgain, TasksInv, T!TypeOK, T!TasksAssumption
  <2>3. attempt' \in [Tasks -> 0 .. MaxAttempts]
    BY <2>1, <2>2 DEF TasksInv, T!TypeOK
  <2>4. T!TypeOK'
    BY <2>1, <2>3 DEF TasksInv, T!TypeOK, T!registry
  <2>5. \A q \in Tasks \ {t} : Untouched(q)
    BY <2>1 DEF TasksInv, T!TypeOK, Untouched
  <2>6. pc'[t] = "attempt" /\ final'[t] = r /\ tool'[t] = None
    BY <2>1 DEF TasksInv, T!TypeOK
  <2>7. TaskInOrder(t)'
    BY <2>1, <2>6 DEF TasksInv, TaskInOrder, Active
  <2>8. QED
    BY <2>4, <2>5, <2>7, TaskMoves
<1>3. QED
  BY <1>1, <1>2

\* A tool that was found or forged is executed, unless a result of it is there.
LEMMA UseInOrder ==
  ASSUME T!TasksAssumption, TasksInv, NEW t \in Tasks, NEW e \in Tools, T!Use(t, e),
         pc[t] \in {"attempt", "forging"}, UNCHANGED <<T!registry, accepted>>
  PROVE  TasksInv'
<1> USE DEF TasksInv
<1>1. CASE step[t].runs /\ T!ResultBefore(t, e)
  <2>1. PICK i \in DOMAIN results[t] : results[t][i].success /\ results[t][i].tool = e
    BY <1>1 DEF T!ResultBefore, T!ToSet
  <2>2. e \in accepted[t]
    BY <2>1 DEF TaskInOrder
  <2>3. T!StepEnds(t, [tool |-> e, success |-> TRUE]) /\ lastRun' = [lastRun EXCEPT ![t] = e]
    BY <1>1 DEF T!Use
  <2>4. [tool |-> e, success |-> TRUE] \in T!Results /\ pc[t] \in Active
    BY DEF T!Results, Active
  <2>5. lastRun' \in [Tasks -> Tools \cup {None}] /\ lastRun'[t] = e
        /\ \A q \in Tasks \ {t} : lastRun'[q] = lastRun[q]
    BY <2>3 DEF T!TypeOK
  <2>6. accepted' \in [Tasks -> SUBSET Tools] /\ accepted' = accepted
    BY DEF T!TypeOK
  <2>7. QED
    BY <2>2, <2>3, <2>4, <2>5, <2>6, StepEndsInOrder
<1>2. CASE ~(step[t].runs /\ T!ResultBefore(t, e))
  <2>1. /\ tool' = [tool EXCEPT ![t] = e] /\ pc' = [pc EXCEPT ![t] = "executing"]
        /\ UNCHANGED <<left, step, attempt, final, results, status, lastRun, accepted>>
    BY <1>2 DEF T!Use, T!Goto
  <2>2. T!TypeOK'
    BY <2>1 DEF T!TypeOK, T!registry
  <2>3. \A q \in Tasks \ {t} : Untouched(q)
    BY <2>1 DEF T!TypeOK, Untouched
  <2>4. pc'[t] = "executing" /\ tool'[t] = e /\ e # None
    BY <2>1 DEF T!TypeOK, T!TasksAssumption
  <2>5. TaskInOrder(t)'
    BY <2>1, <2>4 DEF TaskInOrder, Active
  <2>6. QED
    BY <2>2, <2>3, <2>5, TaskMoves
<1>3. QED
  BY <1>1, <1>2

LEMMA TasksBegin == T!TasksAssumption /\ T!Init => TasksInv
<1> SUFFICES ASSUME T!TasksAssumption, T!Init PROVE TasksInv
  OBVIOUS
<1>1. T!NoResult \in T!Results /\ T!NoStep \in T!Steps /\ 0 \in 0 .. MaxAttempts
      /\ 0 \in 0 .. MaxToggles
  BY DEF T!NoResult, T!Results, T!NoStep, T!Steps, T!TasksAssumption
<1>2. \A t \in Tasks : results[t] = <<>> /\ left[t] = 0 /\ Len(results[t]) + left[t] <= MaxSteps[t]
  BY DEF T!Init, T!TasksAssumption
<1>3. results \in [Tasks -> Seq(T!Results)]
  BY DEF T!Init
<1>4. T!TypeOK
  BY <1>1, <1>2, <1>3 DEF T!Init, T!TypeOK, T!TasksAssumption
<1>5. \A t \in Tasks : TaskInOrder(t)
  BY <1>2 DEF T!Init, TaskInOrder, Active
<1>6. QED
  BY <1>4, <1>5 DEF TasksInv

LEMMA TaskSteps == T!TasksAssumption /\ TasksInv /\ [T!Next]_(T!vars) => TasksInv'
<1> SUFFICES ASSUME T!TasksAssumption, TasksInv, [T!Next]_(T!vars) PROVE TasksInv'
  OBVIOUS
<1> USE DEF TasksInv
<1>1. ASSUME NEW t \in Tasks, T!RunTask(t) PROVE TasksInv'
  <2>1. PICK n \in {0, 1} : /\ pc' = [pc EXCEPT ![t] = IF n = 0 THEN "planning" ELSE "step"]
                            /\ left' = [left EXCEPT ![t] = n]
    <3>1. left[t] = 0 /\ left = [left EXCEPT ![t] = 0]
      BY <1>1 DEF T!RunTask, TaskInOrder, T!TypeOK
    <3>2. QED
      BY <1>1, <3>1 DEF T!RunTask, T!Goto
  <2>2. /\ pc[t] = "idle"
        /\ UNCHANGED <<T!registry, step, attempt, tool, final, results, status, lastRun, accepted>>
    BY <1>1 DEF T!RunTask, T!history
  <2>3. results[t] = <<>> /\ MaxSteps[t] \in Nat \ {0} /\ Len(results[t]) = 0
    BY <2>2 DEF TaskInOrder, T!TasksAssumption
  <2>4. \A q \in Tasks \ {t} : Untouched(q)
    BY <2>1, <2>2 DEF T!TypeOK, Untouched
  <2>5. left' \in [Tasks -> Nat] /\ left'[t] = n /\ n <= MaxSteps[t]
    BY <2>1, <2>3 DEF T!TypeOK
  <2>6. \A q \in Tasks : Len(results'[q]) + left'[q] <= MaxSteps[q]
    <3>1. Len(results'[t]) + left'[t] = n
      BY <2>2, <2>3, <2>5
    <3>2. \A q \in Tasks \ {t} : Len(results'[q]) + left'[q] <= MaxSteps[q]
      BY <2>4 DEF T!TypeOK, Untouched
    <3>3. QED
      BY <2>5, <3>1, <3>2
  <2>7. T!TypeOK'
    BY <2>1, <2>2, <2>5, <2>6 DEF T!TypeOK, T!registry
  <2>8. TaskInOrder(t)'
    <3>1. pc'[t] = (IF n = 0 THEN "planning" ELSE "step") /\ left'[t] = n
      BY <2>1, <2>5 DEF T!TypeOK
    <3>2. QED
      BY <2>2, <2>3, <3>1 DEF TaskInOrder, Active
  <2>9. QED
    BY <2>4, <2>7, <2>8, TaskMoves
<1>2. ASSUME NEW t \in Tasks, T!PlanReady(t) PROVE TasksInv'
  <2>1. PICK n \in 1 .. MaxSteps[t] : left' = [left EXCEPT ![t] = n]
    BY <1>2 DEF T!PlanReady
  <2>2. /\ pc[t] = "planning" /\ pc' = [pc EXCEPT ![t] = "step"]
        /\ UNCHANGED <<T!registry, step, attempt, tool, final, results, status, lastRun, accepted>>
    BY <1>2 DEF T!PlanReady, T!Goto, T!history
  <2>3. results[t] = <<>> /\ MaxSteps[t] \in Nat \ {0} /\ Len(results[t]) = 0
    BY <2>2 DEF TaskInOrder, T!TasksAssumption
  <2>4. \A q \in Tasks \ {t} : Untouched(q)
    BY <2>1, <2>2 DEF T!TypeOK, Untouched
  <2>5. left' \in [Tasks -> Nat] /\ left'[t] = n /\ n <= MaxSteps[t] /\ n >= 1
    BY <2>1, <2>3 DEF T!TypeOK
  <2>6. \A q \in Tasks : Len(results'[q]) + left'[q] <= MaxSteps[q]
    <3>1. Len(results'[t]) + left'[t] = n
      BY <2>2, <2>3, <2>5
    <3>2. \A q \in Tasks \ {t} : Len(results'[q]) + left'[q] <= MaxSteps[q]
      BY <2>4 DEF T!TypeOK, Untouched
    <3>3. QED
      BY <2>5, <3>1, <3>2
  <2>7. T!TypeOK'
    BY <2>2, <2>5, <2>6 DEF T!TypeOK, T!registry
  <2>8. TaskInOrder(t)'
    BY <2>2, <2>3, <2>5 DEF T!TypeOK, TaskInOrder, Active
  <2>9. QED
    BY <2>4, <2>7, <2>8, TaskMoves
\* The step compares the result before it, which is a success and names its tool.
<1>3. ASSUME NEW t \in Tasks, T!CheckPrevious(t) PROVE TasksInv'
  <2> DEFINE before == results[t][Len(results[t])]
  <2>1. PICK same \in BOOLEAN : T!StepEnds(t, [tool |-> before.tool, success |-> same])
    BY <1>3 DEF T!CheckPrevious, T!Last
  <2>2. pc[t] = "step" /\ results[t] # <<>> /\ UNCHANGED <<T!registry, lastRun, accepted>>
    BY <1>3 DEF T!CheckPrevious, T!history
  <2>3. Len(results[t]) \in DOMAIN results[t] /\ before \in T!Results
    BY <2>2 DEF T!TypeOK
  <2>4. before.tool \in accepted[t] /\ before.tool = lastRun[t] /\ before.tool \in Tools \cup {None}
    BY <2>2, <2>3 DEF TaskInOrder, T!Results
  <2>5. [tool |-> before.tool, success |-> same] \in T!Results /\ pc[t] \in Active
    BY <2>2, <2>4 DEF T!Results, Active
  <2>6. lastRun' \in [Tasks -> Tools \cup {None}] /\ accepted' \in [Tasks -> SUBSET Tools]
    BY <2>2 DEF T!TypeOK
  <2> HIDE DEF before
  <2>7. QED
    BY <2>1, <2>2, <2>4, <2>5, <2>6, StepEndsInOrder
<1>4. ASSUME NEW t \in Tasks, NEW s \in T!Steps, T!BeginStep(t, s) PROVE TasksInv'
  <2>1. /\ pc[t] = "step" /\ pc' = [pc EXCEPT ![t] = "attempt"] /\ step' = [step EXCEPT ![t] = s]
        /\ attempt' = [attempt EXCEPT ![t] = 1] /\ lastRun' = [lastRun EXCEPT ![t] = None]
        /\ UNCHANGED <<T!registry, left, tool, final, results, status, accepted>>
    BY <1>4 DEF T!BeginStep, T!Goto
  <2>2. attempt' \in [Tasks -> 0 .. MaxAttempts]
    <3>1. 1 \in 0 .. MaxAttempts
      BY DEF T!TasksAssumption
    <3>2. QED
      BY <2>1, <3>1 DEF T!TypeOK
  <2>3. T!TypeOK'
    BY <2>1, <2>2 DEF T!TypeOK, T!registry
  <2>4. \A q \in Tasks \ {t} : Untouched(q)
    BY <2>1 DEF T!TypeOK, Untouched
  <2>5. TaskInOrder(t)'
    <3>1. final[t].tool = None
      BY <2>1 DEF TaskInOrder, T!NoResult
    <3>2. pc'[t] = "attempt" /\ lastRun'[t] = None
      BY <2>1 DEF T!TypeOK
    <3>3. QED
      BY <2>1, <3>1, <3>2 DEF TaskInOrder, Active
  <2>6. QED
    BY <2>3, <2>4, <2>5, TaskMoves
<1>5. ASSUME NEW t \in Tasks, T!FindByName(t) PROVE TasksInv'
  <2>1. step[t].tool \in Tools
    BY <1>5 DEF T!FindByName, T!TypeOK
  <2>2. QED
    BY <1>5, <2>1, UseInOrder DEF T!FindByName
<1>6. ASSUME NEW t \in Tasks, NEW e \in Tools, T!FindCapability(t, e) PROVE TasksInv'
  BY <1>6, UseInOrder DEF T!FindCapability
<1>7. ASSUME NEW t \in Tasks, T!BeginForge(t) PROVE TasksInv'
  <2>1. /\ pc[t] = "attempt" /\ pc' = [pc EXCEPT ![t] = "forging"]
        /\ UNCHANGED <<T!registry, left, step, attempt, tool, final, results, status, lastRun, accepted>>
    BY <1>7 DEF T!BeginForge, T!Goto, T!history
  <2>2. T!TypeOK' /\ \A q \in Tasks \ {t} : Untouched(q)
    BY <2>1 DEF T!TypeOK, T!registry, Untouched
  <2>3. TaskInOrder(t)'
    BY <2>1 DEF T!TypeOK, TaskInOrder, Active
  <2>4. QED
    BY <2>2, <2>3, TaskMoves
<1>8. ASSUME NEW t \in Tasks, NEW e \in Tools, T!ForgeRegisters(t, e) PROVE TasksInv'
  <2>1. /\ pc[t] = "forging" /\ tool' = [tool EXCEPT ![t] = e]
        /\ registered' = registered \cup {e} /\ enabled' = enabled \cup {e}
        /\ UNCHANGED <<toggles, pc, left, step, attempt, final, results, status, lastRun, accepted>>
    BY <1>8 DEF T!ForgeRegisters
  <2>2. T!TypeOK' /\ \A q \in Tasks \ {t} : Untouched(q)
    BY <2>1 DEF T!TypeOK, Untouched
  <2>3. TaskInOrder(t)'
    BY <2>1 DEF T!TypeOK, TaskInOrder, Active
  <2>4. QED
    BY <2>2, <2>3, TaskMoves
<1>9. ASSUME NEW t \in Tasks, T!ForgeReturns(t) PROVE TasksInv'
  <2>1. tool[t] \in Tools
    BY <1>9 DEF T!ForgeReturns, T!TypeOK
  <2>2. QED
    BY <1>9, <2>1, UseInOrder DEF T!ForgeReturns
<1>10. ASSUME NEW t \in Tasks, T!ForgeFails(t) \/ T!ExecutionFails(t) PROVE TasksInv'
  <2>1. /\ pc[t] \in {"forging", "executing"} /\ T!AttemptFails(t, T!Failed(t))
        /\ UNCHANGED <<T!registry, accepted>>
    BY <1>10 DEF T!ForgeFails, T!ExecutionFails
  <2>2. final[t] \in T!Results /\ final[t].tool = lastRun[t]
    BY <2>1 DEF T!TypeOK, TaskInOrder
  <2>3. /\ T!Failed(t) \in T!Results /\ T!Failed(t).tool = lastRun[t] /\ ~T!Failed(t).success
        /\ pc[t] \in Active
    BY <2>1, <2>2 DEF T!Failed, T!Results, Active
  <2>4. QED
    BY <2>1, <2>3, AttemptFailsInOrder
<1>11. ASSUME NEW t \in Tasks, T!ExecutionOk(t) PROVE TasksInv'
  <2>1. /\ pc[t] = "executing" /\ pc' = [pc EXCEPT ![t] = "verifying"]
        /\ lastRun' = [lastRun EXCEPT ![t] = tool[t]]
        /\ UNCHANGED <<T!registry, left, step, attempt, tool, final, results, status, accepted>>
    BY <1>11 DEF T!ExecutionOk, T!Goto
  <2>2. T!TypeOK' /\ \A q \in Tasks \ {t} : Untouched(q)
    BY <2>1 DEF T!TypeOK, T!registry, Untouched
  <2>3. TaskInOrder(t)'
    BY <2>1 DEF T!TypeOK, TaskInOrder, Active
  <2>4. QED
    BY <2>2, <2>3, TaskMoves
<1>12. ASSUME NEW t \in Tasks, T!Accepted(t) PROVE TasksInv'
  <2>1. /\ pc[t] = "verifying" /\ accepted' = [accepted EXCEPT ![t] = @ \cup {tool[t]}]
        /\ T!StepEnds(t, [tool |-> tool[t], success |-> TRUE])
        /\ UNCHANGED <<T!registry, lastRun>>
    BY <1>12 DEF T!Accepted
  <2>2. tool[t] \in Tools /\ tool[t] = lastRun[t]
    BY <2>1 DEF T!TypeOK, TaskInOrder
  <2>3. /\ accepted' \in [Tasks -> SUBSET Tools] /\ accepted'[t] = accepted[t] \cup {tool[t]}
        /\ \A q \in Tasks \ {t} : accepted'[q] = accepted[q]
    BY <2>1, <2>2 DEF T!TypeOK
  <2>4. [tool |-> tool[t], success |-> TRUE] \in T!Results /\ pc[t] \in Active
        /\ lastRun' \in [Tasks -> Tools \cup {None}] /\ lastRun' = lastRun
    BY <2>1, <2>2 DEF T!Results, T!TypeOK, Active
  <2>5. QED
    BY <2>1, <2>2, <2>3, <2>4, StepEndsInOrder
<1>13. ASSUME NEW t \in Tasks, T!Rejected(t) PROVE TasksInv'
  <2>1. /\ pc[t] = "verifying" /\ T!AttemptFails(t, [tool |-> tool[t], success |-> FALSE])
        /\ UNCHANGED <<T!registry, accepted>>
    BY <1>13 DEF T!Rejected
  <2>2. [tool |-> tool[t], success |-> FALSE] \in T!Results /\ tool[t] = lastRun[t]
        /\ pc[t] \in Active
    BY <2>1 DEF T!Results, T!TypeOK, TaskInOrder, Active
  <2>3. QED
    BY <2>1, <2>2, AttemptFailsInOrder
<1>14. ASSUME NEW e \in Tools, T!SetEnabled(e) PROVE TasksInv'
  <2>1. /\ e \in registered /\ toggles < MaxToggles /\ toggles' = toggles + 1
        /\ enabled' = (IF e \in enabled THEN enabled \ {e} ELSE enabled \cup {e})
        /\ UNCHANGED <<registered, pc, left, step, attempt, tool, final, results, status, lastRun,
                       accepted>>
    BY <1>14 DEF T!SetEnabled, T!history
  <2>2. toggles' \in 0 .. MaxToggles
    BY <2>1 DEF T!TypeOK, T!TasksAssumption
  <2>3. enabled' \subseteq registered'
    BY <2>1 DEF T!TypeOK
  <2>4. T!TypeOK' /\ \A q \in Tasks : Untouched(q)
    BY <2>1, <2>2, <2>3 DEF T!TypeOK, Untouched
  <2>5. QED
    BY <2>4, UntouchedInOrder
<1>15. CASE UNCHANGED T!vars
  BY <1>15, UntouchedInOrder DEF T!vars, T!registry, T!history, T!TypeOK, Untouched
<1>16. CASE T!Next
  BY <1>16, <1>1, <1>2, <1>3, <1>4, <1>5, <1>6, <1>7, <1>8, <1>9, <1>10, <1>11, <1>12, <1>13, <1>14
  DEF T!Next, T!TaskStep
<1>17. QED
  BY <1>15, <1>16

\* "without claiming success" (autonomous_execution_engine.ts, summarize): however tasks
\* overlap, forge, retry and reuse results while tools are switched off and on, a trace
\* claims only what this very task executed and had accepted, and "toolsUsed" names the
\* tool that last acted.
THEOREM TracesTellTheTruth ==
  ASSUME T!TasksAssumption PROVE T!Spec => []TracesAreTrue
<1>1. T!Init => TasksInv
  BY TasksBegin
<1>2. TasksInv /\ [T!Next]_(T!vars) => TasksInv'
  BY TaskSteps
<1>3. TasksInv => T!TracesAreTrue
  <2>1. ASSUME TasksInv, NEW t \in Tasks PROVE
          /\ \A i \in DOMAIN results[t] :
               /\ results[t][i].success => results[t][i].tool \in accepted[t]
               /\ ~results[t][i].success => i = Len(results[t]) /\ pc[t] = "ended"
          /\ status[t] = "completed" => results[t] # <<>> /\ T!Last(results[t]).success
          /\ pc[t] \in {"attempt", "forging", "executing"} => final[t].tool = lastRun[t]
          /\ pc[t] \in {"step", "ended"} /\ results[t] # <<>> => T!Last(results[t]).tool = lastRun[t]
    BY <2>1 DEF TasksInv, TaskInOrder, T!Last
  <2>2. TasksInv => T!ClaimsAreBacked
    BY <2>1 DEF T!ClaimsAreBacked
  <2>3. TasksInv => T!TraceNamesTheTool
    BY <2>1 DEF T!TraceNamesTheTool
  <2>4. QED
    BY <2>2, <2>3 DEF T!TracesAreTrue
<1>4. T!Spec => []T!TracesAreTrue
  BY <1>1, <1>2, <1>3, PTL DEF T!Spec
<1>5. QED
  BY <1>4 DEF TracesAreTrue, T!TracesAreTrue, T!ClaimsAreBacked, T!TraceNamesTheTool

-----------------------------------------------------------------------------
(* Prompts.                                                                *)

Prompts == [by : Requests \cup {User}, call : Nat]
Texts == SUBSET [ask : Prompts, k : Nat]
FirstTokens(a, n) == {[ask |-> a, k |-> k] : k \in 1 .. n}

PromptTypes ==
  /\ asks \in Seq(Prompts) /\ said \in Nat /\ said < Tokens /\ talks \in Nat
  /\ via \in [Requests -> {"none", "groq", "live", "rest"}]
  /\ calls \in [Requests -> Nat]
  /\ buffer \in [Requests -> Texts] /\ answer \in [Requests -> Texts]
  /\ disturbed \in [Requests -> BOOLEAN]

\* A listener that is undisturbed has heard what the session has said of its prompt, the
\* only one there is, and nothing else.
HearsItsOwn(r) ==
  via[r] = "live" /\ ~disturbed[r] =>
    \/ asks = <<G!Own(r)>> /\ buffer[r] = FirstTokens(G!Own(r), said)
    \/ asks = <<>> /\ buffer[r] = FirstTokens(G!Own(r), Tokens)

GotItsOwn(r) ==
  answer[r] # {} /\ ~disturbed[r] => answer[r] = FirstTokens(G!Own(r), Tokens)

PromptsInv ==
  /\ PromptTypes
  /\ asks = <<>> => said = 0
  /\ \A r \in Requests : HearsItsOwn(r) /\ GotItsOwn(r)

LEMMA OwnIsAPrompt ==
  ASSUME PromptTypes, NEW r \in Requests
  PROVE  G!Own(r) \in Prompts /\ G!Own(r).by = r /\ G!text(r) \in Prompts
BY DEF PromptTypes, Prompts, G!Own, G!text

LEMMA Queued ==
  ASSUME NEW S, NEW s \in Seq(S), NEW e \in S
  PROVE  /\ Append(s, e) \in Seq(S) /\ Append(s, e) # <<>>
         /\ s = <<>> => Append(s, e) = <<e>>
<1>1. Append(s, e) \in Seq(S) /\ Append(s, e) # <<>>
  BY Appended
<1>2. ASSUME s = <<>> PROVE Append(s, e) = <<e>>
  <2>1. Append(s, e) \in Seq(S) /\ Len(Append(s, e)) = 1 /\ Append(s, e)[1] = e
    BY <1>2
  <2>2. <<e>> \in Seq(S) /\ Len(<<e>>) = 1 /\ <<e>>[1] = e
    OBVIOUS
  <2>3. \A i \in 1 .. Len(Append(s, e)) : Append(s, e)[i] = <<e>>[i]
    BY <2>1, <2>2
  <2>4. QED
    BY <2>1, <2>2, <2>3, SeqEqual
<1>3. QED
  BY <1>1, <1>2

LEMMA Unqueued ==
  ASSUME NEW S, NEW s \in Seq(S), s # <<>>
  PROVE  Tail(s) \in Seq(S) /\ Head(s) \in S
OBVIOUS

LEMMA OnlyOne == ASSUME NEW e PROVE Tail(<<e>>) = <<>> /\ Head(<<e>>) = e /\ <<e>> # <<>>
OBVIOUS

\* The texts a listener collects.
LEMMA TokensGrow ==
  ASSUME NEW a, NEW n \in Nat
  PROVE  /\ FirstTokens(a, n) \cup {[ask |-> a, k |-> n + 1]} = FirstTokens(a, n + 1)
         /\ FirstTokens(a, 0) = {}
         /\ G!TokensOf(a) = FirstTokens(a, Tokens)
<1>1. 1 .. n + 1 = (1 .. n) \cup {n + 1} /\ 1 .. 0 = {}
  OBVIOUS
<1>2. FirstTokens(a, n) \cup {[ask |-> a, k |-> n + 1]} = FirstTokens(a, n + 1)
  BY <1>1 DEF FirstTokens
<1>3. FirstTokens(a, 0) = {} /\ G!TokensOf(a) = FirstTokens(a, Tokens)
  BY <1>1 DEF FirstTokens, G!TokensOf
<1>4. QED
  BY <1>2, <1>3

\* Where nothing is asked, everything else is as before.
LEMMA QuietStep ==
  ASSUME PromptsInv, PromptTypes', UNCHANGED <<asks, said, calls>>,
         \A r \in Requests :
           /\ via'[r] = "live" => via[r] = "live" /\ buffer'[r] = buffer[r] /\ disturbed'[r] = disturbed[r]
           /\ \/ answer'[r] = answer[r] /\ disturbed'[r] = disturbed[r]
              \/ GotItsOwn(r)'
  PROVE  PromptsInv'
BY DEF PromptsInv, HearsItsOwn, GotItsOwn, G!Own

\* Whoever listens to the session is disturbed by anything else that it is asked, or
\* that happens to it.
LEMMA DisturbingStep ==
  ASSUME PromptsInv, PromptTypes', UNCHANGED <<calls, answer>>, asks' = <<>> => said' = 0,
         \A r \in Requests :
           /\ via'[r] = "live" => via[r] = "live"
           /\ disturbed'[r] = (disturbed[r] \/ r \in G!Listeners)
  PROVE  PromptsInv'
<1>1. ASSUME NEW r \in Requests PROVE HearsItsOwn(r)' /\ GotItsOwn(r)'
  <2>1. via'[r] = "live" => disturbed'[r]
    BY DEF G!Listeners
  <2>2. ~disturbed'[r] => ~disturbed[r]
    OBVIOUS
  <2>3. QED
    BY <2>1, <2>2 DEF PromptsInv, HearsItsOwn, GotItsOwn, G!Own
<1>2. QED
  BY <1>1 DEF PromptsInv

\* The session gets a typed text.
LEMMA TextStep ==
  ASSUME G!GenerationAssumption, PromptsInv, NEW r \in Requests, G!SendText(r),
         UNCHANGED <<calls, buffer, answer>>,
         via' \in [Requests -> {"none", "groq", "live", "rest"}],
         \A q \in Requests : via'[q] = "live" => via[q] = "live"
  PROVE  PromptsInv'
<1>1. CASE ~live
  <2>1. UNCHANGED <<asks, said, talks, disturbed>>
    BY <1>1 DEF G!SendText, G!session
  <2>2. PromptTypes'
    BY <2>1 DEF PromptsInv, PromptTypes
  <2>3. QED
    BY <2>1, <2>2, QuietStep
<1>2. CASE live
  <2>1. /\ asks' = Append(asks, G!text(r)) /\ UNCHANGED <<said, talks>>
        /\ disturbed' = [q \in Requests |-> IF q = User THEN asks # <<>>
                                            ELSE disturbed[q] \/ q \in G!Listeners]
    BY <1>2 DEF G!SendText, G!Ask
  <2>2. \A q \in Requests : disturbed'[q] = (disturbed[q] \/ q \in G!Listeners)
    BY <2>1 DEF G!GenerationAssumption
  <2>3. asks' \in Seq(Prompts) /\ asks' # <<>>
    BY <2>1, OwnIsAPrompt, Queued DEF PromptsInv, PromptTypes
  <2>4. disturbed' \in [Requests -> BOOLEAN]
    BY <2>1, <2>2 DEF PromptsInv, PromptTypes
  <2>5. PromptTypes'
    BY <2>1, <2>3, <2>4 DEF PromptsInv, PromptTypes
  <2>6. QED
    BY <2>2, <2>3, <2>5, DisturbingStep
<1>3. QED
  BY <1>1, <1>2

\* A prompt is sent, and its text is yet to come.
LEMMA GenerateStep ==
  ASSUME G!GenerationAssumption, PromptsInv, NEW r \in Requests, NEW p, G!Generate(r, p)
  PROVE  PromptsInv'
<1> USE DEF PromptsInv
<1>1. /\ calls' = [calls EXCEPT ![r] = @ + 1] /\ buffer' = [buffer EXCEPT ![r] = {}]
      /\ answer' = [answer EXCEPT ![r] = {}]
  BY DEF G!Generate, G!Empty
<1>2. /\ calls' \in [Requests -> Nat] /\ buffer' \in [Requests -> Texts]
      /\ answer' \in [Requests -> Texts] /\ buffer'[r] = {} /\ answer'[r] = {}
      /\ \A q \in Requests \ {r} : calls'[q] = calls[q] /\ buffer'[q] = buffer[q] /\ answer'[q] = answer[q]
  <2>1. {} \in Texts /\ calls[r] + 1 \in Nat
    BY DEF Texts, PromptTypes
  <2>2. QED
    BY <1>1, <2>1 DEF PromptTypes
<1>3. \A q \in Requests \ {r} : G!Own(q)' = G!Own(q)
  BY <1>2 DEF G!Own
<1>4. CASE UNCHANGED <<G!session, disturbed>> /\ via' \in {[via EXCEPT ![r] = "groq"], [via EXCEPT ![r] = "rest"]}
  <2>1. UNCHANGED <<asks, said, talks, disturbed>>
    BY <1>4 DEF G!session
  <2>2. PromptTypes' /\ via'[r] # "live" /\ \A q \in Requests \ {r} : via'[q] = via[q]
    BY <1>2, <1>4, <2>1 DEF PromptTypes
  <2>3. \A q \in Requests : HearsItsOwn(q)' /\ GotItsOwn(q)'
    BY <1>2, <1>3, <2>1, <2>2 DEF HearsItsOwn, GotItsOwn
  <2>4. QED
    BY <2>1, <2>2, <2>3
<1>5. CASE via' = [via EXCEPT ![r] = "live"] /\ G!Ask([by |-> r, call |-> calls'[r]], r)
  <2> DEFINE own == [by |-> r, call |-> calls'[r]]
  <2>1. /\ asks' = Append(asks, own) /\ UNCHANGED <<said, talks>>
        /\ disturbed' = [q \in Requests |-> IF q = r THEN asks # <<>>
                                            ELSE disturbed[q] \/ q \in G!Listeners]
    BY <1>5 DEF G!Ask
  <2>2. own \in Prompts
    BY <1>2 DEF Prompts
  <2>3. G!Own(r)' = own
    BY DEF G!Own
  <2> HIDE DEF own
  <2>4. asks' \in Seq(Prompts) /\ asks' # <<>> /\ (asks = <<>> => asks' = <<own>>)
    BY <2>1, <2>2, Queued DEF PromptTypes
  <2>5. disturbed' \in [Requests -> BOOLEAN]
    BY <2>1 DEF PromptTypes
  <2>6. PromptTypes' /\ \A q \in Requests \ {r} : via'[q] = via[q]
    BY <1>2, <1>5, <2>1, <2>4, <2>5 DEF PromptTypes
  <2>7. HearsItsOwn(r)' /\ GotItsOwn(r)'
    <3>1. ~disturbed'[r] => asks' = <<own>> /\ said' = 0 /\ buffer'[r] = FirstTokens(own, 0)
      BY <1>2, <2>1, <2>4, TokensGrow
    <3>2. QED
      BY <1>2, <2>3, <3>1 DEF HearsItsOwn, GotItsOwn
  <2>8. ASSUME NEW q \in Requests \ {r} PROVE HearsItsOwn(q)' /\ GotItsOwn(q)'
    <3>1. disturbed'[q] = (disturbed[q] \/ q \in G!Listeners) /\ (via'[q] = "live" => disturbed'[q])
      BY <2>1, <2>6 DEF G!Listeners
    <3>2. QED
      BY <1>2, <1>3, <3>1 DEF HearsItsOwn, GotItsOwn
  <2>9. QED
    BY <2>4, <2>6, <2>7, <2>8
<1>6. QED
  BY <1>4, <1>5 DEF G!Generate

LEMMA PromptsBegin == G!GenerationAssumption /\ G!Init => PromptsInv
<1> SUFFICES ASSUME G!GenerationAssumption, G!Init PROVE PromptsInv
  OBVIOUS
<1>1. {} \in Texts /\ said \in Nat /\ said < Tokens /\ talks \in Nat
  BY DEF Texts, G!Init, G!GenerationAssumption
<1>2. PromptTypes
  BY <1>1 DEF G!Init, PromptTypes
<1>3. QED
  BY <1>2 DEF G!Init, PromptsInv, HearsItsOwn, GotItsOwn

LEMMA PromptSteps == G!GenerationAssumption /\ PromptsInv /\ [G!Next]_(G!vars) => PromptsInv'
<1> SUFFICES ASSUME G!GenerationAssumption, PromptsInv, [G!Next]_(G!vars) PROVE PromptsInv'
  OBVIOUS
<1> USE DEF PromptsInv
\* The token goes to every listener; to an undisturbed one, it is the next of its own.
<1>1. CASE G!Say
  <2> DEFINE a == Head(asks)
             token == [ask |-> a, k |-> said + 1]
  <2>1. /\ asks # <<>>
        /\ buffer' = [r \in Requests |-> IF r \in G!Listeners THEN buffer[r] \cup {token} ELSE buffer[r]]
        /\ UNCHANGED <<talks, via, calls, answer, disturbed>>
    BY <1>1 DEF G!Say
  <2>2. \/ said + 1 = Tokens /\ asks' = Tail(asks) /\ said' = 0
        \/ said + 1 # Tokens /\ asks' = asks /\ said' = said + 1
    BY <1>1 DEF G!Say
  <2>3. a \in Prompts /\ Tail(asks) \in Seq(Prompts)
    BY <2>1, Unqueued DEF PromptTypes
  <2>4. token \in [ask : Prompts, k : Nat]
    BY <2>3 DEF PromptTypes
  <2>5. buffer' \in [Requests -> Texts]
    <3>1. \A r \in Requests : buffer[r] \in Texts /\ buffer[r] \cup {token} \in Texts
      BY <2>4 DEF PromptTypes, Texts
    <3> HIDE DEF token
    <3>2. QED
      BY <2>1, <3>1
  <2>6. said' \in Nat /\ said' < Tokens
    <3>1. said \in Nat /\ said < Tokens /\ Tokens \in Nat \ {0}
      BY DEF PromptTypes, G!GenerationAssumption
    <3>2. QED
      BY <2>2, <3>1
  <2>7. PromptTypes' /\ (asks' = <<>> => said' = 0)
    <3>1. asks' \in Seq(Prompts) /\ (asks' = <<>> => said' = 0)
      BY <2>1, <2>2, <2>3 DEF PromptTypes
    <3>2. QED
      BY <2>1, <2>5, <2>6, <3>1 DEF PromptTypes
  <2>8. ASSUME NEW r \in Requests PROVE HearsItsOwn(r)' /\ GotItsOwn(r)'
    <3>1. G!Own(r)' = G!Own(r)
      BY <2>1 DEF G!Own
    <3>2. GotItsOwn(r)'
      BY <2>1, <3>1 DEF GotItsOwn
    <3>3. ASSUME via[r] = "live", ~disturbed[r] PROVE HearsItsOwn(r)'
      <4>1. asks = <<G!Own(r)>> /\ buffer[r] = FirstTokens(G!Own(r), said)
        BY <2>1, <3>3 DEF HearsItsOwn
      <4>2. a = G!Own(r) /\ Tail(asks) = <<>>
        BY <4>1, OnlyOne
      <4>3. buffer'[r] = buffer[r] \cup {token}
        BY <2>1, <3>3 DEF G!Listeners
      <4>4. buffer'[r] = FirstTokens(G!Own(r), said + 1)
        BY <4>1, <4>2, <4>3, TokensGrow DEF PromptTypes
      <4>5. QED
        BY <2>2, <3>1, <4>1, <4>2, <4>4 DEF HearsItsOwn
    <3>4. QED
      BY <2>1, <3>2, <3>3 DEF HearsItsOwn
  <2>9. QED
    BY <2>7, <2>8
<1>2. CASE G!Talk
  <2>1. /\ talks' = talks + 1 /\ said' = 0
        /\ asks' = Append(IF said > 0 THEN Tail(asks) ELSE asks, [by |-> User, call |-> talks'])
        /\ disturbed' = [r \in Requests |-> disturbed[r] \/ r \in G!Listeners]
        /\ UNCHANGED <<via, calls, buffer, answer>>
    BY <1>2 DEF G!Talk
  <2>2. (IF said > 0 THEN Tail(asks) ELSE asks) \in Seq(Prompts)
    <3>1. CASE said > 0
      BY <3>1, Unqueued DEF PromptTypes
    <3>2. CASE ~(said > 0)
      BY <3>2 DEF PromptTypes
    <3>3. QED
      BY <3>1, <3>2
  <2>3. talks' \in Nat /\ [by |-> User, call |-> talks'] \in Prompts
    BY <2>1 DEF PromptTypes, Prompts
  <2>4. asks' \in Seq(Prompts)
    BY <2>1, <2>2, <2>3, Queued
  <2>5. said' \in Nat /\ said' < Tokens /\ disturbed' \in [Requests -> BOOLEAN]
    BY <2>1 DEF PromptTypes, G!GenerationAssumption
  <2>6. PromptTypes'
    BY <2>1, <2>3, <2>4, <2>5 DEF PromptTypes
  <2>7. QED
    BY <2>1, <2>6, DisturbingStep
<1>3. CASE G!Lose
  <2>1. /\ asks' = <<>> /\ said' = 0
        /\ disturbed' = [r \in Requests |-> disturbed[r] \/ r \in G!Listeners]
        /\ UNCHANGED <<talks, via, calls, buffer, answer>>
    BY <1>3 DEF G!Lose
  <2>2. asks' \in Seq(Prompts) /\ said' \in Nat /\ said' < Tokens
        /\ disturbed' \in [Requests -> BOOLEAN]
    BY <2>1 DEF PromptTypes, G!GenerationAssumption
  <2>3. PromptTypes'
    BY <2>1, <2>2 DEF PromptTypes
  <2>4. QED
    BY <2>1, <2>3, DisturbingStep
<1>4. CASE G!Reconnect \/ UNCHANGED G!vars
  <2>1. UNCHANGED <<asks, said, talks, via, calls, buffer, answer, disturbed>>
    BY <1>4 DEF G!Reconnect, G!prompts, G!vars, G!session
  <2>2. QED
    BY <2>1, QuietStep DEF PromptTypes
<1>5. ASSUME NEW r \in Requests, G!Submit(r) PROVE PromptsInv'
  <2>1. CASE UNCHANGED <<G!session, G!prompts>>
    BY <2>1, QuietStep DEF PromptTypes, G!session, G!prompts
  <2>2. CASE via' = [via EXCEPT ![r] = "groq"] /\ UNCHANGED <<G!session, calls, buffer, answer, disturbed>>
    <3>1. UNCHANGED <<asks, said, talks, calls, buffer, answer, disturbed>>
      BY <2>2 DEF G!session
    <3>2. PromptTypes' /\ \A q \in Requests : via'[q] = "live" => via[q] = "live"
      BY <2>2, <3>1 DEF PromptTypes
    <3>3. QED
      BY <3>1, <3>2, QuietStep
  <2>3. CASE G!SendText(r) /\ UNCHANGED <<via, calls, buffer, answer>>
    BY <2>3, TextStep DEF PromptTypes
  <2>4. QED
    BY <1>5, <2>1, <2>2, <2>3 DEF G!Submit, G!Talked
<1>6. ASSUME NEW r \in Requests, G!Thought(r) \/ G!CodeReplied(r) PROVE PromptsInv'
  <2>1. via' = [via EXCEPT ![r] = "none"] /\ UNCHANGED <<calls, buffer, answer>>
    BY <1>6 DEF G!Thought, G!CodeReplied, G!Replied
  <2>2. /\ via' \in [Requests -> {"none", "groq", "live", "rest"}]
        /\ \A q \in Requests : via'[q] = "live" => via[q] = "live"
    BY <2>1 DEF PromptTypes
  <2>3. CASE UNCHANGED <<G!session, disturbed>>
    <3>1. UNCHANGED <<asks, said, talks, disturbed>>
      BY <2>3 DEF G!session
    <3>2. QED
      BY <2>1, <2>2, <3>1, QuietStep DEF PromptTypes
  <2>4. CASE G!SendText(r)
    BY <2>1, <2>2, <2>4, TextStep
  <2>5. QED
    BY <1>6, <2>3, <2>4 DEF G!Thought, G!CodeReplied, G!Talked
<1>7. ASSUME NEW r \in Requests, G!Plan(r) \/ G!ModelVerify(r) \/ G!Design(r) \/ G!Widget(r)
      PROVE PromptsInv'
  <2>1. PICK p : G!Generate(r, p)
    BY <1>7 DEF G!Plan, G!ModelVerify, G!Design, G!Widget
  <2>2. QED
    BY <2>1, GenerateStep
<1>8. ASSUME NEW r \in Requests, G!BuildBegins(r) \/ G!Ends(r) PROVE PromptsInv'
  BY <1>8, QuietStep DEF G!BuildBegins, G!Ends, G!session, G!prompts, PromptTypes
\* What was heard is the answer, unless the session has yet to say the rest.
<1>9. ASSUME NEW r \in Requests, G!Quiet(r) PROVE PromptsInv'
  <2>1. /\ via[r] = "live" /\ via' = [via EXCEPT ![r] = "none"]
        /\ answer' = [answer EXCEPT ![r] = buffer[r]]
        /\ disturbed' = [disturbed EXCEPT ![r] = @ \/ G!Pending(G!Own(r))]
        /\ UNCHANGED <<asks, said, talks, calls, buffer>>
    BY <1>9 DEF G!Quiet, G!session
  <2>2. G!Pending(G!Own(r)) \in BOOLEAN
    BY DEF G!Pending
  <2>3. answer' \in [Requests -> Texts] /\ answer'[r] = buffer[r]
        /\ via' \in [Requests -> {"none", "groq", "live", "rest"}] /\ via'[r] = "none"
        /\ \A q \in Requests \ {r} : answer'[q] = answer[q] /\ via'[q] = via[q]
    BY <2>1 DEF PromptTypes
  <2>4. disturbed' \in [Requests -> BOOLEAN] /\ disturbed'[r] = (disturbed[r] \/ G!Pending(G!Own(r)))
        /\ \A q \in Requests \ {r} : disturbed'[q] = disturbed[q]
    BY <2>1, <2>2 DEF PromptTypes
  <2>5. PromptTypes'
    BY <2>1, <2>3, <2>4 DEF PromptTypes
  <2>6. GotItsOwn(r)'
    <3>1. CASE asks = <<G!Own(r)>>
      <4>1. G!Pending(G!Own(r))
        <5>1. 1 \in DOMAIN asks /\ asks[1] = G!Own(r)
          BY <3>1
        <5>2. QED
          BY <5>1 DEF G!Pending
      <4>2. QED
        BY <2>4, <4>1 DEF GotItsOwn
    <3>2. CASE asks # <<G!Own(r)>>
      <4>1. ~disturbed[r] => buffer[r] = FirstTokens(G!Own(r), Tokens)
        BY <2>1, <3>2 DEF HearsItsOwn
      <4>2. G!Own(r)' = G!Own(r)
        BY <2>1 DEF G!Own
      <4>3. QED
        BY <2>3, <2>4, <4>1, <4>2 DEF GotItsOwn
    <3>3. QED
      BY <3>1, <3>2
  <2>7. \A q \in Requests :
          /\ via'[q] = "live" => via[q] = "live" /\ buffer'[q] = buffer[q] /\ disturbed'[q] = disturbed[q]
          /\ \/ answer'[q] = answer[q] /\ disturbed'[q] = disturbed[q]
             \/ GotItsOwn(q)'
    BY <2>1, <2>3, <2>4, <2>6
  <2>8. QED
    BY <2>1, <2>5, <2>7, QuietStep
<1>10. ASSUME NEW r \in Requests, G!Timeout(r) PROVE PromptsInv'
  <2>1. /\ via' = [via EXCEPT ![r] = "rest"]
        /\ UNCHANGED <<asks, said, talks, calls, buffer, answer, disturbed>>
    BY <1>10 DEF G!Timeout, G!session
  <2>2. PromptTypes' /\ \A q \in Requests : via'[q] = "live" => via[q] = "live"
    BY <2>1 DEF PromptTypes
  <2>3. QED
    BY <2>1, <2>2, QuietStep
<1>11. QED
  BY <1>1, <1>2, <1>3, <1>4, <1>5, <1>6, <1>7, <1>8, <1>9, <1>10 DEF G!Next, G!RequestStep

\* The text streamLiveText resolves to, as far as the code keeps it apart: whatever is asked, lost
\* or timed out meanwhile, an undisturbed answer of the Live session is all of the prompt's
\* own, and no other's.
THEOREM AnswersAreWhole ==
  ASSUME G!GenerationAssumption PROVE G!Spec => []AnswersAreOwn
<1>1. G!Init => PromptsInv
  BY PromptsBegin
<1>2. PromptsInv /\ [G!Next]_(G!vars) => PromptsInv'
  BY PromptSteps
<1>3. PromptsInv => G!AnswersAreOwn
  BY TokensGrow DEF PromptsInv, GotItsOwn, G!AnswersAreOwn, G!TokensOf, FirstTokens
<1>4. G!Spec => []G!AnswersAreOwn
  BY <1>1, <1>2, <1>3, PTL DEF G!Spec
<1>5. QED
  BY <1>4 DEF AnswersAreOwn, G!AnswersAreOwn
=============================================================================
