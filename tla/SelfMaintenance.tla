-------------------------- MODULE SelfMaintenance --------------------------
(***************************************************************************)
(* Self-maintenance of the New Backend (src/New Backend/src/maintenance):  *)
(* MaintenanceEngine, which scans on a timer, HealthEngine and             *)
(* ErrorObservabilityEngine, which it reads, SelfMaintenanceCoordinator,   *)
(* which answers a finding about a tool with a repair, and                 *)
(* SelfRepairEngine, which asks a provider for a candidate, validates it,  *)
(* writes it into staging/repairs/<tool> and tests it there.               *)
(*                                                                         *)
(* A scan runs to its end at once: its only await is an import that is     *)
(* done, the interpreter is probed synchronously.  A repair awaits the     *)
(* provider, the audit and the test, while further scans go on.  Nothing   *)
(* marks a finding resolved, so that a title is reported once a process,   *)
(* and a repair is named by its tool and the health that was found.        *)
(***************************************************************************)
EXTENDS Naturals

CONSTANTS
  Tools,        \* tools of the library; nothing switches one off
  NoSource,
  MaxAttempts,  \* forge.maxRepairAttempts, 3 in the code
  MaxCalls,     \* bound: recorded executions of a tool
  MaxLedger,    \* kept errors, 500 in the code
  MaxBoots      \* bound: ends of the process

MaintenanceAssumption ==
  /\ MaxAttempts \in Nat \ {0} /\ MaxLedger \in Nat \ {0}
  /\ {MaxCalls, MaxBoots} \subseteq Nat

VARIABLES
  calls,       \* executionCount and successCount of the tools
  savedCalls,  \* the same in the library's file
  errors,      \* errors of the last minute in the ledger, which is its file
  suppressed,
  findings,    \* titles reported by this process
  repair,      \* what each repair awaits, its attempt and candidate
  inFlight,
  staging,     \* the tool.py of staging/repairs/<tool>
  passed,      \* history: what was in there when a test last passed
  outcome,     \* history: the candidate last announced, until the next repair begins
  ends

vars == <<calls, savedCalls, errors, suppressed, findings, repair, inFlight, staging, passed,
          outcome, ends>>

Broken == {"degraded", "unhealthy"}
Sources == Tools \X Broken \X (0 .. MaxAttempts - 1) \X (0 .. MaxBoots)
NoRepair == [at |-> "none", attempt |-> 0, source |-> NoSource]

TypeOK ==
  /\ {calls, savedCalls} \subseteq [Tools -> [n : 0 .. MaxCalls, ok : 0 .. MaxCalls]]
  /\ errors \in 0 .. MaxLedger /\ ends \in 0 .. MaxBoots /\ suppressed \in BOOLEAN
  /\ repair \in [Tools \X Broken -> [at : {"none", "generate", "validate", "test"},
                                     attempt : 0 .. MaxAttempts - 1,
                                     source : Sources \cup {NoSource}]]
  /\ inFlight \subseteq Tools
  /\ {staging, passed, outcome} \subseteq [Tools -> Sources \cup {NoSource}]

Init ==
  /\ calls = [t \in Tools |-> [n |-> 0, ok |-> 0]] /\ savedCalls = calls
  /\ errors = 0 /\ suppressed = FALSE /\ findings = {} /\ ends = 0
  /\ repair = [r \in Tools \X Broken |-> NoRepair] /\ inFlight = {}
  /\ staging = [t \in Tools |-> NoSource] /\ passed = staging /\ outcome = staging

----------------------------------------------------------------------------
(* What a scan reads.                                                      *)

\* ToolLibrary.recordExecution: the health of a tool
Health(t) ==
  LET n == calls[t].n  ok == calls[t].ok
  IN CASE n < 3 -> "unknown"
       [] n >= 3 /\ 10 * ok >= 9 * n -> "healthy"
       [] n >= 3 /\ 10 * ok < 9 * n /\ 2 * ok >= n -> "degraded"
       [] OTHER -> "unhealthy"

BrokenTools == {t \in Tools : Health(t) \in Broken}

\* HealthEngine.check: the subsystems at warning or worse; a degraded tool degrades "tools" only
Subsystems(python, provider) ==
     (IF python THEN {} ELSE {<<"python", "offline">>})
  \cup (IF provider THEN {} ELSE {<<"provider", "warning">>})
  \cup (IF \E t \in Tools : Health(t) = "unhealthy" THEN {<<"tools", "warning">>} ELSE {})

\* The titles of one scan
Batch(python, provider) ==
       Subsystems(python, provider)
  \cup {<<"errors", n>> : n \in {errors} \ {0}}
  \cup {<<"tool", t, Health(t)>> : t \in BrokenTools}

----------------------------------------------------------------------------
(* The coordinator and the repairs.                                        *)

\* A bug: the coordinator does not look into inFlight.
AlwaysFree(t) == t \in Tools

\* handleFinding starts no repair of a tool that is being repaired.
Free(t) == t \notin inFlight

\* The repairs the new findings start, when a coding provider is configured
Started(new, provider) ==
  {r \in Tools \X Broken : provider /\ <<"tool", r[1], r[2]>> \in new /\ Free(r[1])}

Scan(python, provider) ==
  /\ ~suppressed
  /\ LET new == Batch(python, provider) \ findings
         started == Started(new, provider)
         begun == {r[1] : r \in started}
     IN /\ new # {}
        /\ findings' = findings \cup new
        /\ repair' = [r \in Tools \X Broken |->
                        IF r \in started THEN [NoRepair EXCEPT !.at = "generate"] ELSE repair[r]]
        /\ inFlight' = inFlight \cup begun
        /\ outcome' = [t \in Tools |-> IF t \in begun THEN NoSource ELSE outcome[t]]
  /\ UNCHANGED <<calls, savedCalls, errors, suppressed, staging, passed, ends>>

\* The end of handleFinding: its finally
Over(r) ==
  /\ repair' = [repair EXCEPT ![r] = NoRepair]
  /\ inFlight' = inFlight \ {r[1]}

\* An attempt that failed: the next one, or the end without a candidate
Retry(r) ==
  \/ /\ repair[r].attempt + 1 < MaxAttempts
     /\ repair' = [repair EXCEPT ![r] = [NoRepair EXCEPT !.at = "generate",
                                                         !.attempt = repair[r].attempt + 1]]
     /\ UNCHANGED inFlight
  \/ repair[r].attempt + 1 = MaxAttempts /\ Over(r)

unstaged == <<calls, savedCalls, errors, suppressed, findings, passed, outcome, ends>>

\* provider.generate answers: with a candidate, or with what parseRepair refuses
Generated(r) ==
  /\ repair[r].at = "generate"
  /\ \/ /\ repair' = [repair EXCEPT ![r].at = "validate",
                                    ![r].source = <<r[1], r[2], repair[r].attempt, ends>>]
        /\ UNCHANGED inFlight
     \/ Retry(r)
  /\ UNCHANGED <<unstaged, staging>>

\* provider.generate throws: it is called outside the try
GenerateThrows(r) ==
  /\ repair[r].at = "generate" /\ Over(r)
  /\ UNCHANGED <<unstaged, staging>>

\* The audit refuses the candidate, throws, or the staging directory cannot be made
Refused(r) ==
  /\ repair[r].at = "validate" /\ Retry(r)
  /\ UNCHANGED <<unstaged, staging>>

\* stageAndTest writes the candidate and its test, and calls the sandbox
Stage(r) ==
  /\ repair[r].at = "validate"
  /\ staging' = [staging EXCEPT ![r[1]] = repair[r].source]
  /\ repair' = [repair EXCEPT ![r].at = "test"]
  /\ UNCHANGED <<unstaged, inFlight>>

\* tool.py is written, its test is not
HalfStaged(r) ==
  /\ repair[r].at = "validate" /\ Retry(r)
  /\ staging' = [staging EXCEPT ![r[1]] = repair[r].source]
  /\ UNCHANGED unstaged

\* The test passes: repair-staged is emitted with the candidate
TestPasses(r) ==
  /\ repair[r].at = "test" /\ Over(r)
  /\ passed' = [passed EXCEPT ![r[1]] = staging[r[1]]]
  /\ outcome' = [outcome EXCEPT ![r[1]] = repair[r].source]
  /\ UNCHANGED <<calls, savedCalls, errors, suppressed, findings, staging, ends>>

\* It fails, or could not be run: the candidate stays in its directory
TestFails(r) ==
  /\ repair[r].at = "test" /\ Retry(r)
  /\ UNCHANGED <<unstaged, staging>>

----------------------------------------------------------------------------
(* What else happens.                                                      *)

others == <<findings, repair, inFlight, staging, passed, outcome>>

\* A request pauses the scans and resumes them; a tool runs in it, or the agent captures an error.
Request ==
  /\ suppressed' = ~suppressed
  /\ UNCHANGED <<calls, savedCalls, errors, ends, others>>

Execute(t, ok) ==
  /\ suppressed /\ calls[t].n < MaxCalls
  /\ calls' = [calls EXCEPT ![t] = [n |-> @.n + 1, ok |-> @.ok + (IF ok THEN 1 ELSE 0)]]
  /\ UNCHANGED <<savedCalls, errors, suppressed, ends, others>>

Capture ==
  /\ suppressed
  /\ errors' = IF errors < MaxLedger THEN errors + 1 ELSE errors
  /\ UNCHANGED <<calls, savedCalls, suppressed, ends, others>>

\* A minute goes by.
Forgotten ==
  /\ errors > 0 /\ errors' = 0
  /\ UNCHANGED <<calls, savedCalls, suppressed, ends, others>>

\* The process ends, by shutdown, which writes the library, or by a crash, and starts again.
Restart(orderly) ==
  /\ ends < MaxBoots /\ ends' = ends + 1
  /\ savedCalls' = IF orderly THEN calls ELSE savedCalls
  /\ calls' = savedCalls'
  /\ suppressed' = FALSE /\ findings' = {} /\ inFlight' = {}
  /\ repair' = [r \in Tools \X Broken |-> NoRepair]
  /\ outcome' = [t \in Tools |-> NoSource]
  /\ UNCHANGED <<errors, staging, passed>>

RepairStep(r) ==
  \/ Generated(r) \/ GenerateThrows(r) \/ Refused(r) \/ Stage(r) \/ HalfStaged(r)
  \/ TestPasses(r) \/ TestFails(r)

Next ==
  \/ \E python, provider \in BOOLEAN : Scan(python, provider)
  \/ \E r \in Tools \X Broken : RepairStep(r)
  \/ Request \/ Capture \/ Forgotten
  \/ \E t \in Tools, ok \in BOOLEAN : Execute(t, ok)
  \/ \E orderly \in BOOLEAN : Restart(orderly)

Spec == Init /\ [][Next]_vars

----------------------------------------------------------------------------
(* SelfMaintenanceCoordinator.ts: "promotes it to a STAGED candidate".     *)
(* What repair-staged announced for a tool is, until a further repair of   *)
(* the tool begins, what its staging directory holds, and what was there   *)
(* when the test passed: the findings "degraded" and "unhealthy" of one    *)
(* tool must not be repaired at once, for they share the directory.        *)
StagedIsTested ==
  \A t \in Tools : outcome[t] # NoSource => outcome[t] = staging[t] /\ staging[t] = passed[t]
=============================================================================
