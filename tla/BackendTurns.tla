---------------------------- MODULE BackendTurns ----------------------------
(***************************************************************************)
(* Turns of the New Backend (src/New Backend/src): NovaBackend's           *)
(* handleRequest and handleEnvelope around NovaAgent.run, the execution    *)
(* ledger that shall keep a request from being executed twice, the pause   *)
(* of maintenance, and shutdown.                                           *)
(*                                                                         *)
(* A typed request gets a request id of its own; an envelope comes with    *)
(* one, maybe a second time.  Turns run side by side.  What follows the    *)
(* last answer a turn awaits - lessons, ledger entry, resumption - happens *)
(* without an await, hence in one step; each of its writes may throw.      *)
(***************************************************************************)
EXTENDS Naturals

CONSTANTS
  Requests,    \* ids that envelopes bring
  MaxTurns,    \* bound: turns, numbered as they begin
  None,
  MaxSteps,    \* bound: steps of a plan
  MaxAttempts, \* attempts per step, 4 in the code
  MaxFaults,   \* bound: writes that fail
  MaxBoots     \* bound: ends of the process

TurnAssumption ==
  /\ Requests \cap (1 .. MaxTurns) = {} /\ None \notin Requests \cup 1 .. MaxTurns
  /\ MaxTurns \in Nat
  /\ {MaxSteps, MaxAttempts} \subseteq Nat \ {0}
  /\ {MaxFaults, MaxBoots} \subseteq Nat

VARIABLES
  pc,         \* what the turn awaits
  request,    \* its request id; a typed turn's is the turn itself
  left,       \* steps of the plan that are not done
  done,       \* steps verified so far
  attempts,   \* of the present step
  answer,     \* what the caller was told
  ledger,     \* entries in memory
  disk,       \* entries in the file
  suppressed, \* MaintenanceEngine.suppressed
  running,    \* this.agent # null
  faults,
  boots,
  executions, \* history: turns that executed steps of a request
  crossed,    \* history: requests with two turns under way at once
  unsaved,    \* history: requests whose execution never reached the file
  overlapped, \* history: a typed turn ended while another one was under way
  torn        \* history: a typed turn was rejected before it resumed maintenance

turn == <<pc, request, left, done, attempts>>
books == <<ledger, disk, faults>>
pause == <<suppressed, overlapped, torn>>
vars == <<turn, answer, books, pause, running, boots, executions, crossed, unsaved>>

Turns == 1 .. MaxTurns
Ids == Turns \cup Requests
Awaits == {"planning", "acting"}
Statuses == {"completed", "partial", "failed"}

UnderWay(t) == pc[t] \in Awaits
Typed(t) == request[t] = t
TypedUnderWay == \E t \in Turns : UnderWay(t) /\ Typed(t)

TypeOK ==
  /\ pc \in [Turns -> Awaits \cup {"free", "over"}]
  /\ request \in [Turns -> Ids \cup {None}]
  /\ {left, done} \subseteq [Turns -> 0 .. MaxSteps]
  /\ attempts \in [Turns -> 0 .. MaxAttempts]
  /\ answer \in [Turns -> Statuses \cup {"none", "closing", "duplicate", "rejected"}]
  /\ ledger \subseteq Ids \X Statuses /\ disk \subseteq ledger
  /\ {suppressed, running, overlapped, torn} \subseteq BOOLEAN
  /\ faults \in 0 .. MaxFaults /\ boots \in 0 .. MaxBoots
  /\ executions \in [Ids -> Nat]
  /\ crossed \subseteq Ids /\ unsaved \subseteq Ids

Init ==
  /\ pc = [t \in Turns |-> "free"] /\ request = [t \in Turns |-> None]
  /\ left = [t \in Turns |-> 0] /\ done = [t \in Turns |-> 0]
  /\ attempts = [t \in Turns |-> 0]
  /\ answer = [t \in Turns |-> "none"]
  /\ ledger = {} /\ disk = {}
  /\ suppressed = FALSE /\ overlapped = FALSE /\ torn = FALSE
  /\ running = TRUE /\ faults = 0 /\ boots = 0
  /\ executions = [r \in Ids |-> 0] /\ crossed = {} /\ unsaved = {}

-----------------------------------------------------------------------------
(* The ledger and the pause                                                *)

\* A bug: a request that did not complete may be executed again.
IsCompleted(r) == <<r, "completed">> \in ledger

IsExecuted(r) == \E s \in Statuses : <<r, s>> \in ledger

Fault == faults < MaxFaults /\ faults' = faults + 1

\* A bug: the entry waits for the flush at shutdown.
NotFlushed(r, s) == ledger' = ledger \cup {<<r, s>>} /\ UNCHANGED disk

\* save: upsert, then flush of the whole file, by a rename
Save(r, s) == ledger' = ledger \cup {<<r, s>>} /\ disk' = ledger'

\* The flush throws: the entry is in memory, and in the file after the next flush.
SaveThrows(r, s) ==
  Fault /\ ledger' = ledger \cup {<<r, s>>} /\ UNCHANGED disk

\* A bug: maintenance is resumed only after a success.
ResumeIfCompleted(t, a) == IF a = "completed" THEN FALSE ELSE suppressed

Resumed(t, a) == FALSE

\* run returns: a typed turn resumes maintenance, whoever else is under way.
Return(t, r, a) ==
  /\ answer' = [answer EXCEPT ![t] = a]
  /\ IF r = t
     THEN /\ suppressed' = Resumed(t, a)
          /\ overlapped' = (overlapped \/ \E u \in Turns \ {t} : UnderWay(u) /\ Typed(u))
     ELSE UNCHANGED <<suppressed, overlapped>>
  /\ UNCHANGED torn

\* run rejects, and handleRequest with it, before it resumes maintenance.
Reject(t) ==
  /\ answer' = [answer EXCEPT ![t] = "rejected"]
  /\ torn' = (torn \/ Typed(t))
  /\ UNCHANGED <<suppressed, overlapped>>

-----------------------------------------------------------------------------
(* The beginning of a turn                                                 *)

Accept(t, r) ==
  /\ running /\ pc[t] = "free" /\ \A u \in 1 .. t - 1 : pc[u] # "free"
  /\ request' = [request EXCEPT ![t] = r]
  /\ UNCHANGED <<left, done, attempts, books, running, boots, executions, unsaved>>

\* A self-close command, or a request the ledger knows, is answered at once.
AnswerAtOnce(t, r, a) ==
  /\ Accept(t, r)
  /\ pc' = [pc EXCEPT ![t] = "over"]
  /\ Return(t, r, a)
  /\ UNCHANGED crossed

\* Intent, memory, environment, plan and review are awaited and change nothing here.
Begin(t, r) ==
  /\ Accept(t, r)
  /\ pc' = [pc EXCEPT ![t] = "planning"]
  /\ crossed' = IF \E u \in Turns : UnderWay(u) /\ request[u] = r
                THEN crossed \cup {r} ELSE crossed
  /\ UNCHANGED <<answer, overlapped, torn>>

HandleRequest(t) ==
  \/ AnswerAtOnce(t, t, "closing")
  \/ Begin(t, t) /\ suppressed' = TRUE

HandleEnvelope(t, r) ==
  \/ AnswerAtOnce(t, r, "closing")
  \/ IsExecuted(r) /\ AnswerAtOnce(t, r, "duplicate")
  \/ ~IsExecuted(r) /\ Begin(t, r) /\ UNCHANGED suppressed

-----------------------------------------------------------------------------
(* The end of a turn                                                       *)

\* The agent is gone after a shutdown, and handleRequest trips over it.
Told(t, s) == IF Typed(t) /\ ~running THEN "rejected" ELSE s

\* learnFromTask writes for these only.
HasLesson(s) == s # "partial"

\* Lesson, ledger entry, interaction, resumption, and the lesson once more.
Finish(t, s) ==
  LET r == request[t] IN
  /\ pc' = [pc EXCEPT ![t] = "over"]
  /\ left' = [left EXCEPT ![t] = 0] /\ done' = [done EXCEPT ![t] = 0]
  /\ attempts' = [attempts EXCEPT ![t] = 0]
  /\ UNCHANGED <<request, running, boots, crossed>>
  /\ \/ /\ Save(r, s)
        /\ \/ Return(t, r, Told(t, s)) /\ UNCHANGED faults
           \/ Fault /\ s = "completed" /\ Reject(t)
           \/ Fault /\ HasLesson(s) /\ Typed(t) /\ Return(t, r, "rejected")
        /\ UNCHANGED unsaved
     \/ SaveThrows(r, s) /\ Reject(t) /\ UNCHANGED unsaved
     \/ /\ Fault /\ HasLesson(s)
        /\ unsaved' = unsaved \cup {r}
        /\ UNCHANGED <<ledger, disk>>
        /\ Reject(t)

-----------------------------------------------------------------------------
(* The steps of a plan                                                     *)

Goes(t) == UNCHANGED <<request, answer, books, pause, running, boots, crossed, unsaved>>

PlanReady(t, n) ==
  /\ pc[t] = "planning"
  /\ pc' = [pc EXCEPT ![t] = "acting"]
  /\ left' = [left EXCEPT ![t] = n] /\ attempts' = [attempts EXCEPT ![t] = 1]
  /\ executions' = [executions EXCEPT ![request[t]] = @ + 1]
  /\ Goes(t) /\ UNCHANGED done

\* The classifier, the memory or the planner throws.
PlanFails(t) ==
  /\ pc[t] = "planning"
  /\ Finish(t, "failed")
  /\ UNCHANGED executions

\* executeStep: a tool is found or forged, executed and its result verified.
StepSucceeds(t) ==
  /\ pc[t] = "acting"
  /\ UNCHANGED executions
  /\ IF left[t] > 1
     THEN /\ left' = [left EXCEPT ![t] = @ - 1] /\ done' = [done EXCEPT ![t] = @ + 1]
          /\ attempts' = [attempts EXCEPT ![t] = 1]
          /\ Goes(t) /\ UNCHANGED pc
     ELSE Finish(t, "completed")

NextAttempt(t) == attempts[t] + 1

StatusAfterFailure(t) == IF done[t] > 0 THEN "partial" ELSE "failed"

\* No tool, a failed execution or verification: whatever the recovery engine decides,
\* the step is tried again from the search for a tool on.
AttemptFails(t) ==
  /\ pc[t] = "acting"
  /\ UNCHANGED executions
  /\ IF NextAttempt(t) <= MaxAttempts
     THEN /\ attempts' = [attempts EXCEPT ![t] = NextAttempt(t)]
          /\ Goes(t) /\ UNCHANGED <<pc, left, done>>
     ELSE Finish(t, StatusAfterFailure(t))

-----------------------------------------------------------------------------
(* The process                                                             *)

\* The shutdown of the backend: turns under way go on, and the ledger is flushed.
Shutdown ==
  /\ running /\ running' = FALSE
  /\ \/ disk' = ledger /\ UNCHANGED faults
     \/ Fault /\ disk # ledger /\ UNCHANGED disk
  /\ UNCHANGED <<turn, answer, ledger, pause, boots, executions, crossed, unsaved>>

\* The process ends, in order or not, and the next one reads the file.
Restart ==
  /\ boots < MaxBoots /\ boots' = boots + 1
  /\ pc' = [t \in Turns |-> IF UnderWay(t) THEN "over" ELSE pc[t]]
  /\ ledger' = disk
  /\ unsaved' = unsaved \cup {r \in Ids : \/ \E s \in Statuses : <<r, s>> \in ledger \ disk
                                          \/ \E t \in Turns : UnderWay(t) /\ request[t] = r}
  /\ running' = TRUE
  /\ suppressed' = FALSE /\ overlapped' = FALSE /\ torn' = FALSE
  /\ left' = [t \in Turns |-> 0] /\ done' = [t \in Turns |-> 0]
  /\ attempts' = [t \in Turns |-> 0]
  /\ UNCHANGED <<request, answer, disk, faults, executions, crossed>>

Progress(t) ==
  \/ \E n \in 1 .. MaxSteps : PlanReady(t, n)
  \/ PlanFails(t) \/ StepSucceeds(t) \/ AttemptFails(t)

Next ==
  \/ \E t \in Turns : \/ HandleRequest(t) \/ Progress(t)
                      \/ \E r \in Requests : HandleEnvelope(t, r)
  \/ Shutdown \/ Restart

Spec == Init /\ [][Next]_vars

-----------------------------------------------------------------------------

\* "The same requestId can never be executed twice" (execution_ledger.ts:5): not by
\* a repetition in order, however its first turn went and whichever write failed.
\* Repeated while its first turn is under way, or after an execution that no file
\* tells of, a request is executed again.
ExecutedOnceInOrder ==
  \A r \in Ids : r \notin crossed \cup unsaved => executions[r] <= 1

\* The outcome a caller was told is in the file, and stays there over restarts.
AnswersAreRecorded ==
  \A t \in Turns : answer[t] \in Statuses => <<request[t], answer[t]>> \in disk

\* Maintenance is paused during a typed turn and never after it, unless typed turns
\* overlapped (the first that ends resumes) or one was rejected (none resumes).
PausedInTurns == ~overlapped /\ ~torn => (suppressed <=> TypedUnderWay)

=============================================================================
