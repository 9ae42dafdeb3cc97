---------------------------- MODULE PythonBridge -----------------------------
(***************************************************************************)
(* The bridge to the persistent Python worker: class PythonRuntime of      *)
(* src/src/main/services/python_runtime.ts, and the serial request loop of *)
(* src/python/nova_runtime/runtime/worker.py.                              *)
(*                                                                         *)
(* startWorker awaits a probe of the interpreter, so a start takes two     *)
(* steps, between which calls, a stop and events of an older worker can    *)
(* come.  Calls that wait for a start proceed together when it ends.       *)
(***************************************************************************)
EXTENDS Integers, Sequences

CONSTANTS
  MaxCalls,   \* bound: calls of request in one behaviour
  MaxSpawns   \* bound: workers spawned in one behaviour

BoundsAssumption == MaxCalls \in Nat \ {0} /\ MaxSpawns \in Nat \ {0}

Calls == 1 .. MaxCalls
Workers == 1 .. MaxSpawns
NoWorker == 0

Phases == {"new",
           "starting",     \* awaits startPromise
           "pending",      \* written to a worker, its timer armed
           "answered", "timedOut", "exited", "stopped", "unavailable"}
Unsettled == {"new", "starting", "pending"}
ProcStates == {"unborn", "failed", "running", "dead", "exited", "closed"}

VARIABLES
  child,         \* this.child, or NoWorker
  stopping,      \* this.stopping
  stopped,       \* this.stopped
  starting,      \* this.startPromise is not null: the probe is running
  restartTimer,  \* this.restartTimer is armed
  phase,         \* where each call of request stands
  spawned,       \* workers spawned so far
  proc,          \* state of each worker process
  terminated,    \* workers that were sent SIGTERM
  inbox,         \* calls in each worker's stdin
  pipe,          \* calls whose response is in each worker's stdout
  lateClose,     \* history: a close event came after a newer worker was spawned
  stopInStart    \* history: stopWorker was called while a start was going on

host    == <<child, stopping, stopped, starting, restartTimer, phase, spawned>>
procs   == <<proc, terminated, inbox, pipe>>
history == <<lateClose, stopInStart>>
vars    == <<host, procs, history>>

TypeOK ==
  /\ child \in Workers \cup {NoWorker}
  /\ stopping \in BOOLEAN /\ stopped \in BOOLEAN
  /\ starting \in BOOLEAN /\ restartTimer \in BOOLEAN
  /\ phase \in [Calls -> Phases]
  /\ spawned \in 0 .. MaxSpawns
  /\ proc \in [Workers -> ProcStates]
  /\ terminated \subseteq Workers
  /\ inbox \in [Workers -> Seq(Calls)]
  /\ pipe \in [Workers -> Seq(Calls)]
  /\ lateClose \in BOOLEAN /\ stopInStart \in BOOLEAN

Init ==
  /\ child = NoWorker
  /\ stopping = FALSE /\ stopped = FALSE
  /\ starting = FALSE /\ restartTimer = FALSE
  /\ phase = [c \in Calls |-> "new"]
  /\ spawned = 0
  /\ proc = [w \in Workers |-> "unborn"]
  /\ terminated = {}
  /\ inbox = [w \in Workers |-> <<>>]
  /\ pipe = [w \in Workers |-> <<>>]
  /\ lateClose = FALSE /\ stopInStart = FALSE

-----------------------------------------------------------------------------
(* PythonRuntime, in the host.                                             *)

\* isWorkerAlive: a worker ended by a signal has no exitCode and looks alive.
Alive == child # NoWorker /\ proc[child] # "exited" /\ ~stopping

In(p) == {c \in Calls : phase[c] = p}

\* The calls of cs, in the order they were made in.
InOrder(cs) == SelectSeq([k \in Calls |-> k], LAMBDA c : c \in cs)

\* request, once a worker is there: all of cs are written to w.
Send(cs, w) ==
  /\ phase' = [c \in Calls |-> IF c \in cs THEN "pending" ELSE phase[c]]
  /\ inbox' = [inbox EXCEPT ![w] = @ \o InOrder(cs)]

\* rejectAllPending
RejectAllPending(why) == [c \in Calls |-> IF phase[c] = "pending" THEN why ELSE phase[c]]

\* Bugs: stopped is not looked at; a live worker is not looked at.
MayStartAlways == TRUE
NeedsStartUntested == ~stopped

\* startWorker joins the start going on, or begins one unless it was stopped.
MayStart == starting \/ ~stopped
NeedsStart == ~Alive /\ ~stopped

\* A bug: a start that fails never resolves startPromise.
FailNoWaiter == phase

\* request when startWorker returned false.
FailWaiters == [c \in Calls |-> IF phase[c] = "starting" THEN "unavailable" ELSE phase[c]]

\* request, to its first wait; calls are numbered in the order they are made in.
Request(c) ==
  /\ phase[c] = "new"
  /\ \A d \in Calls : d < c => phase[d] # "new"
  /\ \/ /\ Alive
        /\ Send({c}, child)
        /\ UNCHANGED starting
     \/ /\ ~Alive
        /\ phase' = [phase EXCEPT ![c] = IF MayStart THEN "starting" ELSE "unavailable"]
        /\ starting' = MayStart
        /\ UNCHANGED <<inbox>>
  /\ UNCHANGED <<child, stopping, stopped, restartTimer, spawned, proc, terminated, pipe, history>>

\* startWorkerInternal after its await, when the interpreter is there.
StartSucceeds ==
  /\ starting
  /\ spawned < MaxSpawns
  /\ LET w == spawned + 1
     IN /\ child' = w
        /\ spawned' = w
        /\ \E born \in {"running", "failed"} : proc' = [proc EXCEPT ![w] = born]
        /\ Send(In("starting"), w)
  /\ stopping' = FALSE
  /\ starting' = FALSE
  /\ UNCHANGED <<stopped, restartTimer, terminated, pipe, lateClose, stopInStart>>

\* The probe says Python is missing, or spawn throws.
StartFails ==
  /\ starting
  /\ starting' = FALSE
  /\ stopping' \in {stopping, FALSE}
  /\ phase' = FailWaiters
  /\ UNCHANGED <<child, stopped, restartTimer, spawned, procs, lateClose, stopInStart>>

\* The probe of the interpreter ends: with an answer, an exit code, an error, or by
\* its own time limit, at which its process is killed.
ProbeEnds == StartSucceeds \/ StartFails

\* The timer of a call: the worker is left alone and may still answer.
Timeout(c) ==
  /\ phase[c] = "pending"
  /\ phase' = [phase EXCEPT ![c] = "timedOut"]
  /\ UNCHANGED <<child, stopping, stopped, starting, restartTimer, spawned, procs, history>>

OnWorkerData(w) ==
  /\ pipe[w] # <<>>
  /\ LET c == Head(pipe[w])
     IN phase' = IF phase[c] = "pending" THEN [phase EXCEPT ![c] = "answered"] ELSE phase
  /\ pipe' = [pipe EXCEPT ![w] = Tail(@)]
  /\ UNCHANGED <<child, stopping, stopped, starting, restartTimer, spawned,
                 proc, terminated, inbox, history>>

\* scheduleRestart
ScheduleRestart == restartTimer \/ ~stopping

\* The 'error' event, and the 'close' that follows it at once and adds nothing.
OnError(w) ==
  /\ proc[w] = "failed"
  /\ proc' = [proc EXCEPT ![w] = "closed"]
  /\ phase' = RejectAllPending("exited")
  /\ child' = NoWorker
  /\ restartTimer' = ScheduleRestart
  /\ UNCHANGED <<stopping, stopped, starting, spawned, terminated, inbox, pipe, history>>

\* The handler does not look whether w is the current worker.
ChildAfterClose(w) == NoWorker

OnClose(w) ==
  /\ proc[w] \in {"dead", "exited"}
  /\ pipe[w] = <<>>
  /\ proc' = [proc EXCEPT ![w] = "closed"]
  /\ phase' = RejectAllPending("exited")
  /\ child' = ChildAfterClose(w)
  /\ restartTimer' = ScheduleRestart
  /\ lateClose' = (lateClose \/ spawned > w)
  /\ UNCHANGED <<stopping, stopped, starting, spawned, terminated, inbox, pipe,
                 stopInStart>>

RestartFires ==
  /\ restartTimer
  /\ restartTimer' = FALSE
  /\ starting' = (starting \/ NeedsStart)
  /\ UNCHANGED <<child, stopping, stopped, phase, spawned, procs, history>>

\* A bug: no signal is sent.
SentSigterm == terminated \cup ({child} \ {NoWorker})

StopWorker ==
  /\ ~stopped
  /\ stopping' = TRUE
  /\ stopped' = TRUE
  /\ restartTimer' = FALSE
  /\ phase' = RejectAllPending("stopped")
  /\ terminated' = SentSigterm
  /\ child' = NoWorker
  /\ stopInStart' = starting
  /\ UNCHANGED <<starting, spawned, proc, inbox, pipe, lateClose>>

-----------------------------------------------------------------------------
(* The worker processes.                                                   *)

\* One turn of _run_stdio: requests are served one after the other.
RunStdio(w) ==
  /\ proc[w] = "running"
  /\ inbox[w] # <<>>
  /\ pipe' = [pipe EXCEPT ![w] = Append(@, Head(inbox[w]))]
  /\ inbox' = [inbox EXCEPT ![w] = Tail(@)]
  /\ UNCHANGED <<host, proc, terminated, history>>

\* By SIGTERM, a crash of a native module, or an exit of its own.
Die(w) ==
  /\ proc[w] = "running"
  /\ proc' = [proc EXCEPT ![w] = "dead"]
  /\ UNCHANGED <<host, terminated, inbox, pipe, history>>

\* The host learns the exit code; 'close' waits until stdout has ended, which
\* a program launched by the worker may hold open.
SetExitCode(w) ==
  /\ proc[w] = "dead"
  /\ proc' = [proc EXCEPT ![w] = "exited"]
  /\ UNCHANGED <<host, terminated, inbox, pipe, history>>

Next ==
  \/ \E c \in Calls : Request(c) \/ Timeout(c)
  \/ ProbeEnds \/ RestartFires \/ StopWorker
  \/ \E w \in Workers : OnWorkerData(w) \/ OnError(w) \/ OnClose(w)
  \/ \E w \in Workers : RunStdio(w) \/ Die(w) \/ SetExitCode(w)

SafeSpec == Init /\ [][Next]_vars

\* The event loop runs: timers fire, the probe ends (it has a timeout of its
\* own), what is in a pipe is read, and an event that is due is delivered.  It
\* is assumed that a program which holds a dead worker's stdout ends some day.
Spec ==
  /\ SafeSpec
  /\ \A c \in Calls : WF_vars(Timeout(c))
  /\ WF_vars(ProbeEnds)
  /\ WF_vars(RestartFires)
  /\ \A w \in Workers : WF_vars(OnWorkerData(w)) /\ WF_vars(OnError(w)) /\ WF_vars(OnClose(w))

-----------------------------------------------------------------------------
(* What the bridge guarantees.                                             *)

\* "Serialize startup so two children are never spawned and one cannot orphan
\* the other" (python_runtime.ts:83-85): a worker that runs and was not told
\* to stop is this.child.  Late close events break it.
NoOrphanWorker == \A w \in Workers : proc[w] = "running" /\ w \notin terminated => w = child

\* Concurrent callers, restarts and failed spawns never leave two workers
\* running, as long as no close event is late.
OneWorkerInOrder == ~lateClose => NoOrphanWorker

\* stopWorker is "Permanent" (python_runtime.ts:392): as long as no stop comes
\* during a start, nothing brings the bridge back - no worker, no call waiting.
StopInOrder ==
  stopped /\ ~stopInStart =>
    child = NoWorker /\ ~starting /\ In("starting") = {} /\ In("pending") = {}

\* Every call of request is settled, whatever dies, restarts or stops.
EveryCallSettles ==
  \A c \in Calls : (phase[c] \in {"starting", "pending"}) ~> (phase[c] \notin Unsettled)
=============================================================================
