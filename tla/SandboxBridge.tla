---------------------------- MODULE SandboxBridge ----------------------------
(***************************************************************************)
(* The bridge between ToolExecutor and the sandbox worker process:         *)
(* class SandboxWorker of src/src/main/services/tool_executor.ts and the   *)
(* serial loop of src/src/main/services/sandbox_worker.ts.                 *)
(*                                                                         *)
(* Requests are numbered by the host (nextId++).  A worker process is      *)
(* named by the request whose call spawned it.  A response line is two     *)
(* chunks, because the pipe may split it anywhere and a dying worker may   *)
(* leave a partial line.                                                   *)
(***************************************************************************)
EXTENDS Integers, Sequences

CONSTANT MaxRuns   \* bound: requests made in one behaviour

ASSUME MaxRunsAssumption == MaxRuns \in Nat \ {0}

Ids == 1 .. MaxRuns
NoWorker == 0

ProcStates ==
  {"unborn",   \* not spawned
   "failed",   \* spawn failed, the 'error' event is still to come
   "running",
   "dead",     \* gone, but exitCode is still null in the host
   "exited",   \* exitCode is set, the 'close' event is still to come
   "closed"}

Outcomes == {"none", "answered", "timedOut", "rejected", "exited", "stopped"}

Chunks == [id : Ids, part : {"head", "tail"}]

VARIABLES
  child,         \* this.child: the current worker, or NoWorker
  nextId,        \* this.nextId
  pending,       \* keys of this.pending; the wall-clock timer of each is armed
  stopped,       \* this.stopped
  stdoutBuffer,  \* this.stdoutBuffer: the request ids whose head it holds
  proc,          \* state of each worker process
  killed,        \* workers that were sent SIGKILL
  inbox,         \* lines in each worker's stdin, its current request first
  pipe,          \* chunks in each worker's stdout, not yet read by the host
  servedBy,      \* the worker each request was written to
  outcome,       \* what the promise of each request was resolved with
  finished       \* requests whose tool has run to its end

host  == <<child, nextId, pending, stopped, stdoutBuffer>>
procs == <<proc, killed, inbox, pipe>>
obs   == <<servedBy, outcome, finished>>
vars  == <<host, procs, obs>>

TypeOK ==
  /\ child \in Ids \cup {NoWorker}
  /\ nextId \in 1 .. MaxRuns + 1
  /\ pending \subseteq Ids
  /\ stopped \in BOOLEAN
  /\ stdoutBuffer \in Seq(Ids)
  /\ proc \in [Ids -> ProcStates]
  /\ killed \subseteq Ids
  /\ inbox \in [Ids -> Seq(Ids)]
  /\ pipe \in [Ids -> Seq(Chunks)]
  /\ servedBy \in [Ids -> Ids \cup {NoWorker}]
  /\ outcome \in [Ids -> Outcomes]
  /\ finished \subseteq Ids

Init ==
  /\ child = NoWorker
  /\ nextId = 1
  /\ pending = {}
  /\ stopped = FALSE
  /\ stdoutBuffer = <<>>
  /\ proc = [w \in Ids |-> "unborn"]
  /\ killed = {}
  /\ inbox = [w \in Ids |-> <<>>]
  /\ pipe = [w \in Ids |-> <<>>]
  /\ servedBy = [i \in Ids |-> NoWorker]
  /\ outcome = [i \in Ids |-> "none"]
  /\ finished = {}

-----------------------------------------------------------------------------
(* Helpers of the host.                                                    *)

\* ensureSpawned's test.  A worker that was killed is never this.child again.
ChildUsable == child # NoWorker /\ proc[child] # "exited"

\* ensureSpawned: keep the child, or spawn one, which may fail to start.
EnsureSpawned(i) ==
  IF ChildUsable
  THEN UNCHANGED <<child, proc, stdoutBuffer>>
  ELSE /\ child' = i
       /\ stdoutBuffer' = <<>>
       /\ \E born \in {"running", "failed"} : proc' = [proc EXCEPT ![i] = born]

\* failPending: settle everything that waits.
FailPending(why) ==
  /\ outcome' = [i \in Ids |-> IF i \in pending THEN why ELSE outcome[i]]
  /\ pending' = {}

\* A bug: the reference is dropped and no signal sent.
KillWorkerForgets == child' = NoWorker /\ UNCHANGED killed

\* killWorker: SIGKILL whatever this.child is now.
KillWorker ==
  /\ killed' = IF child = NoWorker THEN killed ELSE killed \cup {child}
  /\ child' = NoWorker

-----------------------------------------------------------------------------
(* SandboxWorker, in the host.                                             *)

Run(i) ==
  /\ ~stopped
  /\ i = nextId
  /\ nextId' = i + 1
  /\ EnsureSpawned(i)
  /\ servedBy' = [servedBy EXCEPT ![i] = child']
  /\ pending' = pending \cup {i}
  /\ inbox' = [inbox EXCEPT ![child'] = Append(@, i)]
  /\ UNCHANGED <<stopped, killed, pipe, outcome, finished>>

\* run, when the request cannot be serialised: the catch of the write.
RunRejected(i) ==
  /\ ~stopped
  /\ i = nextId
  /\ nextId' = i + 1
  /\ EnsureSpawned(i)
  /\ servedBy' = [servedBy EXCEPT ![i] = child']
  /\ outcome' = [outcome EXCEPT ![i] = "rejected"]
  /\ UNCHANGED <<pending, stopped, killed, inbox, pipe, finished>>

\* A bug: the timers of a lost worker are cleared with it.
DueOnCurrentWorker(i) == i \in pending /\ servedBy[i] = child

\* The wall-clock timers have one duration, so they expire in the order the
\* requests were made in.
Due(i) == i \in pending /\ \A j \in pending : i <= j

Timeout(i) ==
  /\ Due(i)
  /\ pending' = pending \ {i}
  /\ KillWorker
  /\ outcome' = [outcome EXCEPT ![i] = "timedOut"]
  /\ UNCHANGED <<nextId, stopped, stdoutBuffer, proc, inbox, pipe, servedBy, finished>>

\* A head is kept in the buffer; a tail ends the line, which parses only if the
\* buffer held exactly the head of the same response.
Buffered(chunk) == IF chunk.part = "head" THEN Append(stdoutBuffer, chunk.id) ELSE <<>>
Completes(chunk) == chunk.part = "tail" /\ stdoutBuffer = <<chunk.id>>

OnWorkerData(w) ==
  /\ pipe[w] # <<>>
  /\ LET chunk == Head(pipe[w])
     IN /\ stdoutBuffer' = Buffered(chunk)
        /\ IF Completes(chunk) /\ chunk.id \in pending
           THEN /\ pending' = pending \ {chunk.id}
                /\ outcome' = [outcome EXCEPT ![chunk.id] = "answered"]
           ELSE UNCHANGED <<pending, outcome>>
  /\ pipe' = [pipe EXCEPT ![w] = Tail(@)]
  /\ UNCHANGED <<child, nextId, stopped, proc, killed, inbox, servedBy, finished>>

\* A bug: the handlers close over this.child, not over their own child.
AnyWorker(w) == TRUE

IsCurrent(w) == child = w

\* The 'error' and 'close' handlers do nothing about an older child.
WorkerGone(w) ==
  /\ proc' = [proc EXCEPT ![w] = "closed"]
  /\ IF IsCurrent(w)
     THEN FailPending("exited") /\ child' = NoWorker
     ELSE UNCHANGED <<pending, outcome, child>>
  /\ UNCHANGED <<nextId, stopped, stdoutBuffer, killed, inbox, pipe, servedBy, finished>>

OnError(w) == proc[w] = "failed" /\ WorkerGone(w)

\* 'close' comes once the process is gone and its stdout has been read.
OnClose(w) ==
  /\ proc[w] \in {"dead", "exited"}
  /\ pipe[w] = <<>>
  /\ WorkerGone(w)

Shutdown ==
  /\ ~stopped
  /\ stopped' = TRUE
  /\ FailPending("stopped")
  /\ KillWorker
  /\ UNCHANGED <<nextId, stdoutBuffer, proc, inbox, pipe, servedBy, finished>>

-----------------------------------------------------------------------------
(* The worker processes.                                                   *)

\* handleRun on the first line of stdin, to the end of its tool.  A tool that
\* loops for ever is a worker that never takes this step.
HandleRun(w) ==
  /\ proc[w] = "running"
  /\ inbox[w] # <<>>
  /\ LET i == Head(inbox[w])
     IN /\ finished' = finished \cup {i}
        /\ pipe' = [pipe EXCEPT ![w] = @ \o << [id |-> i, part |-> "head"],
                                               [id |-> i, part |-> "tail"] >>]
  /\ inbox' = [inbox EXCEPT ![w] = Tail(@)]
  /\ UNCHANGED <<host, proc, killed, servedBy, outcome>>

\* The process ends: by the SIGKILL, out of memory, or by an exit of its own;
\* perhaps half-way through writing its response.
Die(w) ==
  /\ proc[w] = "running"
  /\ proc' = [proc EXCEPT ![w] = "dead"]
  /\ \/ UNCHANGED pipe
     \/ /\ inbox[w] # <<>>
        /\ pipe' = [pipe EXCEPT ![w] = Append(@, [id |-> Head(inbox[w]), part |-> "head"])]
  /\ UNCHANGED <<host, killed, inbox, obs>>

\* The host learns an exit code, before 'close'.  A worker ended by a signal
\* has none and goes from dead to closed.
SetExitCode(w) ==
  /\ proc[w] = "dead"
  /\ proc' = [proc EXCEPT ![w] = "exited"]
  /\ UNCHANGED <<host, killed, inbox, pipe, obs>>

Next ==
  \/ \E i \in Ids : Run(i) \/ RunRejected(i) \/ Timeout(i)
  \/ \E w \in Ids : OnWorkerData(w) \/ OnError(w) \/ OnClose(w)
  \/ Shutdown
  \/ \E w \in Ids : HandleRun(w) \/ Die(w) \/ SetExitCode(w)

SafeSpec == Init /\ [][Next]_vars

\* Timers fire, and a process that was sent SIGKILL ends.  Nothing else is
\* owed: callers need not call, tools need not end.
Spec ==
  /\ SafeSpec
  /\ \A i \in Ids : WF_vars(Timeout(i))
  /\ \A w \in Ids : WF_vars(w \in killed /\ Die(w))
-----------------------------------------------------------------------------
(* What the bridge guarantees.                                             *)

\* A worker that no longer runs, or that was sent SIGKILL.
Gone(w) == proc[w] \notin {"unborn", "running"} \/ w \in killed

\* At any time at most one worker process runs that was not killed, and it is
\* this.child: no event of an older worker may make the host forget a live one
\* (the per-child guards of tool_executor.ts:71-87).
NoOrphanWorker == \A w \in Ids : proc[w] = "running" /\ w \notin killed => w = child

\* A request given up by the host, because its deadline passed, its worker was
\* lost or the app shuts down, leaves no runaway tool behind: the very worker
\* it was written to is gone, even when another worker was killed for it.
AbandonedWorkIsGone ==
  \A i \in Ids : outcome[i] \in {"timedOut", "exited", "stopped"} => Gone(servedBy[i])

\* Only a tool that ran to its end in the worker is reported as answered,
\* whatever pieces of lines of several workers the host reads in between.
AnswersAreGenuine == \A i \in Ids : outcome[i] = "answered" => i \in finished

\* The requests waiting for an answer are exactly those issued and not
\* settled: dropping an entry of the pending map always resolves its promise.
NoLostPromise ==
  \A i \in Ids : i \in pending <=> (i < nextId /\ outcome[i] = "none")

\* shutdown is permanent: no promise waits and no worker is adopted after it.
ShutdownIsFinal == stopped => pending = {} /\ child = NoWorker

\* A synchronous runaway loop does not survive its deadline: the worker of a
\* request that timed out stops running.
RunawaysDie ==
  \A w \in Ids :
    (\E i \in Ids : outcome[i] = "timedOut" /\ servedBy[i] = w) ~> (proc[w] # "running")

\* The bridge implements the calls of ToolCalls, with their liveness: every
\* request is settled, by the order of the timers if by nothing else.
Phase(i) ==
  CASE i \in pending -> "waiting"
    [] outcome[i] = "answered" -> "answered"
    [] outcome[i] = "timedOut" -> "timedOut"
    [] outcome[i] \in {"rejected", "exited", "stopped"} -> "failed"
    [] OTHER -> "idle"

PhaseOf == [i \in Ids |-> Phase(i)]

Abs == INSTANCE ToolCalls WITH Calls <- Ids, phase <- PhaseOf, open <- ~stopped

ImplementsToolCalls == Abs!CSpec
=============================================================================
