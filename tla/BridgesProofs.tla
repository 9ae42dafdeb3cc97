----------------------------- MODULE BridgesProofs -----------------------------
(***************************************************************************)
(* Theorems about the two bridges to worker processes, for every value of  *)
(* the constants of MCBridges: SandboxBridge for any number of requests,   *)
(* and PythonBridge, with the prefix P, for any number of calls and of     *)
(* workers.                                                                *)
(*                                                                         *)
(* The contents of Python's stdin and stdout are left out of the types:    *)
(* InOrder is built with the recursive SelectSeq, about which the provers  *)
(* know nothing, and what the properties say does not depend on it.        *)
(***************************************************************************)
EXTENDS MCBridges, TLAPS

-----------------------------------------------------------------------------
(* The sandbox                                                             *)

\* this.child is a worker that was spawned, not killed, and whose close or
\* error event has not been handled.
ChildIsLive ==
  child # NoWorker => /\ child < nextId
                      /\ child \notin killed
                      /\ proc[child] \notin {"unborn", "closed"}

\* Requests not yet made have left no trace, and each request made was written
\* to a worker that had been spawned.
IssuedRequests ==
  \A i \in Ids :
    /\ i >= nextId => outcome[i] = "none" /\ proc[i] = "unborn" /\ i \notin killed
    /\ i < nextId => servedBy[i] \in Ids /\ proc[servedBy[i]] # "unborn"

\* The end of a response is in a pipe only if the tool ran to its end.
TailsAreFinished ==
  \A w \in Ids : \A k \in 1 .. Len(pipe[w]) :
    pipe[w][k].part = "tail" => pipe[w][k].id \in finished

IInv ==
  /\ TypeOK
  /\ ChildIsLive
  /\ IssuedRequests
  /\ TailsAreFinished
  /\ NoOrphanWorker
  /\ AbandonedWorkIsGone
  /\ AnswersAreGenuine
  /\ NoLostPromise
  /\ ShutdownIsFinal

USE MaxRunsAssumption

-----------------------------------------------------------------------------

\* The empty sequence is a sequence over any set.
LEMMA EmptySeq == ASSUME NEW S PROVE <<>> \in Seq(S)
  OBVIOUS

\* ensureSpawned leaves a current worker, spawned by this call or before it.
LEMMA SpawnType ==
  ASSUME TypeOK, NEW i \in Ids, EnsureSpawned(i)
  PROVE  /\ child' \in Ids
         /\ proc' \in [Ids -> ProcStates]
         /\ stdoutBuffer' \in Seq(Ids)
<1>1. CASE ChildUsable
  BY <1>1 DEF TypeOK, EnsureSpawned, ChildUsable
<1>2. CASE ~ChildUsable
  <2>1. child' = i /\ stdoutBuffer' = <<>>
    BY <1>2 DEF EnsureSpawned
  <2>2. PICK born \in {"running", "failed"} : proc' = [proc EXCEPT ![i] = born]
    BY <1>2 DEF EnsureSpawned
  <2>3. born \in ProcStates
    BY DEF ProcStates
  <2>4. QED
    BY <2>1, <2>2, <2>3, EmptySeq DEF TypeOK
<1>3. QED
  BY <1>1, <1>2

\* TypeOK is inductive on its own: every action of the bridge and of the
\* workers keeps every variable in its range.
LEMMA TypeStep == TypeOK /\ [Next]_vars => TypeOK'
<1> SUFFICES ASSUME TypeOK, [Next]_vars PROVE TypeOK'
  OBVIOUS
<1> USE DEF TypeOK
<1>1. ASSUME NEW i \in Ids, Run(i) PROVE TypeOK'
  <2>1. /\ child' \in Ids
        /\ proc' \in [Ids -> ProcStates]
        /\ stdoutBuffer' \in Seq(Ids)
    BY <1>1, SpawnType DEF Run
  <2>2. nextId' \in 1 .. MaxRuns + 1
    BY <1>1 DEF Run, Ids
  <2>3. inbox' \in [Ids -> Seq(Ids)]
    BY <1>1, <2>1 DEF Run
  <2>4. QED
    BY <1>1, <2>1, <2>2, <2>3 DEF Run
<1>2. ASSUME NEW i \in Ids, RunRejected(i) PROVE TypeOK'
  <2>1. /\ child' \in Ids
        /\ proc' \in [Ids -> ProcStates]
        /\ stdoutBuffer' \in Seq(Ids)
    BY <1>2, SpawnType DEF RunRejected
  <2>2. nextId' \in 1 .. MaxRuns + 1
    BY <1>2 DEF RunRejected, Ids
  <2>3. QED
    BY <1>2, <2>1, <2>2 DEF RunRejected, Outcomes
<1>3. ASSUME NEW i \in Ids, Timeout(i) PROVE TypeOK'
  BY <1>3 DEF Timeout, Due, KillWorker, Outcomes
<1>4. ASSUME NEW w \in Ids, OnWorkerData(w) PROVE TypeOK'
  <2> DEFINE chunk == Head(pipe[w])
  <2>1. chunk \in Chunks /\ Tail(pipe[w]) \in Seq(Chunks)
    BY <1>4 DEF OnWorkerData, Buffered, Completes
  <2>2. chunk.id \in Ids
    BY <2>1 DEF Chunks
  <2>3. stdoutBuffer' \in Seq(Ids)
    BY <1>4, <2>2 DEF OnWorkerData, Buffered, Completes
  <2>4. pending' \subseteq Ids /\ outcome' \in [Ids -> Outcomes]
    BY <1>4, <2>2 DEF OnWorkerData, Buffered, Completes, Outcomes
  <2>5. pipe' \in [Ids -> Seq(Chunks)]
    BY <1>4, <2>1 DEF OnWorkerData, Buffered, Completes
  <2>6. QED
    BY <1>4, <2>3, <2>4, <2>5 DEF OnWorkerData, Buffered, Completes
<1>5. ASSUME NEW w \in Ids, WorkerGone(w) PROVE TypeOK'
  BY <1>5 DEF WorkerGone, IsCurrent, FailPending, Outcomes, ProcStates
<1>6. CASE Shutdown
  BY <1>6 DEF Shutdown, FailPending, KillWorker, Outcomes
<1>7. ASSUME NEW w \in Ids, HandleRun(w) PROVE TypeOK'
  <2> DEFINE i == Head(inbox[w])
  <2>1. i \in Ids /\ Tail(inbox[w]) \in Seq(Ids)
    BY <1>7 DEF HandleRun
  <2> DEFINE head == [id |-> i, part |-> "head"]
             tail == [id |-> i, part |-> "tail"]
  <2>2. head \in Chunks /\ tail \in Chunks
    BY <2>1 DEF Chunks
  <2> HIDE DEF head, tail
  <2>3. <<head, tail>> \in Seq(Chunks)
    BY <2>2
  <2>4. pipe[w] \o <<head, tail>> \in Seq(Chunks)
    BY <2>3
  <2>5. pipe' = [pipe EXCEPT ![w] = @ \o <<head, tail>>]
    BY <1>7 DEF HandleRun, head, tail
  <2>6. pipe' \in [Ids -> Seq(Chunks)]
    BY <2>4, <2>5
  <2>7. QED
    BY <1>7, <2>1, <2>6 DEF HandleRun, host
<1>8. ASSUME NEW w \in Ids, Die(w) PROVE TypeOK'
  <2>1. pipe' \in [Ids -> Seq(Chunks)]
    <3>1. CASE UNCHANGED pipe
      BY <3>1
    <3>2. CASE pipe' # pipe
      <4> DEFINE head == [id |-> Head(inbox[w]), part |-> "head"]
      <4>1. inbox[w] # <<>> /\ pipe' = [pipe EXCEPT ![w] = Append(@, head)]
        BY <1>8, <3>2 DEF Die
      <4>2. head \in Chunks
        BY <4>1 DEF Chunks
      <4> HIDE DEF head
      <4>3. QED
        BY <4>1, <4>2
    <3>3. QED
      BY <3>1, <3>2
  <2>2. QED
    BY <1>8, <2>1 DEF Die, host, obs, ProcStates
<1>9. ASSUME NEW w \in Ids, SetExitCode(w) PROVE TypeOK'
  BY <1>9 DEF SetExitCode, host, obs, ProcStates
<1>10. CASE UNCHANGED vars
  BY <1>10 DEF vars, host, procs, obs
<1>11. QED
  BY <1>1, <1>2, <1>3, <1>4, <1>5, <1>6, <1>7, <1>8, <1>9, <1>10 DEF Next, OnError, OnClose

\* The initial state is well typed.
LEMMA TypeInit == Init => TypeOK
<1>1. <<>> \in Seq(Ids) /\ <<>> \in Seq(Chunks)
  BY EmptySeq
<1>2. "unborn" \in ProcStates /\ "none" \in Outcomes
  BY DEF ProcStates, Outcomes
<1>3. 1 \in 1 .. MaxRuns + 1
  OBVIOUS
<1>4. QED
  BY <1>1, <1>2, <1>3, ZenonT(30) DEF Init, TypeOK

\* The variables of the host and of the workers keep their types in every
\* reachable state.
THEOREM TypeCorrect == SafeSpec => []TypeOK
<1>1. Init => TypeOK
  BY TypeInit
<1>2. QED
  BY <1>1, TypeStep, PTL DEF SafeSpec

-----------------------------------------------------------------------------

\* A request is served by the one worker that may serve it: after
\* ensureSpawned, the current worker is live and no other one runs unkilled.
LEMMA SpawnSafe ==
  ASSUME IInv, NEW i \in Ids, i = nextId, EnsureSpawned(i), nextId' = i + 1, killed' = killed
  PROVE  /\ child' \in Ids /\ child' < nextId' /\ child' \notin killed
         /\ proc'[child'] \notin {"unborn", "closed"}
         /\ \A w \in Ids : w # i => proc'[w] = proc[w]
         /\ NoOrphanWorker'
         /\ \A w \in Ids : Gone(w) => Gone(w)'
<1>1. CASE ChildUsable
  BY <1>1 DEF IInv, TypeOK, ChildIsLive, EnsureSpawned, ChildUsable, NoOrphanWorker, Gone, Ids
<1>2. CASE ~ChildUsable
  <2>1. child' = i
    BY <1>2 DEF EnsureSpawned
  <2>2. PICK born \in {"running", "failed"} : proc' = [proc EXCEPT ![i] = born]
    BY <1>2 DEF EnsureSpawned
  <2>3. proc[i] = "unborn" /\ i \notin killed
    BY DEF IInv, IssuedRequests, Ids
  <2>4. proc'[i] = born /\ \A w \in Ids : w # i => proc'[w] = proc[w]
    BY <2>2 DEF IInv, TypeOK
  <2>5. \A w \in Ids : w # i /\ proc[w] = "running" => w \in killed
    BY <1>2 DEF IInv, NoOrphanWorker, ChildUsable, NoWorker, Ids
  <2>6. NoOrphanWorker'
    BY <2>1, <2>4, <2>5 DEF NoOrphanWorker
  <2>7. \A w \in Ids : Gone(w) => Gone(w)'
    BY <2>3, <2>4 DEF Gone
  <2>8. QED
    BY <2>1, <2>3, <2>4, <2>6, <2>7 DEF Ids
<1>3. QED
  BY <1>1, <1>2

\* A request with an outcome was written to a worker that had been spawned.
LEMMA SettledIsServed ==
  ASSUME IInv, NEW j \in Ids, outcome[j] # "none" \/ j \in pending
  PROVE  j < nextId /\ servedBy[j] \in Ids /\ proc[servedBy[j]] # "unborn"
<1>1. j < nextId
  BY DEF IInv, IssuedRequests, NoLostPromise, TypeOK, Ids
<1>2. QED
  BY <1>1 DEF IInv, IssuedRequests

\* A step that makes no request and settles only waiting ones.
LEMMA IssuedStep ==
  ASSUME IInv, nextId' = nextId, servedBy' = servedBy,
         killed' \subseteq killed \cup {w \in Ids : w < nextId},
         \A w \in Ids : proc'[w] = "unborn" <=> proc[w] = "unborn",
         \A j \in Ids : outcome'[j] = outcome[j] \/ j \in pending
  PROVE  IssuedRequests'
<1> SUFFICES ASSUME NEW i \in Ids
             PROVE  /\ i >= nextId => outcome'[i] = "none" /\ proc'[i] = "unborn" /\ i \notin killed'
                    /\ i < nextId => servedBy[i] \in Ids /\ proc'[servedBy[i]] # "unborn"
  BY DEF IssuedRequests
<1>1. ASSUME i >= nextId PROVE outcome'[i] = "none" /\ proc'[i] = "unborn" /\ i \notin killed'
  <2>1. ~(i < nextId)
    BY <1>1 DEF IInv, TypeOK, Ids
  <2>2. outcome[i] = "none" /\ proc[i] = "unborn" /\ i \notin killed
    BY <1>1 DEF IInv, IssuedRequests
  <2>3. i \notin pending
    BY <2>1 DEF IInv, NoLostPromise
  <2>4. QED
    BY <2>1, <2>2, <2>3
<1>2. ASSUME i < nextId PROVE servedBy[i] \in Ids /\ proc'[servedBy[i]] # "unborn"
  BY <1>2 DEF IInv, IssuedRequests
<1>3. QED
  BY <1>1, <1>2

\* A step that makes a request, on a worker that was spawned now or before.
LEMMA IssuedRun ==
  ASSUME IInv, TypeOK', NEW i \in Ids, i = nextId, nextId' = i + 1, killed' = killed,
         child' \in Ids, proc'[child'] # "unborn",
         \A w \in Ids : w # i => proc'[w] = proc[w],
         servedBy' = [servedBy EXCEPT ![i] = child'],
         \A j \in Ids : j # i => outcome'[j] = outcome[j]
  PROVE  IssuedRequests'
<1> SUFFICES ASSUME NEW j \in Ids
             PROVE  /\ j >= nextId' => outcome'[j] = "none" /\ proc'[j] = "unborn" /\ j \notin killed'
                    /\ j < nextId' => servedBy'[j] \in Ids /\ proc'[servedBy'[j]] # "unborn"
  BY DEF IssuedRequests
<1>1. ASSUME j >= nextId' PROVE outcome'[j] = "none" /\ proc'[j] = "unborn" /\ j \notin killed'
  <2>1. j >= nextId /\ j # i
    BY <1>1 DEF Ids
  <2>2. QED
    BY <2>1 DEF IInv, IssuedRequests
<1>2. CASE j = i
  BY <1>2, <1>1 DEF IInv, TypeOK, Ids
<1>3. ASSUME j < nextId', j # i PROVE servedBy'[j] \in Ids /\ proc'[servedBy'[j]] # "unborn"
  <2>1. j < nextId /\ servedBy'[j] = servedBy[j]
    BY <1>3 DEF IInv, TypeOK, Ids
  <2>2. servedBy[j] \in Ids /\ proc[servedBy[j]] # "unborn"
    BY <2>1 DEF IInv, IssuedRequests
  <2>3. proc[i] = "unborn"
    BY DEF IInv, IssuedRequests, Ids
  <2>4. QED
    BY <2>1, <2>2, <2>3
<1>4. QED
  BY <1>1, <1>2, <1>3

\* A step after which gone workers are still gone, and which gives up only
\* requests whose worker is gone.
LEMMA AbandonedStep ==
  ASSUME IInv,
         \A w \in Ids : Gone(w) => Gone(w)',
         \A j \in Ids : outcome'[j] \in {"timedOut", "exited", "stopped"} =>
             \/ outcome'[j] = outcome[j] /\ servedBy'[j] = servedBy[j]
             \/ Gone(servedBy[j])' /\ servedBy'[j] = servedBy[j]
  PROVE  AbandonedWorkIsGone'
<1> SUFFICES ASSUME NEW j \in Ids, outcome'[j] \in {"timedOut", "exited", "stopped"}
             PROVE  Gone(servedBy[j])'
  BY DEF AbandonedWorkIsGone
<1>1. CASE outcome'[j] = outcome[j] /\ servedBy'[j] = servedBy[j]
  <2>1. Gone(servedBy[j]) /\ servedBy[j] \in Ids
    BY <1>1, SettledIsServed DEF IInv, AbandonedWorkIsGone
  <2>2. Gone(servedBy[j])'
    BY <1>1, <2>1 DEF Gone
  <2>3. QED
    BY <2>2
<1>2. QED
  BY <1>1

\* The invariant of the bridge is kept by every action of the host and of the
\* worker processes.
LEMMA InvStep == IInv /\ [Next]_vars => IInv'
<1> SUFFICES ASSUME IInv, [Next]_vars PROVE IInv'
  OBVIOUS
<1>0. TypeOK /\ TypeOK'
  BY TypeStep DEF IInv
<1>1. ASSUME NEW i \in Ids, Run(i) PROVE IInv'
  <2>1. /\ child' \in Ids /\ child' < nextId' /\ child' \notin killed
        /\ proc'[child'] \notin {"unborn", "closed"}
        /\ \A w \in Ids : w # i => proc'[w] = proc[w]
        /\ NoOrphanWorker'
        /\ \A w \in Ids : Gone(w) => Gone(w)'
    BY <1>1, SpawnSafe DEF Run
  <2>2. /\ i = nextId /\ nextId' = i + 1 /\ pending' = pending \cup {i}
        /\ ~stopped /\ ~stopped'
        /\ outcome[i] = "none"
        /\ servedBy'[i] = child' /\ \A j \in Ids : j # i => servedBy'[j] = servedBy[j]
    BY <1>0, <1>1 DEF Run, IInv, IssuedRequests, TypeOK, Ids
  <2>3. ChildIsLive'
    BY <1>1, <2>1 DEF ChildIsLive, Run
  <2>4. IssuedRequests'
    BY <1>0, <1>1, <2>1, <2>2, IssuedRun DEF Run
  <2>5. TailsAreFinished' /\ AnswersAreGenuine'
    BY <1>1 DEF Run, IInv, TailsAreFinished, AnswersAreGenuine
  <2>6. AbandonedWorkIsGone'
    BY <1>1, <2>1, <2>2, AbandonedStep DEF Run
  <2>7. NoLostPromise' /\ ShutdownIsFinal'
    <3>1. \A j \in Ids : j # i => (j < nextId' <=> j < nextId)
      BY <1>0, <2>2, SMTT(30) DEF TypeOK, Ids
    <3>2. i < nextId' /\ outcome' = outcome
      BY <1>1, <2>2 DEF Run, Ids
    <3>3. QED
      BY <2>2, <3>1, <3>2 DEF IInv, NoLostPromise, ShutdownIsFinal
  <2>8. QED
    BY <1>0, <2>1, <2>3, <2>4, <2>5, <2>6, <2>7 DEF IInv
<1>2. ASSUME NEW i \in Ids, RunRejected(i) PROVE IInv'
  <2>1. /\ child' \in Ids /\ child' < nextId' /\ child' \notin killed
        /\ proc'[child'] \notin {"unborn", "closed"}
        /\ \A w \in Ids : w # i => proc'[w] = proc[w]
        /\ NoOrphanWorker'
        /\ \A w \in Ids : Gone(w) => Gone(w)'
    BY <1>2, SpawnSafe DEF RunRejected
  <2>2. /\ i = nextId /\ nextId' = i + 1 /\ i \notin pending
        /\ ~stopped /\ ~stopped'
        /\ outcome'[i] = "rejected" /\ \A j \in Ids : j # i => outcome'[j] = outcome[j]
        /\ servedBy'[i] = child' /\ \A j \in Ids : j # i => servedBy'[j] = servedBy[j]
    BY <1>0, <1>2 DEF RunRejected, IInv, NoLostPromise, TypeOK, Ids
  <2>3. ChildIsLive'
    BY <1>2, <2>1 DEF ChildIsLive, RunRejected
  <2>4. IssuedRequests'
    BY <1>0, <1>2, <2>1, <2>2, IssuedRun DEF RunRejected
  <2>5. TailsAreFinished' /\ AnswersAreGenuine'
    BY <1>2, <2>2 DEF RunRejected, IInv, TailsAreFinished, AnswersAreGenuine
  <2>6. AbandonedWorkIsGone'
    BY <2>1, <2>2, AbandonedStep
  <2>7. NoLostPromise' /\ ShutdownIsFinal'
    BY <1>0, <1>2, <2>2 DEF RunRejected, IInv, NoLostPromise, ShutdownIsFinal, TypeOK, Ids
  <2>8. QED
    BY <1>0, <2>1, <2>3, <2>4, <2>5, <2>6, <2>7 DEF IInv
<1>3. ASSUME NEW i \in Ids, Timeout(i) PROVE IInv'
  <2>1. /\ child' = NoWorker /\ proc' = proc /\ nextId' = nextId /\ servedBy' = servedBy
        /\ killed \subseteq killed' /\ (child # NoWorker => child \in killed')
        /\ killed' \subseteq killed \cup ({child} \ {NoWorker})
    BY <1>3 DEF Timeout, Due, KillWorker
  <2>2. \A w \in Ids : proc'[w] = "running" => w \in killed'
    BY <2>1 DEF IInv, NoOrphanWorker, NoWorker, Ids
  <2>3. \A w \in Ids : Gone(w) => Gone(w)'
    BY <2>1 DEF Gone
  <2>4. /\ i < nextId /\ outcome[i] = "none"
        /\ outcome'[i] = "timedOut" /\ \A j \in Ids : j # i => outcome'[j] = outcome[j]
    BY <1>0, <1>3 DEF Timeout, Due, IInv, NoLostPromise, TypeOK
  <2>5. Gone(servedBy[i])'
    BY <2>1, <2>2, <2>4 DEF IInv, IssuedRequests, Gone
  <2>6. AbandonedWorkIsGone'
    BY <2>1, <2>3, <2>4, <2>5, AbandonedStep
  <2>7. IssuedRequests'
    <3>1. killed' \subseteq killed \cup {w \in Ids : w < nextId}
      BY <1>0, <2>1 DEF IInv, ChildIsLive, TypeOK
    <3>2. i \in pending
      BY <1>3 DEF Timeout, Due
    <3>3. QED
      BY <2>1, <2>4, <3>1, <3>2, IssuedStep
  <2>8. ChildIsLive' /\ NoOrphanWorker'
    BY <2>1, <2>2 DEF ChildIsLive, NoOrphanWorker
  <2>9. TailsAreFinished' /\ AnswersAreGenuine'
    BY <1>3, <2>4 DEF Timeout, Due, IInv, TailsAreFinished, AnswersAreGenuine
  <2>10. NoLostPromise' /\ ShutdownIsFinal'
    BY <1>3, <2>1, <2>4 DEF Timeout, Due, IInv, NoLostPromise, ShutdownIsFinal
  <2>11. QED
    BY <1>0, <2>6, <2>7, <2>8, <2>9, <2>10 DEF IInv
<1>4. ASSUME NEW w \in Ids, OnWorkerData(w) PROVE IInv'
  <2> DEFINE chunk == Head(pipe[w])
  <2>1. /\ pipe[w] # <<>> /\ pipe[w] \in Seq(Chunks)
        /\ pipe' = [pipe EXCEPT ![w] = Tail(@)]
    BY <1>0, <1>4 DEF OnWorkerData, Buffered, Completes, TypeOK
  <2>2. /\ chunk = pipe[w][1] /\ 1 \in 1 .. Len(pipe[w])
        /\ \A k \in 1 .. Len(Tail(pipe[w])) :
              Tail(pipe[w])[k] = pipe[w][k + 1] /\ k + 1 \in 1 .. Len(pipe[w])
    BY <2>1
  <2>3. chunk.id \in Ids
    <3>1. chunk \in Chunks
      BY <2>1
    <3>2. QED
      BY <3>1 DEF Chunks
  <2>4. chunk.part = "tail" => chunk.id \in finished
    BY <2>2 DEF IInv, TailsAreFinished
  <2>5. \/ UNCHANGED <<pending, outcome>>
        \/ /\ chunk.part = "tail" /\ chunk.id \in pending
           /\ pending' = pending \ {chunk.id}
           /\ outcome' = [outcome EXCEPT ![chunk.id] = "answered"]
    BY <1>4 DEF OnWorkerData, Buffered, Completes
  <2>6. UNCHANGED <<child, nextId, stopped, proc, killed, servedBy, finished>>
    BY <1>4 DEF OnWorkerData, Buffered, Completes
  <2>7. TailsAreFinished'
    <3> SUFFICES ASSUME NEW v \in Ids, NEW k \in 1 .. Len(pipe'[v]), pipe'[v][k].part = "tail"
                 PROVE  pipe'[v][k].id \in finished'
      BY DEF TailsAreFinished
    <3>1. CASE v = w
      <4>1. pipe'[v] = Tail(pipe[w])
        BY <1>0, <2>1, <3>1 DEF TypeOK
      <4>2. pipe'[v][k] = pipe[w][k + 1] /\ k + 1 \in 1 .. Len(pipe[w])
        BY <2>2, <4>1
      <4>3. QED
        BY <2>6, <4>2 DEF IInv, TailsAreFinished
    <3>2. CASE v # w
      BY <1>0, <2>1, <2>6, <3>2 DEF IInv, TailsAreFinished, TypeOK
    <3>3. QED
      BY <3>1, <3>2
  <2>8. AnswersAreGenuine'
    BY <1>0, <2>3, <2>4, <2>5, <2>6 DEF IInv, AnswersAreGenuine, TypeOK
  <2>9. ChildIsLive' /\ NoOrphanWorker'
    BY <2>6 DEF IInv, ChildIsLive, NoOrphanWorker
  <2>10. IssuedRequests'
    <3>1. \A j \in Ids : outcome'[j] = outcome[j] \/ j \in pending
      BY <1>0, <2>3, <2>5 DEF TypeOK
    <3>2. QED
      BY <2>6, <3>1, IssuedStep
  <2>11. AbandonedWorkIsGone'
    <3>1. \A j \in Ids : outcome'[j] # outcome[j] => outcome'[j] = "answered"
      BY <1>0, <2>3, <2>5 DEF TypeOK
    <3>2. \A v \in Ids : Gone(v) => Gone(v)'
      BY <2>6 DEF Gone
    <3>3. QED
      BY <2>6, <3>1, <3>2, AbandonedStep
  <2>12. NoLostPromise' /\ ShutdownIsFinal'
    BY <1>0, <2>3, <2>5, <2>6, ZenonT(30) DEF IInv, NoLostPromise, ShutdownIsFinal, TypeOK
  <2>13. QED
    BY <1>0, <2>7, <2>8, <2>9, <2>10, <2>11, <2>12 DEF IInv
<1>5. ASSUME NEW w \in Ids, WorkerGone(w), proc[w] \in {"failed", "dead", "exited"} PROVE IInv'
  <2>1. /\ proc'[w] = "closed" /\ \A v \in Ids : v # w => proc'[v] = proc[v]
        /\ UNCHANGED <<nextId, stopped, killed, pipe, servedBy, finished>>
    BY <1>0, <1>5 DEF WorkerGone, IsCurrent, TypeOK
  <2>2. \A v \in Ids : Gone(v) => Gone(v)'
    BY <2>1 DEF Gone
  <2>3. TailsAreFinished'
    BY <2>1 DEF IInv, TailsAreFinished
  <2>4. CASE child = w
    <3>1. child' = NoWorker /\ pending' = {}
      BY <1>5, <2>4 DEF WorkerGone, IsCurrent, FailPending
    <3>2. \A j \in Ids : outcome'[j] = IF j \in pending THEN "exited" ELSE outcome[j]
      BY <1>5, <2>4 DEF WorkerGone, IsCurrent, FailPending
    <3>3. \A v \in Ids : proc'[v] = "running" => v \in killed'
      BY <1>5, <2>1, <2>4 DEF IInv, NoOrphanWorker
    <3>4. NoOrphanWorker' /\ ChildIsLive'
      BY <3>1, <3>3 DEF NoOrphanWorker, ChildIsLive
    <3>5. IssuedRequests'
      BY <1>5, <2>1, <3>2, IssuedStep
    <3>6. AbandonedWorkIsGone'
      <4>1. \A j \in pending : Gone(servedBy[j])'
        BY <1>0, <2>1, <3>3, SettledIsServed DEF Gone, TypeOK
      <4>2. QED
        BY <2>1, <2>2, <3>2, <4>1, AbandonedStep
    <3>7. AnswersAreGenuine'
      BY <2>1, <3>2 DEF IInv, AnswersAreGenuine
    <3>8. NoLostPromise' /\ ShutdownIsFinal'
      BY <2>1, <3>1, <3>2 DEF IInv, NoLostPromise, ShutdownIsFinal
    <3>9. QED
      BY <1>0, <2>3, <3>4, <3>5, <3>6, <3>7, <3>8 DEF IInv
  <2>5. CASE child # w
    <3>1. UNCHANGED <<pending, outcome, child>>
      BY <1>5, <2>5 DEF WorkerGone, IsCurrent
    <3>2. ChildIsLive'
      BY <1>0, <2>1, <2>5, <3>1 DEF IInv, ChildIsLive, TypeOK
    <3>3. NoOrphanWorker' /\ AnswersAreGenuine' /\ NoLostPromise' /\ ShutdownIsFinal'
      BY <2>1, <3>1 DEF IInv, NoOrphanWorker, AnswersAreGenuine, NoLostPromise, ShutdownIsFinal
    <3>4. IssuedRequests'
      BY <1>5, <2>1, <3>1 DEF IInv, IssuedRequests
    <3>5. AbandonedWorkIsGone'
      BY <2>1, <2>2, <3>1, AbandonedStep
    <3>6. QED
      BY <1>0, <2>3, <3>2, <3>3, <3>4, <3>5 DEF IInv
  <2>6. QED
    BY <2>4, <2>5
<1>6. CASE Shutdown
  <2>1. /\ child' = NoWorker /\ pending' = {} /\ stopped'
        /\ UNCHANGED <<nextId, proc, pipe, servedBy, finished>>
        /\ killed \subseteq killed' /\ (child # NoWorker => child \in killed')
        /\ killed' \subseteq killed \cup ({child} \ {NoWorker})
    BY <1>6 DEF Shutdown, KillWorker, FailPending
  <2>2. \A j \in Ids : outcome'[j] = IF j \in pending THEN "stopped" ELSE outcome[j]
    BY <1>6 DEF Shutdown, FailPending
  <2>3. \A w \in Ids : proc'[w] = "running" => w \in killed'
    BY <2>1 DEF IInv, NoOrphanWorker, NoWorker, Ids
  <2>4. \A w \in Ids : Gone(w) => Gone(w)'
    BY <2>1 DEF Gone
  <2>5. ChildIsLive' /\ NoOrphanWorker'
    BY <2>1, <2>3 DEF ChildIsLive, NoOrphanWorker
  <2>6. IssuedRequests'
    <3>1. killed' \subseteq killed \cup {w \in Ids : w < nextId}
      BY <1>0, <2>1 DEF IInv, ChildIsLive, TypeOK
    <3>2. QED
      BY <2>1, <2>2, <3>1, IssuedStep
  <2>7. AbandonedWorkIsGone'
    <3>1. \A j \in pending : Gone(servedBy[j])'
      BY <1>0, <2>1, <2>3, SettledIsServed DEF Gone, TypeOK
    <3>2. QED
      BY <2>1, <2>2, <2>4, <3>1, AbandonedStep
  <2>8. TailsAreFinished' /\ AnswersAreGenuine'
    BY <2>1, <2>2 DEF IInv, TailsAreFinished, AnswersAreGenuine
  <2>9. NoLostPromise' /\ ShutdownIsFinal'
    BY <2>1, <2>2 DEF IInv, NoLostPromise, ShutdownIsFinal
  <2>10. QED
    BY <1>0, <2>5, <2>6, <2>7, <2>8, <2>9 DEF IInv
<1>7. ASSUME NEW w \in Ids, HandleRun(w) PROVE IInv'
  <2> DEFINE i == Head(inbox[w])
             out == << [id |-> i, part |-> "head"], [id |-> i, part |-> "tail"] >>
  <2>1. /\ i \in Ids /\ finished' = finished \cup {i}
        /\ pipe' = [pipe EXCEPT ![w] = @ \o out]
        /\ UNCHANGED <<host, proc, killed, servedBy, outcome>>
    BY <1>0, <1>7 DEF HandleRun, TypeOK
  <2>2. TailsAreFinished'
    <3> SUFFICES ASSUME NEW v \in Ids, NEW k \in 1 .. Len(pipe'[v]), pipe'[v][k].part = "tail"
                 PROVE  pipe'[v][k].id \in finished'
      BY DEF TailsAreFinished
    <3>1. CASE v = w
      <4>1. pipe[w] \in Seq(Chunks) /\ pipe'[v] = pipe[w] \o out
        BY <1>0, <2>1, <3>1 DEF TypeOK
      <4>2. CASE k \in 1 .. Len(pipe[w])
        <5>1. pipe'[v][k] = pipe[w][k]
          BY <4>1, <4>2
        <5>2. QED
          BY <2>1, <4>2, <5>1 DEF IInv, TailsAreFinished
      <4>3. CASE k \notin 1 .. Len(pipe[w])
        <5>1. pipe'[v][k] = out[k - Len(pipe[w])] /\ k - Len(pipe[w]) \in 1 .. 2
          BY <4>1, <4>3
        <5>2. pipe'[v][k].id = i
          BY <5>1
        <5>3. QED
          BY <2>1, <5>2
      <4>4. QED
        BY <4>2, <4>3
    <3>2. CASE v # w
      BY <1>0, <2>1, <3>2 DEF IInv, TailsAreFinished, TypeOK
    <3>3. QED
      BY <3>1, <3>2
  <2>3. AnswersAreGenuine'
    BY <2>1 DEF IInv, AnswersAreGenuine
  <2>4. QED
    BY <1>0, <2>1, <2>2, <2>3 DEF IInv, host, ChildIsLive, IssuedRequests, NoOrphanWorker,
       AbandonedWorkIsGone, NoLostPromise, ShutdownIsFinal, Gone
<1>8. ASSUME NEW w \in Ids, Die(w) PROVE IInv'
  <2>1. /\ proc[w] = "running" /\ proc'[w] = "dead"
        /\ \A v \in Ids : v # w => proc'[v] = proc[v]
        /\ UNCHANGED <<host, killed, inbox, obs>>
    BY <1>0, <1>8 DEF Die, TypeOK
  <2>2. TailsAreFinished'
    <3>1. CASE pipe' = pipe
      BY <2>1, <3>1 DEF IInv, TailsAreFinished, obs
    <3>2. CASE pipe' # pipe
      <4> DEFINE last == [id |-> Head(inbox[w]), part |-> "head"]
      <4>1. pipe' = [pipe EXCEPT ![w] = Append(@, last)]
        BY <1>8, <3>2 DEF Die
      <4> SUFFICES ASSUME NEW v \in Ids, NEW k \in 1 .. Len(pipe'[v]), pipe'[v][k].part = "tail"
                   PROVE  pipe'[v][k].id \in finished'
        BY DEF TailsAreFinished
      <4>2. CASE v = w
        <5>1. pipe[w] \in Seq(Chunks) /\ pipe'[v] = Append(pipe[w], last) /\ last.part = "head"
          BY <1>0, <4>1, <4>2 DEF TypeOK
        <5>2. k \in 1 .. Len(pipe[w]) /\ pipe'[v][k] = pipe[w][k]
          BY <5>1
        <5>3. QED
          BY <2>1, <5>2 DEF IInv, TailsAreFinished, obs
      <4>3. CASE v # w
        BY <1>0, <2>1, <4>1, <4>3 DEF IInv, TailsAreFinished, TypeOK, obs
      <4>4. QED
        BY <4>2, <4>3
    <3>3. QED
      BY <3>1, <3>2
  <2>3. ChildIsLive' /\ NoOrphanWorker'
    BY <1>0, <2>1 DEF IInv, host, ChildIsLive, NoOrphanWorker, TypeOK
  <2>4. IssuedRequests'
    BY <2>1, IssuedStep DEF host, obs
  <2>5. AbandonedWorkIsGone'
    <3>1. \A v \in Ids : Gone(v) => Gone(v)'
      BY <2>1 DEF Gone
    <3>2. QED
      BY <2>1, <3>1, AbandonedStep DEF obs
  <2>6. QED
    BY <1>0, <2>1, <2>2, <2>3, <2>4, <2>5 DEF IInv, host, obs,
       AnswersAreGenuine, NoLostPromise, ShutdownIsFinal
<1>9. ASSUME NEW w \in Ids, SetExitCode(w) PROVE IInv'
  <2>1. /\ proc[w] = "dead" /\ proc'[w] = "exited"
        /\ \A v \in Ids : v # w => proc'[v] = proc[v]
        /\ UNCHANGED <<host, killed, inbox, pipe, obs>>
    BY <1>0, <1>9 DEF SetExitCode, TypeOK
  <2>2. ChildIsLive' /\ NoOrphanWorker'
    BY <1>0, <2>1 DEF IInv, host, ChildIsLive, NoOrphanWorker, TypeOK
  <2>3. IssuedRequests'
    BY <2>1, IssuedStep DEF host, obs
  <2>4. AbandonedWorkIsGone'
    <3>1. \A v \in Ids : Gone(v) => Gone(v)'
      BY <2>1 DEF Gone
    <3>2. QED
      BY <2>1, <3>1, AbandonedStep DEF obs
  <2>5. QED
    BY <1>0, <2>1, <2>2, <2>3, <2>4 DEF IInv, host, obs, TailsAreFinished,
       AnswersAreGenuine, NoLostPromise, ShutdownIsFinal
<1>10. CASE UNCHANGED vars
  BY <1>0, <1>10 DEF IInv, vars, host, procs, obs, ChildIsLive, IssuedRequests, NoOrphanWorker,
     TailsAreFinished, AbandonedWorkIsGone, AnswersAreGenuine, NoLostPromise, ShutdownIsFinal, Gone
<1>11. QED
  BY <1>1, <1>2, <1>3, <1>4, <1>5, <1>6, <1>7, <1>8, <1>9, <1>10 DEF Next, OnError, OnClose

\* The invariant holds initially.
LEMMA InvInit == Init => IInv
<1> SUFFICES ASSUME Init PROVE IInv
  OBVIOUS
<1>1. TypeOK
  BY TypeInit
<1>2. QED
  BY <1>1 DEF Init, IInv, ChildIsLive, IssuedRequests, TailsAreFinished, NoOrphanWorker,
     AbandonedWorkIsGone, AnswersAreGenuine, NoLostPromise, ShutdownIsFinal, Ids, Gone

\* In every reachable state: one live worker at most, no runaway left behind,
\* genuine answers only, no promise lost, and a final shutdown.
THEOREM BridgeSafe ==
  SafeSpec => [](/\ NoOrphanWorker /\ AbandonedWorkIsGone /\ AnswersAreGenuine
                 /\ NoLostPromise /\ ShutdownIsFinal)
<1>1. Init => IInv
  BY InvInit
<1>2. IInv => /\ NoOrphanWorker /\ AbandonedWorkIsGone /\ AnswersAreGenuine
              /\ NoLostPromise /\ ShutdownIsFinal
  BY DEF IInv
<1>3. QED
  BY <1>1, <1>2, InvStep, PTL DEF SafeSpec

-----------------------------------------------------------------------------
(* The bridge implements ToolCalls.                                        *)

\* A step that touches one request changes the phase of that request only.
LEMMA OnePhase ==
  ASSUME NEW i \in Ids,
         \A j \in Ids : j # i => /\ j \in pending' <=> j \in pending
                                 /\ outcome'[j] = outcome[j]
  PROVE  PhaseOf' = [PhaseOf EXCEPT ![i] = Phase(i)']
<1>1. \A j \in Ids : j # i => Phase(j)' = Phase(j)
  BY DEF Phase
<1>2. QED
  BY <1>1 DEF PhaseOf

\* A step that fails every waiting request.
LEMMA AllFail ==
  ASSUME IInv, NEW why \in {"exited", "stopped"}, FailPending(why)
  PROVE  PhaseOf' = Abs!FailWaiting
<1>1. \A j \in Ids : Phase(j)' = IF Phase(j) = "waiting" THEN "failed" ELSE Phase(j)
  BY DEF Phase, FailPending, IInv, NoLostPromise
<1>2. QED
  BY <1>1 DEF PhaseOf, Abs!FailWaiting

\* A request that may wait but has not been settled is idle or waiting.
LEMMA PhaseFacts ==
  ASSUME IInv, NEW i \in Ids
  PROVE  /\ i \in pending => PhaseOf[i] = "waiting"
         /\ i = nextId => PhaseOf[i] = "idle" /\ i \notin pending
BY SMTT(30) DEF IInv, TypeOK, NoLostPromise, IssuedRequests, PhaseOf, Phase, Ids

\* Every step of the bridge is a step of ToolCalls, or changes nothing a
\* caller can see.
LEMMA StepImplements == IInv /\ IInv' /\ [Next]_vars => [Abs!CNext]_(Abs!cvars)
<1> SUFFICES ASSUME IInv, IInv', [Next]_vars PROVE [Abs!CNext]_(Abs!cvars)
  OBVIOUS
<1>1. ASSUME NEW i \in Ids, Run(i) PROVE Abs!Accept(i)
  <2>1. PhaseOf' = [PhaseOf EXCEPT ![i] = Phase(i)']
    BY <1>1, OnePhase DEF Run
  <2>2. Phase(i)' = "waiting"
    BY <1>1 DEF Run, Phase, IInv, NoLostPromise
  <2>3. QED
    BY <1>1, <2>1, <2>2, PhaseFacts DEF Run, Abs!Accept
<1>2. ASSUME NEW i \in Ids, RunRejected(i) PROVE Abs!Refuse(i)
  <2>1. outcome' = [outcome EXCEPT ![i] = "rejected"] /\ i \notin pending /\ pending' = pending
    BY <1>2, PhaseFacts DEF RunRejected
  <2>2. PhaseOf' = [PhaseOf EXCEPT ![i] = Phase(i)']
    BY <2>1, OnePhase DEF IInv, TypeOK
  <2>3. Phase(i)' = "failed"
    BY <2>1 DEF Phase, IInv, TypeOK
  <2>4. QED
    BY <1>2, <2>2, <2>3, PhaseFacts DEF RunRejected, Abs!Refuse
<1>3. ASSUME NEW i \in Ids, Timeout(i) PROVE Abs!Expire(i)
  <2>1. /\ outcome' = [outcome EXCEPT ![i] = "timedOut"] /\ pending' = pending \ {i}
        /\ i \in pending /\ stopped' = stopped
    BY <1>3 DEF Timeout, Due
  <2>2. PhaseOf' = [PhaseOf EXCEPT ![i] = Phase(i)']
    BY <2>1, OnePhase DEF IInv, TypeOK
  <2>3. Phase(i)' = "timedOut"
    BY <2>1 DEF Phase, IInv, TypeOK
  <2>4. QED
    BY <2>1, <2>2, <2>3, PhaseFacts DEF Abs!Expire
<1>4. ASSUME NEW w \in Ids, OnWorkerData(w)
      PROVE  (\E i \in Ids : Abs!Answer(i)) \/ UNCHANGED Abs!cvars
  <2>1. CASE UNCHANGED <<pending, outcome>>
    BY <1>4, <2>1 DEF OnWorkerData, Buffered, Completes, Abs!cvars, PhaseOf, Phase
  <2>2. CASE ~UNCHANGED <<pending, outcome>>
    <3>1. PICK i \in pending : /\ pending' = pending \ {i}
                               /\ outcome' = [outcome EXCEPT ![i] = "answered"]
      BY <1>4, <2>2 DEF OnWorkerData, Buffered, Completes
    <3>2. i \in Ids /\ stopped' = stopped
      BY <1>4 DEF OnWorkerData, Buffered, Completes, IInv, TypeOK
    <3>3. PhaseOf' = [PhaseOf EXCEPT ![i] = Phase(i)']
      BY <3>1, <3>2, OnePhase DEF IInv, TypeOK
    <3>4. Phase(i)' = "answered"
      BY <3>1, <3>2 DEF Phase, IInv, TypeOK
    <3>5. Abs!Answer(i)
      BY <3>2, <3>3, <3>4, PhaseFacts DEF Abs!Answer
    <3>6. QED
      BY <3>2, <3>5
  <2>3. QED
    BY <2>1, <2>2
<1>5. ASSUME NEW w \in Ids, WorkerGone(w) PROVE Abs!LoseWorker \/ UNCHANGED Abs!cvars
  <2>1. CASE child = w
    <3>1. FailPending("exited") /\ stopped' = stopped
      BY <1>5, <2>1 DEF WorkerGone, IsCurrent
    <3>2. ~stopped
      BY <2>1 DEF IInv, ShutdownIsFinal, NoWorker, Ids
    <3>3. QED
      BY <3>1, <3>2, AllFail DEF Abs!LoseWorker
  <2>2. CASE child # w
    BY <1>5, <2>2 DEF WorkerGone, IsCurrent, Abs!cvars, PhaseOf, Phase
  <2>3. QED
    BY <2>1, <2>2
<1>6. CASE Shutdown
  <2>1. FailPending("stopped") /\ ~stopped /\ stopped'
    BY <1>6 DEF Shutdown
  <2>2. (~stopped)' = FALSE /\ ~stopped = TRUE
    BY <2>1 DEF IInv, TypeOK
  <2>3. Abs!Close
    BY <2>1, <2>2, AllFail DEF Abs!Close
  <2>4. QED
    BY <2>3 DEF Abs!CNext
<1>7. ASSUME NEW w \in Ids, HandleRun(w) \/ Die(w) \/ SetExitCode(w) PROVE UNCHANGED Abs!cvars
  BY <1>7 DEF HandleRun, Die, SetExitCode, host, obs, Abs!cvars, PhaseOf, Phase
<1>8. CASE UNCHANGED vars
  BY <1>8 DEF vars, host, obs, Abs!cvars, PhaseOf, Phase
<1>9. QED
  BY <1>1, <1>2, <1>3, <1>4, <1>5, <1>6, <1>7, <1>8 DEF Next, OnError, OnClose, Abs!CNext

\* The bridge implements ToolCalls: every accepted call is settled at most
\* once, refused once closed, and never resumed.
THEOREM Refinement == SafeSpec => Abs!CSafe
<1>1. Init => IInv
  BY InvInit
<1>2. Init => Abs!CInit
  BY DEF Init, Abs!CInit, PhaseOf, Phase
<1>3. QED
  BY <1>1, <1>2, InvStep, StepImplements, PTL DEF SafeSpec, Abs!CSafe

-----------------------------------------------------------------------------
(* Python                                                                  *)

\* The type invariant, but for the pipes.
HostTypes ==
  /\ worker \in P!Workers \cup {P!NoWorker}
  /\ stopping \in BOOLEAN /\ halted \in BOOLEAN
  /\ starting \in BOOLEAN /\ restartTimer \in BOOLEAN
  /\ phase \in [P!Calls -> P!Phases]
  /\ spawned \in 0 .. MaxSpawns
  /\ process \in [P!Workers -> P!ProcStates]
  /\ terminated \subseteq P!Workers
  /\ lateClose \in BOOLEAN /\ stopInStart \in BOOLEAN

\* Workers are spawned in the order of their numbers, and this.child is the last
\* one, whose close or error event has not been handled.
ChildIsLast ==
  /\ \A w \in P!Workers : w > spawned => process[w] = "unborn"
  /\ worker # P!NoWorker => worker = spawned /\ process[worker] \notin {"unborn", "closed"}

\* A start goes on only while no worker is usable: the one there was, if it still
\* is this.child, has exited.
StartNeeded ==
  /\ stopping => halted
  /\ starting => worker = P!NoWorker \/ process[worker] = "exited"

\* Calls wait for a start only while there is one.
WaitersHaveAStart == P!In("starting") # {} => starting

\* A worker that could not be spawned is this.child until its error event has been
\* handled, or stopWorker has let it go; then nothing is started any more.
FailedInOrder ==
  ~lateClose =>
    \A w \in P!Workers :
      process[w] = "failed" /\ w # worker => halted /\ ~starting /\ worker = P!NoWorker

\* One worker runs, and the calls of a stopped bridge are settled; the strengthening
\* by which each step keeps OneWorkerInOrder and StopInOrder.
PythonInv ==
  /\ HostTypes
  /\ ChildIsLast
  /\ StartNeeded
  /\ WaitersHaveAStart
  /\ FailedInOrder
  /\ P!OneWorkerInOrder
  /\ P!StopInOrder

-----------------------------------------------------------------------------

\* The initial state: no worker was spawned, and no call was made.
LEMMA PythonInit == ASSUME P!BoundsAssumption, P!Init PROVE PythonInv
<1> USE DEF P!BoundsAssumption
<1>1. HostTypes
  <2>1. spawned \in 0 .. MaxSpawns
    BY DEF P!Init
  <2>2. phase \in [P!Calls -> P!Phases] /\ process \in [P!Workers -> P!ProcStates]
    BY DEF P!Init, P!Phases, P!ProcStates
  <2>3. QED
    BY <2>1, <2>2 DEF P!Init, HostTypes
<1>2. P!In("starting") = {} /\ P!In("pending") = {}
  BY DEF P!Init, P!In
<1>3. QED
  BY <1>1, <1>2 DEF P!Init, PythonInv, ChildIsLast, StartNeeded, WaitersHaveAStart, FailedInOrder,
                    P!OneWorkerInOrder, P!NoOrphanWorker, P!StopInOrder, P!NoWorker

\* Every action keeps the types.
LEMMA PythonTypes == ASSUME P!BoundsAssumption, HostTypes, [P!Next]_(P!vars) PROVE HostTypes'
<1> USE DEF P!BoundsAssumption, HostTypes
<1>1. ASSUME NEW c \in P!Calls, P!Request(c) PROVE HostTypes'
  BY <1>1 DEF P!Request, P!Send, P!Phases, P!MayStart, P!history
<1>2. ASSUME NEW c \in P!Calls, P!Timeout(c) PROVE HostTypes'
  BY <1>2 DEF P!Timeout, P!Phases, P!procs, P!history
<1>3. CASE P!StartSucceeds
  <2>1. spawned + 1 \in P!Workers /\ spawned + 1 \in 0 .. MaxSpawns
    BY <1>3 DEF P!StartSucceeds, P!Workers
  <2>2. process' \in [P!Workers -> P!ProcStates]
    BY <1>3 DEF P!StartSucceeds, P!ProcStates
  <2>3. phase' \in [P!Calls -> P!Phases]
    BY <1>3 DEF P!StartSucceeds, P!Send, P!Phases
  <2>4. QED
    BY <1>3, <2>1, <2>2, <2>3 DEF P!StartSucceeds
<1>4. CASE P!StartFails
  BY <1>4 DEF P!StartFails, P!FailWaiters, P!Phases, P!procs
<1>5. CASE P!RestartFires
  BY <1>5 DEF P!RestartFires, P!NeedsStart, P!Alive, P!procs, P!history
<1>6. CASE P!StopWorker
  BY <1>6 DEF P!StopWorker, P!RejectAllPending, P!SentSigterm, P!Phases
<1>7. ASSUME NEW w \in P!Workers, P!OnWorkerData(w) PROVE HostTypes'
  BY <1>7 DEF P!OnWorkerData, P!Phases, P!history
<1>8. ASSUME NEW w \in P!Workers, P!OnError(w) PROVE HostTypes'
  BY <1>8 DEF P!OnError, P!RejectAllPending, P!ScheduleRestart, P!Phases, P!ProcStates, P!history
<1>9. ASSUME NEW w \in P!Workers, P!OnClose(w) PROVE HostTypes'
  BY <1>9 DEF P!OnClose, P!RejectAllPending, P!ChildAfterClose, P!ScheduleRestart,
              P!Phases, P!ProcStates
<1>10. ASSUME NEW w \in P!Workers, P!RunStdio(w) \/ P!Die(w) \/ P!SetExitCode(w) PROVE HostTypes'
  BY <1>10 DEF P!RunStdio, P!Die, P!SetExitCode, P!ProcStates, P!host, P!history
<1>11. CASE UNCHANGED P!vars
  BY <1>11 DEF P!vars, P!host, P!procs, P!history
<1>12. QED
  BY <1>1, <1>2, <1>3, <1>4, <1>5, <1>6, <1>7, <1>8, <1>9, <1>10, <1>11 DEF P!Next, P!ProbeEnds

\* Every action keeps the invariant.
LEMMA PythonStep == ASSUME P!BoundsAssumption, PythonInv, [P!Next]_(P!vars) PROVE PythonInv'
<1> USE DEF P!BoundsAssumption, P!NoWorker
<1>0. HostTypes /\ HostTypes'
  BY PythonTypes DEF PythonInv
<1> USE DEF PythonInv, ChildIsLast, StartNeeded, WaitersHaveAStart, FailedInOrder,
            P!OneWorkerInOrder, P!NoOrphanWorker, P!StopInOrder, P!In
<1>1. ASSUME NEW c \in P!Calls, P!Request(c) PROVE PythonInv'
  BY <1>0, <1>1 DEF HostTypes, P!Request, P!Send, P!MayStart, P!Alive, P!history
<1>2. ASSUME NEW c \in P!Calls, P!Timeout(c) PROVE PythonInv'
  BY <1>0, <1>2 DEF HostTypes, P!Timeout, P!procs, P!history
<1>3. CASE P!StartSucceeds
  BY <1>0, <1>3 DEF HostTypes, P!StartSucceeds, P!Send, P!Workers
<1>4. CASE P!StartFails
  <2>1. \A c \in P!Calls : phase'[c] # "starting" /\ (phase'[c] = "pending" => phase[c] = "pending")
    BY <1>0, <1>4 DEF HostTypes, P!StartFails, P!FailWaiters
  <2>2. UNCHANGED <<worker, halted, spawned, P!procs, lateClose, stopInStart>> /\ ~starting'
    BY <1>4 DEF P!StartFails
  <2>3. stopping' => stopping
    BY <1>0, <1>4 DEF HostTypes, P!StartFails
  <2>4. QED
    BY <1>0, <2>1, <2>2, <2>3 DEF P!procs
<1>5. CASE P!RestartFires
  BY <1>0, <1>5 DEF HostTypes, P!RestartFires, P!NeedsStart, P!Alive, P!procs, P!history
<1>6. CASE P!StopWorker
  BY <1>0, <1>6 DEF HostTypes, P!StopWorker, P!RejectAllPending, P!SentSigterm
<1>7. ASSUME NEW w \in P!Workers, P!OnWorkerData(w) PROVE PythonInv'
  BY <1>0, <1>7 DEF HostTypes, P!OnWorkerData, P!history
<1>8. ASSUME NEW w \in P!Workers, P!OnError(w) PROVE PythonInv'
  BY <1>0, <1>8 DEF HostTypes, P!OnError, P!RejectAllPending, P!history
<1>9. ASSUME NEW w \in P!Workers, P!OnClose(w) PROVE PythonInv'
  <2>1. /\ worker' = P!NoWorker
        /\ UNCHANGED <<stopping, halted, starting, spawned, terminated, stopInStart>>
    BY <1>9 DEF P!OnClose, P!ChildAfterClose
  <2>2. process[w] \in {"dead", "exited"} /\ process'[w] = "closed"
    BY <1>0, <1>9 DEF HostTypes, P!OnClose
  <2>3. \A v \in P!Workers : v # w => process'[v] = process[v]
    BY <1>0, <1>9 DEF HostTypes, P!OnClose
  <2>4. P!In("starting")' = P!In("starting") /\ P!In("pending")' = {}
    BY <1>9 DEF P!OnClose, P!RejectAllPending
  \* Without a late close event, the worker that closes is the last one spawned.
  <2>5. ~lateClose' => ~lateClose /\ w = spawned
    <3>1. ~lateClose' => ~lateClose /\ ~(spawned > w)
      BY <1>9 DEF P!OnClose
    <3>2. ~(w > spawned)
      BY <2>2
    <3>3. QED
      BY <1>0, <3>1, <3>2 DEF HostTypes, P!Workers
  <2>6. ChildIsLast' /\ StartNeeded' /\ WaitersHaveAStart' /\ P!StopInOrder'
    BY <1>0, <2>1, <2>2, <2>3, <2>4 DEF HostTypes
  <2>7. P!OneWorkerInOrder'
    BY <2>1, <2>2, <2>3, <2>5
  <2>8. FailedInOrder'
    BY <2>1, <2>2, <2>3, <2>5
  <2>9. QED
    BY <1>0, <2>6, <2>7, <2>8
<1>10. ASSUME NEW w \in P!Workers, P!RunStdio(w) \/ P!Die(w) \/ P!SetExitCode(w) PROVE PythonInv'
  BY <1>0, <1>10 DEF HostTypes, P!RunStdio, P!Die, P!SetExitCode, P!host, P!history
<1>11. CASE UNCHANGED P!vars
  BY <1>0, <1>11 DEF P!vars, P!host, P!procs, P!history
<1>12. QED
  BY <1>1, <1>2, <1>3, <1>4, <1>5, <1>6, <1>7, <1>8, <1>9, <1>10, <1>11 DEF P!Next, P!ProbeEnds

-----------------------------------------------------------------------------

\* Concurrent callers, restarts, failed spawns and a stop never leave a worker running
\* that is not this.child, as long as no close event comes late (python_runtime.ts:289).
THEOREM OneWorker == ASSUME P!BoundsAssumption PROVE P!SafeSpec => []OneWorkerInOrder
<1>1. P!Init => PythonInv
  BY PythonInit
<1>2. PythonInv /\ [P!Next]_(P!vars) => PythonInv'
  BY PythonStep
<1>3. PythonInv => OneWorkerInOrder
  BY DEF PythonInv, OneWorkerInOrder
<1>4. QED
  BY <1>1, <1>2, <1>3, PTL DEF P!SafeSpec

\* stopWorker is permanent, as long as it does not come during a start.
THEOREM StopIsPermanent == ASSUME P!BoundsAssumption PROVE P!SafeSpec => []StopInOrder
<1>1. P!Init => PythonInv
  BY PythonInit
<1>2. PythonInv /\ [P!Next]_(P!vars) => PythonInv'
  BY PythonStep
<1>3. PythonInv => StopInOrder
  BY DEF PythonInv, StopInOrder
<1>4. QED
  BY <1>1, <1>2, <1>3, PTL DEF P!SafeSpec
=============================================================================
