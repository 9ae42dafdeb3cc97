------------------------------ MODULE MCBridges ------------------------------
(***************************************************************************)
(* The two bridges to worker processes for TLC.  They share no state; each *)
(* behaviour moves one of them, its focus.                                 *)
(*                                                                         *)
(* The sandbox has three requests: then the second, stranded by the first  *)
(* one's timeout, can kill the third one's worker.  The Python bridge has  *)
(* two calls, which can share a start, and three workers: one that dies,   *)
(* its replacement, and the one a late close event leads to.               *)
(***************************************************************************)
EXTENDS SandboxBridge

CONSTANTS MaxCalls, MaxSpawns

VARIABLES
  focus,
  worker, stopping, halted, starting, restartTimer, phase, spawned, process, terminated,
  stdin, stdout, lateClose, stopInStart

pythonVars ==
  <<worker, stopping, halted, starting, restartTimer, phase, spawned, process, terminated,
    stdin, stdout, lateClose, stopInStart>>
allVars == <<focus, vars, pythonVars>>

P == INSTANCE PythonBridge WITH
       child <- worker, stopped <- halted, proc <- process, inbox <- stdin, pipe <- stdout

ASSUME P!BoundsAssumption

OfSandbox(Step) == focus = "sandbox" /\ Step /\ UNCHANGED <<focus, pythonVars>>
OfPython(Step) == focus = "python" /\ Step /\ UNCHANGED <<focus, vars>>

MCInit == focus \in {"sandbox", "python"} /\ Init /\ P!Init
MCNext == OfSandbox(Next) \/ OfPython(P!Next)

\* The fairness of SandboxBridge and of PythonBridge
MCSpec ==
  /\ MCInit /\ [][MCNext]_allVars
  /\ \A i \in Ids : WF_allVars(OfSandbox(Timeout(i)))
  /\ \A w \in Ids : WF_allVars(OfSandbox(w \in killed /\ Die(w)))
  /\ \A c \in P!Calls : WF_allVars(OfPython(P!Timeout(c)))
  /\ WF_allVars(OfPython(P!ProbeEnds))
  /\ WF_allVars(OfPython(P!RestartFires))
  /\ \A w \in P!Workers :
       /\ WF_allVars(OfPython(P!OnWorkerData(w)))
       /\ WF_allVars(OfPython(P!OnError(w)))
       /\ WF_allVars(OfPython(P!OnClose(w)))

OneWorkerInOrder == P!OneWorkerInOrder
StopInOrder == P!StopInOrder
EveryCallSettles == P!EveryCallSettles
=============================================================================
