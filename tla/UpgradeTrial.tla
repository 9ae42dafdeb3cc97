---------------------------- MODULE UpgradeTrial ----------------------------
(***************************************************************************)
(* Upgrade proposals and their trials: UpgradeEngine and TrialManager of   *)
(* src/New Backend/src/upgrades.  src/src/main/adam has the same two       *)
(* classes without the file.                                               *)
(*                                                                         *)
(* A proposal's status is written to a file, atomically, whenever it       *)
(* changes; the trial manager's state dies with the process.  A health     *)
(* check awaits a probe of the Python runtime, while the user decides, the *)
(* trial ends, or another one starts.  The host names a proposal it read   *)
(* from readyUpgrades before.                                              *)
(***************************************************************************)
EXTENDS Naturals

CONSTANTS
  Proposals,
  None,
  MaxTrials, \* bound: trials begun in the life of the file
  MaxChecks, \* bound: health checks of one trial under way at once
  MaxBoots   \* bound: ends of the app

TrialAssumption ==
  /\ None \notin Proposals
  /\ {MaxTrials, MaxChecks, MaxBoots} \subseteq Nat

VARIABLES
  status,    \* UpgradeProposal.status
  listed,    \* proposals the host has read from readyUpgrades
  state,     \* TrialManager.state
  current,   \* TrialManager.current
  late,      \* maxTrialMs have passed since trialStartedAt
  trial,     \* number of the trial that began last
  waiting,   \* per trial: its checks that await the health engine
  boots,
  validated, \* history: proposals whose candidate passed
  kept,      \* history: the trial was broken off by keepCurrent or a crash
  untimely,  \* history: a trial began of a proposal that was not ready
  outrun     \* history: a check answered after its trial was over

manager == <<state, current, late, trial, waiting>>
history == <<validated, kept, untimely, outrun>>
vars == <<status, listed, manager, boots, history>>

Statuses == {"none", "proposed", "building", "ready", "rejected", "trial", "accepted",
             "rolled_back"}

TypeOK ==
  /\ status \in [Proposals -> Statuses]
  /\ listed \subseteq Proposals
  /\ state \in {"idle", "trial", "accepted", "rolled_back"}
  /\ current \in Proposals \cup {None}
  /\ late \in BOOLEAN
  /\ trial \in 0 .. MaxTrials
  /\ waiting \in [1 .. MaxTrials -> 0 .. MaxChecks]
  /\ boots \in 0 .. MaxBoots
  /\ validated \subseteq Proposals /\ kept \subseteq Proposals
  /\ {untimely, outrun} \subseteq BOOLEAN
  /\ state = "trial" => current # None

Fresh ==
  /\ listed' = {}
  /\ state' = "idle" /\ current' = None /\ late' = FALSE
  /\ waiting' = [n \in 1 .. MaxTrials |-> 0]

Init ==
  /\ status = [p \in Proposals |-> "none"]
  /\ listed = {}
  /\ state = "idle" /\ current = None /\ late = FALSE
  /\ trial = 0 /\ waiting = [n \in 1 .. MaxTrials |-> 0]
  /\ boots = 0
  /\ validated = {} /\ kept = {} /\ untimely = FALSE /\ outrun = FALSE

-----------------------------------------------------------------------------
(* UpgradeEngine                                                           *)

SetStatus(p, s) == status' = [status EXCEPT ![p] = s]

Propose(p) ==
  /\ status[p] = "none" /\ SetStatus(p, "proposed")
  /\ UNCHANGED <<listed, manager, boots, history>>

\* buildAndValidate up to its await of the hook
Build(p) ==
  /\ status[p] = "proposed" /\ SetStatus(p, "building")
  /\ UNCHANGED <<listed, manager, boots, history>>

\* A bug: the outcome of the hook is not looked at.
ReadyAnyway(passed) == "ready"

AfterBuild(passed) == IF passed THEN "ready" ELSE "rejected"

\* The hook has answered.
BuildEnds(p, passed) ==
  /\ status[p] = "building"
  /\ SetStatus(p, AfterBuild(passed))
  /\ validated' = IF passed THEN validated \cup {p} ELSE validated
  /\ UNCHANGED <<listed, manager, boots, kept, untimely, outrun>>

\* readyUpgradeProposals
ReadyUpgrades ==
  /\ listed' = listed \cup {p \in Proposals : status[p] = "ready"}
  /\ listed' # listed
  /\ UNCHANGED <<status, manager, boots, history>>

Rollback(p) == IF p = None THEN UNCHANGED status ELSE SetStatus(p, "rolled_back")

-----------------------------------------------------------------------------
(* TrialManager                                                            *)

\* startTrial.  The engine returns a proposal that is not ready as it is, and the
\* manager's trial begins all the same.
StartTrial(p) ==
  /\ p \in listed /\ state # "trial" /\ trial < MaxTrials
  /\ IF status[p] = "ready" THEN SetStatus(p, "trial") ELSE UNCHANGED status
  /\ untimely' = (untimely \/ status[p] # "ready")
  /\ state' = "trial" /\ current' = p /\ late' = FALSE
  /\ trial' = trial + 1
  /\ UNCHANGED <<listed, waiting, boots, validated, kept, outrun>>

\* accept, by the user or because the time is over; there may be nothing to accept.
Accept ==
  /\ IF current = None THEN UNCHANGED status ELSE SetStatus(current, "accepted")
  /\ state' = "accepted"
  /\ UNCHANGED <<listed, current, late, trial, waiting, boots, history>>

\* acceptUpgradeTrial, offered while a trial is on
UserAccepts == state = "trial" /\ Accept

KeepCurrent ==
  /\ state = "trial"
  /\ state' = "idle" /\ current' = None
  /\ kept' = kept \cup {current}
  /\ UNCHANGED <<status, listed, late, trial, waiting, boots, validated, untimely, outrun>>

TimePasses ==
  /\ state = "trial" /\ ~late /\ late' = TRUE
  /\ UNCHANGED <<status, listed, state, current, trial, waiting, boots, history>>

\* checkHealth up to its await
CheckBegins ==
  /\ state = "trial" /\ ~late
  /\ waiting[trial] < MaxChecks
  /\ waiting' = [waiting EXCEPT ![trial] = @ + 1]
  /\ UNCHANGED <<status, listed, state, current, late, trial, boots, history>>

CheckExpires == state = "trial" /\ late /\ Accept

\* A bug: a rollback leaves the proposal as it is.
RollbackStateOnly == UNCHANGED status

RollbackCurrent == Rollback(current)

\* The health engine answers the check of trial n; the state is not read again.
CheckAnswers(n, degraded) ==
  /\ waiting[n] > 0
  /\ waiting' = [waiting EXCEPT ![n] = @ - 1]
  /\ outrun' = (outrun \/ (degraded /\ ~(n = trial /\ state = "trial")))
  /\ IF degraded
     THEN RollbackCurrent /\ state' = "rolled_back"
     ELSE UNCHANGED <<status, state>>
  /\ UNCHANGED <<listed, current, late, trial, boots, validated, kept, untimely>>

\* shutdown: abort rolls a trial back, and the next start reads the file.
Shutdown ==
  /\ boots < MaxBoots /\ boots' = boots + 1
  /\ IF state = "trial" THEN RollbackCurrent ELSE UNCHANGED status
  /\ Fresh
  /\ UNCHANGED <<trial, history>>

\* The process dies: what was building or on trial stays so for good.
Crash ==
  /\ boots < MaxBoots /\ boots' = boots + 1
  /\ kept' = IF state = "trial" THEN kept \cup {current} ELSE kept
  /\ Fresh
  /\ UNCHANGED <<status, trial, validated, untimely, outrun>>

Next ==
  \/ \E p \in Proposals : \/ Propose(p) \/ Build(p) \/ StartTrial(p)
                          \/ \E passed \in BOOLEAN : BuildEnds(p, passed)
  \/ ReadyUpgrades \/ UserAccepts \/ KeepCurrent
  \/ TimePasses \/ CheckBegins \/ CheckExpires
  \/ \E n \in 1 .. MaxTrials, degraded \in BOOLEAN : CheckAnswers(n, degraded)
  \/ Shutdown \/ Crash

Spec == Init /\ [][Next]_vars

-----------------------------------------------------------------------------

\* "It NEVER silently replaces production" (UpgradeEngine.ts:6): whatever checks
\* and decisions cross, a proposal that is or was on trial had a candidate that
\* passed validation, over crashes and restarts too.
TriedWasValidated ==
  \A p \in Proposals :
    status[p] \in {"ready", "trial", "accepted", "rolled_back"} => p \in validated

\* The file tells how the trials ended: a proposal is on trial in the file only
\* while the manager tries it, unless the trial was broken off by keepCurrent or
\* a crash, and the verdict the manager shows is the one in the file - as long as
\* no trial began of a proposal that was not ready and no check answered late.
VerdictsAgree ==
  ~untimely /\ ~outrun =>
    /\ \A p \in Proposals :
         status[p] = "trial" => p \in kept \/ (state = "trial" /\ current = p)
    /\ state # "idle" => status[current] = state

\* Trials are of what was validated, and have one verdict.
TrialsAreSound == TriedWasValidated /\ VerdictsAgree

=============================================================================
