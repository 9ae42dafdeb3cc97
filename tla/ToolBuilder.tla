----------------------------- MODULE ToolBuilder -----------------------------
(***************************************************************************)
(* Executions and builds over the tool registry: ToolExecutor.execute and  *)
(* executeDefinition (tool_executor.ts), the calls that reach them from    *)
(* Gemini and from the renderer (agent_orchestrator.ts, main.ts), and the  *)
(* build queue of ToolBuilder.ensureCapability with its approval gate      *)
(* (tool_builder.ts).  The forge is one step here; ToolForge has the rest. *)
(*                                                                         *)
(* A build is numbered in the order of its request.  The renderer shows a  *)
(* banner while an approval is pending; a click travels by IPC and carries *)
(* no name, so that it meets whatever is pending when it arrives.          *)
(***************************************************************************)
EXTENDS ToolRegistry

CONSTANTS
  Streams,     \* the intents that ask for a live stream
  WidgetName,  \* the name of every stream widget
  Banned,      \* ids of tools that ask for a banned permission
  Slots,       \* executions that may be in flight at once
  MaxBuilds,   \* bound on builds
  MaxEvents    \* bound on builds, calls, edits of the registry and restarts together

ASSUME BuilderAssumption ==
  /\ Streams \subseteq Intents /\ WidgetName \in Names
  /\ Banned \subseteq Ids /\ None \notin Slots /\ IsFiniteSet(Slots)
  /\ {MaxBuilds, MaxEvents} \subseteq Nat
  /\ None \notin Nat \cup [id : Ids, for : Nat, awaits : Nat]

Builds == 1 .. MaxBuilds
Caller == 0

VARIABLES
  running,   \* per slot: the tool in execution, for whom, and what it awaits
  builds,    \* per build: where it stands and what it was asked
  phase,     \* ToolBuilder.phase
  approval,  \* ToolBuilder.pendingApproval: the build that waits, or None
  click,     \* a click of the user under way: the build it was meant for
  started,   \* history: executions of each tool begun, as far as the store knows
  events     \* calls and edits so far

buildVars == <<running, builds, phase, approval, click, started, events>>
vars == <<regVars, buildVars>>

Phases == {"IDLE", "WRITING_CODE", "AWAITING_APPROVAL", "COMPILING_ASSETS",
           "DEPLOYING_TOOL", "COMPLETED", "FAILED"}
Settled == {"done", "failed"}
Pcs == {"none", "queued", "reusing", "forging", "producing", "generating",
        "approving", "validating", "executing"} \cup Settled
Build == [pc : Pcs, intent : Intents \cup {None}, gated : BOOLEAN,
          ok : BOOLEAN, consent : Builds \cup {0}, expired : BOOLEAN]
NoBuild == [pc |-> "none", intent |-> None, gated |-> FALSE,
            ok |-> FALSE, consent |-> 0, expired |-> FALSE]

Free == None
Run == [id : Ids, for : Builds \cup {Caller}, awaits : Builds \cup {0}]

Move(b, pc) == [builds EXCEPT ![b].pc = pc]
Unasked == {b \in Builds : builds[b].pc = "none"}
Active == {b \in Builds : builds[b].pc \notin {"none", "queued"} \cup Settled}

\* Everything that comes from outside; Room says that the bound admits n more.
Events == events + boots + Cardinality(Builds \ Unasked)
Room(n) == Events + n <= MaxEvents

BuilderInit ==
  /\ running = [s \in Slots |-> Free]
  /\ builds = [b \in Builds |-> NoBuild]
  /\ phase = "IDLE" /\ approval = None /\ click = None
  /\ started = [i \in Ids |-> 0]
  /\ events = 0

Init == RegInit /\ BuilderInit

-----------------------------------------------------------------------------
(* Executions.                                                             *)

\* recordExecution writes; when the write of a success throws, the catch of
\* executeDefinition records the same execution again, as a failure.
RecordRunIfGood(id, good, ok, okAgain) ==
  IF ~Has(reg, id) \/ ~good THEN UNCHANGED <<reg, disk, store, unsaved, dirs, torn, faults, boots>>
  ELSE Save(Recorded(reg, id), id, ok)
RecordRun(id, good, ok, okAgain) ==
  IF ~Has(reg, id) THEN UNCHANGED <<reg, disk, store, unsaved, dirs, torn, faults, boots>>
  ELSE IF good /\ Throws(ok)
  THEN SaveAfter(Recorded(Recorded(reg, id), id), id, okAgain,
                 IF okAgain THEN 1 ELSE 2)
  ELSE Save(Recorded(reg, id), id, ok)

\* The outcome executeDefinition reports, and whether it throws instead.
Reported(id, good, ok) == good /\ ~(Has(reg, id) /\ Throws(ok))
Rejects(id, good, ok, okAgain) ==
  Has(reg, id) /\ Throws(ok) /\ (good => Throws(okAgain))

\* checkPermissions applies to sandboxed tools.
Denied(id) == reg.tools[id].kind = "sandboxed" /\ id \in Banned

\* executeDefinition up to its first await; intent is what generate_tool was asked
\* for, if it was asked with one, and makes the handler queue a build.
Occupy(id, for, awaits) ==
  /\ \E s \in Slots : running[s] = Free
  /\ LET s == CHOOSE t \in Slots : running[t] = Free
     IN  running' = [running EXCEPT ![s] = [id |-> id, for |-> for, awaits |-> awaits]]
  /\ started' = [started EXCEPT ![id] = @ + 1]

\* ensureCapability appends to the queue.
Asked(b, intent, gated) ==
  [builds EXCEPT ![b] = [NoBuild EXCEPT !.pc = "queued", !.intent = intent, !.gated = gated]]

\* The next build number, if there is one left.
IsNext(b) == b \in Unasked /\ \A c \in Unasked : b <= c

\* execute: an unknown or disabled tool is answered at once and not recorded.
Call(name, intent) ==
  LET id == GetByName(reg, name)
  IN  /\ Room(1) /\ events' = events + 1
      /\ id # None /\ reg.tools[id].enabled
      /\ IF Denied(id)
         THEN /\ started' = [started EXCEPT ![id] = @ + 1]
              /\ \E ok, okAgain \in BOOLEAN : RecordRun(id, FALSE, ok, okAgain)
              /\ UNCHANGED <<toldVars, running, builds>>
         ELSE /\ UNCHANGED regVars
              /\ IF id = BuiltinTool /\ intent # None
                 THEN \E b \in Builds : /\ Room(2) /\ IsNext(b)
                                        /\ builds' = Asked(b, intent, FALSE)
                                        /\ Occupy(id, Caller, b)
                 ELSE Occupy(id, Caller, 0) /\ UNCHANGED builds
      /\ UNCHANGED <<phase, approval, click>>

\* Gemini calls a tool it was offered; the renderer names a tool of its list (RUN_TOOL).
HandleToolCall(intent) == \E name \in offered : Call(name, intent)
RunTool(intent) == \E name \in {reg.tools[i].name : i \in DOMAIN reg.tools} : Call(name, intent)

\* What a handler can come back with: generate_tool without an intent fails, with one
\* it waits for its build.
MayEnd(s, good) ==
  LET r == running[s]
  IN  /\ r # Free
      /\ r.id = BuiltinTool =>
           IF r.awaits = 0 THEN ~good
           ELSE builds[r.awaits].pc \in Settled /\ good = builds[r.awaits].ok

\* executeDefinition after its await.
EndCall(s, good, ok, okAgain) ==
  /\ MayEnd(s, good) /\ running[s].for = Caller
  /\ RecordRun(running[s].id, good, ok, okAgain)
  /\ running' = [running EXCEPT ![s] = Free]
  /\ UNCHANGED <<toldVars, builds, phase, approval, click, started, events>>

\* The same for a build, which then settles; a new tool is announced again.
EndBuildRun(s, good, ok, okAgain) ==
  LET r == running[s] b == r.for
  IN  /\ MayEnd(s, good) /\ b # Caller
      /\ RecordRun(r.id, good, ok, okAgain)
      /\ running' = [running EXCEPT ![s] = Free]
      /\ IF builds[b].pc = "executing" /\ ~Rejects(r.id, good, ok, okAgain)
         THEN Rebuild(reg') ELSE UNCHANGED <<declared, untold>>
      /\ UNCHANGED offered
      /\ builds' = [builds EXCEPT
           ![b].pc = IF Rejects(r.id, good, ok, okAgain) THEN "failed" ELSE "done",
           ![b].ok = Reported(r.id, good, ok)]
      /\ UNCHANGED <<phase, approval, click, started, events>>

-----------------------------------------------------------------------------
(* Builds.                                                                 *)

\* ensureCapability, from a typed request (main.ts) or with options.requireApproval,
\* which only a stream's build looks at.
EnsureCapability(b, intent, gated) ==
  /\ Room(1) /\ IsNext(b) /\ (gated => intent \in Streams)
  /\ builds' = Asked(b, intent, gated)
  /\ UNCHANGED <<regVars, running, phase, approval, click, started, events>>

MayBegin(b) == builds[b].pc = "queued" /\ \A c \in 1 .. b - 1 : builds[c].pc \in Settled

\* The registry has a tool: it is executed with the request as its query.
ReuseWithIntent(b, id) ==
  /\ MayBegin(b) /\ id \in Capable(reg, builds[b].intent)
  /\ phase' = "COMPLETED"
  /\ IF id = BuiltinTool
     THEN \E c \in Builds :
            /\ IsNext(c) /\ Occupy(id, b, c)
            /\ builds' = [Asked(c, builds[b].intent, FALSE) EXCEPT ![b].pc = "reusing"]
     ELSE builds' = Move(b, "reusing") /\ Occupy(id, b, 0)
  /\ UNCHANGED <<regVars, approval, click, events>>
Reuse(b, id) ==
  /\ MayBegin(b) /\ id \in Capable(reg, builds[b].intent)
  /\ phase' = "COMPLETED"
  /\ builds' = Move(b, "reusing")
  /\ Occupy(id, b, 0)
  /\ UNCHANGED <<regVars, approval, click, events>>

Synthesize(b) ==
  /\ MayBegin(b) /\ Capable(reg, builds[b].intent) = {}
  /\ phase' = "WRITING_CODE"
  /\ builds' = Move(b, IF builds[b].intent \in Streams THEN "generating" ELSE "forging")
  /\ UNCHANGED <<regVars, running, approval, click, started, events>>

\* The registration of a finished tool under a new id; when the store throws, the
\* build rejects.
UnusedIds ==
  {i \in Ids \ {BuiltinTool, LegacyTool} :
     /\ started[i] = 0 /\ ~Has(reg, i)
     /\ \A s \in Stores : ~Has(disk[s], i)}
NewTool(id) == UnusedIds # {} /\ id = CHOOSE i \in UnusedIds : TRUE

\* writeArtifacts: the forge puts a design into a directory, before its test and again
\* after a repair; what fails later leaves it there.
WritesDesign(b, t, n) ==
  /\ builds[b].pc = "forging"
  /\ n \notin {BuiltinName, WidgetName, LegacyName}
  /\ dirs' = [dirs EXCEPT ![t] = [name |-> n, intent |-> builds[b].intent]]
  /\ UNCHANGED <<reg, disk, store, unsaved, toldVars, torn, faults, boots, buildVars>>

Forged(b, id, ok) ==
  /\ builds[b].pc = "forging" /\ NewTool(id)
  /\ \E t \in TechIds : /\ dirs[t] # None /\ dirs[t].intent = builds[b].intent
                        /\ Register(id, FromManifest(t), ok)
  /\ builds' = Move(b, IF Throws(ok) THEN "failed" ELSE "producing")
  /\ phase' = IF Throws(ok) THEN "FAILED" ELSE phase
  /\ UNCHANGED <<running, approval, click, started, events>>

ForgeFails(b) ==
  /\ builds[b].pc = "forging"
  /\ builds' = Move(b, "failed") /\ phase' = "FAILED"
  /\ UNCHANGED <<regVars, running, approval, click, started, events>>

\* The forge's own production run, which is not recorded; the new tool is announced.
ForgeReturns(b, good) ==
  /\ builds[b].pc = "producing"
  /\ builds' = [builds EXCEPT ![b].pc = "done", ![b].ok = good]
  /\ phase' = "COMPLETED"
  /\ Rebuild(reg)
  /\ UNCHANGED <<reg, disk, store, unsaved, dirs, offered, torn, faults, boots>>
  /\ UNCHANGED <<running, approval, click, started, events>>

\* A provider's widget or the fallback's; requestApproval when the build is gated.
Generated(b) ==
  /\ builds[b].pc = "generating"
  /\ IF builds[b].gated
     THEN /\ builds' = Move(b, "approving")
          /\ phase' = "AWAITING_APPROVAL"
          /\ approval' = b
     ELSE /\ builds' = Move(b, "validating")
          /\ phase' = "COMPILING_ASSETS"
          /\ UNCHANGED approval
  /\ UNCHANGED <<regVars, running, click, started, events>>

\* settle of the pending approval b: its timer is cleared and the build goes on.
Settle(b, approved, consent, expired) ==
  /\ approval' = None
  /\ builds' = [builds EXCEPT ![b].pc = IF approved THEN "validating" ELSE "failed",
                              ![b].consent = consent, ![b].expired = expired]
  /\ phase' = IF approved THEN "COMPILING_ASSETS" ELSE "FAILED"

ApprovalTimeoutApproves(b) ==
  /\ approval = b /\ Settle(b, TRUE, 0, TRUE)
  /\ UNCHANGED <<regVars, running, click, started, events>>
ApprovalTimeout(b) ==
  /\ approval = b /\ Settle(b, FALSE, 0, TRUE)
  /\ UNCHANGED <<regVars, running, click, started, events>>

\* The user answers the banner of the pending approval.
Click ==
  /\ click = None /\ approval # None /\ click' = approval
  /\ UNCHANGED <<regVars, running, builds, phase, approval, started, events>>

\* approvePendingTool and rejectPendingTool settle whatever is pending.
ClickArrives(approved) ==
  /\ click # None /\ click' = None
  /\ IF approval = None THEN UNCHANGED <<builds, phase, approval>>
     ELSE Settle(approval, approved, click, FALSE)
  /\ UNCHANGED <<regVars, running, started, events>>

\* validateGenerated runs the probe '__test__', whose executions nothing records.
ValidationFails(b) ==
  /\ builds[b].pc = "validating"
  /\ builds' = Move(b, "failed") /\ phase' = "FAILED"
  /\ UNCHANGED <<regVars, running, approval, click, started, events>>

\* What a build for a stream makes, by a provider or without one
Widget(b) == Fresh(WidgetName, builds[b].intent, "sandboxed", None, AnySource, "active")

\* Registration and the first execution; a store that throws leaves the phase behind.
Deploy(b, id, ok) ==
  /\ builds[b].pc = "validating" /\ NewTool(id)
  /\ Register(id, Widget(b), ok)
  /\ IF Throws(ok)
     THEN builds' = Move(b, "failed") /\ phase' = "DEPLOYING_TOOL" /\ UNCHANGED <<running, started>>
     ELSE builds' = Move(b, "executing") /\ phase' = "COMPLETED" /\ Occupy(id, b, 0)
  /\ UNCHANGED <<approval, click, events>>

-----------------------------------------------------------------------------
(* The registry beside them, and the end of the app.                       *)

Edit(id, ok) ==
  /\ Room(1) /\ events' = events + 1
  /\ \/ \E src \in Sources : PublishVersion(id, src, ok)
     \/ Rollback(id, ok)
     \/ \E enabled \in BOOLEAN : SetEnabled(id, enabled, ok)
     \/ Remove(id, ok)
  /\ UNCHANGED <<running, builds, phase, approval, click, started>>

NewSession == declared # offered /\ SessionSetup /\ UNCHANGED buildVars
SaveAgain(ok) == Close(ok) /\ UNCHANGED buildVars

\* Executions, builds and clicks end with the process.
EndAndStart(opened, cut) ==
  /\ Room(1) /\ Restart(opened, cut, UnusedIds)
  /\ running' = [s \in Slots |-> Free]
  /\ builds' = [b \in Builds |-> IF builds[b].pc \in {"none"} \cup Settled THEN builds[b]
                                 ELSE [builds[b] EXCEPT !.pc = "failed", !.expired = TRUE]]
  /\ phase' = "IDLE" /\ approval' = None /\ click' = None
  /\ started' = [i \in Ids |-> IF Has(reg', i) THEN reg'.tools[i].runs ELSE started[i]]
  /\ UNCHANGED events

BuildStep(b) ==
  \/ \E id \in Ids : Reuse(b, id)
  \/ Synthesize(b)
  \/ \E id \in Ids, ok \in BOOLEAN : Forged(b, id, ok)
  \/ ForgeFails(b)
  \/ \E good \in BOOLEAN : ForgeReturns(b, good)
  \/ Generated(b)
  \/ ApprovalTimeout(b)
  \/ ValidationFails(b)
  \/ \E id \in Ids, ok \in BOOLEAN : Deploy(b, id, ok)

RunEnds(s) ==
  \E good, ok, okAgain \in BOOLEAN : \/ EndCall(s, good, ok, okAgain)
                                     \/ EndBuildRun(s, good, ok, okAgain)

Next ==
  \/ \E b \in Builds, intent \in Intents, gated \in BOOLEAN : EnsureCapability(b, intent, gated)
  \/ \E intent \in Intents \cup {None} : HandleToolCall(intent) \/ RunTool(intent)
  \/ \E b \in Builds : BuildStep(b)
  \/ \E b \in Builds, t \in TechIds, n \in Names : WritesDesign(b, t, n)
  \/ \E s \in Slots : RunEnds(s)
  \/ Click
  \/ \E approved \in BOOLEAN : ClickArrives(approved)
  \/ \E id \in Ids, ok \in BOOLEAN : Edit(id, ok)
  \/ NewSession
  \/ \E ok \in BOOLEAN : SaveAgain(ok)
  \/ \E opened \in Stores, cut \in BOOLEAN : EndAndStart(opened, cut)

\* Generation, validation and executions have timeouts in the code; the event loop
\* runs what is due.
Fairness ==
  /\ \A b \in Builds : WF_vars(BuildStep(b))
  /\ \A s \in Slots : WF_vars(RunEnds(s))

Spec == Init /\ [][Next]_vars /\ Fairness

-----------------------------------------------------------------------------
TypeOK ==
  /\ RegTypeOK
  /\ \A s \in Slots : running[s] = Free \/ running[s] \in Run
  /\ \A b \in Builds : builds[b] \in Build
  /\ phase \in Phases /\ approval \in Builds \cup {None}
  /\ click \in Builds \cup {None}
  /\ started \in [Ids -> Nat]
  /\ Events <= MaxEvents

(* Every execution of a registered tool is counted exactly once: refused,   *)
(* failed, successful, asked for by a build, by Gemini or by the renderer   *)
(* (tool_executor.ts, executeDefinition).  Only a SQLite write that throws  *)
(* may count one twice.                                                     *)
RunsAreCountedOnce ==
  store = "json" \/ faults = 0 =>
    \A i \in DOMAIN reg.tools :
      started[i] = reg.tools[i].runs
                   + Cardinality({s \in Slots : running[s] # Free /\ running[s].id = i})

(* What the registry says of a tool is exact: its versions, one with its    *)
(* source and hash, and how often it ran.                                   *)
RecordsAreExact == VersionsGoBack /\ RunsAreCountedOnce

(* A gated build is deployed only after a click of the user, rejected only  *)
(* by a click or by its own timer, and a click meant for another build      *)
(* counts for it only if that other one had expired when the click arrived. *)
ConsentIsMeant ==
  \A b \in Builds :
    /\ builds[b].gated /\ builds[b].pc \in {"validating", "executing"} => builds[b].consent # 0
    /\ builds[b].consent \notin {0, b} => builds[builds[b].consent].expired

(* Every build settles: none waits for an answer nobody gives, and none     *)
(* waits for a build queued behind it - a request that finds generate_tool  *)
(* itself is executed with a query, which generate_tool does not read.      *)
EveryBuildSettles == \A b \in Builds : builds[b].pc = "queued" ~> builds[b].pc \in Settled
=============================================================================
