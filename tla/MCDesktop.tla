------------------------------ MODULE MCDesktop ------------------------------
(***************************************************************************)
(* What NOVA does on the desktop and shows there, for TLC: the built-in    *)
(* tools, the look at the foreground window, the state that the HUD shows, *)
(* the workspace, and what runs beside them - the screen capturer, the     *)
(* modes and the audit trail.  They share no state that is modelled; a     *)
(* behaviour moves one of them, its focus.                                 *)
(***************************************************************************)
EXTENDS DesktopTools

CONSTANTS
  None,
  Sessions, PollInterval, InitTimeout, QueryTimeout,
  Keys, Contents, MaxSurfaces,
  Loops, Hashes, MaxBlocks,
  Jobs,
  BatchSize, MaxEvents

VARIABLES
  focus,
  session, asker, ps, poll, ahead, wait, timers, sniped,
  steps, chips, boot, graph, voice, hasKey, socket, link, silent, timer, window, loaded,
  shownChips, shownSteps,
  surfaces, hydrated, stored, faulty,
  isCapturing, loop, timerId, prevHashes, lastMutatedBlocks, resumed,
  cronJob, cron, imports, isRunning, cycle, dreams, dreamRaced,
  active, audioProcess, ffmpeg, asking, audioRaced, diarization, results, spawnError,
  activeEditor, watcher, native, opening, watchRaced,
  recorded, events, flushTimer, store, written, dropped

contextVars == <<session, asker, ps, poll, ahead, wait, timers, sniped>>
statusVars ==
  <<steps, chips, boot, graph, voice, hasKey, socket, link, silent, timer, window, loaded,
    shownChips, shownSteps>>
workspaceVars == <<surfaces, hydrated, stored, faulty>>
screenVars == <<isCapturing, loop, timerId, prevHashes, lastMutatedBlocks, resumed>>
modesVars ==
  <<cronJob, cron, imports, isRunning, cycle, dreams, dreamRaced,
    active, audioProcess, ffmpeg, asking, audioRaced, diarization, results, spawnError,
    activeEditor, watcher, native, opening, watchRaced>>
auditVars == <<recorded, events, flushTimer, store, written, dropped>>
daemonVars == <<screenVars, modesVars, auditVars>>

C == INSTANCE ContextEngine
R == INSTANCE RuntimeStatus
W == INSTANCE WorkspaceManager
S == INSTANCE ScreenCapturer
M == INSTANCE BackgroundModes WITH NoJob <- None
A == INSTANCE AuditLogger WITH queue <- events

ASSUME DesktopAssumed == DesktopAssumption
ASSUME ContextAssumed == C!ContextAssumption
ASSUME WorkspaceAssumed == W!WorkspaceAssumption
ASSUME CapturerAssumed == S!CapturerAssumption /\ S!CapturerNames
ASSUME ModesAssumed == M!ModesAssumption
ASSUME AuditAssumed == A!AuditAssumption

MCInit ==
  /\ focus \in {"tools", "context", "status", "workspace",
                "screen", "dream", "recorder", "diarization", "coding", "audit"}
  /\ Init /\ C!Init /\ R!Init /\ W!Init /\ S!Init /\ M!Init /\ A!Init
  \* Only the behaviours of a component differ in what it begins with.
  /\ focus # "tools" => op = [c \in Calls |-> "inspect"]
  /\ focus # "status" => chips["groq"] = "online" /\ hasKey
  /\ focus # "audit" => store = "none"

ToolsMove ==
  focus = "tools" /\ Next /\ UNCHANGED <<focus, contextVars, statusVars, workspaceVars, daemonVars>>
StatusMoves ==
  focus = "status" /\ R!Next /\ UNCHANGED <<focus, vars, contextVars, workspaceVars, daemonVars>>
WorkspaceMoves ==
  focus = "workspace" /\ W!Next /\ UNCHANGED <<focus, vars, contextVars, statusVars, daemonVars>>
OfContext(Step) ==
  focus = "context" /\ Step /\ UNCHANGED <<focus, vars, statusVars, workspaceVars, daemonVars>>
DaemonsMove ==
  /\ \/ focus = "screen" /\ S!Next /\ UNCHANGED <<modesVars, auditVars>>
     \/ focus = "dream" /\ M!DreamMoves /\ UNCHANGED <<screenVars, auditVars>>
     \/ focus = "recorder" /\ M!AudioMoves /\ UNCHANGED <<screenVars, auditVars>>
     \/ focus = "diarization" /\ M!DiarizationMoves /\ UNCHANGED <<screenVars, auditVars>>
     \/ focus = "coding" /\ M!CodingMoves /\ UNCHANGED <<screenVars, auditVars>>
     \/ focus = "audit" /\ A!Next /\ UNCHANGED <<screenVars, modesVars>>
  /\ UNCHANGED <<focus, vars, contextVars, statusVars, workspaceVars>>

MCNext == ToolsMove \/ StatusMoves \/ WorkspaceMoves \/ OfContext(C!Next) \/ DaemonsMove

allVars == <<focus, vars, contextVars, statusVars, workspaceVars, daemonVars>>

\* The fairness of ContextEngine
MCSpec ==
  /\ MCInit /\ [][MCNext]_allVars
  /\ WF_allVars(OfContext(C!Timer)) /\ WF_allVars(OfContext(C!Tick))

PollsGoOn == focus = "context" => C!PollsGoOn
OnePowerShell == C!OnePowerShell
StatusIsTrue == R!StatusIsTrue
RestartShowsTheSame == W!RestartShowsTheSame
TrailIsSound == A!TrailIsSound

\* The daemons keep hold of what they start: one capture loop, one dream, one result of
\* a diarization, and no job, recorder or watcher that goes on unowned, with the
\* exceptions their modules name.
DaemonsInOrder ==
  S!OneLoopInOrder /\ M!NothingLeftRunning /\ M!OneDream /\ M!ToldOnce
=============================================================================
