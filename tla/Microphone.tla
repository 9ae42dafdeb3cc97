----------------------------- MODULE Microphone -----------------------------
(***************************************************************************)
(* MicManager (src/src/main/services/mic_manager.ts) with the handlers of  *)
(* main.ts that drive it, composed with the renderer's capture.  Reports   *)
(* of the renderer arrive in order; discovery and diagnostic await the     *)
(* Python worker while they do.                                            *)
(***************************************************************************)
EXTENDS MicCapture

CONSTANT MaxTests \* bound: diagnostics the user asks for

VARIABLES
  state,      \* MicState
  available,
  listening,
  failed,     \* lastError is not null
  chip,       \* the microphone's status in the runtime state
  discovery,  \* where discover, called at boot, waits
  diagnosing, \* runDiagnostic awaits its sample
  tests       \* diagnostics begun

managerVars == <<state, available, listening, failed, chip, discovery, diagnosing, tests>>
vars == <<captureVars, managerVars>>

MicStates == {"UNAVAILABLE", "INITIALIZING", "READY", "LISTENING", "ERROR"}

TypeOK ==
  /\ CaptureTypeOK
  /\ state \in MicStates
  /\ {available, listening, failed, diagnosing} \subseteq BOOLEAN
  /\ chip \in {"starting", "online", "offline"}
  /\ discovery \in {"none", "devices", "default"}
  /\ tests \in 0 .. MaxTests

\* boot: discover has begun when the window comes up.
Init ==
  /\ CaptureInit
  /\ state = "INITIALIZING"
  /\ available = FALSE /\ listening = FALSE /\ failed = FALSE
  /\ chip = "starting"
  /\ discovery = "devices"
  /\ diagnosing = FALSE
  /\ tests = 0

-----------------------------------------------------------------------------

Chip(up) == IF up THEN "online" ELSE "offline"

\* setState and its 'change' event, which main.ts copies into the runtime state;
\* nothing is emitted if the state is the same and no error is recorded.
SetState(s, up) ==
  /\ state' = s
  /\ chip' = IF state = s /\ ~failed THEN chip ELSE Chip(up)

\* The same after an error was recorded, or where the caller sets the chip.
SetStateAndChip(s, up) ==
  /\ state' = s
  /\ chip' = Chip(up)

\* audio.devices answers with the inputs there are.
DevicesListed ==
  /\ discovery = "devices"
  /\ discovery' = "default"
  /\ available' \in BOOLEAN
  /\ UNCHANGED <<captureVars, state, listening, failed, chip, diagnosing, tests>>

\* audio.devices fails.
DevicesFail ==
  /\ discovery = "devices"
  /\ discovery' = "none"
  /\ available' = FALSE
  /\ failed' = TRUE
  /\ UNCHANGED listening
  /\ SetStateAndChip("UNAVAILABLE", FALSE)
  /\ UNCHANGED <<captureVars, diagnosing, tests>>

\* audio.microphone_info answers or fails: the state follows the availability
\* there is by now.
DefaultKnown ==
  /\ discovery = "default"
  /\ discovery' = "none"
  /\ failed' = FALSE
  /\ UNCHANGED <<available, listening>>
  /\ SetStateAndChip(IF available THEN "READY" ELSE "UNAVAILABLE", available)
  /\ UNCHANGED <<captureVars, diagnosing, tests>>

\* MIC_DIAGNOSTIC, which the HUD offers while a microphone is available.
RunDiagnostic ==
  /\ ~diagnosing /\ available /\ tests < MaxTests
  /\ tests' = tests + 1
  /\ diagnosing' = TRUE
  /\ UNCHANGED <<captureVars, state, available, listening, failed, chip, discovery>>

SampleMeansReady == ~listening

\* The sample was taken.
DiagnosticOk ==
  /\ diagnosing /\ diagnosing' = FALSE
  /\ available' = TRUE
  /\ UNCHANGED <<captureVars, listening, failed, discovery, tests>>
  /\ \/ SampleMeansReady /\ SetState("READY", TRUE)
     \/ ~SampleMeansReady /\ UNCHANGED <<state, chip>>

\* The device could not be sampled, or the worker did not answer.
DiagnosticFails ==
  /\ diagnosing /\ diagnosing' = FALSE
  /\ failed' = TRUE
  /\ UNCHANGED <<available, listening>>
  /\ \E s \in {"UNAVAILABLE", "ERROR"} : SetStateAndChip(s, available)
  /\ UNCHANGED <<captureVars, discovery, tests>>

\* A bug: a stop leaves listening set.
StoppedQuietly ==
  /\ UNCHANGED <<available, listening, failed>>
  /\ SetState(IF available THEN "READY" ELSE "UNAVAILABLE", available)

ReportListening ==
  /\ listening' = TRUE
  /\ available' = TRUE
  /\ UNCHANGED failed
  /\ SetState("LISTENING", TRUE)

ReportStoppedListening ==
  /\ listening' = FALSE
  /\ UNCHANGED <<available, failed>>
  /\ SetState(IF available THEN "READY" ELSE "UNAVAILABLE", available)

ReportError ==
  /\ failed' = TRUE
  /\ UNCHANGED <<available, listening>>
  /\ SetStateAndChip("ERROR", available)

\* MIC_CAPTURE_ACTIVE and MIC_CAPTURE_ERROR
OnReport ==
  /\ reports # <<>>
  /\ reports' = Tail(reports)
  /\ \/ Head(reports) = "active" /\ ReportListening
     \/ Head(reports) = "inactive" /\ ReportStoppedListening
     \/ Head(reports) = "error" /\ ReportError
  /\ UNCHANGED <<starts, stream, live, taps, capturing, listener, confirmed, opened, overlapped>>
  /\ UNCHANGED <<discovery, diagnosing, tests>>

\* What the renderer does without main.
RendererStep ==
  /\ \/ OnToggleRequest \/ FirstFrame
     \/ \E o \in Origins : StreamOpened(o) \/ StreamRefused(o) \/ ContextReady(o)
  /\ UNCHANGED managerVars

Next ==
  \/ RendererStep
  \/ DevicesListed \/ DevicesFail \/ DefaultKnown
  \/ RunDiagnostic \/ DiagnosticOk \/ DiagnosticFails
  \/ OnReport

Spec == Init /\ [][Next]_vars

-----------------------------------------------------------------------------

\* The state machine moves only by explicit confirmations of the renderer "so
\* the state always reflects real capture" (main.ts:1066-1069): when no report is
\* under way, the manager listens if and only if the renderer captures and has
\* had its first frame, as long as no two starts overlapped.
ListeningIsCapture ==
  ~overlapped /\ reports = <<>> => (listening <=> capturing /\ confirmed)
=============================================================================
