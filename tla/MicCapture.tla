----------------------------- MODULE MicCapture -----------------------------
(***************************************************************************)
(* The renderer's microphone: AudioRecorder                                *)
(* (src/src/renderer/utils/audio_recorder.ts) and the two callers it has   *)
(* in src/src/App.tsx, the capture at boot and the toggle.                 *)
(*                                                                         *)
(* startRecording awaits getUserMedia and then the audio context, with its *)
(* intermediate results in fields of the one recorder: a second start, or  *)
(* a stop, can come between.  The packaged renderer mounts App once and    *)
(* never reloads it.                                                       *)
(***************************************************************************)
EXTENDS Naturals, Sequences

CONSTANTS
  MaxStreams, \* bound: streams the device ever hands out
  MaxReports  \* bound: reports of the renderer under way

Streams == 1 .. MaxStreams
NoStream == 0
Origins == {"boot", "toggle"}

VARIABLES
  starts,     \* where each caller's startRecording waits
  stream,     \* this.stream
  live,       \* media streams whose tracks have not been stopped
  taps,       \* script processors that still deliver frames
  capturing,  \* _isCapturing
  listener,   \* onAmplitudeCb is set
  confirmed,  \* bootCaptureConfirmedRef
  reports,    \* IPC from the renderer to main, in order
  opened,     \* streams handed out so far
  overlapped  \* history: two starts were under way at once

captureVars == <<starts, stream, live, taps, capturing, listener, confirmed, reports,
                 opened, overlapped>>

Reports == {"active", "inactive", "error"}
Idle(o) == starts[o] = "none"
NoStart == \A o \in Origins : Idle(o)

CaptureTypeOK ==
  /\ starts \in [Origins -> {"none", "opening", "resuming"}]
  /\ stream \in Streams \cup {NoStream}
  /\ live \subseteq Streams
  /\ taps \in 0 .. 2
  /\ {capturing, listener, confirmed, overlapped} \subseteq BOOLEAN
  /\ reports \in Seq(Reports) /\ Len(reports) <= MaxReports
  /\ opened \in 0 .. MaxStreams

\* App is mounted: its effect has called startRecording.
CaptureInit ==
  /\ starts = [o \in Origins |-> IF o = "boot" THEN "opening" ELSE "none"]
  /\ stream = NoStream /\ live = {} /\ taps = 0
  /\ capturing = FALSE /\ listener = TRUE /\ confirmed = FALSE
  /\ reports = <<>>
  /\ opened = 0
  /\ overlapped = FALSE

Report(r) == Len(reports) < MaxReports /\ reports' = Append(reports, r)

\* startRecording up to its first await.
BeginStart(o) ==
  /\ starts' = [starts EXCEPT ![o] = "opening"]
  /\ listener' = TRUE
  /\ confirmed' = FALSE
  /\ overlapped' = (overlapped \/ ~NoStart)
  /\ UNCHANGED <<stream, live, taps, capturing, reports, opened>>

\* A bug: the tracks of the stream are not stopped.
KeepTracks == live

TracksLeft == live \ {stream}

\* stopRecording knows one stream; closing the audio context silences every tap.
StopRecording ==
  /\ capturing' = FALSE
  /\ listener' = FALSE
  /\ live' = TracksLeft
  /\ stream' = NoStream
  /\ taps' = 0
  /\ UNCHANGED <<starts, confirmed, opened, overlapped>>

\* micTogglingRef is clear.
MayToggle == Idle("toggle")

\* onMicToggleRequest
OnToggleRequest ==
  /\ MayToggle
  /\ \/ capturing /\ StopRecording /\ Report("inactive")
     \/ ~capturing /\ BeginStart("toggle")

\* getUserMedia hands out a stream; what this.stream held is forgotten.
StreamOpened(o) ==
  /\ starts[o] = "opening"
  /\ opened < MaxStreams
  /\ opened' = opened + 1
  /\ stream' = opened'
  /\ live' = live \cup {opened'}
  /\ starts' = [starts EXCEPT ![o] = "resuming"]
  /\ UNCHANGED <<taps, capturing, listener, confirmed, reports, overlapped>>

\* startRecording throws and its caller reports the error.
StartFails(o) ==
  /\ starts' = [starts EXCEPT ![o] = "none"]
  /\ Report("error")
  /\ UNCHANGED <<stream, live, taps, capturing, listener, confirmed, opened, overlapped>>

\* No permission, no device, or the device is in use.
StreamRefused(o) == starts[o] = "opening" /\ StartFails(o)

\* The context is ready and frames come, unless a stop took the stream away.
ContextReady(o) ==
  /\ starts[o] = "resuming"
  /\ \/ stream = NoStream /\ StartFails(o)
     \/ /\ stream # NoStream
        /\ starts' = [starts EXCEPT ![o] = "none"]
        /\ taps' = taps + 1
        /\ capturing' = TRUE
        /\ UNCHANGED <<stream, live, listener, confirmed, reports, opened, overlapped>>

\* The first frame since a start confirms the capture to main.
FirstFrame ==
  /\ taps > 0 /\ listener /\ ~confirmed
  /\ confirmed' = TRUE
  /\ Report("active")
  /\ UNCHANGED <<starts, stream, live, taps, capturing, listener, opened, overlapped>>

-----------------------------------------------------------------------------

\* "Whether the getUserMedia capture is currently active" (audio_recorder.ts:78):
\* while it is not and none is on its way, no stream of the device stays open,
\* and frames are never delivered twice, in every order of starts, failures and
\* stops in which no two starts overlap (the toggle holds back its own second
\* start, not one beside the capture at boot).
OffReleasesTheDevice ==
  ~overlapped => /\ (NoStart => live = IF capturing THEN {stream} ELSE {})
                 /\ taps = IF capturing THEN 1 ELSE 0
=============================================================================
