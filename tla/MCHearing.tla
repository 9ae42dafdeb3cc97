------------------------------ MODULE MCHearing ------------------------------
(***************************************************************************)
(* How NOVA hears, for TLC: local transcription, the microphone and who    *)
(* is speaking.  The three are joined by the user's voice alone, which     *)
(* each of them leaves open; a behaviour moves one of them, its focus.     *)
(* A chunk of audio is half of what the transcription flushes at once.     *)
(***************************************************************************)
EXTENDS WhisperBridge

CONSTANTS
  MaxStreams, MaxReports, MaxTests,
  TalkLimit, ChunkLimit, DropLimit, PushLimit, ReportLimit

VARIABLES
  focus,
  starts, stream, live, taps, capturing, listener, confirmed, toMain, opened, crossed,
  state, available, listening, erred, chip, discovery, diagnosing, tests,
  capture, voiceState, silence, playing, speaking, hold, last, hasty, loud, talks, chunks,
  drops, pushed, reports

micVars ==
  <<starts, stream, live, taps, capturing, listener, confirmed, toMain, opened, crossed,
    state, available, listening, erred, chip, discovery, diagnosing, tests>>
activityVars ==
  <<capture, voiceState, silence, playing, speaking, hold, last, hasty, loud, talks, chunks,
    drops, pushed, reports>>

Mic == INSTANCE Microphone WITH
         reports <- toMain, overlapped <- crossed, failed <- erred
A == INSTANCE VoiceActivity WITH
       MaxTalks <- TalkLimit, MaxChunks <- ChunkLimit, MaxDrops <- DropLimit,
       MaxPushed <- PushLimit, MaxReports <- ReportLimit,
       talking <- loud

ASSUME A!ActivityAssumption

MCInit == focus \in {"words", "microphone", "activity"} /\ Init /\ Mic!Init /\ A!Init

OfWords(Step) == focus = "words" /\ Step /\ UNCHANGED <<focus, micVars, activityVars>>
MicrophoneMoves == focus = "microphone" /\ Mic!Next /\ UNCHANGED <<focus, vars, activityVars>>
ActivityMoves == focus = "activity" /\ A!Next /\ UNCHANGED <<focus, vars, micVars>>

MCNext == OfWords(Next) \/ MicrophoneMoves \/ ActivityMoves

allVars == <<focus, vars, micVars, activityVars>>

\* The fairness of WhisperBridge
MCSpec == MCInit /\ [][MCNext]_allVars /\ WF_allVars(OfWords(WorkerAnswers))

OffReleasesTheDevice == Mic!OffReleasesTheDevice
ListeningIsCapture == Mic!ListeningIsCapture
EndsFollowSilence == A!EndsFollowSilence
=============================================================================
