---------------------------- MODULE VoiceActivity ----------------------------
(***************************************************************************)
(* Who is speaking: the voice state of the HUD (src/src/App.tsx), which    *)
(* the amplitude of the microphone and the events of main move, the        *)
(* VoiceProcessor of main (ingestors/voice_processor.ts), which hears of   *)
(* speech by IPC, and the answers of Gemini, which main passes to the      *)
(* renderer and cuts when the user begins to speak.                        *)
(*                                                                         *)
(* The amplitude is above 0.12 (loud), at most 0.04 (quiet) or between     *)
(* the two.  Messages between main and the renderer keep their order.      *)
(* The capture at boot moves the voice state; the capture the toggle       *)
(* starts shows the amplitude and does nothing else.                       *)
(***************************************************************************)
EXTENDS Naturals, Sequences

CONSTANTS
  MaxTalks,   \* bound: times the user begins to speak
  MaxChunks,  \* bound: chunks of audio that Gemini sends
  MaxDrops,   \* bound: interruptions by the server and losses of the session
  MaxPushed,  \* bound: messages to the renderer under way
  MaxReports  \* bound: reports to main under way

ActivityAssumption ==
  {MaxTalks, MaxChunks, MaxDrops, MaxPushed, MaxReports} \subseteq Nat

VARIABLES
  talking,     \* the user speaks
  capture,     \* whose callback gets the frames
  voiceState,  \* React state of App
  silence,     \* silenceTimerRef: 600 ms of quiet are being waited for
  playing,     \* chunks of the answer in the audio context
  pushed,      \* messages to the renderer
  reports,     \* user-speaking-active messages to main
  speaking,    \* of VoiceProcessor
  hold,        \* its silenceTimer: 300 ms
  talks, chunks, drops,  \* how often the environment has acted
  last,        \* history: the last report that was handled
  hasty        \* history: speaking-end was emitted after a report of speech

renderer == <<capture, voiceState, silence, playing>>
main == <<speaking, hold, last, hasty>>
environment == <<talking, talks, chunks, drops>>
vars == <<renderer, main, environment, pushed, reports>>

Messages == {"chunk", "flush", "LISTENING", "IDLE"}

TypeOK ==
  /\ {talking, silence, speaking, hold, last, hasty} \subseteq BOOLEAN
  /\ capture \in {"boot", "toggle", "off"}
  /\ voiceState \in {"IDLE", "LISTENING", "SPEAKING"}
  /\ playing \in 0 .. MaxChunks
  /\ pushed \in Seq(Messages) /\ reports \in Seq(BOOLEAN)
  /\ talks \in 0 .. MaxTalks /\ chunks \in 0 .. MaxChunks /\ drops \in 0 .. MaxDrops

\* App is mounted and its capture has begun.
Init ==
  /\ talking = FALSE /\ talks = 0 /\ chunks = 0 /\ drops = 0
  /\ capture = "boot" /\ voiceState = "IDLE" /\ silence = FALSE /\ playing = 0
  /\ pushed = <<>> /\ reports = <<>>
  /\ speaking = FALSE /\ hold = FALSE /\ last = FALSE /\ hasty = FALSE

Push(ms) == Len(pushed) + Len(ms) <= MaxPushed /\ pushed' = pushed \o ms
Report(is) == Len(reports) < MaxReports /\ reports' = Append(reports, is)

----------------------------------------------------------------------------
(* The renderer.                                                           *)

\* The first loud frame is reported, unless the state is not IDLE.
LoudFrame ==
  /\ talking /\ capture = "boot"
  /\ \/ voiceState = "IDLE" /\ voiceState' = "LISTENING" /\ Report(TRUE)
     \/ voiceState = "LISTENING" /\ silence /\ UNCHANGED <<voiceState, reports>>
  /\ silence' = FALSE
  /\ UNCHANGED <<capture, playing, main, environment, pushed>>

\* A quiet frame, between words too
QuietFrame ==
  /\ capture = "boot" /\ voiceState = "LISTENING" /\ ~silence
  /\ silence' = TRUE
  /\ UNCHANGED <<capture, voiceState, playing, main, environment, pushed, reports>>

\* The timer fires, whatever the state is by then.
SilenceTimer ==
  /\ silence /\ silence' = FALSE
  /\ Report(FALSE)
  /\ voiceState' = IF voiceState = "LISTENING" THEN "IDLE" ELSE voiceState
  /\ UNCHANGED <<capture, playing, main, environment, pushed>>

\* onMicToggleRequest closes the capture, or opens one with a callback of its own.
Toggle ==
  /\ capture' = IF capture = "off" THEN "toggle" ELSE "off"
  /\ UNCHANGED <<voiceState, silence, playing, main, environment, pushed, reports>>

\* onAiAudioChunk and the SPEAKING that follows it
OnChunk == voiceState' = "SPEAKING" /\ playing' = playing + 1

\* onAudioBufferFlush
OnFlush == voiceState' = "LISTENING" /\ playing' = 0

\* onVoiceState
OnVoiceState(s) == voiceState' = s /\ UNCHANGED playing

OnPushed ==
  /\ pushed # <<>> /\ pushed' = Tail(pushed)
  /\ \/ Head(pushed) = "chunk" /\ OnChunk
     \/ Head(pushed) = "flush" /\ OnFlush
     \/ Head(pushed) \in {"LISTENING", "IDLE"} /\ OnVoiceState(Head(pushed))
  /\ UNCHANGED <<capture, silence, main, environment, reports>>

\* A chunk was played to its end: the voice state does not change.
Played ==
  /\ playing > 0 /\ playing' = playing - 1
  /\ UNCHANGED <<capture, voiceState, silence, main, environment, pushed, reports>>

----------------------------------------------------------------------------
(* Main.                                                                   *)

\* A bug: speech does not clear the silence timer.
SpeechKeepsTimer ==
  /\ UNCHANGED hold
  /\ speaking' = TRUE
  /\ IF speaking THEN UNCHANGED pushed ELSE Push(<<"flush", "LISTENING">>)

\* reportSpeaking(true); speaking-start cuts the answer and shows LISTENING.
SpeechReported ==
  /\ hold' = FALSE
  /\ speaking' = TRUE
  /\ IF speaking THEN UNCHANGED pushed ELSE Push(<<"flush", "LISTENING">>)

\* reportSpeaking(false)
SilenceReported ==
  /\ hold' = (hold \/ speaking)
  /\ UNCHANGED <<speaking, pushed>>

OnReport ==
  /\ reports # <<>> /\ reports' = Tail(reports)
  /\ last' = Head(reports)
  /\ IF Head(reports) THEN SpeechReported ELSE SilenceReported
  /\ UNCHANGED <<hasty, renderer, environment>>

\* The silence was held: speaking-end
HoldOver ==
  /\ hold /\ hold' = FALSE
  /\ speaking' = FALSE
  /\ hasty' = (hasty \/ last)
  /\ UNCHANGED <<last, renderer, environment, pushed, reports>>

----------------------------------------------------------------------------
(* The user and Gemini.                                                    *)

Talk ==
  /\ ~talking /\ talks < MaxTalks
  /\ talking' = TRUE /\ talks' = talks + 1
  /\ UNCHANGED <<chunks, drops, renderer, main, pushed, reports>>

FallSilent ==
  /\ talking /\ talking' = FALSE
  /\ UNCHANGED <<talks, chunks, drops, renderer, main, pushed, reports>>

AiAudioChunk ==
  /\ chunks < MaxChunks /\ chunks' = chunks + 1
  /\ Push(<<"chunk">>)
  /\ UNCHANGED <<talking, talks, drops, renderer, main, reports>>

\* serverContent.interrupted, or the session is lost
ServerEnds(message) ==
  /\ drops < MaxDrops /\ drops' = drops + 1
  /\ Push(<<message>>)
  /\ UNCHANGED <<talking, talks, chunks, renderer, main, reports>>

Next ==
  \/ LoudFrame \/ QuietFrame \/ SilenceTimer \/ Toggle \/ OnPushed \/ Played
  \/ OnReport \/ HoldOver
  \/ Talk \/ FallSilent \/ AiAudioChunk \/ \E m \in {"flush", "IDLE"} : ServerEnds(m)

\* Frames come while a capture is open; messages arrive.
Fairness == WF_vars(LoudFrame) /\ WF_vars(OnPushed) /\ WF_vars(OnReport)

Spec == Init /\ [][Next]_vars /\ Fairness

----------------------------------------------------------------------------

\* voice_processor.ts: an utterance ends only when its silence was held: no
\* speaking-end follows a report of speech before a report of silence, in
\* whatever order reports arrive and the 300 ms of the hold run out.
EndsFollowSilence == ~hasty

\* gemini_live_bridge.ts:370 says that the answer is cancelled "when user speech
\* begins": who speaks on before the microphone of the boot is heard by main.
SpeechIsHeard == talking ~> (speaking \/ ~talking \/ capture # "boot")
=============================================================================
