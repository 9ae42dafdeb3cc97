---------------------------- MODULE WhisperBridge ----------------------------
(***************************************************************************)
(* Local transcription: class WhisperLiveBridge of                         *)
(* services/whisper_live_bridge.ts, the part of main.ts that feeds it, and *)
(* python/nova_runtime/services/whisper.py in the serial Python worker.    *)
(*                                                                         *)
(* The microphone streams without a pause: its chunks are numbered, and    *)
(* talker tells whose words each one holds.  The bridge has one request at *)
(* a time under way; a request that timed out stays in the worker's stdin  *)
(* and is still carried out.  That a worker answers and that the bridge    *)
(* handles the answer is one step, for nothing the worker reads changes    *)
(* between the two.                                                        *)
(***************************************************************************)
EXTENDS Integers, Sequences, FiniteSets

CONSTANTS
  MaxChunks,      \* bound: chunks of audio in one behaviour
  MaxUtterances,  \* bound: utterances in one behaviour
  MaxFails,       \* bound: timeouts, errors and deaths of the worker
  FlushAt,        \* FLUSH_BYTES, in chunks
  Window          \* STREAM_WINDOW_SECONDS, in chunks

ASSUME BoundsAssumption ==
  /\ {MaxChunks, MaxUtterances, MaxFails} \subseteq Nat
  /\ {FlushAt, Window} \subseteq Nat \ {0}

Chunks == 1 .. MaxChunks
Utterances == 1 .. MaxUtterances
Nobody == 0

VARIABLES
  localWhisperActive,  \* the model is loaded: audio is passed on
  pending,             \* this.pending, as a set of chunks
  flushing,            \* this.flushing: a request is under way
  queuedEnd,           \* this.queuedEnd
  stdin,               \* requests to the worker; only the last can be awaited
  audio,               \* _audio of the worker
  spoken,              \* chunks recorded so far
  talker,              \* whose words each chunk holds
  utterance,           \* the utterance that is or was last spoken
  talking,             \* the renderer's VAD says that the user speaks
  finals,              \* history: the chunks behind each 'final' that was emitted
  unheard,             \* history: chunks recorded before localWhisperActive
  ended,               \* history: utterances with words passed on, whose end was reported
  overlapped,          \* history: words or an end came while an end was being served
  failed,              \* history: a request timed out, failed or lost its worker
  cut                  \* history: an end was decoded with more audio than the window

bridge  == <<localWhisperActive, pending, flushing, queuedEnd>>
worker  == <<stdin, audio>>
speaker == <<spoken, talker, utterance, talking, unheard>>
history == <<finals, ended, overlapped, failed, cut>>
vars    == <<bridge, worker, speaker, history>>

Requests ==
  [method : {"whisper.audio"}, pcm : SUBSET Chunks, speech_end : BOOLEAN, awaited : BOOLEAN]
    \cup [method : {"whisper.reset"}, awaited : BOOLEAN]

TypeOK ==
  /\ localWhisperActive \in BOOLEAN /\ flushing \in BOOLEAN /\ queuedEnd \in BOOLEAN
  /\ pending \subseteq Chunks /\ audio \subseteq Chunks /\ unheard \subseteq Chunks
  /\ stdin \in Seq(Requests)
  /\ spoken \in 0 .. MaxChunks
  /\ talker \in [Chunks -> Utterances \cup {Nobody}]
  /\ utterance \in Utterances \cup {Nobody} /\ talking \in BOOLEAN
  /\ finals \in Seq(SUBSET Chunks) /\ ended \subseteq Utterances
  /\ overlapped \in BOOLEAN /\ failed \in Nat /\ cut \in BOOLEAN

Init ==
  /\ localWhisperActive = FALSE
  /\ pending = {} /\ flushing = FALSE /\ queuedEnd = FALSE
  /\ stdin = <<>> /\ audio = {}
  /\ spoken = 0 /\ talker = [i \in Chunks |-> Nobody]
  /\ utterance = Nobody /\ talking = FALSE /\ unheard = {}
  /\ finals = <<>> /\ ended = {}
  /\ overlapped = FALSE /\ failed = 0 /\ cut = FALSE

-----------------------------------------------------------------------------

\* The last n of a set of chunks.
Latest(n, S) == {i \in S : Cardinality({j \in S : j > i}) < n}

\* The words of some chunks are those of these utterances.
Of(S) == {talker[i] : i \in S} \ {Nobody}

\* The request the bridge awaits.
Awaited == {i \in 1 .. Len(stdin) : stdin[i].awaited}

\* An end of speech has been reported and is not settled.
EndUnderWay ==
  \/ queuedEnd
  \/ \E i \in Awaited : stdin[i].method = "whisper.reset" \/ stdin[i].speech_end

\* flush(force): the audio goes to the worker, with the end if one is queued.
Flush(requests, pcm, force) ==
  /\ flushing' = TRUE
  /\ pending' = {}
  /\ queuedEnd' = FALSE
  /\ stdin' = Append(requests, [method |-> "whisper.audio", pcm |-> pcm,
                                speech_end |-> force, awaited |-> TRUE])

\* Bug: the finally block looks at the audio only.
EndWaits(requests) ==
  IF Cardinality(pending) >= FlushAt
  THEN Flush(requests, pending, queuedEnd)
  ELSE /\ flushing' = FALSE
       /\ stdin' = requests
       /\ UNCHANGED <<pending, queuedEnd>>

\* The finally block of flush: what came meanwhile is flushed next.
Finally(requests) ==
  IF queuedEnd \/ Cardinality(pending) >= FlushAt
  THEN Flush(requests, pending, queuedEnd)
  ELSE /\ flushing' = FALSE
       /\ stdin' = requests
       /\ UNCHANGED <<pending, queuedEnd>>

\* reset after a final text: the audio and an end that came meanwhile are dropped.
Reset(requests) ==
  /\ pending' = {} /\ queuedEnd' = FALSE
  /\ stdin' = Append(requests, [method |-> "whisper.reset", awaited |-> TRUE])
  /\ UNCHANGED flushing

-----------------------------------------------------------------------------

\* initializeWhisper: the warm-up succeeded.  If it fails nothing is ever passed on.
WarmedUp ==
  /\ ~localWhisperActive
  /\ localWhisperActive' = TRUE
  /\ UNCHANGED <<pending, flushing, queuedEnd, worker, speaker, history>>

\* The VAD of the renderer: speech begins.
StartSpeaking ==
  /\ ~talking /\ utterance < MaxUtterances
  /\ talking' = TRUE
  /\ utterance' = utterance + 1
  /\ UNCHANGED <<bridge, worker, spoken, talker, unheard, history>>

\* 'user-audio-chunk': pushAudio
PushAudio ==
  /\ spoken < MaxChunks
  /\ spoken' = spoken + 1
  /\ talker' = [talker EXCEPT ![spoken'] = IF talking THEN utterance ELSE Nobody]
  /\ \/ /\ ~localWhisperActive
        /\ unheard' = unheard \cup {spoken'}
        /\ UNCHANGED <<pending, flushing, queuedEnd, stdin, overlapped>>
     \/ /\ localWhisperActive
        /\ overlapped' = (overlapped \/ (talking /\ EndUnderWay))
        /\ IF ~flushing /\ Cardinality(pending) + 1 >= FlushAt
           THEN Flush(stdin, pending \cup {spoken'}, FALSE)
           ELSE /\ pending' = pending \cup {spoken'}
                /\ UNCHANGED <<flushing, queuedEnd, stdin>>
        /\ UNCHANGED unheard
  /\ UNCHANGED <<localWhisperActive, audio, utterance, talking, finals, ended, failed, cut>>

\* Bug: an end that comes during a request is not kept.
ForgetsEnd ==
  IF flushing
  THEN UNCHANGED <<pending, flushing, queuedEnd, stdin>>
  ELSE Flush(stdin, pending, TRUE)

\* endSpeech
EndSpeech ==
  IF flushing
  THEN queuedEnd' = TRUE /\ UNCHANGED <<pending, flushing, stdin>>
  ELSE Flush(stdin, pending, TRUE)

\* 'user-speaking-active' false, 600 ms after the last word.
StopSpeaking ==
  /\ talking
  /\ talking' = FALSE
  /\ \/ ~localWhisperActive /\ UNCHANGED <<pending, flushing, queuedEnd, stdin, ended, overlapped>>
     \/ /\ localWhisperActive
        /\ overlapped' = (overlapped \/ EndUnderWay)
        /\ ended' = ended \cup ({utterance} \cap Of((1 .. spoken) \ unheard))
        /\ EndSpeech
  /\ UNCHANGED <<localWhisperActive, audio, spoken, talker, utterance, unheard, finals, failed, cut>>

-----------------------------------------------------------------------------

\* A partial or failed answer, or one nobody awaits: nothing is emitted that is routed.
Unanswered(r) ==
  /\ IF r.awaited THEN Finally(Tail(stdin)) ELSE
       stdin' = Tail(stdin) /\ UNCHANGED <<pending, flushing, queuedEnd>>
  /\ UNCHANGED finals

\* The final text of an end: emitted if there are words in it.
Answered(r, words) ==
  IF r.awaited
  THEN /\ finals' = IF Of(words) = {} THEN finals ELSE Append(finals, words)
       /\ Reset(Tail(stdin))
  ELSE Unanswered(r)

\* whisper.audio: only an end that finds audio gives a final text, of the last seconds.
\* An error of the model keeps the audio.
AudioRequest(r) ==
  /\ r.method = "whisper.audio"
  /\ audio' = audio \cup r.pcm
  /\ \/ /\ ~r.speech_end \/ audio' = {}
        /\ Unanswered(r)
        /\ UNCHANGED <<failed, cut>>
     \/ /\ audio' # {} /\ failed < MaxFails
        /\ failed' = failed + 1
        /\ Unanswered(r)
        /\ UNCHANGED cut
     \/ /\ r.speech_end /\ audio' # {}
        /\ Answered(r, Latest(Window, audio'))
        /\ cut' = (cut \/ Cardinality(audio') > Window)
        /\ UNCHANGED failed

\* whisper.reset
ResetRequest(r) ==
  /\ r.method = "whisper.reset"
  /\ audio' = {}
  /\ Unanswered(r)
  /\ UNCHANGED <<failed, cut>>

WorkerAnswers ==
  /\ stdin # <<>>
  /\ AudioRequest(Head(stdin)) \/ ResetRequest(Head(stdin))
  /\ UNCHANGED <<localWhisperActive, speaker, ended, overlapped>>

\* The time limit of a request: the worker will still carry it out.
RequestTimeout ==
  /\ Awaited # {} /\ failed < MaxFails
  /\ failed' = failed + 1
  /\ Finally([i \in DOMAIN stdin |-> [stdin[i] EXCEPT !.awaited = FALSE]])
  /\ UNCHANGED <<localWhisperActive, audio, speaker, finals, ended, overlapped, cut>>

\* The worker dies with its audio; the next request goes to a fresh one.
WorkerDies ==
  /\ failed < MaxFails
  /\ failed' = failed + 1
  /\ audio' = {}
  /\ IF Awaited # {} THEN Finally(<<>>) ELSE stdin' = <<>> /\ UNCHANGED <<pending, flushing, queuedEnd>>
  /\ UNCHANGED <<localWhisperActive, speaker, finals, ended, overlapped, cut>>

Next ==
  \/ WarmedUp \/ StartSpeaking \/ PushAudio \/ StopSpeaking
  \/ WorkerAnswers \/ RequestTimeout \/ WorkerDies

\* A worker answers, and a request has a time limit.
Spec == Init /\ [][Next]_vars /\ WF_vars(WorkerAnswers)

-----------------------------------------------------------------------------

\* The chunks of an utterance that were passed on.
Passed(u) == {i \in 1 .. spoken : talker[i] = u} \ unheard

\* What Whisper takes for a spoken request is one utterance, and all of it: a final
\* text mixes two or lacks words only if the user spoke on while the end of the last
\* utterance was being served, a request failed, or (lacking its beginning) there
\* was more audio than the window.
FinalsAreUtterances ==
  ~overlapped /\ failed = 0 =>
    \A k \in DOMAIN finals : \E u \in Utterances :
      Of(finals[k]) = {u} /\ (cut \/ Passed(u) \subseteq finals[k])

\* No word is in two final texts, so that no spoken command is routed twice, in
\* whatever order requests time out, workers die and speech overlaps a decode.
WordsAreHeardOnce ==
  \A k, l \in DOMAIN finals : k # l => Of(finals[k] \cap finals[l]) = {}

\* What is routed as spoken requests are the utterances, each whole and once, with
\* the exceptions that FinalsAreUtterances names.
HeardInOrder == FinalsAreUtterances /\ WordsAreHeardOnce

\* An utterance whose end was reported is eventually heard, as long as the user never
\* spoke while an end was being served, no request failed and no end had more audio than
\* the window: after the first of these, of whichever utterance, nothing is claimed of
\* those that are not yet heard.
EndsAreHeard ==
  \A u \in Utterances :
    u \in ended ~> (\/ \E k \in DOMAIN finals : u \in Of(finals[k])
                    \/ overlapped \/ failed > 0 \/ cut)
=============================================================================
