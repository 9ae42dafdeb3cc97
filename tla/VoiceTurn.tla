------------------------------ MODULE VoiceTurn ------------------------------
(***************************************************************************)
(* The voice turn: the handlers that main.ts registers for the events of   *)
(* the Gemini bridge (registerGeminiBridgeHandlers and                     *)
(* registerWhisperHandlers), composed with the bridge itself.  The event   *)
(* of a message is handled in the step that receives the message, except   *)
(* that a tool call awaits its tools before it answers.                    *)
(***************************************************************************)
EXTENDS GeminiBridge

VARIABLES
  voiceTurnHandledByToolCall,
  toolJobs,   \* turns with tool calls whose tools are running
  tooled,     \* history: turns that made a tool call
  routed,     \* history: turns whose words went to routeVoiceRequest
  twice,      \* history: turns whose words went there a second time
  completed,  \* history: turns whose words were in an interaction-complete
  heard,      \* turns of which local Whisper gave its final text
  carried,    \* history: a turn ended without one and left its traces to the next
  overtaken   \* history: Whisper's text of a turn that the server also heard was routed

history == <<completed, carried, overtaken>>
voice == <<voiceTurnHandledByToolCall, toolJobs, tooled, routed, twice, heard, history>>
vars  == <<gvars, voice>>

TypeOK ==
  /\ GTypeOK
  /\ voiceTurnHandledByToolCall \in BOOLEAN
  /\ toolJobs \subseteq Turns
  /\ tooled \subseteq Turns /\ heard \subseteq Turns
  /\ twice \subseteq routed /\ routed \subseteq Turns /\ completed \subseteq Turns
  /\ carried \in BOOLEAN /\ overtaken \in BOOLEAN

Init ==
  /\ GInit
  /\ voiceTurnHandledByToolCall = FALSE
  /\ toolJobs = {}
  /\ tooled = {} /\ heard = {}
  /\ routed = {} /\ twice = {} /\ completed = {}
  /\ carried = FALSE /\ overtaken = FALSE

\* routeVoiceRequest gets the words of these turns.
RouteVoiceRequest(turns) ==
  /\ routed' = routed \cup turns
  /\ twice' = twice \cup (routed \cap turns)

\* 'tool-call': the flag is set at once, the tools run while the turn goes on.
OnToolCall(s) ==
  /\ ToolCallMessage(s)
  /\ voiceTurnHandledByToolCall' = TRUE
  /\ toolJobs' = toolJobs \cup {turn}
  /\ tooled' = tooled \cup {turn}
  /\ UNCHANGED <<routed, twice, heard, history>>

\* handleToolCall returns; the response is sent to the session there is now.
ToolsDone(t) ==
  /\ t \in toolJobs
  /\ toolJobs' = toolJobs \ {t}
  /\ \/ SendTextMessage
     \/ ~(ws # NoSocket /\ connected) /\ UNCHANGED gvars
  /\ UNCHANGED <<voiceTurnHandledByToolCall, tooled, routed, twice, heard, history>>

\* Bugs: the flag is not looked at; the flag is not reset.
RoutesAlways == pendingUser
StillHandled == voiceTurnHandledByToolCall

\* The words that are routed: those of a turn that called no tool.
Routes == IF voiceTurnHandledByToolCall THEN {} ELSE pendingUser
HandledAfterwards == FALSE

\* 'interaction-complete'
OnTurnEnd(s) ==
  /\ TurnEnds(s)
  /\ IF Emits
     THEN /\ RouteVoiceRequest(Routes)
          /\ completed' = completed \cup pendingUser
          /\ voiceTurnHandledByToolCall' = HandledAfterwards
     ELSE UNCHANGED <<routed, twice, completed, voiceTurnHandledByToolCall>>
  /\ carried' = (carried \/ (~Emits /\ voiceTurnHandledByToolCall))
  /\ UNCHANGED <<toolJobs, tooled, heard, overtaken>>

\* A session that takes over a turn that was under way.
OnSetupComplete(s) ==
  /\ SetupComplete(s)
  /\ carried' = (carried \/ begun)
  /\ UNCHANGED <<voiceTurnHandledByToolCall, toolJobs, tooled, routed, twice, heard,
                 completed, overtaken>>

\* 'final' of local Whisper, which gets the same audio and may be slow: it is
\* the fallback while no session is ready.  A turn the server has not begun
\* then is over.
OnWhisperFinal(t) ==
  /\ t <= turn /\ t \notin heard
  /\ heard' = heard \cup {t}
  /\ \/ /\ sessionReady
        /\ UNCHANGED <<routed, twice, overtaken, turn>>
     \/ /\ ~sessionReady
        /\ RouteVoiceRequest({t})
        /\ IF t = turn /\ ~begun
           THEN turn' = turn + 1 /\ UNCHANGED overtaken
           ELSE overtaken' = TRUE /\ UNCHANGED turn
  /\ UNCHANGED <<hasKey, booted, ws, flags, timers, network, begun, pendingUser, pendingModel, torn>>
  /\ UNCHANGED <<voiceTurnHandledByToolCall, toolJobs, tooled, completed, carried>>

\* A typed request that is no task and no build: answered with an error while there is
\* no connection; otherwise sendTextMessage is called and a success reported, also if
\* there is no socket to send it on.
OnTypedRequest ==
  /\ \/ SendTextMessage
     \/ ~(connected /\ ws # NoSocket) /\ UNCHANGED gvars
  /\ UNCHANGED voice

\* Steps of the bridge that main.ts does not react to in this state.
BridgeStep ==
  /\ \/ Boot \/ ReconnectFires \/ HeartbeatStale \/ DisconnectStream
     \/ SendAudioChunk \/ SendClientInterruption
     \/ \E s \in Sockets :
          \/ OnOpen(s) \/ OnError(s) \/ PeerCloses(s) \/ PeerVanishes(s) \/ OnClose(s)
          \/ ServerError(s) \/ InputTranscription(s) \/ ModelOutput(s)
  /\ UNCHANGED voice

Next ==
  \/ BridgeStep \/ OnTypedRequest
  \/ \E s \in Sockets : OnToolCall(s) \/ OnTurnEnd(s) \/ OnSetupComplete(s)
  \/ \E t \in Turns : ToolsDone(t) \/ OnWhisperFinal(t)

SafeSpec == Init /\ [][Next]_vars

\* Timers fire; a heartbeat that gets no pong finds its connection stale.
Spec ==
  /\ SafeSpec
  /\ WF_vars(ReconnectFires /\ UNCHANGED voice)
  /\ WF_vars(ws \in mute /\ HeartbeatStale /\ UNCHANGED voice)

-----------------------------------------------------------------------------

\* "a spoken request must reach NOVA Core and EXECUTE" unless Gemini resolved
\* the turn by calling a tool itself (main.ts:580-584).
SpokenRequestsExecute == completed \subseteq routed \cup tooled

\* A completed spoken request is lost to NOVA Core only after a turn ended
\* without its own interaction-complete: in every other order of tool calls,
\* interruptions and reconnects it is executed, by NOVA Core or by the tools of
\* its own turn.
SpokenRequestsExecuteInOrder == ~carried => SpokenRequestsExecute

\* A turn that Gemini resolved by a tool call is marked "so the voice-request
\* bridge does not re-execute the same action" (main.ts:500-501), and no turn
\* reaches NOVA Core twice.
ExecutesOnce == routed \cap tooled = {} /\ twice = {}

\* The flag and the readiness of the session keep the two recognisers apart, in
\* every order of messages and losses, except when Whisper's text of a turn
\* comes after the session that also heard it was lost.
ExecutesOnceInOrder == ~overtaken => ExecutesOnce
=============================================================================
