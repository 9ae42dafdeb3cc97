---------------------------- MODULE RuntimeStatus ----------------------------
(***************************************************************************)
(* What the HUD is told of NOVA's state: the boot steps and the subsystem  *)
(* chips of main.ts, the hub they are kept in (runtime_state.ts) with its  *)
(* delayed broadcast, and the renderer that mounts while they change.      *)
(*                                                                         *)
(* The details beside a chip, the activity feed and the task's wording are *)
(* left out; of what the renderer shows it is kept whether it is current.  *)
(* Messages reach a renderer that listens in the order they are sent.      *)
(* Of the Gemini bridge (gemini_live_bridge.ts) there are its socket and   *)
(* the connectionState that it tells, which are not changed together; its  *)
(* other flags and its timers are those of GeminiBridge.                   *)
(***************************************************************************)
EXTENDS Naturals

VARIABLES
  steps,     \* bootSteps: status of each step
  chips,     \* status of each subsystem in the hub
  boot,      \* how far the start of the app has come
  graph,     \* graphEngine.isReady()
  voice,     \* voiceIngestionMarked: an audio chunk has come
  hasKey,    \* the Gemini bridge has a key
  socket,    \* readyState of the bridge's socket; none without one
  link,      \* the connectionState the bridge told last
  silent,    \* history: the heartbeat dropped the socket and told nobody since
  timer,     \* broadcastTimer is set
  window,    \* the renderer: none, loading, listening, or answered
  loaded,    \* did-finish-load was emitted
  shownChips, shownSteps  \* what the renderer shows: nothing, an old state, the current one

hub == <<steps, chips, timer, shownChips, shownSteps>>
bridge == <<hasKey, socket, link, silent>>
vars == <<hub, boot, graph, voice, bridge, window, loaded>>

Subsystems ==
  {"electron", "python", "gemini", "groq", "memory", "tools", "microphone", "speaker"}
Chips == {"starting", "online", "degraded", "offline", "unconfigured", "error"}
Links == {"DISCONNECTED", "CONNECTING", "CONNECTED", "ERROR"}
Sockets == {"none", "connecting", "open", "closing"}

TypeOK ==
  /\ steps \in [1 .. 4 -> {"pending", "active", "completed", "failed"}]
  /\ chips \in [Subsystems -> Chips]
  /\ boot \in {"ready", "wake word", "up"}
  /\ link \in Links /\ socket \in Sockets
  /\ {graph, voice, timer, loaded, hasKey, silent} \subseteq BOOLEAN
  /\ window \in {"none", "loading", "listening", "answered"}
  /\ {shownChips, shownSteps} \subseteq {"nothing", "old", "current"}

\* groq is known at once, from the keys there are.
Init ==
  /\ steps = [i \in 1 .. 4 |-> "pending"]
  /\ \E groq \in {"online", "unconfigured"} :
       chips = [s \in Subsystems |-> IF s = "groq" THEN groq ELSE "starting"]
  /\ boot = "ready" /\ graph = FALSE /\ voice = FALSE
  /\ hasKey \in BOOLEAN /\ socket = "none" /\ link = "DISCONNECTED" /\ silent = FALSE
  /\ timer = TRUE
  /\ window = "none" /\ loaded = FALSE
  /\ shownChips = "nothing" /\ shownSteps = "nothing"

-----------------------------------------------------------------------------
(* The hub                                                                 *)

Listening == window \in {"listening", "answered"}

Outdated(shown) == IF shown = "nothing" THEN "nothing" ELSE "old"

\* maybeBroadcast: a broadcast follows, with the state there is by then.
MaybeBroadcast == timer' = TRUE

\* setSubsystem and log: the renderer is behind until the broadcast.
Set(s, status) ==
  /\ chips' = [chips EXCEPT ![s] = status]
  /\ shownChips' = IF chips[s] = status THEN shownChips ELSE Outdated(shownChips)
  /\ MaybeBroadcast
  /\ UNCHANGED <<steps, shownSteps>>

\* The timer, BROADCAST_DEBOUNCE_MS after the first change it broadcasts
Broadcast ==
  /\ timer /\ timer' = FALSE
  /\ shownChips' = IF Listening THEN "current" ELSE shownChips
  /\ UNCHANGED <<steps, chips, shownSteps, boot, graph, voice, bridge, window, loaded>>

\* setTask, setError and log of a request or a tool that runs
TaskMoves ==
  /\ boot = "up"
  /\ shownChips' = Outdated(shownChips)
  /\ MaybeBroadcast
  /\ UNCHANGED <<steps, chips, shownSteps, boot, graph, voice, bridge, window, loaded>>

-----------------------------------------------------------------------------
(* Boot steps                                                              *)

\* broadcastBootSteps: steps and snapshot are sent at once.
Sent(shown) == IF Listening THEN "current" ELSE shown

\* The step is done and the first one still pending becomes active.
Done(i, now) ==
  LET done == [now EXCEPT ![i] = "completed"]
      pending == {j \in 1 .. 4 : done[j] = "pending"}
  IN  [j \in 1 .. 4 |->
        IF j \in pending /\ \A k \in pending : j <= k THEN "active" ELSE done[j]]

Subsystem == <<{"electron"}, {"microphone"}, {"memory"}, {"gemini", "speaker"}>>

Mark(is, status) ==
  [s \in Subsystems |-> IF \E i \in is : s \in Subsystem[i] THEN status ELSE chips[s]]

\* Broadcast of steps and chips
Reports(newSteps, newChips) ==
  /\ steps' = newSteps /\ chips' = newChips
  /\ shownSteps' = Sent(shownSteps) /\ shownChips' = Sent(shownChips)
  /\ MaybeBroadcast

\* completeBootStep
CompleteBootStep(i) ==
  IF steps[i] = "completed" THEN UNCHANGED hub
  ELSE Reports(Done(i, steps), Mark({i}, "online"))

-----------------------------------------------------------------------------
(* The start of the app                                                    *)

\* graphEngine.init emits ready, which completes step 3 before step 1; or it fails.  The
\* registry and the executor are online whatever happened.
Starts ==
  /\ boot = "ready" /\ boot' = "wake word"
  /\ graph' \in BOOLEAN
  /\ LET core == IF graph' THEN Mark({1, 3}, "online") ELSE Mark({1, 3}, "error")
     IN  Reports(IF graph' THEN Done(1, Done(3, steps))
                 ELSE [steps EXCEPT ![1] = "failed", ![3] = "failed"],
                 [core EXCEPT !["tools"] = "online"])
  /\ UNCHANGED <<voice, bridge, window, loaded>>

\* setConnectionState: what Gemini's chip becomes of it
ChipOf(l) ==
  CASE l = "CONNECTED" -> "online" [] l = "CONNECTING" -> "starting"
    [] l \in {"DISCONNECTED", "ERROR"} -> "offline"

\* The state is told, and an error event with it where the code emits one.
Tells(l, chip) ==
  /\ link' = l /\ silent' = FALSE
  /\ chips' = [chips EXCEPT !["gemini"] = chip]
  /\ shownChips' = Outdated(shownChips)
  /\ MaybeBroadcast
  /\ UNCHANGED <<steps, shownSteps, graph, voice, loaded, hasKey>>

\* connectStream where no socket is active: without a key it fails at once; a socket that
\* is closing is torn down, and the new one may not be made.
ConnectStream ==
  \/ /\ hasKey
     /\ socket' = "connecting" /\ Tells("CONNECTING", ChipOf("CONNECTING"))
  \/ socket' = "none" /\ Tells("ERROR", "error")

\* Once the wake word detector is there (it never fails): the window, the bridge's
\* handlers and connectStream.
WindowUp ==
  /\ boot = "wake word" /\ boot' = "up"
  /\ window' = "loading"
  /\ ConnectStream

\* graphEngine is used after its init failed, and opens.
GraphReady ==
  /\ boot = "up" /\ ~graph /\ graph' = TRUE
  /\ CompleteBootStep(3)
  /\ UNCHANGED <<boot, voice, bridge, window, loaded>>

\* The answers of Python: the probe, discover and the manager's changes, whisper
Probed ==
  /\ chips["python"] = "starting"
  /\ \E s \in {"online", "offline"} : Set("python", s)
  /\ UNCHANGED <<boot, graph, voice, bridge, window, loaded>>

MicrophoneTold ==
  /\ boot # "ready"
  /\ \E s \in {"online", "offline", "degraded"} : Set("microphone", s)
  /\ UNCHANGED <<boot, graph, voice, bridge, window, loaded>>

-----------------------------------------------------------------------------
(* The bridge and the renderer                                             *)

BridgeMoves == boot = "up" /\ UNCHANGED <<boot, window>>

\* The reconnect timer, which maintains an active socket; armed without a key never.  A
\* send planned it when the socket is closing (safeSend).
Redials ==
  /\ BridgeMoves /\ hasKey
  /\ socket \in {"none", "closing"}
  /\ ConnectStream

Opens ==
  /\ BridgeMoves
  /\ socket = "connecting" /\ socket' = "open"
  /\ Tells("CONNECTED", ChipOf("CONNECTED"))

\* A send throws: the socket is presumed dead and kept.
SendFails ==
  /\ BridgeMoves
  /\ socket = "open" /\ UNCHANGED socket
  /\ Tells("ERROR", ChipOf("ERROR"))

\* The server's error message, after which the socket is torn down
ServerError ==
  /\ BridgeMoves
  /\ socket = "open" /\ socket' = "none"
  /\ Tells("ERROR", "error")

\* 'error', which a 'close' follows
SocketFails ==
  /\ BridgeMoves
  /\ socket \in {"connecting", "open"} /\ socket' = "closing"
  /\ Tells("ERROR", "error")

\* The server closes: readyState changes before 'close' is emitted.
PeerCloses ==
  /\ BridgeMoves
  /\ socket = "open" /\ socket' = "closing"
  /\ UNCHANGED <<hub, graph, voice, loaded, hasKey, link, silent>>

\* 'close'
Closes ==
  /\ BridgeMoves
  /\ socket = "closing" /\ socket' = "none"
  /\ Tells("DISCONNECTED", ChipOf("DISCONNECTED"))

\* The heartbeat of a connected bridge finds no recent pong, or ping throws: the socket is
\* torn down and connectionState stays.
HeartbeatDrops ==
  /\ BridgeMoves
  /\ socket = "open" /\ link = "CONNECTED"
  /\ socket' = "none" /\ silent' = TRUE
  /\ UNCHANGED <<hub, graph, voice, loaded, hasKey, link>>

\* setup-complete of an open socket
SetupComplete ==
  /\ socket = "open"
  /\ CompleteBootStep(4)
  /\ UNCHANGED <<boot, graph, voice, bridge, window, loaded>>

\* App mounts: it listens, and asks for both states.
Mount ==
  /\ window = "loading" /\ window' = "listening"
  /\ UNCHANGED <<hub, boot, graph, voice, bridge, loaded>>

\* A bug: the mount trusts the events and asks for the chips only.
AnsweredForChips ==
  /\ window = "listening" /\ window' = "answered"
  /\ shownChips' = "current"
  /\ UNCHANGED <<steps, chips, timer, shownSteps, boot, graph, voice, bridge, loaded>>

\* GET_BOOT_STATE and GET_RUNTIME_STATE are answered.
Answered ==
  /\ window = "listening" /\ window' = "answered"
  /\ shownSteps' = "current" /\ shownChips' = "current"
  /\ UNCHANGED <<steps, chips, timer, boot, graph, voice, bridge, loaded>>

\* did-finish-load marks the first step active again, whatever it was.
DidFinishLoad ==
  /\ window # "none" /\ ~loaded /\ loaded' = TRUE
  /\ steps' = [steps EXCEPT ![1] = "active"]
  /\ shownSteps' = Sent(Outdated(shownSteps)) /\ shownChips' = Sent(shownChips)
  /\ UNCHANGED <<chips, timer, boot, graph, voice, bridge, window>>

\* The first user-audio-chunk
FirstAudio ==
  /\ Listening /\ ~voice /\ voice' = TRUE
  /\ CompleteBootStep(2)
  /\ UNCHANGED <<boot, graph, bridge, window, loaded>>

Next ==
  \/ Broadcast \/ TaskMoves
  \/ Starts \/ WindowUp \/ GraphReady \/ Probed \/ MicrophoneTold
  \/ Redials \/ Opens \/ SendFails \/ ServerError \/ SocketFails \/ PeerCloses \/ Closes
  \/ HeartbeatDrops \/ SetupComplete \/ Mount \/ Answered \/ DidFinishLoad \/ FirstAudio

Spec == Init /\ [][Next]_vars

-----------------------------------------------------------------------------

\* A renderer that has its first answers shows the steps as they are, and the chips as
\* they are unless a broadcast is on its way: whenever it mounted, and although bursts
\* of changes share one broadcast.
ShownIsCurrent ==
  window = "answered" =>
    /\ shownSteps = "current"
    /\ timer \/ shownChips = "current"

\* Gemini's chip against the socket itself, whatever order its events come in and the
\* setup's completion with them: online is said of a socket that is open or whose close
\* is still to be emitted, unless the heartbeat dropped the socket and told nobody; booting,
\* of a connection under way and of nothing else; and an open session is shown, unless a
\* send failed on it.
GeminiChipIsTrue ==
  boot = "up" =>
    /\ chips["gemini"] = "online" => socket \in {"open", "closing"} \/ silent
    /\ chips["gemini"] = "starting" <=> socket = "connecting"
    /\ socket = "open" => chips["gemini"] = "online" \/ link = "ERROR"

\* What the HUD shows is current, and true of the session's socket.
StatusIsTrue == ShownIsCurrent /\ GeminiChipIsTrue

=============================================================================
