---------------------------- MODULE GeminiBridge -----------------------------
(***************************************************************************)
(* The session with Gemini Live: class GeminiLiveBridge of                 *)
(* src/src/main/services/gemini_live_bridge.ts.                            *)
(*                                                                         *)
(* Sockets are numbered as they are made.  The bridge sees events of a     *)
(* socket only while its handlers are attached.  The user's turns are      *)
(* numbered too, and a transcript is the set of turns it has words of.     *)
(* Delays are left out: a timer fires at any time after it was armed.  So  *)
(* is connectionState, which is shown and never read by the bridge.        *)
(***************************************************************************)
EXTENDS Integers

CONSTANTS
  MaxSockets,  \* bound: sockets made in one behaviour
  MaxTurns     \* bound: turns of the user in one behaviour

ASSUME GeminiAssumption == MaxSockets \in Nat \ {0} /\ MaxTurns \in Nat \ {0}

Sockets == 1 .. MaxSockets
NoSocket == 0
Turns == 1 .. MaxTurns

\* readyState of a socket; one that the bridge tore down counts as closed.
ReadyStates == {"unborn", "connecting", "open", "closing", "closed"}

VARIABLES
  hasKey,            \* this.apiKey is set
  booted,            \* main.ts has called connectStream
  ws,                \* this.ws, or NoSocket
  connected,         \* this.connected
  sessionReady,      \* this.sessionReady
  intentionalClose,  \* this.intentionalClose
  reconnectTimer,    \* this.reconnectTimer is armed
  keepAliveTimer,    \* this.keepAliveTimer is armed
  sock,              \* readyState of each socket
  attached,          \* sockets that have the bridge's handlers
  mute,              \* sockets whose peer is lost without a close
  setUp,             \* sockets on which setupComplete was received
  turn,              \* the current turn of the user
  begun,             \* the server has begun to answer it or to transcribe it
  pendingUser,       \* this.pendingUserTranscript
  pendingModel,      \* this.pendingModelResponse has text
  torn               \* history: the bridge dropped a socket and kept its flags

flags   == <<connected, sessionReady>>
timers  == <<intentionalClose, reconnectTimer, keepAliveTimer>>
network == <<sock, attached, mute, setUp>>
talk    == <<turn, begun, pendingUser, pendingModel>>
gvars   == <<hasKey, booted, ws, flags, timers, network, talk, torn>>

GTypeOK ==
  /\ hasKey \in BOOLEAN /\ booted \in BOOLEAN
  /\ ws \in Sockets \cup {NoSocket}
  /\ connected \in BOOLEAN /\ sessionReady \in BOOLEAN
  /\ intentionalClose \in BOOLEAN /\ reconnectTimer \in BOOLEAN /\ keepAliveTimer \in BOOLEAN
  /\ sock \in [Sockets -> ReadyStates]
  /\ attached \subseteq Sockets /\ mute \subseteq Sockets /\ setUp \subseteq Sockets
  /\ turn \in 1 .. MaxTurns + 1
  /\ begun \in BOOLEAN
  /\ pendingUser \subseteq Turns /\ pendingModel \in BOOLEAN
  /\ torn \in BOOLEAN

GInit ==
  /\ hasKey \in BOOLEAN /\ booted = FALSE
  /\ ws = NoSocket
  /\ connected = FALSE /\ sessionReady = FALSE
  /\ intentionalClose = FALSE /\ reconnectTimer = FALSE /\ keepAliveTimer = FALSE
  /\ sock = [s \in Sockets |-> "unborn"]
  /\ attached = {} /\ mute = {} /\ setUp = {}
  /\ turn = 1 /\ begun = FALSE
  /\ pendingUser = {} /\ pendingModel = FALSE
  /\ torn = FALSE

-----------------------------------------------------------------------------
(* Helpers of the bridge.                                                  *)

WsIn(states) == ws # NoSocket /\ sock[ws] \in states

\* A bug: a reconnect is planned only if the socket had been open.
ScheduleIfConnected ==
  reconnectTimer' = (reconnectTimer \/ (~intentionalClose /\ hasKey /\ connected))

\* scheduleReconnect, and the tests of intentionalClose before each call of it.
ScheduleReconnect == reconnectTimer' = (reconnectTimer \/ (~intentionalClose /\ hasKey))

\* A bug: the old socket is closed, its handlers stay.
TeardownKeepsHandlers == {}

\* Sockets teardownSocket detaches from and closes.
TornDown == IF ws = NoSocket THEN {} ELSE {ws}

Closed(ss) == [s \in Sockets |-> IF s \in ss THEN "closed" ELSE sock[s]]

\* What went on on these sockets no longer matters.
Forget(ss) == mute' = mute \ ss /\ setUp' = setUp \ ss

Unborn == {s \in Sockets : sock[s] = "unborn"}
NextSocket == CHOOSE s \in Unborn : \A r \in Unborn : s <= r

\* A bug: the session is over, and connected stays.
OnlyNotReady == sessionReady' = FALSE /\ UNCHANGED connected

SessionOver == connected' = FALSE /\ sessionReady' = FALSE

KeepsSession == WsIn({"connecting", "open"})

\* connectStream, after the timer was cleared.
ConnectStream ==
  /\ reconnectTimer' = FALSE
  /\ intentionalClose' = FALSE
  /\ \/ /\ ~hasKey
        /\ UNCHANGED <<ws, network, torn>>
     \/ /\ hasKey
        /\ KeepsSession
        /\ UNCHANGED <<ws, network, torn>>
     \/ /\ hasKey
        /\ ~KeepsSession
        /\ Unborn # {}
        /\ ws' = NextSocket
        /\ sock' = [Closed(TornDown) EXCEPT ![NextSocket] = "connecting"]
        /\ attached' = (attached \ TornDown) \cup {NextSocket}
        /\ Forget(TornDown)
        /\ torn' = (torn \/ ws # NoSocket)
  /\ UNCHANGED <<hasKey, flags, keepAliveTimer, talk>>

-----------------------------------------------------------------------------
(* Calls, timers and socket events.                                        *)

Boot == ~booted /\ booted' = TRUE /\ ConnectStream

\* A timer armed before an intentional close is cleared by it.
ReconnectFires ==
  /\ reconnectTimer
  /\ ConnectStream
  /\ UNCHANGED booted

\* 'open': the setup frame is sent on the new socket.
OnOpen(s) ==
  /\ s \in attached /\ sock[s] = "connecting"
  /\ sock' = [sock EXCEPT ![s] = "open"]
  /\ connected' = TRUE
  /\ keepAliveTimer' = TRUE
  /\ UNCHANGED <<hasKey, booted, ws, sessionReady, intentionalClose, reconnectTimer,
                 attached, mute, setUp, talk, torn>>

\* 'error', which a 'close' follows.
OnError(s) ==
  /\ s \in attached /\ sock[s] \in {"connecting", "open"} /\ s \notin mute
  /\ sock' = [sock EXCEPT ![s] = "closing"]
  /\ SessionOver
  /\ keepAliveTimer' = FALSE
  /\ ScheduleReconnect
  /\ torn' = FALSE
  /\ UNCHANGED <<hasKey, booted, ws, intentionalClose, attached, mute, setUp, talk>>

\* The server closes: readyState changes before 'close' is emitted.
PeerCloses(s) ==
  /\ s \in attached /\ sock[s] = "open" /\ s \notin mute
  /\ sock' = [sock EXCEPT ![s] = "closing"]
  /\ UNCHANGED <<hasKey, booted, ws, flags, timers, attached, mute, setUp, talk, torn>>

\* The network is gone and nobody says so.
PeerVanishes(s) ==
  /\ s \in attached /\ sock[s] = "open"
  /\ mute' = mute \cup {s}
  /\ UNCHANGED <<hasKey, booted, ws, flags, timers, sock, attached, setUp, talk, torn>>

OnClose(s) ==
  /\ s \in attached /\ sock[s] = "closing"
  /\ sock' = [sock EXCEPT ![s] = "closed"]
  /\ attached' = attached \ {s}
  /\ Forget({s})
  /\ SessionOver
  /\ keepAliveTimer' = FALSE
  /\ ws' = NoSocket
  /\ ScheduleReconnect
  /\ torn' = FALSE
  /\ UNCHANGED <<hasKey, booted, intentionalClose, talk>>

\* The bridge drops its socket itself; connected and sessionReady stay.
DropSocket ==
  /\ sock' = Closed(TornDown)
  /\ attached' = attached \ TornDown
  /\ Forget(TornDown)
  /\ ws' = NoSocket
  /\ ScheduleReconnect
  /\ torn' = TRUE

\* A bug: the test of the last pong is left out.
HeartbeatNever == FALSE

HeartbeatLooks == keepAliveTimer /\ connected /\ WsIn({"open"})

\* The heartbeat finds no recent pong, or ping throws.  A peer that is there
\* answers, unless the machine slept.
HeartbeatStale ==
  /\ HeartbeatLooks
  /\ DropSocket
  /\ UNCHANGED <<hasKey, booted, flags, intentionalClose, keepAliveTimer, talk>>

DisconnectStream ==
  /\ intentionalClose' = TRUE
  /\ keepAliveTimer' = FALSE /\ reconnectTimer' = FALSE
  /\ sock' = Closed(TornDown)
  /\ attached' = attached \ TornDown
  /\ Forget(TornDown)
  /\ ws' = NoSocket
  /\ SessionOver
  /\ torn' = FALSE
  /\ UNCHANGED <<hasKey, booted, talk>>

\* safeSend on a socket that is not open sends nothing and plans a reconnect.
SafeSend ==
  /\ IF WsIn({"open"}) THEN UNCHANGED reconnectTimer ELSE ScheduleReconnect
  /\ UNCHANGED <<hasKey, booted, ws, flags, intentionalClose, keepAliveTimer, network, talk, torn>>

\* sendAudioChunk and sendVisionFrame, while they do not return at once.
SendAudioChunk == ws # NoSocket /\ connected /\ sessionReady /\ SafeSend

\* sendTextMessage and sendToolResponse, while they do not return at once.
SendTextMessage == ws # NoSocket /\ connected /\ SafeSend

\* sendClientInterruption
SendClientInterruption ==
  /\ pendingUser # {} \/ pendingModel
  /\ pendingUser' = {} /\ pendingModel' = FALSE
  /\ UNCHANGED <<hasKey, booted, ws, flags, timers, network, turn, begun, torn>>

-----------------------------------------------------------------------------
(* Messages of the server.                                                 *)

Listens(s) == s \in attached /\ sock[s] = "open" /\ s \notin mute

\* A turn that an earlier session had begun is lost with that session.
SetupComplete(s) ==
  /\ Listens(s) /\ s \notin setUp
  /\ setUp' = setUp \cup {s}
  /\ sessionReady' = TRUE
  /\ torn' = FALSE
  /\ turn' = IF begun THEN turn + 1 ELSE turn
  /\ begun' = FALSE
  /\ UNCHANGED <<hasKey, booted, ws, connected, timers, sock, attached, mute,
                 pendingUser, pendingModel>>

ServerError(s) ==
  /\ Listens(s)
  /\ DropSocket
  /\ UNCHANGED <<hasKey, booted, flags, intentionalClose, keepAliveTimer, talk>>

\* Content of the current turn on an established session.
Content(s) ==
  /\ Listens(s) /\ s \in setUp
  /\ turn \in Turns
  /\ begun' = TRUE
  /\ UNCHANGED <<hasKey, booted, ws, flags, timers, network, turn, torn>>

InputTranscription(s) ==
  /\ Content(s)
  /\ pendingUser' = pendingUser \cup {turn}
  /\ UNCHANGED pendingModel

ModelOutput(s) ==
  /\ Content(s)
  /\ pendingModel' = TRUE
  /\ UNCHANGED pendingUser

ToolCallMessage(s) == Content(s) /\ UNCHANGED <<pendingUser, pendingModel>>

\* emitInteractionComplete emits nothing for empty transcripts.
Emits == pendingUser # {} \/ pendingModel

\* turnComplete or interrupted
TurnEnds(s) ==
  /\ Listens(s) /\ begun /\ s \in setUp
  /\ turn' = turn + 1
  /\ begun' = FALSE
  /\ pendingUser' = {} /\ pendingModel' = FALSE
  /\ UNCHANGED <<hasKey, booted, ws, flags, timers, network, torn>>

-----------------------------------------------------------------------------
(* What the bridge guarantees.                                             *)

\* At any time at most one socket is in use, and it is this.ws: a reconnect,
\* an early timer or a late event never leaves a second session open whose
\* events the bridge would mix with those of the first.
OneSession ==
  /\ attached \subseteq {ws}
  /\ \A s \in Sockets : sock[s] \in {"connecting", "open", "closing"} => s = ws

\* A configured bridge that is without a socket, and was not disconnected, has
\* a reconnect planned: no combination of losses leaves it offline for ever.
DownMeansPlanned ==
  booted /\ hasKey /\ ~intentionalClose => ws # NoSocket \/ reconnectTimer

\* Unless the bridge dropped a socket itself, its flags speak of the socket it has: a
\* typed request that main.ts finds connected reaches a session, and is not dropped
\* silently (main.ts:1304-1307), and no audio is sent before the setup completed.
FlagsInOrder ==
  ~torn => /\ connected => WsIn({"open", "closing"})
           /\ sessionReady => ws \in setUp

\* In every order of losses, reconnects and disconnects: one session at a time, that is
\* not lost for good, and of which the flags tell.
SessionInOrder == OneSession /\ DownMeansPlanned /\ FlagsInOrder

\* A peer that vanished without a word is noticed.
SilenceIsNoticed == \A s \in Sockets : s \in mute ~> ws # s
=============================================================================
