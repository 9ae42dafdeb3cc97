--------------------------- MODULE VoiceTurnProofs ---------------------------
(***************************************************************************)
(* Theorems about the Gemini bridge and the voice turn, for every number   *)
(* of sockets and of turns.  The session (one socket, flags that tell of   *)
(* it) is an invariant of the bridge alone; the routing of the user's      *)
(* words needs how a turn, its flag and its transcripts hang together.     *)
(***************************************************************************)
EXTENDS VoiceTurn, TLAPS

\* Sockets are made in order: those not yet made are the last ones.
UnbornAreLast == \E k \in 0 .. MaxSockets : Unborn = k + 1 .. MaxSockets

\* The socket of the bridge was made.
WsIsBorn == ws # NoSocket => sock[ws] # "unborn"

SessionInv ==
  /\ OneSession /\ UnbornAreLast /\ WsIsBorn
  /\ DownMeansPlanned /\ FlagsInOrder

\* Turns are counted, and nothing is known of the words of a turn to come.
TurnsInOrder ==
  /\ begun => turn \in Turns
  /\ \A t \in pendingUser \cup tooled : t <= turn
  /\ ~begun => turn \notin pendingUser \cup tooled

\* While no turn left its traces to the next, words wait for the current turn
\* only, and the flag is set by that turn's own tool call.
NothingCarried ==
  ~carried => /\ pendingUser \subseteq {turn}
              /\ ~begun => ~pendingModel
              /\ voiceTurnHandledByToolCall => begun /\ turn \in tooled

\* The flag is set while the turn with the tool call lasts, and no words that wait
\* without it are of such a turn.
FlagTellsOfTools ==
  /\ turn \in tooled => voiceTurnHandledByToolCall
  /\ ~voiceTurnHandledByToolCall => pendingUser \cap tooled = {}

\* While Whisper overtook no turn, only turns that are over were routed, and none
\* of their words waits.
RoutedIsOver ==
  ~overtaken => /\ \A t \in routed : t < turn
                /\ pendingUser \cap routed = {}

WordsInv ==
  /\ TurnsInOrder /\ NothingCarried /\ FlagTellsOfTools /\ RoutedIsOver
  /\ SpokenRequestsExecuteInOrder /\ ExecutesOnceInOrder

IInv == TypeOK /\ SessionInv /\ WordsInv

-----------------------------------------------------------------------------

LEMMA InitIInv == Init => IInv
<1> SUFFICES ASSUME Init PROVE IInv
  OBVIOUS
<1> USE GeminiAssumption DEF Init, GInit
<1>1. TypeOK
  <2>1. sock \in [Sockets -> ReadyStates]
    BY DEF ReadyStates
  <2>2. turn \in 1 .. MaxTurns + 1
    OBVIOUS
  <2>3. GTypeOK
    BY <2>1, <2>2 DEF GTypeOK, NoSocket
  <2>4. QED
    BY <2>3 DEF TypeOK
<1>2. UnbornAreLast
  <2>1. Unborn = 0 + 1 .. MaxSockets
    BY DEF Unborn, Sockets
  <2>2. QED
    BY <2>1 DEF UnbornAreLast
<1>3. SessionInv
  BY <1>2 DEF SessionInv, OneSession, WsIsBorn, DownMeansPlanned, FlagsInOrder, Sockets, NoSocket
<1>4. TurnsInOrder /\ NothingCarried /\ FlagTellsOfTools /\ RoutedIsOver
  BY DEF TurnsInOrder, NothingCarried, FlagTellsOfTools, RoutedIsOver
<1>5. SpokenRequestsExecuteInOrder /\ ExecutesOnceInOrder
  BY DEF SpokenRequestsExecuteInOrder, SpokenRequestsExecute, ExecutesOnceInOrder, ExecutesOnce
<1>6. QED
  BY <1>1, <1>3, <1>4, <1>5 DEF IInv, WordsInv

-----------------------------------------------------------------------------
(* The sockets.                                                            *)

\* The socket to be made is the first of those that were not.
LEMMA NextIsFirst ==
  ASSUME UnbornAreLast, Unborn # {}
  PROVE  /\ NextSocket \in Unborn
         /\ \E k \in 0 .. MaxSockets : Unborn \ {NextSocket} = k + 1 .. MaxSockets
<1> USE GeminiAssumption
<1>1. PICK k \in 0 .. MaxSockets : Unborn = k + 1 .. MaxSockets
  BY DEF UnbornAreLast
<1>2. k + 1 \in Unborn /\ \A r \in Unborn : k + 1 <= r
  BY <1>1
<1>3. NextSocket \in Unborn /\ \A r \in Unborn : NextSocket <= r
  BY <1>2 DEF NextSocket
<1>4. NextSocket = k + 1
  BY <1>1, <1>2, <1>3
<1>5. Unborn \ {NextSocket} = (k + 1) + 1 .. MaxSockets /\ k + 1 \in 0 .. MaxSockets
  BY <1>1, <1>2, <1>4
<1>6. QED
  BY <1>3, <1>5

\* A step that makes no socket leaves the unborn ones as they are.
LEMMA SameUnborn ==
  ASSUME UnbornAreLast, \A s \in Sockets : sock'[s] = "unborn" <=> sock[s] = "unborn"
  PROVE  UnbornAreLast'
<1>1. Unborn' = Unborn
  BY DEF Unborn
<1>2. QED
  BY <1>1 DEF UnbornAreLast

-----------------------------------------------------------------------------
(* Types.                                                                  *)

\* The steps of connectStream and of dropping a socket.
LEMMA ConnectTypes ==
  ASSUME TypeOK, UnbornAreLast, ConnectStream, booted' \in BOOLEAN, UNCHANGED voice
  PROVE  TypeOK'
<1>0. /\ reconnectTimer' \in BOOLEAN /\ intentionalClose' \in BOOLEAN
      /\ UNCHANGED <<hasKey, connected, sessionReady, keepAliveTimer>>
      /\ UNCHANGED <<turn, begun, pendingUser, pendingModel>>
  BY DEF ConnectStream, flags, talk
<1>1. /\ ws' \in Sockets \cup {NoSocket} /\ sock' \in [Sockets -> ReadyStates]
      /\ attached' \subseteq Sockets /\ mute' \subseteq Sockets /\ setUp' \subseteq Sockets
      /\ torn' \in BOOLEAN
  <2>1. CASE UNCHANGED <<ws, network, torn>>
    BY <2>1 DEF TypeOK, GTypeOK, network
  <2>2. CASE /\ Unborn # {}
             /\ ws' = NextSocket
             /\ sock' = [Closed(TornDown) EXCEPT ![NextSocket] = "connecting"]
             /\ attached' = (attached \ TornDown) \cup {NextSocket}
             /\ Forget(TornDown)
             /\ torn' = (torn \/ ws # NoSocket)
    <3>1. NextSocket \in Sockets
      BY <2>2, NextIsFirst DEF Unborn
    <3>2. sock \in [Sockets -> ReadyStates]
      BY DEF TypeOK, GTypeOK
    <3>3. Closed(TornDown) \in [Sockets -> ReadyStates]
      BY <3>2 DEF Closed, ReadyStates
    <3>4. sock' \in [Sockets -> ReadyStates]
      BY <2>2, <3>1, <3>3 DEF ReadyStates
    <3>5. QED
      BY <2>2, <3>1, <3>4 DEF Forget, TypeOK, GTypeOK
  <2>3. QED
    BY <2>1, <2>2 DEF ConnectStream
<1>2. QED
  BY <1>0, <1>1 DEF TypeOK, GTypeOK, voice, history

LEMMA DropTypes ==
  ASSUME TypeOK, sock' = Closed(TornDown), attached' = attached \ TornDown,
         Forget(TornDown), ws' = NoSocket
  PROVE  /\ sock' \in [Sockets -> ReadyStates] /\ attached' \subseteq Sockets
         /\ mute' \subseteq Sockets /\ setUp' \subseteq Sockets
         /\ ws' \in Sockets \cup {NoSocket}
<1>1. sock' \in [Sockets -> ReadyStates]
  <2>1. sock \in [Sockets -> ReadyStates]
    BY DEF TypeOK, GTypeOK
  <2>2. QED
    BY <2>1 DEF Closed, ReadyStates
<1>2. mute' \subseteq Sockets /\ setUp' \subseteq Sockets
  BY DEF TypeOK, GTypeOK, Forget
<1>3. QED
  BY <1>1, <1>2 DEF TypeOK, GTypeOK

LEMMA TypesStep ==
  ASSUME TypeOK, UnbornAreLast, TurnsInOrder, [Next]_vars
  PROVE  TypeOK'
<1> USE GeminiAssumption
<1>1. CASE Boot /\ UNCHANGED voice
  BY <1>1, ConnectTypes DEF Boot
<1>2. CASE ReconnectFires /\ UNCHANGED voice
  BY <1>2, ConnectTypes DEF ReconnectFires, TypeOK, GTypeOK
<1>3. CASE HeartbeatStale /\ UNCHANGED voice
  BY <1>3, DropTypes DEF HeartbeatStale, DropSocket, TypeOK, GTypeOK, ScheduleReconnect,
                         flags, talk, voice, history
<1>4. CASE DisconnectStream /\ UNCHANGED voice
  BY <1>4, DropTypes DEF DisconnectStream, SessionOver, TypeOK, GTypeOK, talk, voice, history
<1>5. CASE (SendAudioChunk \/ SendTextMessage) /\ UNCHANGED voice
  BY <1>5 DEF SendAudioChunk, SendTextMessage, SafeSend, ScheduleReconnect, TypeOK, GTypeOK,
              flags, network, talk, voice, history
<1>6. CASE SendClientInterruption /\ UNCHANGED voice
  <2>1. /\ pendingUser' = {} /\ pendingModel' = FALSE
        /\ UNCHANGED <<hasKey, booted, ws, flags, timers, network, turn, begun, torn>>
    BY <1>6 DEF SendClientInterruption
  <2>2. GTypeOK'
    BY <2>1 DEF TypeOK, GTypeOK, flags, timers, network
  <2>3. QED
    BY <1>6, <2>2 DEF TypeOK, voice, history
<1>7. ASSUME NEW s \in Sockets, OnOpen(s) \/ OnError(s) \/ PeerCloses(s) \/ PeerVanishes(s) \/ OnClose(s),
             UNCHANGED voice
      PROVE  TypeOK'
  <2>0. sock \in [Sockets -> ReadyStates]
    BY DEF TypeOK, GTypeOK
  <2>1. CASE OnOpen(s)
    BY <1>7, <2>0, <2>1 DEF TypeOK, GTypeOK, OnOpen, ReadyStates, talk, voice, history
  <2>2. CASE OnError(s)
    BY <1>7, <2>0, <2>2 DEF TypeOK, GTypeOK, OnError, ReadyStates, SessionOver, ScheduleReconnect,
                            talk, voice, history
  <2>3. CASE PeerCloses(s)
    BY <1>7, <2>0, <2>3 DEF TypeOK, GTypeOK, PeerCloses, ReadyStates, flags, timers, talk, voice, history
  <2>4. CASE PeerVanishes(s)
    BY <1>7, <2>4 DEF TypeOK, GTypeOK, PeerVanishes, flags, timers, talk, voice, history
  <2>5. CASE OnClose(s)
    BY <1>7, <2>0, <2>5 DEF TypeOK, GTypeOK, OnClose, ReadyStates, Forget, SessionOver, ScheduleReconnect,
                            talk, voice, history
  <2>6. QED
    BY <1>7, <2>1, <2>2, <2>3, <2>4, <2>5
<1>8. ASSUME NEW s \in Sockets, ServerError(s), UNCHANGED voice
      PROVE  TypeOK'
  BY <1>8, DropTypes DEF ServerError, DropSocket, TypeOK, GTypeOK, ScheduleReconnect,
                         flags, talk, voice, history
<1>9. ASSUME NEW s \in Sockets, InputTranscription(s) \/ ModelOutput(s), UNCHANGED voice
      PROVE  TypeOK'
  <2>1. GTypeOK'
    BY <1>9, ZenonT(30)
       DEF InputTranscription, ModelOutput, Content, TypeOK, GTypeOK, flags, timers, network
  <2>2. QED
    BY <1>9, <2>1 DEF TypeOK, voice, history
<1>10. ASSUME NEW s \in Sockets, OnToolCall(s) PROVE TypeOK'
  BY <1>10 DEF OnToolCall, ToolCallMessage, Content, TypeOK, GTypeOK,
               flags, timers, network, history
<1>11. ASSUME NEW s \in Sockets, OnTurnEnd(s) PROVE TypeOK'
  <2>1. turn' \in 1 .. MaxTurns + 1
    BY <1>11 DEF OnTurnEnd, TurnEnds, TurnsInOrder, Turns, TypeOK, GTypeOK
  <2>2. QED
    BY <1>11, <2>1, ZenonT(30) DEF OnTurnEnd, TurnEnds, RouteVoiceRequest, Routes, HandledAfterwards,
                       TypeOK, GTypeOK, flags, timers, network
<1>12. ASSUME NEW s \in Sockets, OnSetupComplete(s) PROVE TypeOK'
  <2>1. turn' \in 1 .. MaxTurns + 1
    BY <1>12 DEF OnSetupComplete, SetupComplete, TurnsInOrder, Turns, TypeOK, GTypeOK
  <2>2. QED
    BY <1>12, <2>1 DEF OnSetupComplete, SetupComplete, TypeOK, GTypeOK, timers
<1>13. ASSUME NEW t \in Turns, ToolsDone(t) PROVE TypeOK'
  BY <1>13 DEF ToolsDone, SendTextMessage, SafeSend, ScheduleReconnect, TypeOK, GTypeOK,
               gvars, flags, timers, network, talk, history
<1>14. ASSUME NEW t \in Turns, OnWhisperFinal(t) PROVE TypeOK'
  <2>1. turn' \in 1 .. MaxTurns + 1
    <3>1. turn' = turn \/ (t = turn /\ turn' = turn + 1)
      BY <1>14 DEF OnWhisperFinal
    <3>2. QED
      BY <3>1 DEF Turns, TypeOK, GTypeOK
  <2>2. GTypeOK'
    BY <1>14, <2>1 DEF OnWhisperFinal, TypeOK, GTypeOK, flags, timers, network
  <2>3. QED
    BY <1>14, <2>2 DEF OnWhisperFinal, RouteVoiceRequest, TypeOK
<1>15. CASE UNCHANGED vars \/ (UNCHANGED gvars /\ UNCHANGED voice)
  BY <1>15 DEF TypeOK, GTypeOK, vars, gvars, flags, timers, network, talk, voice, history
<1>16. QED
  BY <1>1, <1>2, <1>3, <1>4, <1>5, <1>6, <1>7, <1>8, <1>9, <1>10, <1>11, <1>12, <1>13, <1>14, <1>15
  DEF Next, BridgeStep, OnTypedRequest

-----------------------------------------------------------------------------
(* The session.                                                            *)

\* Steps that leave the socket and the flags alone.
LEMMA SessionKept ==
  ASSUME SessionInv, UNCHANGED <<hasKey, booted, ws, connected, sessionReady, intentionalClose,
                                 sock, attached, setUp, torn>>,
         reconnectTimer => reconnectTimer'
  PROVE  SessionInv'
<1>1. OneSession' /\ WsIsBorn'
  BY DEF SessionInv, OneSession, WsIsBorn
<1>2. UnbornAreLast'
  BY DEF SessionInv, UnbornAreLast, Unborn
<1>3. DownMeansPlanned' /\ FlagsInOrder'
  BY DEF SessionInv, DownMeansPlanned, FlagsInOrder, WsIn
<1>4. QED
  BY <1>1, <1>2, <1>3 DEF SessionInv

\* connectStream keeps the session there is, or tears it down and makes the next socket.
LEMMA ConnectSession ==
  ASSUME TypeOK, SessionInv, ConnectStream
  PROVE  SessionInv'
<1> USE DEF SessionInv
<1>0. /\ intentionalClose' = FALSE
      /\ UNCHANGED <<hasKey, connected, sessionReady>>
  BY DEF ConnectStream, flags
<1>1. CASE ~hasKey \/ KeepsSession
  <2>1. UNCHANGED <<ws, sock, attached, setUp, torn>> /\ (hasKey => ws # NoSocket)
    BY <1>1 DEF ConnectStream, network, KeepsSession, WsIn
  <2>2. OneSession' /\ WsIsBorn'
    BY <2>1 DEF OneSession, WsIsBorn
  <2>3. UnbornAreLast'
    BY <2>1 DEF UnbornAreLast, Unborn
  <2>4. DownMeansPlanned' /\ FlagsInOrder'
    BY <1>0, <2>1 DEF DownMeansPlanned, FlagsInOrder, WsIn
  <2>5. QED
    BY <2>2, <2>3, <2>4
<1>2. CASE hasKey /\ ~KeepsSession
  <2>1. /\ Unborn # {}
        /\ ws' = NextSocket
        /\ sock' = [Closed(TornDown) EXCEPT ![NextSocket] = "connecting"]
        /\ attached' = (attached \ TornDown) \cup {NextSocket}
        /\ setUp' = setUp \ TornDown
        /\ torn' = (torn \/ ws # NoSocket)
    BY <1>2 DEF ConnectStream, Forget
  <2>2. NextSocket \in Sockets /\ sock[NextSocket] = "unborn"
    BY <2>1, NextIsFirst DEF Unborn
  <2>3. /\ sock'[NextSocket] = "connecting"
        /\ \A s \in Sockets : s # NextSocket => sock'[s] = IF s \in TornDown THEN "closed" ELSE sock[s]
    BY <2>1, <2>2 DEF Closed
  <2>4. attached \subseteq TornDown
    BY DEF OneSession, TornDown, TypeOK, GTypeOK, Sockets, NoSocket
  <2>5. OneSession'
    <3>1. attached' \subseteq {ws'}
      BY <2>1, <2>4
    <3>2. \A s \in Sockets : sock[s] \in {"connecting", "open", "closing"} => s \in TornDown
      BY DEF OneSession, TornDown, NoSocket, Sockets
    <3>3. QED
      BY <2>1, <2>3, <3>1, <3>2 DEF OneSession
  <2>6. WsIsBorn'
    BY <2>1, <2>3 DEF WsIsBorn
  <2>7. UnbornAreLast'
    <3>1. TornDown \cap Unborn = {}
      BY DEF TornDown, WsIsBorn, Unborn
    <3>2. Unborn' = Unborn \ {NextSocket}
      BY <2>2, <2>3, <3>1 DEF Unborn
    <3>3. QED
      BY <2>1, <3>2, NextIsFirst DEF UnbornAreLast
  <2>8. DownMeansPlanned'
    BY <2>1, <2>2 DEF DownMeansPlanned, Sockets, NoSocket
  <2>9. FlagsInOrder'
    <3>1. ~torn' => ~connected /\ ~sessionReady
      BY <2>1 DEF FlagsInOrder, WsIn, TypeOK, GTypeOK, Sockets, NoSocket
    <3>2. QED
      BY <1>0, <3>1 DEF FlagsInOrder
  <2>10. QED
    BY <2>5, <2>6, <2>7, <2>8, <2>9
<1>3. QED
  BY <1>1, <1>2

\* The bridge lets go of its socket: the reconnect is planned unless that was meant.
LEMMA DropSession ==
  ASSUME TypeOK, SessionInv, sock' = Closed(TornDown), attached' = attached \ TornDown,
         setUp' = setUp \ TornDown, ws' = NoSocket, UNCHANGED <<hasKey, booted>>,
         hasKey /\ ~intentionalClose' => reconnectTimer',
         ~torn' => ~connected' /\ ~sessionReady'
  PROVE  SessionInv'
<1> USE DEF SessionInv
<1>1. \A s \in Sockets : sock'[s] = IF s \in TornDown THEN "closed" ELSE sock[s]
  BY DEF Closed
<1>2. OneSession'
  <2>1. attached' = {}
    BY DEF OneSession, TornDown, TypeOK, GTypeOK, Sockets, NoSocket
  <2>2. \A s \in Sockets : sock[s] \in {"connecting", "open", "closing"} => s \in TornDown
    BY DEF OneSession, TornDown, NoSocket, Sockets
  <2>3. QED
    BY <1>1, <2>1, <2>2 DEF OneSession
<1>3. UnbornAreLast'
  <2>1. \A s \in TornDown : sock[s] # "unborn"
    BY DEF TornDown, WsIsBorn
  <2>2. QED
    BY <1>1, <2>1, SameUnborn
<1>4. WsIsBorn' /\ DownMeansPlanned' /\ FlagsInOrder'
  BY DEF WsIsBorn, DownMeansPlanned, FlagsInOrder
<1>5. QED
  BY <1>2, <1>3, <1>4

LEMMA SessionStep ==
  ASSUME TypeOK, SessionInv, [Next]_vars
  PROVE  SessionInv'
<1>1. CASE Boot \/ ReconnectFires
  BY <1>1, ConnectSession DEF Boot, ReconnectFires
<1>2. CASE HeartbeatStale \/ \E s \in Sockets : ServerError(s)
  <2>1. DropSocket /\ UNCHANGED <<hasKey, booted, intentionalClose>>
    BY <1>2 DEF HeartbeatStale, ServerError
  <2>2. QED
    BY <2>1, DropSession DEF DropSocket, Forget, ScheduleReconnect
<1>3. CASE DisconnectStream
  BY <1>3, DropSession DEF DisconnectStream, Forget, SessionOver
<1>4. CASE SendAudioChunk \/ SendTextMessage
  <2>1. SafeSend
    BY <1>4 DEF SendAudioChunk, SendTextMessage
  <2>2. QED
    BY <2>1, SessionKept DEF SafeSend, ScheduleReconnect, flags, network
<1>5. CASE SendClientInterruption
  BY <1>5, SessionKept DEF SendClientInterruption, flags, timers, network
<1>6. ASSUME NEW s \in Sockets, PeerVanishes(s) PROVE SessionInv'
  BY <1>6, SessionKept DEF PeerVanishes, flags, timers
<1>7. ASSUME NEW s \in Sockets, Content(s) PROVE SessionInv'
  BY <1>7, SessionKept DEF Content, flags, timers, network
<1>8. ASSUME NEW s \in Sockets, TurnEnds(s) PROVE SessionInv'
  BY <1>8, SessionKept DEF TurnEnds, flags, timers, network
<1>9. CASE UNCHANGED <<hasKey, booted, ws, flags, timers, network, torn>>
  BY <1>9, SessionKept DEF flags, timers, network
<1>10. ASSUME NEW s \in Sockets, OnOpen(s) \/ OnError(s) \/ PeerCloses(s) \/ OnClose(s)
       PROVE  SessionInv'
  <2>0. s = ws /\ ws # NoSocket /\ attached = {ws} /\ sock[s] # "unborn" /\ sock \in [Sockets -> ReadyStates]
    <3>1. s \in attached /\ sock[s] \in {"connecting", "open", "closing"}
      BY <1>10 DEF OnOpen, OnError, PeerCloses, OnClose
    <3>2. s = ws /\ s # NoSocket /\ attached = {ws}
      <4>1. attached \subseteq {ws}
        BY DEF SessionInv, OneSession
      <4>2. s # NoSocket
        BY DEF Sockets, NoSocket
      <4>3. QED
        BY <3>1, <4>1, <4>2
    <3>3. sock \in [Sockets -> ReadyStates]
      BY DEF TypeOK, GTypeOK
    <3>4. QED
      BY <3>1, <3>2, <3>3
  <2>1. PICK x \in {"open", "closing", "closed"} : sock' = [sock EXCEPT ![s] = x]
    BY <1>10 DEF OnOpen, OnError, PeerCloses, OnClose
  <2>2. sock'[s] = x /\ \A r \in Sockets : r # s => sock'[r] = sock[r]
    BY <2>0, <2>1
  <2>3. UnbornAreLast'
    BY <2>0, <2>2, SameUnborn DEF SessionInv
  <2>4. CASE OnOpen(s)
    BY <2>0, <2>2, <2>3, <2>4 DEF OnOpen, SessionInv, OneSession, WsIsBorn, DownMeansPlanned,
                                  FlagsInOrder, WsIn
  <2>5. CASE OnError(s)
    BY <2>0, <2>2, <2>3, <2>5 DEF OnError, SessionOver, ScheduleReconnect, SessionInv, OneSession,
                                  WsIsBorn, DownMeansPlanned, FlagsInOrder
  <2>6. CASE PeerCloses(s)
    BY <2>0, <2>2, <2>3, <2>6 DEF PeerCloses, flags, timers, SessionInv, OneSession, WsIsBorn,
                                  DownMeansPlanned, FlagsInOrder, WsIn
  <2>7. CASE OnClose(s)
    BY <2>0, <2>2, <2>3, <2>7 DEF OnClose, SessionOver, ScheduleReconnect, SessionInv, OneSession,
                                  WsIsBorn, DownMeansPlanned, FlagsInOrder
  <2>8. QED
    BY <1>10, <2>4, <2>5, <2>6, <2>7
<1>11. ASSUME NEW s \in Sockets, SetupComplete(s) PROVE SessionInv'
  <2>0. s = ws /\ ws # NoSocket /\ sock[ws] = "open"
    BY <1>11 DEF SessionInv, OneSession, SetupComplete, Listens, Sockets, NoSocket
  <2>1. UnbornAreLast'
    BY <1>11 DEF SetupComplete, SessionInv, UnbornAreLast, Unborn
  <2>2. QED
    BY <1>11, <2>0, <2>1 DEF SetupComplete, timers, SessionInv, OneSession, WsIsBorn,
                             DownMeansPlanned, FlagsInOrder, WsIn
<1>12. QED
  BY <1>1, <1>2, <1>3, <1>4, <1>5, <1>6, <1>7, <1>8, <1>9, <1>10, <1>11
  DEF Next, BridgeStep, OnTypedRequest, OnToolCall, OnTurnEnd, OnSetupComplete, ToolsDone,
      OnWhisperFinal, InputTranscription, ModelOutput, ToolCallMessage, vars, gvars

-----------------------------------------------------------------------------
(* The words.                                                              *)

\* What the invariants of the turns speak of, after a step that changes none of it but
\* for words and model output that are dropped.
LEMMA TalkKept ==
  ASSUME IInv, UNCHANGED <<turn, begun, voice>>,
         \/ UNCHANGED <<pendingUser, pendingModel>>
         \/ pendingUser' = {} /\ pendingModel' = FALSE
  PROVE  WordsInv'
<1> USE DEF IInv, WordsInv, voice, history
<1>1. TurnsInOrder'
  BY DEF TurnsInOrder
<1>2. NothingCarried'
  BY DEF NothingCarried
<1>3. FlagTellsOfTools' /\ RoutedIsOver'
  BY DEF FlagTellsOfTools, RoutedIsOver
<1>4. SpokenRequestsExecuteInOrder' /\ ExecutesOnceInOrder'
  BY DEF SpokenRequestsExecuteInOrder, SpokenRequestsExecute, ExecutesOnceInOrder, ExecutesOnce
<1>5. QED
  BY <1>1, <1>2, <1>3, <1>4 DEF WordsInv

\* Words or model output of the current turn, and its tool calls.
LEMMA ContentStep ==
  ASSUME IInv, NEW s \in Sockets,
         \/ InputTranscription(s) /\ UNCHANGED voice
         \/ ModelOutput(s) /\ UNCHANGED voice
         \/ OnToolCall(s)
  PROVE  WordsInv'
<1> USE DEF Turns
<1>1. /\ turn \in Turns /\ turn' = turn /\ begun'
      /\ UNCHANGED <<routed, twice, completed, carried, overtaken>>
  BY DEF InputTranscription, ModelOutput, OnToolCall, ToolCallMessage, Content, voice, history
<1>2. /\ pendingUser' \subseteq pendingUser \cup {turn}
      /\ \/ UNCHANGED <<tooled, voiceTurnHandledByToolCall>>
         \/ /\ tooled' = tooled \cup {turn} /\ voiceTurnHandledByToolCall'
            /\ pendingUser' = pendingUser
  BY DEF InputTranscription, ModelOutput, OnToolCall, ToolCallMessage, Content, voice, history
<1>3. TurnsInOrder'
  BY <1>1, <1>2 DEF IInv, WordsInv, TurnsInOrder
<1>4. NothingCarried'
  BY <1>1, <1>2 DEF IInv, WordsInv, NothingCarried
<1>5. FlagTellsOfTools'
  BY <1>1, <1>2 DEF IInv, WordsInv, FlagTellsOfTools
<1>6. RoutedIsOver'
  BY <1>1, <1>2 DEF IInv, WordsInv, RoutedIsOver
<1>7. SpokenRequestsExecuteInOrder'
  BY <1>1, <1>2 DEF IInv, WordsInv, SpokenRequestsExecuteInOrder, SpokenRequestsExecute
<1>8. ExecutesOnceInOrder'
  BY <1>1, <1>2 DEF IInv, WordsInv, ExecutesOnceInOrder, ExecutesOnce, RoutedIsOver
<1>9. QED
  BY <1>3, <1>4, <1>5, <1>6, <1>7, <1>8 DEF WordsInv

\* The end of a turn routes the words that wait, unless a tool call resolved it.
LEMMA TurnEndStep ==
  ASSUME IInv, NEW s \in Sockets, OnTurnEnd(s)
  PROVE  WordsInv'
<1> USE DEF Turns
<1>1. /\ turn \in Turns /\ turn' = turn + 1 /\ begun /\ begun' = FALSE
      /\ pendingUser' = {} /\ pendingModel' = FALSE
      /\ UNCHANGED <<tooled, overtaken>>
      /\ carried' = (carried \/ (~Emits /\ voiceTurnHandledByToolCall))
  BY DEF OnTurnEnd, TurnEnds, IInv, WordsInv, TurnsInOrder
<1>2. TurnsInOrder' /\ turn' \notin tooled
  <2>1. tooled \subseteq Turns /\ \A t \in tooled : t <= turn
    BY DEF IInv, WordsInv, TypeOK, TurnsInOrder
  <2>2. \A t \in tooled : t <= turn' /\ t # turn'
    BY <1>1, <2>1
  <2>3. QED
    BY <1>1, <2>2 DEF TurnsInOrder
<1>3. CASE Emits
  <2>1. /\ routed' = routed \cup Routes /\ twice' = twice \cup (routed \cap Routes)
        /\ completed' = completed \cup pendingUser
        /\ voiceTurnHandledByToolCall' = FALSE
    BY <1>3 DEF OnTurnEnd, RouteVoiceRequest, HandledAfterwards
  <2>2. tooled \subseteq Turns /\ pendingUser \subseteq Turns
    BY DEF IInv, WordsInv, TypeOK, GTypeOK
  <2>3. NothingCarried'
    BY <1>1, <2>1 DEF NothingCarried
  <2>4. FlagTellsOfTools'
    BY <1>1, <1>2, <2>1 DEF FlagTellsOfTools
  <2>5. RoutedIsOver'
    <3>1. \A t \in pendingUser : t < turn'
      BY <1>1, <2>2 DEF IInv, WordsInv, TurnsInOrder
    <3>2. ~overtaken => \A t \in routed : t < turn'
      BY <1>1 DEF IInv, WordsInv, TypeOK, RoutedIsOver
    <3>3. QED
      BY <1>1, <2>1, <3>1, <3>2 DEF RoutedIsOver, Routes
  <2>6. SpokenRequestsExecuteInOrder'
    BY <1>1, <2>1 DEF IInv, WordsInv, SpokenRequestsExecuteInOrder, SpokenRequestsExecute, NothingCarried, Routes
  <2>7. ExecutesOnceInOrder'
    BY <1>1, <2>1 DEF IInv, WordsInv, ExecutesOnceInOrder, ExecutesOnce, FlagTellsOfTools, RoutedIsOver, Routes
  <2>8. QED
    BY <1>2, <2>3, <2>4, <2>5, <2>6, <2>7 DEF WordsInv
<1>4. CASE ~Emits
  <2>1. UNCHANGED <<routed, twice, completed, voiceTurnHandledByToolCall>>
    BY <1>4 DEF OnTurnEnd
  <2>2. NothingCarried'
    BY <1>1, <1>4, <2>1 DEF NothingCarried
  <2>3. FlagTellsOfTools'
    BY <1>1, <1>2, <2>1 DEF FlagTellsOfTools
  <2>4. RoutedIsOver'
    BY <1>1, <2>1 DEF IInv, WordsInv, TypeOK, RoutedIsOver
  <2>5. SpokenRequestsExecuteInOrder' /\ ExecutesOnceInOrder'
    BY <1>1, <2>1 DEF IInv, WordsInv, SpokenRequestsExecuteInOrder, SpokenRequestsExecute,
                      ExecutesOnceInOrder, ExecutesOnce
  <2>6. QED
    BY <1>2, <2>2, <2>3, <2>4, <2>5 DEF WordsInv
<1>5. QED
  BY <1>3, <1>4

\* A session that takes over ends the turn that was under way.
LEMMA SetupStep ==
  ASSUME IInv, NEW s \in Sockets, OnSetupComplete(s)
  PROVE  WordsInv'
<1> USE DEF Turns
<1>1. /\ turn' = IF begun THEN turn + 1 ELSE turn
      /\ begun' = FALSE /\ carried' = (carried \/ begun)
      /\ UNCHANGED <<pendingUser, pendingModel, voiceTurnHandledByToolCall, tooled, routed, twice,
                     completed, overtaken>>
  BY DEF OnSetupComplete, SetupComplete
<1>2. /\ turn \in Int /\ routed \subseteq Turns
      /\ \A t \in pendingUser : t \in Int /\ t <= turn /\ (~begun => t # turn)
      /\ \A t \in tooled : t \in Int /\ t <= turn /\ (~begun => t # turn)
  BY DEF IInv, WordsInv, TypeOK, GTypeOK, TurnsInOrder
<1>3. TurnsInOrder'
  BY <1>1, <1>2 DEF TurnsInOrder
<1>4. NothingCarried'
  BY <1>1 DEF IInv, WordsInv, NothingCarried
<1>5. FlagTellsOfTools'
  <2>1. turn' \notin tooled
    BY <1>1, <1>2
  <2>2. QED
    BY <1>1, <2>1 DEF IInv, WordsInv, FlagTellsOfTools
<1>6. RoutedIsOver'
  <2>1. ~overtaken => \A t \in routed : t < turn'
    BY <1>1, <1>2 DEF IInv, WordsInv, RoutedIsOver
  <2>2. QED
    BY <1>1, <2>1 DEF IInv, WordsInv, RoutedIsOver
<1>7. SpokenRequestsExecuteInOrder' /\ ExecutesOnceInOrder'
  BY <1>1 DEF IInv, WordsInv, SpokenRequestsExecuteInOrder, SpokenRequestsExecute,
              ExecutesOnceInOrder, ExecutesOnce
<1>8. QED
  BY <1>3, <1>4, <1>5, <1>6, <1>7 DEF WordsInv

\* Whisper's text is routed while no session is ready: of a turn that the server did not
\* begin, and that is over then, or else with overtaken.
LEMMA WhisperStep ==
  ASSUME IInv, NEW t \in Turns, OnWhisperFinal(t)
  PROVE  WordsInv'
<1> USE DEF Turns
<1>1. UNCHANGED <<begun, pendingUser, pendingModel, voiceTurnHandledByToolCall, tooled, completed,
                  carried>>
  BY DEF OnWhisperFinal
<1>2. CASE sessionReady
  <2>1. UNCHANGED <<turn, routed, twice, overtaken>>
    BY <1>2 DEF OnWhisperFinal
  <2>2. UNCHANGED <<completed, carried>>
    BY <1>1
  <2>3. TurnsInOrder' /\ NothingCarried' /\ FlagTellsOfTools' /\ RoutedIsOver'
    BY <1>1, <2>1 DEF IInv, WordsInv, TurnsInOrder, NothingCarried, FlagTellsOfTools, RoutedIsOver
  <2>4. SpokenRequestsExecuteInOrder' /\ ExecutesOnceInOrder'
    BY <1>1, <2>1 DEF IInv, WordsInv, SpokenRequestsExecuteInOrder, SpokenRequestsExecute,
                      ExecutesOnceInOrder, ExecutesOnce
  <2>5. QED
    BY <2>3, <2>4 DEF WordsInv
<1>3. CASE ~sessionReady /\ t = turn /\ ~begun
  <2>1. /\ turn' = turn + 1 /\ overtaken' = overtaken
        /\ routed' = routed \cup {turn} /\ twice' = twice \cup (routed \cap {turn})
    BY <1>3 DEF OnWhisperFinal, RouteVoiceRequest
  <2>2. /\ turn \in Int /\ routed \subseteq Turns
        /\ \A r \in pendingUser : r \in Int /\ r <= turn /\ r # turn
        /\ \A r \in tooled : r \in Int /\ r <= turn /\ r # turn
    BY <1>3 DEF IInv, WordsInv, TypeOK, GTypeOK, TurnsInOrder
  <2>3. TurnsInOrder'
    BY <1>1, <1>3, <2>1, <2>2 DEF TurnsInOrder
  <2>4. NothingCarried'
    BY <1>1, <1>3, <2>2 DEF IInv, WordsInv, NothingCarried
  <2>5. FlagTellsOfTools'
    <3>1. turn' \notin tooled
      BY <2>1, <2>2
    <3>2. QED
      BY <1>1, <3>1 DEF IInv, WordsInv, FlagTellsOfTools
  <2>6. RoutedIsOver'
    <3>1. ~overtaken => \A r \in routed' : r < turn'
      BY <2>1, <2>2 DEF IInv, WordsInv, RoutedIsOver
    <3>2. ~overtaken => pendingUser \cap routed' = {}
      BY <2>1, <2>2 DEF IInv, WordsInv, RoutedIsOver
    <3>3. QED
      BY <1>1, <2>1, <3>1, <3>2 DEF RoutedIsOver
  <2>7. SpokenRequestsExecuteInOrder'
    BY <1>1, <2>1 DEF IInv, WordsInv, SpokenRequestsExecuteInOrder, SpokenRequestsExecute
  <2>8. ExecutesOnceInOrder'
    <3>1. ~overtaken => turn \notin routed
      BY <2>2 DEF IInv, WordsInv, RoutedIsOver
    <3>2. turn \notin tooled
      BY <2>2
    <3>3. QED
      BY <1>1, <2>1, <3>1, <3>2 DEF IInv, WordsInv, ExecutesOnceInOrder, ExecutesOnce
  <2>9. QED
    BY <2>3, <2>4, <2>5, <2>6, <2>7, <2>8 DEF WordsInv
<1>4. CASE ~sessionReady /\ ~(t = turn /\ ~begun)
  <2>1. overtaken' /\ turn' = turn /\ routed' = routed \cup {t}
    BY <1>4 DEF OnWhisperFinal, RouteVoiceRequest
  <2>2. TurnsInOrder' /\ NothingCarried' /\ FlagTellsOfTools'
    BY <1>1, <2>1 DEF IInv, WordsInv, TurnsInOrder, NothingCarried, FlagTellsOfTools
  <2>3. RoutedIsOver' /\ ExecutesOnceInOrder'
    BY <2>1 DEF RoutedIsOver, ExecutesOnceInOrder
  <2>4. SpokenRequestsExecuteInOrder'
    BY <1>1, <2>1 DEF IInv, WordsInv, SpokenRequestsExecuteInOrder, SpokenRequestsExecute
  <2>5. QED
    BY <2>2, <2>3, <2>4 DEF WordsInv
<1>5. QED
  BY <1>2, <1>3, <1>4

LEMMA StepIInv == IInv /\ [Next]_vars => IInv'
<1> SUFFICES ASSUME IInv, [Next]_vars PROVE IInv'
  OBVIOUS
<1>1. TypeOK'
  BY TypesStep DEF IInv, SessionInv, WordsInv
<1>2. SessionInv'
  BY SessionStep DEF IInv
<1>3. ASSUME UNCHANGED <<talk, voice>> PROVE WordsInv'
  BY <1>3, TalkKept DEF talk
<1>4. ASSUME SendClientInterruption, UNCHANGED voice PROVE WordsInv'
  BY <1>4, TalkKept DEF SendClientInterruption
<1>5. ASSUME NEW s \in Sockets,
             OnOpen(s) \/ OnError(s) \/ PeerCloses(s) \/ PeerVanishes(s) \/ OnClose(s) \/ ServerError(s),
             UNCHANGED voice
      PROVE  UNCHANGED <<talk, voice>>
  BY <1>5 DEF OnOpen, OnError, PeerCloses, PeerVanishes, OnClose, ServerError
<1>6. ASSUME Boot \/ ReconnectFires \/ HeartbeatStale \/ DisconnectStream, UNCHANGED voice
      PROVE  UNCHANGED <<talk, voice>>
  BY <1>6 DEF Boot, ReconnectFires, HeartbeatStale, DisconnectStream, ConnectStream
<1>7. ASSUME SendAudioChunk \/ SendTextMessage \/ UNCHANGED gvars, UNCHANGED voice
      PROVE  UNCHANGED <<talk, voice>>
  BY <1>7 DEF SendAudioChunk, SendTextMessage, SafeSend, gvars
\* When the tools are done, only toolJobs changes.
<1>8. ASSUME NEW t \in Turns, ToolsDone(t) PROVE WordsInv'
  <2>1. UNCHANGED <<talk, voiceTurnHandledByToolCall, tooled, routed, twice, history>>
    BY <1>8 DEF ToolsDone, SendTextMessage, SafeSend, gvars
  <2>2. QED
    BY <2>1 DEF talk, history, IInv, WordsInv, TurnsInOrder, NothingCarried, FlagTellsOfTools, RoutedIsOver,
                SpokenRequestsExecuteInOrder, SpokenRequestsExecute, ExecutesOnceInOrder, ExecutesOnce
<1>9. WordsInv'
  <2>1. CASE BridgeStep
    BY <1>3, <1>4, <1>5, <1>6, <1>7, <2>1, ContentStep DEF BridgeStep
  <2>2. CASE OnTypedRequest
    BY <1>3, <1>7, <2>2 DEF OnTypedRequest
  <2>3. CASE UNCHANGED vars
    BY <1>3, <2>3 DEF vars, gvars
  <2>4. QED
    BY <1>8, <2>1, <2>2, <2>3, ContentStep, TurnEndStep, SetupStep, WhisperStep DEF Next
<1>10. QED
  BY <1>1, <1>2, <1>9 DEF IInv

-----------------------------------------------------------------------------

\* At any time there is one session, it is planned again when it is lost, and its flags
\* tell of it unless the bridge dropped a socket itself (gemini_live_bridge.ts).
THEOREM SessionTheorem == SafeSpec => []SessionInOrder
<1>1. IInv => SessionInOrder
  BY DEF IInv, SessionInv, SessionInOrder
<1>2. QED
  BY <1>1, InitIInv, StepIInv, PTL DEF SafeSpec

\* A completed spoken request is executed, by NOVA Core or by its turn's own tools,
\* unless a turn left its traces to the next (main.ts:580-584).
THEOREM SpokenRequestsTheorem == SafeSpec => []SpokenRequestsExecuteInOrder
<1>1. IInv => SpokenRequestsExecuteInOrder
  BY DEF IInv, WordsInv
<1>2. QED
  BY <1>1, InitIInv, StepIInv, PTL DEF SafeSpec

\* No turn is executed twice, unless Whisper's text of it came after its session was
\* lost (main.ts:500-501).
THEOREM ExecutesOnceTheorem == SafeSpec => []ExecutesOnceInOrder
<1>1. IInv => ExecutesOnceInOrder
  BY DEF IInv, WordsInv
<1>2. QED
  BY <1>1, InitIInv, StepIInv, PTL DEF SafeSpec
=============================================================================
