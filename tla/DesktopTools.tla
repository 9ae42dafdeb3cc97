----------------------------- MODULE DesktopTools -----------------------------
(***************************************************************************)
(* The built-in tools (builtin_tools.ts) and what they do to the desktop:  *)
(* those of the main process, and those the Python worker runs one at a    *)
(* time through SendInput (automation.py) and user32 (windows.py).  A call *)
(* that failed may be made again.  The tools fall into classes that differ *)
(* in how they act and in what they answer; k stands for any key.  What a  *)
(* tool reads or returns is left out.                                      *)
(***************************************************************************)
EXTENDS Integers, Sequences

CONSTANTS
  Calls,        \* tool calls
  NoCall,
  MaxAttempts   \* bound: times a call is made

DesktopAssumption == NoCall \notin Calls \X (1 .. MaxAttempts) /\ MaxAttempts \in Nat \ {0}

VARIABLES
  op,       \* the class of the tool of each call
  caller,   \* what its caller knows: idle, waiting, success or error
  attempts, \* times it was made
  acted,    \* times it did in full what it is for, as the desktop saw it
  queue,    \* requests the worker has not begun: the call and which attempt at it
  running,  \* the request it runs
  script,   \* the sends left of it
  cut,      \* history: Windows took part of a send of the request that runs
  held,     \* keys and buttons that are down
  hurt,     \* history: Windows took part of a send only, or a worker died in a request
  unheard,  \* history: calls with an attempt that was not answered: the caller gave up, or
            \* the worker died first
  shifted   \* history: a shifted character was typed

told == <<op, attempts>>
worker == <<queue, running, script, cut, held, shifted>>
vars == <<told, caller, acted, worker, hurt, unheard>>

\* An event of a send
Down(key) == <<"down", key>>
Up(key) == <<"up", key>>
Other == <<"other", "">>    \* a move, a window shown
Raise == <<"raise", "">>    \* building the events raises: MOUSEINPUT with None for a size_t

\* A bug: a chord releases its last key only.
ChordOneUp == << <<Down("ctrl"), Down("k")>>, <<Up("k")>> >>

\* hotkey: every key of the chord goes down, and up in the reverse order.
Chord == << <<Down("ctrl"), Down("k")>>, <<Up("k"), Up("ctrl")>> >>

\* The sends of the others, for arguments that are in order.  mouse_click is the double
\* click too; the press of a key is repeated; a shifted character is typed by itself.
Move == << <<Other>> >>
Click == << <<Other>>, <<Raise>> >>
Drag == << <<Other>>, <<Raise>> >>
Scroll == << <<Raise>> >>
Press == << <<Down("k"), Up("k")>>, <<Down("k"), Up("k")>> >>
Plain == << <<Down("k")>>, <<Up("k")>> >>
Shifted == << <<Down("shift")>>, <<Down("k")>>, <<Up("shift")>> >>
Window == << <<Other>> >>
Launch == << <<Other>> >>

\* What only looks at the machine sends nothing.
Nothing == << >>

Scripts ==
  [mouse_move |-> Move, mouse_click |-> Click, mouse_drag |-> Drag, mouse_scroll |-> Scroll,
   keyboard_press |-> Press, keyboard_hotkey |-> Chord, type_plain |-> Plain,
   type_shifted |-> Shifted, window |-> Window, launch |-> Launch,
   screen_ocr |-> Nothing, capture |-> Nothing, inspect |-> Nothing]

\* What a tool of the main process does, and what it answers: how often it acted, and how.
Honest == {<<1, "success">>, <<0, "error">>}

\* Missing arguments, a path out of bounds and a failing call are errors.
FileTools == Honest
OpenUrl == Honest
FetchUrl == Honest
WebSearch == Honest

\* A clipboard that another program took is a success with a note.
Clipboard == Honest \cup {<<0, "success">>}

\* So is a device that cannot be reached, or answers 404, and a scan that finds none.
Control == Honest \cup {<<0, "success">>}

\* The task is written to the ledger, and nothing runs it.
Automation == {<<0, "success">>}

HostOutcomes ==
  [file |-> FileTools, open_url |-> OpenUrl, fetch_url |-> FetchUrl, web_search |-> WebSearch,
   clipboard |-> Clipboard, control |-> Control, automation |-> Automation]

Python == DOMAIN Scripts
Host == DOMAIN HostOutcomes
Input ==
  {"mouse_move", "mouse_click", "mouse_drag", "mouse_scroll", "keyboard_press",
   "keyboard_hotkey", "type_plain", "type_shifted"}
Untold == {"window", "screen_ocr"}   \* their failures are results
Inspections == {"screen_ocr", "capture", "inspect"}

TypeOK ==
  /\ op \in [Calls -> Python \cup Host]
  /\ caller \in [Calls -> {"idle", "waiting", "success", "error"}]
  /\ attempts \in [Calls -> 0 .. MaxAttempts] /\ acted \in [Calls -> 0 .. MaxAttempts]
  /\ queue \in Seq(Calls \X (1 .. MaxAttempts))
  /\ running \in (Calls \X (1 .. MaxAttempts)) \cup {NoCall}
  /\ held \subseteq {"shift", "ctrl", "k"}
  /\ {cut, hurt, shifted} \subseteq BOOLEAN /\ unheard \subseteq Calls

Init ==
  /\ op \in [Calls -> Python \cup Host]
  /\ caller = [c \in Calls |-> "idle"]
  /\ attempts = [c \in Calls |-> 0] /\ acted = [c \in Calls |-> 0]
  /\ queue = << >> /\ running = NoCall /\ script = << >>
  /\ held = {}
  /\ cut = FALSE /\ hurt = FALSE /\ unheard = {} /\ shifted = FALSE

-----------------------------------------------------------------------------
(* The caller                                                              *)

Tell(c, answer) == caller' = [caller EXCEPT ![c] = answer]

\* A request that failed: the screen is then captured by Electron, if that can.
Refused(c) == IF op[c] = "capture" THEN {"error", "success"} ELSE {"error"}

\* pyInput and the other Python-backed tools, for the first time or again after an error.
\* A needed argument that is missing is an error.
Call(c) ==
  /\ op[c] \in Python
  /\ caller[c] \in {"idle", "error"} /\ attempts[c] < MaxAttempts
  /\ attempts' = [attempts EXCEPT ![c] = @ + 1]
  /\ \/ Tell(c, "waiting") /\ queue' = Append(queue, <<c, attempts'[c]>>)
     \/ op[c] \notin {"mouse_click"} \cup Inspections /\ Tell(c, "error") /\ UNCHANGED queue
  /\ UNCHANGED <<op, acted, running, script, cut, held, hurt, unheard, shifted>>

\* A tool of the main process
HostCall(c) ==
  /\ op[c] \in Host
  /\ caller[c] \in {"idle", "error"} /\ attempts[c] < MaxAttempts
  /\ attempts' = [attempts EXCEPT ![c] = @ + 1]
  /\ \E outcome \in HostOutcomes[op[c]] :
       /\ acted' = [acted EXCEPT ![c] = @ + outcome[1]]
       /\ Tell(c, outcome[2])
  /\ UNCHANGED <<op, worker, hurt, unheard>>

\* The request takes too long; it is not taken back.
Timeout(c) ==
  /\ caller[c] = "waiting"
  /\ \E answer \in Refused(c) : Tell(c, answer)
  /\ unheard' = unheard \cup {c}
  /\ UNCHANGED <<told, acted, worker, hurt>>

-----------------------------------------------------------------------------
(* The worker                                                              *)

Works == op[running[1]]

\* The next request.  What cannot be looked at, or has no such window, ends at once.
Begin ==
  /\ running = NoCall /\ queue # << >>
  /\ running' = Head(queue) /\ queue' = Tail(queue)
  /\ cut' = FALSE
  /\ LET class == op[Head(queue)[1]]
     IN  \/ script' = Scripts[class]
         \/ class \in {"window"} \cup Inspections /\ script' = << <<Raise>> >>
  /\ UNCHANGED <<told, caller, acted, held, hurt, unheard, shifted>>

\* What is down after a send
Delivered(events) ==
  {key \in {"shift", "ctrl", "k"} :
     \/ key \in held /\ \A i \in DOMAIN events : events[i] # Up(key)
     \/ \E i \in DOMAIN events :
          events[i] = Down(key) /\ \A j \in i .. Len(events) : events[j] # Up(key)}

\* A bug: the events that Windows took are not counted.
Uncounted == Tail(script)

\* _send raises unless Windows took them all.
Short == << <<Raise>> >>

\* SendInput: Windows takes the events in order, up to any of them.  With the last of them
\* the desktop has seen the whole, before anybody is told.
Send ==
  /\ script # << >> /\ Head(script) # <<Raise>>
  /\ \E n \in 0 .. Len(Head(script)) :
       /\ held' = Delivered(SubSeq(Head(script), 1, n))
       /\ script' = IF n = Len(Head(script)) THEN Tail(script) ELSE Short
       /\ cut' = (cut \/ n < Len(Head(script)))
  /\ hurt' = (hurt \/ cut')
  /\ shifted' = (shifted \/ Works = "type_shifted")
  /\ acted' = IF script' = << >> /\ ~cut' THEN [acted EXCEPT ![running[1]] = @ + 1] ELSE acted
  /\ UNCHANGED <<told, caller, queue, running, unheard>>

\* Only the answer to the latest attempt is heard, by a caller that still waits.
Answer(answer) ==
  /\ caller' = IF caller[running[1]] = "waiting" /\ running[2] = attempts[running[1]]
               THEN [caller EXCEPT ![running[1]] = answer] ELSE caller
  /\ running' = NoCall /\ script' = << >>
  /\ UNCHANGED <<told, acted, queue, cut, held, hurt, unheard, shifted>>

\* An error; the failures of windows.py and screen_ocr are results, and so successes.
Raises ==
  /\ script # << >> /\ Head(script) = <<Raise>>
  /\ \/ \E answer \in Refused(running[1]) : Answer(answer)
     \/ Works \in Untold /\ Answer("success")

Completes ==
  /\ running # NoCall /\ script = << >>
  /\ Answer("success")

\* What was written to a worker that died is gone.
Lost == << >>

\* The worker dies and another one is started: every call that waits is refused, and
\* what is down stays down, and what was done stays done.
WorkerDies ==
  /\ \E answer \in [Calls -> {"error", "success"}] :
       /\ \A c \in Calls : answer[c] \in Refused(c)
       /\ caller' = [c \in Calls |-> IF caller[c] = "waiting" THEN answer[c] ELSE caller[c]]
  /\ hurt' = (hurt \/ running # NoCall)
  /\ running' = NoCall /\ script' = << >> /\ queue' = Lost
  /\ unheard' = unheard \cup {c \in Calls : caller[c] = "waiting"}
  /\ UNCHANGED <<told, acted, cut, held, shifted>>

Next ==
  \/ \E c \in Calls : Call(c) \/ HostCall(c) \/ Timeout(c)
  \/ Begin \/ Send \/ Raises \/ Completes \/ WorkerDies

Spec == Init /\ [][Next]_vars

-----------------------------------------------------------------------------

\* Once no request runs nothing is held down, whatever was pressed, dragged or typed,
\* unless Windows took part of a send or a worker died in a request - and but for the
\* key of a shifted character, which is never released.
NothingHeldInOrder ==
  running = NoCall /\ ~hurt => held \subseteq IF shifted THEN {"k"} ELSE {}

\* A tool of the kinds that can tell is a success only if it did in full what it was
\* called for: a send that Windows took part of is none, nor an answer to an earlier
\* attempt.  The window tools, the clipboard and the device control cannot tell.
SuccessIsReal ==
  \A c \in Calls :
    caller[c] = "success" /\ op[c] \in Input \cup {"launch", "file", "open_url", "fetch_url"} =>
      acted[c] >= 1

\* However often a call is made again, the desktop sees it done once - unless an attempt
\* was not answered, which may have done it already or do it yet.
ActsOnceInOrder == \A c \in Calls : acted[c] <= 1 \/ c \in unheard

\* What NOVA does with the keyboard and the mouse it does once and leaves nothing
\* behind, with the exceptions that the two parts name.
HandsInOrder == NothingHeldInOrder /\ ActsOnceInOrder

\* automation.py:175, "Click at coordinates (or current cursor position)": a click that
\* failed was given up, or Windows or a worker's end came in between.
UndisturbedClicks ==
  \A c \in Calls : op[c] = "mouse_click" /\ caller[c] = "error" => hurt \/ c \in unheard

=============================================================================
