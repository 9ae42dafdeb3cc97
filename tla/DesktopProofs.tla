---------------------------- MODULE DesktopProofs ----------------------------
(***************************************************************************)
(* Theorems about what NOVA does on the desktop and shows there, for every *)
(* value of the constants.  MCDesktop names the components: R, the state   *)
(* that the HUD shows; C, the look at the foreground window; A, the audit  *)
(* trail; S and M, the screen capturer and the modes.                      *)
(***************************************************************************)
EXTENDS MCDesktop, FiniteSetTheorems, TLAPS

-----------------------------------------------------------------------------
(* The built-in tools                                                      *)

Pressable == {"shift", "ctrl", "k"}
Events == {"down", "up", "other", "raise"} \X {"shift", "ctrl", "k", ""}

\* The keys that sends release
Ups(sends) ==
  {key \in Pressable : \E i \in DOMAIN sends : \E j \in DOMAIN sends[i] : sends[i][j] = Up(key)}

\* Sends release what they press, but for the key of a shifted character.
Balanced(sends, class) ==
  \A key \in Pressable : \A i \in DOMAIN sends : \A j \in DOMAIN sends[i] :
    sends[i][j] = Down(key) =>
      \/ \E n \in j .. Len(sends[i]) : sends[i][n] = Up(key)
      \/ \E m \in DOMAIN sends : m > i /\ \E n \in DOMAIN sends[m] : sends[m][n] = Up(key)
      \/ class = "type_shifted" /\ key = "k"

\* What raises is the last of the sends.
RaisesLast(sends) == \A i \in DOMAIN sends : sends[i] = <<Raise>> => i = Len(sends)

ToolTypes ==
  /\ op \in [Calls -> Python \cup Host]
  /\ caller \in [Calls -> {"idle", "waiting", "success", "error"}]
  /\ attempts \in [Calls -> 0 .. MaxAttempts] /\ acted \in [Calls -> Nat]
  /\ queue \in Seq(Calls \X (1 .. MaxAttempts))
  /\ running \in (Calls \X (1 .. MaxAttempts)) \cup {NoCall}
  /\ script \in Seq(Seq(Events))
  /\ held \subseteq Pressable
  /\ cut \in BOOLEAN /\ hurt \in BOOLEAN /\ shifted \in BOOLEAN
  /\ \A i \in DOMAIN queue : op[queue[i][1]] \in Python
  /\ running # NoCall => op[running[1]] \in Python

\* What is down is released by the sends that are left.
HeldInv ==
  /\ running = NoCall => script = << >>
  /\ cut => hurt
  /\ running # NoCall => Balanced(script, Works) /\ RaisesLast(script)
  /\ ~hurt => held \subseteq (IF shifted THEN {"k"} ELSE {}) \cup Ups(script)

\* A request that Windows took part of goes on to raise; one that has sent everything, and
\* a success, have acted.
SuccessInv ==
  /\ running # NoCall /\ cut => script = Short
  /\ running # NoCall /\ script = << >> /\ Works \in Input \cup {"launch"} => acted[running[1]] >= 1
  /\ SuccessIsReal

\* A call whose attempts were answered has one request with the worker while its caller
\* waits, and none before or after; an error means that nothing was done.
OnceInv ==
  /\ \A c \in Calls \ unheard :
       /\ acted[c] <= 1
       /\ caller[c] # "success" /\ acted[c] # 0 =>
            running # NoCall /\ running[1] = c /\ script = << >>
       /\ running # NoCall /\ running[1] = c => caller[c] = "waiting" /\ running[2] = attempts[c]
  /\ \A i \in DOMAIN queue : queue[i][1] \notin unheard =>
       /\ caller[queue[i][1]] = "waiting" /\ queue[i][2] = attempts[queue[i][1]]
       /\ \A j \in DOMAIN queue : queue[i][1] = queue[j][1] => i = j
       /\ running # NoCall => queue[i][1] # running[1]

ToolsInv == ToolTypes /\ HeldInv /\ SuccessInv /\ OnceInv

LEMMA EventsOf ==
  ASSUME NEW key \in Pressable
  PROVE  /\ Down(key) \in Events /\ Up(key) \in Events /\ Other \in Events /\ Raise \in Events
         /\ \A k \in Pressable : (Down(key) = Down(k) <=> key = k) /\ (Up(key) = Up(k) <=> key = k)
         /\ \A k \in Pressable : /\ Up(key) # Down(k) /\ Other # Down(k) /\ Raise # Down(k)
                                 /\ Raise # Up(k) /\ Raise # Other
  BY DEF Events, Down, Up, Other, Raise, Pressable

LEMMA PythonClasses ==
  Python = {"mouse_move", "mouse_click", "mouse_drag", "mouse_scroll", "keyboard_press",
            "keyboard_hotkey", "type_plain", "type_shifted", "window", "launch",
            "screen_ocr", "capture", "inspect"}
  BY DEF Python, Scripts

LEMMA ScriptsAreBalanced ==
  ASSUME NEW class \in Python
  PROVE  /\ Scripts[class] \in Seq(Seq(Events))
         /\ Balanced(Scripts[class], class) /\ RaisesLast(Scripts[class])
<1>1. CASE Scripts[class] = << >>
  BY <1>1 DEF Balanced, RaisesLast
<1>0. "shift" \in Pressable /\ "ctrl" \in Pressable /\ "k" \in Pressable
  BY DEF Pressable
<1>00. /\ Other \in Events /\ Raise \in Events /\ Other # Raise
       /\ \A k \in Pressable : Other # Down(k) /\ Raise # Down(k) /\ Raise # Up(k)
  BY <1>0, EventsOf
<1>2. CASE Scripts[class] = << <<Other>> >>
  BY <1>00, <1>2 DEF Balanced, RaisesLast
<1>3. CASE Scripts[class] = << <<Other>>, <<Raise>> >>
  <2>1. Scripts[class] \in Seq(Seq(Events)) /\ Balanced(Scripts[class], class)
    BY <1>00, <1>3 DEF Balanced
  <2>2. RaisesLast(Scripts[class])
    <3>1. /\ Len(Scripts[class]) = 2 /\ DOMAIN Scripts[class] = {1, 2}
          /\ Scripts[class][1] = <<Other>>
      BY <1>3
    <3>2. <<Other>>[1] # <<Raise>>[1]
      BY <1>00
    <3>3. QED
      BY <3>1, <3>2 DEF RaisesLast
  <2>3. QED
    BY <2>1, <2>2
<1>4. CASE Scripts[class] = << <<Raise>> >>
  BY <1>00, <1>4 DEF Balanced, RaisesLast
<1>5. CASE Scripts[class] = Press
  <2>1. Scripts[class] \in Seq(Seq(Events)) /\ Balanced(Scripts[class], class)
    BY <1>0, <1>5, EventsOf DEF Balanced, Press
  <2>2. RaisesLast(Scripts[class])
    BY <1>0, <1>00, <1>5 DEF RaisesLast, Press
  <2>3. QED
    BY <2>1, <2>2
<1>6. CASE Scripts[class] = Chord
  <2>0. /\ \A key \in Pressable : Down("ctrl") = Down(key) => key = "ctrl"
        /\ \A key \in Pressable : Down("k") = Down(key) => key = "k"
        /\ \A key \in Pressable : Up("ctrl") # Down(key) /\ Up("k") # Down(key)
        /\ {Down("ctrl"), Down("k"), Up("ctrl"), Up("k")} \subseteq Events
    BY <1>0, EventsOf
  <2>1. Scripts[class] \in Seq(Seq(Events)) /\ Balanced(Scripts[class], class)
    <3>1. /\ Scripts[class] \in Seq(Seq(Events)) /\ DOMAIN Scripts[class] = {1, 2}
          /\ Scripts[class][1] = <<Down("ctrl"), Down("k")>>
          /\ Scripts[class][2] = <<Up("k"), Up("ctrl")>>
      BY <1>6, <2>0 DEF Chord
    <3>2. \A key \in Pressable : \A j \in {1, 2} : Scripts[class][2][j] # Down(key)
      BY <2>0, <3>1
    <3>3. \A key \in {"ctrl", "k"} : \E n \in DOMAIN Scripts[class][2] : Scripts[class][2][n] = Up(key)
      BY <3>1
    <3>4. \A key \in Pressable : \A j \in {1, 2} :
            Scripts[class][1][j] = Down(key) => key \in {"ctrl", "k"}
      BY <2>0, <3>1
    <3>5. DOMAIN Scripts[class][1] = {1, 2} /\ DOMAIN Scripts[class][2] = {1, 2} /\ 2 > 1
      BY <3>1
    <3>6. QED
      BY <3>1, <3>2, <3>3, <3>4, <3>5 DEF Balanced
  <2>2. RaisesLast(Scripts[class])
    BY <1>0, <1>00, <1>6 DEF RaisesLast, Chord
  <2>3. QED
    BY <2>1, <2>2
<1>7. CASE Scripts[class] = Plain
  <2>1. Scripts[class] \in Seq(Seq(Events)) /\ Balanced(Scripts[class], class)
    BY <1>0, <1>7, EventsOf DEF Balanced, Plain
  <2>2. RaisesLast(Scripts[class])
    BY <1>0, <1>00, <1>7 DEF RaisesLast, Plain
  <2>3. QED
    BY <2>1, <2>2
<1>8. CASE Scripts[class] = Shifted /\ class = "type_shifted"
  <2>1. Scripts[class] \in Seq(Seq(Events)) /\ Balanced(Scripts[class], class)
    BY <1>0, <1>8, EventsOf DEF Balanced, Shifted
  <2>2. RaisesLast(Scripts[class])
    BY <1>0, <1>00, <1>8 DEF RaisesLast, Shifted
  <2>3. QED
    BY <2>1, <2>2
<1>9. QED
  BY <1>1, <1>2, <1>3, <1>4, <1>5, <1>6, <1>7, <1>8, PythonClasses
     DEF Scripts, Move, Click, Drag, Scroll, Window, Launch, Nothing

\* What acts sends something.
LEMMA ScriptsSend ==
  ASSUME NEW class \in Input \cup {"launch"}
  PROVE  Scripts[class] # << >>
BY DEF Input, Scripts, Move, Click, Drag, Scroll, Press, Chord, Plain, Shifted, Launch

\* What is down after a send in full is released by the sends that follow.
LEMMA SendInFull ==
  ASSUME NEW sends \in Seq(Seq(Events)), sends # << >>, NEW class, Balanced(sends, class),
         RaisesLast(sends), NEW base \in SUBSET Pressable, held \subseteq base \cup Ups(sends)
  PROVE  /\ Balanced(Tail(sends), class) /\ RaisesLast(Tail(sends))
         /\ Delivered(Head(sends)) \subseteq
              base \cup (IF class = "type_shifted" THEN {"k"} ELSE {}) \cup Ups(Tail(sends))
<1>1. /\ Tail(sends) \in Seq(Seq(Events)) /\ Head(sends) = sends[1]
      /\ Len(sends) \in Nat /\ Len(sends) >= 1 /\ Len(Tail(sends)) = Len(sends) - 1
      /\ \A i \in 1 .. Len(sends) - 1 : Tail(sends)[i] = sends[i + 1]
      /\ \A i \in 1 .. Len(sends) : sends[i] \in Seq(Events)
  OBVIOUS
<1>2. \A m \in DOMAIN sends : m > 1 => m - 1 \in DOMAIN Tail(sends) /\ Tail(sends)[m - 1] = sends[m]
  BY <1>1
<1>3. Balanced(Tail(sends), class)
  <2> SUFFICES ASSUME NEW key \in Pressable, NEW i \in DOMAIN Tail(sends),
                      NEW j \in DOMAIN Tail(sends)[i], Tail(sends)[i][j] = Down(key),
                      ~ \E n \in j .. Len(Tail(sends)[i]) : Tail(sends)[i][n] = Up(key),
                      ~ (class = "type_shifted" /\ key = "k")
               PROVE  \E m \in DOMAIN Tail(sends) : m > i /\ \E n \in DOMAIN Tail(sends)[m] :
                        Tail(sends)[m][n] = Up(key)
    BY DEF Balanced
  <2>1. i \in Nat /\ i + 1 \in DOMAIN sends /\ sends[i + 1] = Tail(sends)[i]
    BY <1>1
  <2>2. PICK m \in DOMAIN sends : m > i + 1 /\ \E n \in DOMAIN sends[m] : sends[m][n] = Up(key)
    BY <2>1 DEF Balanced
  <2>3. m - 1 > i /\ m > 1
    BY <1>1, <2>1, <2>2
  <2>4. QED
    BY <1>2, <2>2, <2>3
<1>4. ASSUME NEW key \in Delivered(Head(sends)), key \notin base \cup Ups(Tail(sends))
      PROVE  class = "type_shifted" /\ key = "k"
  <2>1. key \in Pressable
    BY DEF Delivered, Pressable
  <2>2. \A m \in DOMAIN sends : m > 1 => \A n \in DOMAIN sends[m] : sends[m][n] # Up(key)
    BY <1>2, <1>4, <2>1 DEF Ups
  <2>3. CASE key \in held /\ \A i \in DOMAIN Head(sends) : Head(sends)[i] # Up(key)
    BY <1>1, <1>4, <2>1, <2>2, <2>3, SMTT(30) DEF Ups
  <2>4. CASE \E i \in DOMAIN Head(sends) :
               Head(sends)[i] = Down(key) /\ \A j \in i .. Len(Head(sends)) : Head(sends)[j] # Up(key)
    BY <1>1, <2>1, <2>2, <2>4, SMTT(30) DEF Balanced
  <2>5. QED
    BY <1>4, <2>3, <2>4 DEF Delivered
<1>5. RaisesLast(Tail(sends))
  <2> SUFFICES ASSUME NEW i \in DOMAIN Tail(sends), Tail(sends)[i] = <<Raise>>
               PROVE  i = Len(Tail(sends))
    BY DEF RaisesLast
  <2>1. i \in Nat /\ i + 1 \in DOMAIN sends /\ sends[i + 1] = <<Raise>>
    BY <1>1
  <2>2. i + 1 = Len(sends)
    BY <2>1 DEF RaisesLast
  <2>3. Len(sends) \in Nat /\ Len(Tail(sends)) = Len(sends) - 1
    BY <1>1
  <2>4. \A x, y, z : x \in Nat /\ y \in Nat /\ x + 1 = y /\ z = y - 1 => x = z
    OBVIOUS
  <2>5. QED
    BY <2>1, <2>2, <2>3, <2>4
<1>6. QED
  BY <1>3, <1>4, <1>5

LEMMA ToolsInit == Init => ToolsInv
<1> SUFFICES ASSUME Init PROVE ToolsInv
  OBVIOUS
<1>0. 0 \in 0 .. MaxAttempts /\ 0 \in Nat /\ 0 <= 1
  BY DesktopAssumed DEF DesktopAssumption
<1>1. ToolTypes
  <2>1. /\ << >> \in Seq(Calls \X (1 .. MaxAttempts)) /\ << >> \in Seq(Seq(Events))
        /\ DOMAIN << >> = {}
    OBVIOUS
  <2>2. /\ caller \in [Calls -> {"idle", "waiting", "success", "error"}]
        /\ attempts \in [Calls -> 0 .. MaxAttempts] /\ acted \in [Calls -> Nat]
    BY <1>0 DEF Init
  <2>3. QED
    BY <2>1, <2>2 DEF Init, ToolTypes
<1>2. HeldInv
  BY DEF Init, HeldInv
<1>3. SuccessInv
  BY DEF Init, SuccessInv, SuccessIsReal
<1>4. OnceInv
  <2>1. \A c \in Calls : acted[c] = 0
    BY DEF Init
  <2>2. running = NoCall /\ DOMAIN queue = {}
    BY DEF Init
  <2>3. QED
    BY <1>0, <2>1, <2>2 DEF OnceInv
<1>5. QED
  BY <1>1, <1>2, <1>3, <1>4 DEF ToolsInv

\* A request that joins the queue, and one that leaves it
LEMMA Queued ==
  ASSUME NEW T, NEW s \in Seq(T), NEW r \in T
  PROVE  /\ Append(s, r) \in Seq(T)
         /\ DOMAIN Append(s, r) = DOMAIN s \cup {Len(s) + 1} /\ Len(s) + 1 \notin DOMAIN s
         /\ \A i \in DOMAIN s : Append(s, r)[i] = s[i]
         /\ Append(s, r)[Len(s) + 1] = r
  OBVIOUS

LEMMA Unqueued ==
  ASSUME NEW T, NEW s \in Seq(T), s # << >>
  PROVE  /\ 1 \in DOMAIN s /\ Head(s) = s[1] /\ s[1] \in T /\ Tail(s) \in Seq(T)
         /\ \A i \in DOMAIN Tail(s) : i + 1 \in DOMAIN s /\ Tail(s)[i] = s[i + 1] /\ i + 1 # 1
         /\ \A i, j \in DOMAIN Tail(s) : i + 1 = j + 1 => i = j
  OBVIOUS

LEMMA CallStep == ASSUME ToolsInv, NEW c \in Calls, Call(c) PROVE ToolsInv'
<1> USE DEF ToolsInv
<1>0. /\ op[c] \in Python /\ caller[c] \in {"idle", "error"} /\ attempts[c] < MaxAttempts
      /\ attempts' = [attempts EXCEPT ![c] = @ + 1]
      /\ UNCHANGED <<op, acted, running, script, cut, held, hurt, unheard, shifted>>
  BY DEF Call
<1>1. attempts' \in [Calls -> 0 .. MaxAttempts] /\ attempts'[c] \in 1 .. MaxAttempts
  <2>1. attempts[c] + 1 \in 0 .. MaxAttempts /\ attempts[c] + 1 \in 1 .. MaxAttempts
    BY <1>0, DesktopAssumed DEF ToolTypes, DesktopAssumption
  <2>2. QED
    BY <1>0, <2>1 DEF ToolTypes
<1>2. caller' \in [Calls -> {"idle", "waiting", "success", "error"}]
  BY DEF Call, Tell, ToolTypes
<1>3. c \notin unheard =>
        /\ \A i \in DOMAIN queue : queue[i][1] # c
        /\ running # NoCall => running[1] # c
  BY <1>0 DEF OnceInv
<1>4. HeldInv'
  BY <1>0 DEF HeldInv, Works
<1>5. \A d \in Calls : caller'[d] = "success" => caller[d] = "success"
  BY <1>0 DEF Call, Tell, ToolTypes
<1>6. SuccessInv'
  BY <1>0, <1>5 DEF SuccessInv, SuccessIsReal, Works
<1>7. \A d \in Calls : d # c => caller'[d] = caller[d] /\ attempts'[d] = attempts[d]
  BY <1>0 DEF Call, Tell, ToolTypes
<1>8. CASE caller' = [caller EXCEPT ![c] = "waiting"] /\ queue' = Append(queue, <<c, attempts'[c]>>)
  <2> DEFINE r == <<c, attempts'[c]>>
  <2>1. r \in Calls \X (1 .. MaxAttempts)
    BY <1>1
  <2>2. /\ queue' \in Seq(Calls \X (1 .. MaxAttempts))
        /\ DOMAIN queue' = DOMAIN queue \cup {Len(queue) + 1}
        /\ Len(queue) + 1 \notin DOMAIN queue
        /\ \A i \in DOMAIN queue : queue'[i] = queue[i]
        /\ queue'[Len(queue) + 1] = r
    <3>1. queue \in Seq(Calls \X (1 .. MaxAttempts))
      BY DEF ToolTypes
    <3>2. QED
      BY <1>8, <2>1, <3>1, Queued
  <2>3. ToolTypes'
    BY <1>0, <1>1, <1>2, <2>2 DEF ToolTypes
  <2>4. caller'[c] = "waiting"
    BY <1>8 DEF ToolTypes
  <2>5. \A i \in DOMAIN queue : queue[i][1] \in Calls
    BY DEF ToolTypes
  <2>6. running # NoCall => running[1] \in Calls
    BY DEF ToolTypes
  <2>7. OnceInv'
    <3>1. ASSUME NEW d \in Calls \ unheard
          PROVE  /\ acted'[d] <= 1
                 /\ caller'[d] # "success" /\ acted'[d] # 0 =>
                      running # NoCall /\ running[1] = d /\ script = << >>
                 /\ running # NoCall /\ running[1] = d =>
                      caller'[d] = "waiting" /\ running[2] = attempts'[d]
      <4>1. CASE d = c
        BY <1>0, <1>3, <2>4, <3>1, <4>1 DEF OnceInv
      <4>2. CASE d # c
        BY <1>0, <1>7, <3>1, <4>2 DEF OnceInv
      <4>3. QED
        BY <4>1, <4>2
    <3>2. ASSUME NEW i \in DOMAIN queue', queue'[i][1] \notin unheard
          PROVE  /\ caller'[queue'[i][1]] = "waiting" /\ queue'[i][2] = attempts'[queue'[i][1]]
                 /\ \A j \in DOMAIN queue' : queue'[i][1] = queue'[j][1] => i = j
                 /\ running # NoCall => queue'[i][1] # running[1]
      <4>1. CASE i \in DOMAIN queue
        BY <1>3, <1>7, <2>2, <2>5, <3>2, <4>1 DEF OnceInv
      <4>2. CASE i = Len(queue) + 1
        BY <1>3, <2>2, <2>4, <3>2, <4>2 DEF OnceInv
      <4>3. QED
        BY <2>2, <4>1, <4>2
    <3>3. QED
      BY <1>0, <3>1, <3>2 DEF OnceInv
  <2>9. QED
    BY <1>4, <1>6, <2>3, <2>7
<1>9. CASE caller' = [caller EXCEPT ![c] = "error"] /\ UNCHANGED queue
  <2>1. ToolTypes'
    BY <1>0, <1>1, <1>2, <1>9 DEF ToolTypes
  <2>2. \A d \in Calls : caller'[d] # "success" => caller[d] # "success"
    BY <1>0, <1>9 DEF ToolTypes
  <2>3. /\ \A i \in DOMAIN queue : queue[i][1] \in Calls
        /\ running # NoCall => running[1] \in Calls
    BY DEF ToolTypes
  <2>4. OnceInv'
    BY <1>0, <1>3, <1>7, <1>9, <2>2, <2>3 DEF OnceInv
  <2>5. QED
    BY <1>4, <1>6, <2>1, <2>4
<1>10. QED
  BY <1>8, <1>9 DEF Call, Tell

LEMMA HostCallStep == ASSUME ToolsInv, NEW c \in Calls, HostCall(c) PROVE ToolsInv'
<1> USE DEF ToolsInv
<1>0. /\ op[c] \in Host /\ caller[c] \in {"idle", "error"} /\ attempts[c] < MaxAttempts
      /\ attempts' = [attempts EXCEPT ![c] = @ + 1]
      /\ UNCHANGED <<op, queue, running, script, cut, held, shifted, hurt, unheard>>
  BY DEF HostCall, worker
<1>1. PICK outcome \in {<<1, "success">>, <<0, "error">>, <<0, "success">>} :
        /\ acted' = [acted EXCEPT ![c] = @ + outcome[1]]
        /\ caller' = [caller EXCEPT ![c] = outcome[2]]
        /\ op[c] \in {"file", "open_url", "fetch_url", "web_search"} => outcome # <<0, "success">>
  <2>1. PICK outcome \in HostOutcomes[op[c]] :
          /\ acted' = [acted EXCEPT ![c] = @ + outcome[1]]
          /\ caller' = [caller EXCEPT ![c] = outcome[2]]
    BY DEF HostCall, Tell
  <2>2. outcome \in {<<1, "success">>, <<0, "error">>, <<0, "success">>}
        /\ (op[c] \in {"file", "open_url", "fetch_url", "web_search"} => outcome \in Honest)
    BY <1>0, <2>1 DEF Host, HostOutcomes, FileTools, OpenUrl, FetchUrl, WebSearch, Clipboard,
                      Control, Automation, Honest
  <2>3. <<0, "success">> \notin Honest
    BY DEF Honest
  <2>4. QED
    BY <2>1, <2>2, <2>3
<1>2. attempts[c] + 1 \in 0 .. MaxAttempts
  BY <1>0, DesktopAssumed DEF ToolTypes, DesktopAssumption
<1>3. acted[c] \in Nat /\ acted[c] + outcome[1] \in Nat /\ outcome[2] \in {"success", "error"}
      /\ acted[c] + outcome[1] >= outcome[1] /\ outcome[1] \in {0, 1}
      /\ (outcome[2] # "success" => outcome[1] = 0)
  BY <1>1 DEF ToolTypes
<1>4. ToolTypes'
  BY <1>0, <1>1, <1>2, <1>3 DEF ToolTypes
<1>5. HeldInv'
  BY <1>0 DEF HeldInv, Works
<1>6. op[c] \notin Input \cup {"launch"}
  BY <1>0 DEF Host, HostOutcomes, Input
<1>7. \A d \in Calls : d # c =>
        caller'[d] = caller[d] /\ attempts'[d] = attempts[d] /\ acted'[d] = acted[d]
  BY <1>0, <1>1 DEF ToolTypes
<1>8. caller'[c] = outcome[2] /\ acted'[c] = acted[c] + outcome[1]
  BY <1>1 DEF ToolTypes
<1>10. /\ \A i \in DOMAIN queue : queue[i][1] \in Calls \ {c}
       /\ running # NoCall => running[1] \in Calls \ {c}
  <2>1. op[c] \notin Python
    BY <1>0, PythonClasses DEF Host, HostOutcomes
  <2>2. QED
    BY <2>1 DEF ToolTypes
<1>9. SuccessInv'
  <2>1. ASSUME NEW d \in Calls, caller'[d] = "success",
               op[d] \in Input \cup {"launch", "file", "open_url", "fetch_url"}
        PROVE  acted'[d] >= 1
    <3>1. CASE d = c
      <4>1. outcome = <<1, "success">>
        BY <1>1, <1>6, <1>8, <2>1, <3>1
      <4>2. QED
        BY <1>3, <1>8, <3>1, <4>1
    <3>2. CASE d # c
      BY <1>7, <2>1, <3>2 DEF SuccessInv, SuccessIsReal
    <3>3. QED
      BY <3>1, <3>2
  <2>2. running # NoCall /\ script = << >> /\ Works' \in Input \cup {"launch"} => acted'[running[1]] >= 1
    BY <1>0, <1>7, <1>10 DEF SuccessInv, Works
  <2>3. QED
    BY <1>0, <2>1, <2>2 DEF SuccessInv, SuccessIsReal
<1>11. OnceInv'
  <2>1. ASSUME NEW d \in Calls \ unheard
        PROVE  /\ acted'[d] <= 1
               /\ caller'[d] # "success" /\ acted'[d] # 0 =>
                    running # NoCall /\ running[1] = d /\ script = << >>
               /\ running # NoCall /\ running[1] = d =>
                    caller'[d] = "waiting" /\ running[2] = attempts'[d]
    <3>1. CASE d = c
      <4>1. acted[c] = 0
        BY <1>0, <1>10, <2>1, <3>1 DEF OnceInv
      <4>2. acted'[c] <= 1 /\ (caller'[c] # "success" => acted'[c] = 0)
        BY <1>3, <1>8, <4>1
      <4>3. QED
        BY <1>10, <3>1, <4>2
    <3>2. CASE d # c
      BY <1>7, <2>1, <3>2 DEF OnceInv
    <3>3. QED
      BY <3>1, <3>2
  <2>2. \A i \in DOMAIN queue :
          caller'[queue[i][1]] = caller[queue[i][1]] /\ attempts'[queue[i][1]] = attempts[queue[i][1]]
    BY <1>7, <1>10
  <2>3. QED
    BY <1>0, <2>1, <2>2 DEF OnceInv
<1>13. QED
  BY <1>4, <1>5, <1>9, <1>11

LEMMA TimeoutStep == ASSUME ToolsInv, NEW c \in Calls, Timeout(c) PROVE ToolsInv'
<1> USE DEF ToolsInv
<1>0. /\ unheard' = unheard \cup {c}
      /\ UNCHANGED <<op, attempts, acted, queue, running, script, cut, held, shifted, hurt>>
  BY DEF Timeout, told, worker
<1>1. PICK answer \in Refused(c) : caller' = [caller EXCEPT ![c] = answer]
  BY DEF Timeout, Tell
<1>2. answer \in {"success", "error"} /\ (answer = "success" => op[c] = "capture")
  BY DEF Refused
<1>3. ToolTypes'
  BY <1>0, <1>1, <1>2 DEF ToolTypes
<1>4. HeldInv'
  BY <1>0 DEF HeldInv, Works
<1>5. SuccessInv'
  BY <1>0, <1>1, <1>2 DEF SuccessInv, SuccessIsReal, Input, ToolTypes, Works
<1>6. OnceInv'
  <2>1. \A d \in Calls \ unheard' : d \in Calls \ unheard /\ caller'[d] = caller[d]
    BY <1>0, <1>1 DEF ToolTypes
  <2>2. \A i \in DOMAIN queue : queue[i][1] \in Calls
    BY DEF ToolTypes
  <2>3. QED
    BY <1>0, <2>1, <2>2 DEF OnceInv
<1>7. QED
  BY <1>3, <1>4, <1>5, <1>6

LEMMA BeginStep == ASSUME ToolsInv, Begin PROVE ToolsInv'
<1> USE DEF ToolsInv
<1>0. /\ running = NoCall /\ queue # << >> /\ running' = Head(queue) /\ queue' = Tail(queue)
      /\ cut' = FALSE
      /\ UNCHANGED <<op, attempts, caller, acted, held, hurt, unheard, shifted>>
  BY DEF Begin, told
<1>1. /\ 1 \in DOMAIN queue /\ running' = queue[1]
      /\ queue' \in Seq(Calls \X (1 .. MaxAttempts)) /\ queue[1] \in Calls \X (1 .. MaxAttempts)
      /\ \A i \in DOMAIN queue' : i + 1 \in DOMAIN queue /\ queue'[i] = queue[i + 1] /\ i + 1 # 1
      /\ \A i, j \in DOMAIN queue' : i + 1 = j + 1 => i = j
  <2>1. queue \in Seq(Calls \X (1 .. MaxAttempts))
    BY DEF ToolTypes
  <2>2. QED
    BY <1>0, <2>1, Unqueued
<1>2. running' # NoCall
  BY <1>1, DesktopAssumed DEF DesktopAssumption
<1>3. op[queue[1][1]] \in Python
  BY <1>1 DEF ToolTypes
<1>4. Short \in Seq(Seq(Events)) /\ RaisesLast(Short)
      /\ \A class : Balanced(Short, class)
  <2>1. Raise \in Events /\ \A key \in Pressable : Raise # Down(key)
    BY EventsOf DEF Pressable, Events, Raise
  <2>2. QED
    BY <2>1 DEF Short, Balanced, RaisesLast
<1>5. /\ script' \in Seq(Seq(Events))
      /\ Balanced(script', op[queue[1][1]]) /\ RaisesLast(script')
  <2>1. script' = Scripts[op[queue[1][1]]] \/ script' = Short
    BY <1>0, <1>1 DEF Begin, Short
  <2>2. QED
    BY <1>3, <1>4, <2>1, ScriptsAreBalanced
<1>6. ToolTypes'
  BY <1>0, <1>1, <1>3, <1>5 DEF ToolTypes
<1>7. Ups(<< >>) = {}
  BY DEF Ups
<1>8. HeldInv'
  BY <1>0, <1>1, <1>2, <1>5, <1>7 DEF HeldInv, Works
<1>9. SuccessInv'
  <2>1. script' = Scripts[op[queue[1][1]]] \/ script' = Short
    BY <1>0, <1>1 DEF Begin, Short
  <2>2. op[queue[1][1]] \in Input \cup {"launch"} => script' # << >>
    BY <2>1, ScriptsSend DEF Short
  <2>3. QED
    BY <1>0, <1>1, <2>2 DEF SuccessInv, SuccessIsReal, Works
<1>10. OnceInv'
  <2>1. ASSUME NEW d \in Calls \ unheard
        PROVE  /\ acted[d] <= 1
               /\ caller[d] # "success" => acted[d] = 0
               /\ running'[1] = d => caller[d] = "waiting" /\ running'[2] = attempts[d]
    BY <1>0, <1>1, <2>1 DEF OnceInv
  <2>2. ASSUME NEW i \in DOMAIN queue', queue'[i][1] \notin unheard
        PROVE  /\ caller[queue'[i][1]] = "waiting" /\ queue'[i][2] = attempts[queue'[i][1]]
               /\ \A j \in DOMAIN queue' : queue'[i][1] = queue'[j][1] => i = j
               /\ queue'[i][1] # running'[1]
    BY <1>0, <1>1, <2>2 DEF OnceInv
  <2>3. QED
    BY <1>0, <2>1, <2>2 DEF OnceInv
<1>11. QED
  BY <1>6, <1>8, <1>9, <1>10

LEMMA SendStep == ASSUME ToolsInv, Send PROVE ToolsInv'
<1> USE DEF ToolsInv
<1>0. /\ script # << >> /\ Head(script) # <<Raise>> /\ running # NoCall
      /\ UNCHANGED <<op, attempts, caller, queue, running, unheard>>
  BY DEF Send, told, HeldInv
<1>1. /\ Head(script) \in Seq(Events) /\ Len(Head(script)) \in Nat
      /\ Tail(script) \in Seq(Seq(Events))
  BY <1>0 DEF ToolTypes
<1>2. PICK n \in 0 .. Len(Head(script)) :
        /\ held' = Delivered(SubSeq(Head(script), 1, n))
        /\ script' = IF n = Len(Head(script)) THEN Tail(script) ELSE Short
        /\ cut' = (cut \/ n < Len(Head(script)))
  BY DEF Send
<1>20. n < Len(Head(script)) <=> n # Len(Head(script))
  BY <1>1
<1>3. hurt' = (hurt \/ cut') /\ shifted' = (shifted \/ Works = "type_shifted")
  BY DEF Send
<1>30. acted' = IF script' = << >> /\ ~cut' THEN [acted EXCEPT ![running[1]] = @ + 1] ELSE acted
  BY DEF Send
<1>31. /\ running[1] \in Calls /\ acted[running[1]] \in Nat
       /\ acted' \in [Calls -> Nat] /\ \A d \in Calls : acted'[d] >= acted[d]
       /\ \A d \in Calls : d # running[1] => acted'[d] = acted[d]
  <2>1. running[1] \in Calls /\ acted \in [Calls -> Nat]
    BY <1>0 DEF ToolTypes
  <2>2. acted[running[1]] \in Nat /\ acted[running[1]] + 1 \in Nat
        /\ acted[running[1]] + 1 >= acted[running[1]] /\ \A d \in Calls : acted[d] >= acted[d]
    BY <2>1
  <2>3. QED
    BY <1>30, <2>1, <2>2
<1>4. ~cut
  <2>1. Head(Short) = <<Raise>>
    BY DEF Short
  <2>2. QED
    BY <1>0, <2>1 DEF SuccessInv, ToolTypes
<1>5. /\ Short \in Seq(Seq(Events)) /\ RaisesLast(Short)
      /\ \A class : Balanced(Short, class)
  <2>1. Raise \in Events /\ \A key \in Pressable : Raise # Down(key)
    BY EventsOf DEF Pressable, Events, Raise
  <2>2. QED
    BY <2>1 DEF Short, Balanced, RaisesLast
<1>6. ToolTypes'
  <2>1. held' \subseteq Pressable
    BY <1>2 DEF Delivered, Pressable
  <2>2. script' \in Seq(Seq(Events))
    BY <1>1, <1>2, <1>5
  <2>3. cut' \in BOOLEAN /\ hurt' \in BOOLEAN /\ shifted' \in BOOLEAN
    BY <1>2, <1>3 DEF ToolTypes
  <2>4. QED
    BY <1>0, <1>31, <2>1, <2>2, <2>3 DEF ToolTypes
<1>7. SuccessInv'
  <2>1. cut' => script' = Short
    BY <1>2, <1>4, <1>20
  <2>2. script' = << >> => ~cut'
    BY <2>1 DEF Short
  <2>3. script' = << >> => acted'[running[1]] >= 1
    BY <1>30, <1>31, <2>2 DEF ToolTypes
  <2>4. \A d \in Calls : acted[d] >= 1 => acted'[d] >= 1
    BY <1>31 DEF ToolTypes
  <2>5. QED
    BY <1>0, <2>1, <2>3, <2>4 DEF SuccessInv, SuccessIsReal
<1>8. OnceInv'
  <2>1. ASSUME NEW d \in Calls \ unheard
        PROVE  /\ acted'[d] <= 1
               /\ caller[d] # "success" /\ acted'[d] # 0 => running[1] = d /\ script' = << >>
               /\ running[1] = d => caller[d] = "waiting" /\ running[2] = attempts[d]
    <3>1. CASE d = running[1]
      <4>1. acted[d] = 0
        BY <1>0, <2>1, <3>1 DEF OnceInv
      <4>2. acted'[d] <= 1 /\ (acted'[d] # 0 => script' = << >>)
        BY <1>30, <3>1, <4>1 DEF ToolTypes
      <4>3. QED
        BY <1>0, <2>1, <3>1, <4>2 DEF OnceInv
    <3>2. CASE d # running[1]
      BY <1>0, <1>31, <2>1, <3>2 DEF OnceInv
    <3>3. QED
      BY <3>1, <3>2
  <2>2. QED
    BY <1>0, <2>1 DEF OnceInv
<1>9. CASE n = Len(Head(script))
  <2> DEFINE base == IF shifted THEN {"k"} ELSE {}
  <2>1. SubSeq(Head(script), 1, n) = Head(script)
    BY <1>1, <1>9
  <2>2. held' = Delivered(Head(script)) /\ script' = Tail(script) /\ ~cut'
    BY <1>2, <1>4, <1>9, <1>20, <2>1
  <2>3. Balanced(script, Works) /\ RaisesLast(script)
    BY <1>0 DEF HeldInv
  <2>4. base \in SUBSET Pressable
    BY DEF Pressable
  <2>5. ASSUME ~hurt PROVE held \subseteq base \cup Ups(script)
    BY <2>5 DEF HeldInv
  <2>6. script \in Seq(Seq(Events))
    BY DEF ToolTypes
  <2>7. Balanced(Tail(script), Works) /\ RaisesLast(Tail(script))
    <3>1. held \subseteq Pressable \cup Ups(script)
      BY DEF ToolTypes
    <3>2. Pressable \in SUBSET Pressable
      OBVIOUS
    <3> HIDE DEF ToolsInv
    <3>3. QED
      BY <1>0, <2>3, <2>6, <3>1, <3>2, SendInFull
  <2>8. ASSUME ~hurt
        PROVE  Delivered(Head(script)) \subseteq
                 base \cup (IF Works = "type_shifted" THEN {"k"} ELSE {}) \cup Ups(Tail(script))
    <3> HIDE DEF ToolsInv, base
    <3>1. QED
      BY <1>0, <2>3, <2>4, <2>5, <2>6, <2>8, SendInFull
  <2>9. HeldInv'
    <3>1. Works' = Works
      BY <1>0 DEF Works
    <3>2. ~hurt' => held' \subseteq (IF shifted' THEN {"k"} ELSE {}) \cup Ups(script')
      BY <1>3, <2>2, <2>8
    <3>3. QED
      BY <1>0, <2>2, <2>7, <3>1, <3>2 DEF HeldInv
  <2>10. QED
    BY <1>6, <1>7, <1>8, <2>9
<1>10. CASE n # Len(Head(script))
  <2>1. cut' /\ hurt' /\ script' = Short
    BY <1>2, <1>3, <1>10, <1>20
  <2>2. HeldInv'
    BY <1>0, <1>5, <2>1 DEF HeldInv, Works
  <2>3. QED
    BY <1>6, <1>7, <1>8, <2>2
<1>11. QED
  BY <1>9, <1>10

\* A request ends: what is told to whom.
LEMMA AnswerStep ==
  ASSUME ToolsInv, running # NoCall, NEW answer \in {"success", "error"}, Answer(answer),
         script = << >> \/ Head(script) = <<Raise>>,
         \/ answer = "error" /\ script # << >>
         \/ answer = "success" /\ op[running[1]] \notin Input \cup {"launch"}
         \/ answer = "success" /\ script = << >>
  PROVE  ToolsInv'
<1> USE DEF ToolsInv
<1>0. /\ caller' = IF caller[running[1]] = "waiting" /\ running[2] = attempts[running[1]]
                   THEN [caller EXCEPT ![running[1]] = answer] ELSE caller
      /\ running' = NoCall /\ script' = << >>
      /\ UNCHANGED <<op, attempts, acted, queue, cut, held, hurt, unheard, shifted>>
  BY DEF Answer, told
<1> DEFINE c == running[1]
<1>1. c \in Calls /\ op[c] \in Python
  BY DEF ToolTypes
<1>2. caller' \in [Calls -> {"idle", "waiting", "success", "error"}]
  BY <1>0, <1>1 DEF ToolTypes
<1>3. ToolTypes'
  BY <1>0, <1>2 DEF ToolTypes
<1>4. \A d \in Calls : d # c => caller'[d] = caller[d]
  BY <1>0, <1>1 DEF ToolTypes
<1>5. \/ caller'[c] = answer
      \/ caller'[c] = caller[c] /\ c \in unheard
  BY <1>0, <1>1 DEF ToolTypes, OnceInv
<1>6. HeldInv'
  <2>1. Ups(script) = {}
    <3>1. CASE script = << >>
      BY <3>1 DEF Ups
    <3>2. CASE script # << >>
      <4>1. script \in Seq(Seq(Events)) /\ Head(script) = <<Raise>>
        BY <3>2 DEF ToolTypes
      <4>2. 1 \in DOMAIN script /\ Head(script) = script[1]
        BY <3>2, <4>1, Unqueued
      <4>3. Len(script) = 1
        BY <4>1, <4>2 DEF HeldInv, RaisesLast
      <4>4. \A key \in Pressable : Raise # Up(key)
        BY EventsOf
      <4>5. DOMAIN script = {1}
        BY <4>1, <4>3
      <4>6. QED
        BY <4>1, <4>2, <4>4, <4>5 DEF Ups
    <3>3. QED
      BY <3>1, <3>2
  <2>2. QED
    BY <1>0, <2>1 DEF HeldInv
<1>7. SuccessInv'
  <2>1. ASSUME NEW d \in Calls, caller'[d] = "success",
               op[d] \in Input \cup {"launch", "file", "open_url", "fetch_url"}
        PROVE  acted[d] >= 1
    <3>1. CASE caller[d] = "success"
      BY <2>1, <3>1 DEF SuccessInv, SuccessIsReal
    <3>2. CASE caller[d] # "success"
      <4>1. d = c /\ answer = "success"
        BY <1>4, <1>5, <2>1, <3>2
      <4>2. op[c] \in Input \cup {"launch"}
        <5>1. op[c] \notin {"file", "open_url", "fetch_url"}
          BY <1>1, PythonClasses
        <5>2. QED
          BY <2>1, <4>1, <5>1
      <4>3. script = << >>
        BY <4>1, <4>2
      <4>4. QED
        BY <4>1, <4>2, <4>3 DEF SuccessInv, Works
    <3>3. QED
      BY <3>1, <3>2
  <2>2. QED
    BY <1>0, <2>1 DEF SuccessInv, SuccessIsReal
<1>8. OnceInv'
  <2>1. ASSUME NEW d \in Calls \ unheard
        PROVE  acted[d] <= 1 /\ (caller'[d] # "success" => acted[d] = 0)
    <3>1. CASE d = c
      <4>1. caller[c] = "waiting" /\ acted[c] <= 1 /\ caller'[c] = answer
            /\ (acted[c] # 0 => script = << >>)
        BY <1>5, <2>1, <3>1 DEF OnceInv
      <4>2. QED
        BY <3>1, <4>1
    <3>2. CASE d # c
      BY <1>4, <2>1, <3>2 DEF OnceInv
    <3>3. QED
      BY <3>1, <3>2
  <2>2. \A i \in DOMAIN queue :
          queue[i][1] \in Calls /\ (queue[i][1] \notin unheard => queue[i][1] # c)
    BY DEF OnceInv, ToolTypes
  <2>3. QED
    BY <1>0, <1>4, <2>1, <2>2 DEF OnceInv
<1>10. QED
  BY <1>3, <1>6, <1>7, <1>8

LEMMA WorkerDiesStep == ASSUME ToolsInv, WorkerDies PROVE ToolsInv'
<1> USE DEF ToolsInv
<1>0. /\ hurt' = (hurt \/ running # NoCall)
      /\ running' = NoCall /\ script' = << >> /\ queue' = << >>
      /\ unheard' = unheard \cup {c \in Calls : caller[c] = "waiting"}
      /\ UNCHANGED <<op, attempts, acted, cut, held, shifted>>
  BY DEF WorkerDies, told, Lost
<1>1. /\ << >> \in Seq(Calls \X (1 .. MaxAttempts)) /\ << >> \in Seq(Seq(Events))
      /\ DOMAIN << >> = {}
  OBVIOUS
<1>2. PICK answer \in [Calls -> {"error", "success"}] :
        /\ \A c \in Calls : answer[c] \in Refused(c)
        /\ caller' = [c \in Calls |-> IF caller[c] = "waiting" THEN answer[c] ELSE caller[c]]
  BY DEF WorkerDies
<1>3. caller' \in [Calls -> {"idle", "waiting", "success", "error"}]
  BY <1>2 DEF ToolTypes
<1>4. hurt' \in BOOLEAN
  BY <1>0 DEF ToolTypes
<1>5. ToolTypes'
  BY <1>0, <1>1, <1>3, <1>4 DEF ToolTypes
<1>6. HeldInv'
  <2>1. ASSUME running = NoCall PROVE HeldInv'
    BY <1>0, <2>1 DEF HeldInv
  <2>2. ASSUME running # NoCall PROVE HeldInv'
    BY <1>0, <2>2 DEF HeldInv
  <2>3. QED
    BY <2>1, <2>2
<1>7. \A c \in Calls : caller'[c] = "success" => caller[c] = "success" \/ op[c] = "capture"
  BY <1>2 DEF Refused
<1>8. SuccessInv'
  <2>1. "capture" \notin Input \cup {"launch", "file", "open_url", "fetch_url"}
    BY DEF Input
  <2>2. QED
    BY <1>0, <1>7, <2>1 DEF SuccessInv, SuccessIsReal
<1>9. \A c \in Calls : caller'[c] # "success" => caller[c] # "success"
  BY <1>2
<1>10. OnceInv'
  <2>1. ASSUME NEW c \in Calls \ unheard'
        PROVE  acted[c] <= 1 /\ (caller'[c] # "success" => acted[c] = 0)
    BY <1>0, <1>9, <2>1 DEF OnceInv
  <2>2. QED
    BY <1>0, <1>1, <2>1 DEF OnceInv
<1>11. QED
  BY <1>5, <1>6, <1>8, <1>10

LEMMA ToolsStep == ToolsInv /\ [Next]_vars => ToolsInv'
<1> SUFFICES ASSUME ToolsInv, [Next]_vars PROVE ToolsInv'
  OBVIOUS
<1>1. CASE Raises
  <2>1. script # << >> /\ Head(script) = <<Raise>> /\ running # NoCall
    BY <1>1 DEF Raises, ToolsInv, HeldInv
  <2>2. CASE \E answer \in Refused(running[1]) : Answer(answer)
    <3>1. PICK answer \in Refused(running[1]) : Answer(answer)
      BY <2>2
    <3>2. answer \in {"success", "error"}
          /\ (answer = "error" \/ op[running[1]] \notin Input \cup {"launch"})
      BY <3>1 DEF Refused, Input
    <3>3. QED
      BY <2>1, <3>1, <3>2, AnswerStep
  <2>3. CASE Works \in Untold /\ Answer("success")
    <3>1. op[running[1]] \notin Input \cup {"launch"}
      BY <2>3 DEF Works, Untold, Input
    <3>2. QED
      BY <2>1, <2>3, <3>1, AnswerStep
  <2>4. QED
    BY <1>1, <2>2, <2>3 DEF Raises
<1>2. CASE Completes
  <2>1. script = << >> /\ running # NoCall /\ Answer("success")
    BY <1>2 DEF Completes
  <2>2. QED
    BY <2>1, AnswerStep
<1>3. CASE UNCHANGED vars
  <2>1. UNCHANGED <<op, caller, attempts, acted, queue, running, script, cut, held, hurt, unheard,
                    shifted>>
    BY <1>3 DEF vars, told, worker
  <2>2. QED
    BY <2>1 DEF ToolsInv, ToolTypes, HeldInv, SuccessInv, SuccessIsReal, OnceInv, Works
<1>4. QED
  BY <1>1, <1>2, <1>3, CallStep, HostCallStep, TimeoutStep, BeginStep, SendStep, WorkerDiesStep
     DEF Next

\* Windows' keys and buttons are let go, and what a call does it does once, however often
\* it is made again and wherever Windows or the worker fails (builtin_tools.ts,
\* automation.py), counted where the desktop sees it, with the exceptions that the parts
\* of the property name.
THEOREM HandsLetGo == Spec => []HandsInOrder
<1>1. ToolsInv => HandsInOrder
  <2> SUFFICES ASSUME ToolsInv PROVE HandsInOrder
    OBVIOUS
  <2>1. Ups(<< >>) = {}
    BY DEF Ups
  <2>2. NothingHeldInOrder
    BY <2>1 DEF ToolsInv, HeldInv, NothingHeldInOrder
  <2>3. ActsOnceInOrder
    BY DEF ToolsInv, OnceInv, ActsOnceInOrder
  <2>4. QED
    BY <2>2, <2>3 DEF HandsInOrder
<1>2. QED
  BY <1>1, ToolsInit, ToolsStep, PTL DEF Spec

\* A success of the tools that can tell is something that was done, in full.
THEOREM SuccessHappened == Spec => []SuccessIsReal
<1>1. ToolsInv => SuccessIsReal
  BY DEF ToolsInv, SuccessInv
<1>2. QED
  BY <1>1, ToolsInit, ToolsStep, PTL DEF Spec

-----------------------------------------------------------------------------
(* The runtime state                                                       *)

StatusInv == R!TypeOK /\ R!StatusIsTrue

LEMMA StatusInit == R!Init => StatusInv
  BY DEF R!Init, StatusInv, R!TypeOK, R!StatusIsTrue, R!ShownIsCurrent, R!GeminiChipIsTrue,
         R!Subsystems, R!Chips, R!Links, R!Sockets

\* The types of what a step that is done makes of the steps and the chips.
LEMMA DoneType ==
  ASSUME NEW i \in 1 .. 4,
         NEW now \in [1 .. 4 -> {"pending", "active", "completed", "failed"}]
  PROVE  R!Done(i, now) \in [1 .. 4 -> {"pending", "active", "completed", "failed"}]
<1>1. [now EXCEPT ![i] = "completed"] \in [1 .. 4 -> {"pending", "active", "completed", "failed"}]
  OBVIOUS
<1>2. QED
  BY <1>1 DEF R!Done

LEMMA MarkType ==
  ASSUME R!TypeOK, NEW done, NEW mark \in R!Chips
  PROVE  R!Mark(done, mark) \in [R!Subsystems -> R!Chips]
  BY DEF R!Mark, R!TypeOK

\* Step 4 is Gemini's: no other step that is done says anything of the session.
LEMMA CompleteEffect ==
  ASSUME StatusInv, NEW i \in 1 .. 4, R!CompleteBootStep(i),
         UNCHANGED <<boot, R!bridge, window, loaded>>,
         graph' \in BOOLEAN, voice' \in BOOLEAN, i = 4 => socket = "open"
  PROVE  StatusInv'
<1> USE DEF StatusInv, R!StatusIsTrue, R!bridge
<1>1. CASE steps[i] = "completed"
  <2>1. UNCHANGED <<steps, chips, timer, shownChips, shownSteps, boot, hasKey, socket, link,
                    silent, window, loaded>>
    BY <1>1 DEF R!CompleteBootStep, R!hub
  <2>2. R!TypeOK'
    BY <2>1 DEF R!TypeOK
  <2>3. R!ShownIsCurrent' /\ R!GeminiChipIsTrue'
    BY <2>1 DEF R!ShownIsCurrent, R!GeminiChipIsTrue
  <2>4. QED
    BY <2>2, <2>3
<1>2. CASE steps[i] # "completed"
  <2>1. /\ steps' = R!Done(i, steps) /\ chips' = R!Mark({i}, "online")
        /\ shownSteps' = R!Sent(shownSteps) /\ shownChips' = R!Sent(shownChips)
        /\ timer' = TRUE
    BY <1>2 DEF R!CompleteBootStep, R!Reports, R!MaybeBroadcast
  <2>2. /\ steps' \in [1 .. 4 -> {"pending", "active", "completed", "failed"}]
        /\ chips' \in [R!Subsystems -> R!Chips]
    BY <2>1, DoneType, MarkType DEF R!TypeOK, R!Chips
  <2>3. {shownChips', shownSteps'} \subseteq {"nothing", "old", "current"} /\ R!ShownIsCurrent'
    BY <2>1 DEF R!TypeOK, R!ShownIsCurrent, R!Sent, R!Listening
  <2>4. chips'["gemini"] = IF i = 4 THEN "online" ELSE chips["gemini"]
    BY <2>1 DEF R!Mark, R!Subsystem, R!Subsystems
  <2>5. R!GeminiChipIsTrue'
    BY <2>4 DEF R!GeminiChipIsTrue
  <2>6. QED
    BY <2>1, <2>2, <2>3, <2>5 DEF R!TypeOK
<1>3. QED
  BY <1>1, <1>2

LEMMA StartsStep == ASSUME StatusInv, R!Starts PROVE StatusInv'
<1> DEFINE core == IF graph' THEN R!Mark({1, 3}, "online") ELSE R!Mark({1, 3}, "error")
<1>1. /\ boot' = "wake word" /\ graph' \in BOOLEAN
      /\ UNCHANGED <<voice, R!bridge, window, loaded>> /\ timer' = TRUE
      /\ shownSteps' = R!Sent(shownSteps) /\ shownChips' = R!Sent(shownChips)
      /\ steps' = IF graph' THEN R!Done(1, R!Done(3, steps))
                  ELSE [steps EXCEPT ![1] = "failed", ![3] = "failed"]
      /\ chips' = [core EXCEPT !["tools"] = "online"]
  BY DEF R!Starts, R!Reports, R!MaybeBroadcast
<1>0. steps \in [1 .. 4 -> {"pending", "active", "completed", "failed"}]
  BY DEF StatusInv, R!TypeOK
<1>2. R!Done(3, steps) \in [1 .. 4 -> {"pending", "active", "completed", "failed"}]
  BY <1>0, DoneType
<1>3. R!Done(1, R!Done(3, steps)) \in [1 .. 4 -> {"pending", "active", "completed", "failed"}]
  BY <1>2, DoneType
<1>4. [steps EXCEPT ![1] = "failed", ![3] = "failed"]
        \in [1 .. 4 -> {"pending", "active", "completed", "failed"}]
  BY <1>0
<1>5. core \in [R!Subsystems -> R!Chips]
  BY MarkType DEF R!Chips, StatusInv
<1>6. chips' \in [R!Subsystems -> R!Chips]
  BY <1>1, <1>5 DEF R!Chips
<1>7. QED
  BY <1>1, <1>3, <1>4, <1>6 DEF R!Sent, R!Listening, StatusInv, R!TypeOK, R!StatusIsTrue,
                                R!ShownIsCurrent, R!GeminiChipIsTrue, R!bridge

\* What setConnectionState leaves of the invariant but for the socket
LEMMA TellsEffect ==
  ASSUME StatusInv, NEW l \in R!Links, NEW chip \in R!Chips, R!Tells(l, chip),
         window' = window \/ window' = "loading", boot' = "up", socket' \in R!Sockets
  PROVE  R!TypeOK' /\ R!ShownIsCurrent' /\ chips'["gemini"] = chip /\ link' = l
<1>1. /\ chips' = [chips EXCEPT !["gemini"] = chip] /\ link' = l /\ silent' = FALSE
      /\ shownChips' = (IF shownChips = "nothing" THEN "nothing" ELSE "old") /\ timer' = TRUE
      /\ UNCHANGED <<steps, shownSteps, graph, voice, loaded, hasKey>>
  BY DEF R!Tells, R!Outdated, R!MaybeBroadcast
<1>2. R!TypeOK
  BY DEF StatusInv
<1>3. chips' \in [R!Subsystems -> R!Chips] /\ chips'["gemini"] = chip
  BY <1>1, <1>2 DEF R!TypeOK, R!Subsystems
<1>4. R!TypeOK'
  BY <1>1, <1>2, <1>3 DEF R!TypeOK
<1>5. R!ShownIsCurrent'
  BY <1>1 DEF StatusInv, R!StatusIsTrue, R!ShownIsCurrent
<1>6. QED
  BY <1>1, <1>3, <1>4, <1>5

\* setSubsystem of another chip than Gemini's
LEMMA SetEffect ==
  ASSUME StatusInv, NEW s \in R!Subsystems \ {"gemini"}, NEW status \in R!Chips, R!Set(s, status),
         UNCHANGED <<boot, graph, voice, R!bridge, window, loaded>>
  PROVE  StatusInv'
<1>1. /\ chips' = [chips EXCEPT ![s] = status] /\ timer' = TRUE
      /\ shownChips' \in {shownChips, IF shownChips = "nothing" THEN "nothing" ELSE "old"}
      /\ UNCHANGED <<steps, shownSteps, boot, graph, voice, hasKey, socket, link, silent, window,
                     loaded>>
  BY DEF R!Set, R!MaybeBroadcast, R!Outdated, R!bridge
<1>2. R!TypeOK
  BY DEF StatusInv
<1>3. chips' \in [R!Subsystems -> R!Chips] /\ chips'["gemini"] = chips["gemini"]
  BY <1>1, <1>2 DEF R!TypeOK, R!Subsystems
<1>4. R!TypeOK'
  BY <1>1, <1>2, <1>3 DEF R!TypeOK
<1>5. R!ShownIsCurrent' /\ R!GeminiChipIsTrue'
  BY <1>1, <1>3 DEF StatusInv, R!StatusIsTrue, R!ShownIsCurrent, R!GeminiChipIsTrue
<1>6. QED
  BY <1>4, <1>5 DEF StatusInv, R!StatusIsTrue

LEMMA ConnectEffect ==
  ASSUME StatusInv, R!ConnectStream, window' = window \/ window' = "loading", boot' = "up"
  PROVE  StatusInv'
<1>1. CASE socket' = "connecting" /\ R!Tells("CONNECTING", R!ChipOf("CONNECTING"))
  <2>1. R!ChipOf("CONNECTING") = "starting" /\ "starting" \in R!Chips
    BY DEF R!ChipOf, R!Chips
  <2>2. "CONNECTING" \in R!Links /\ socket' \in R!Sockets
    BY <1>1 DEF R!Links, R!Sockets
  <2>3. R!TypeOK' /\ R!ShownIsCurrent' /\ chips'["gemini"] = "starting"
    BY <1>1, <2>1, <2>2, TellsEffect
  <2>4. QED
    BY <1>1, <2>3 DEF StatusInv, R!StatusIsTrue, R!GeminiChipIsTrue
<1>2. CASE socket' = "none" /\ R!Tells("ERROR", "error")
  <2>1. "error" \in R!Chips /\ "ERROR" \in R!Links /\ socket' \in R!Sockets
    BY <1>2 DEF R!Chips, R!Links, R!Sockets
  <2>2. R!TypeOK' /\ R!ShownIsCurrent' /\ chips'["gemini"] = "error"
    BY <1>2, <2>1, TellsEffect
  <2>3. QED
    BY <1>2, <2>2 DEF StatusInv, R!StatusIsTrue, R!GeminiChipIsTrue
<1>3. QED
  BY <1>1, <1>2 DEF R!ConnectStream

LEMMA StatusStep == StatusInv /\ [R!Next]_(R!vars) => StatusInv'
<1> SUFFICES ASSUME StatusInv, [R!Next]_(R!vars) PROVE StatusInv'
  OBVIOUS
<1>0. "gemini" \in R!Subsystems /\ "tools" \in R!Subsystems
  BY DEF R!Subsystems
<1>3. CASE R!Starts
  BY <1>3, StartsStep
<1>4. CASE R!WindowUp
  BY <1>4, ConnectEffect DEF R!WindowUp
<1>16. CASE R!Redials
  BY <1>16, ConnectEffect DEF R!Redials, R!BridgeMoves
<1>00. {graph, voice} \subseteq BOOLEAN
  BY DEF StatusInv, R!TypeOK
<1>5. CASE R!GraphReady
  <2>1. R!CompleteBootStep(3) /\ graph' = TRUE /\ UNCHANGED <<boot, voice, R!bridge, window, loaded>>
    BY <1>5 DEF R!GraphReady
  <2>2. QED
    BY <1>00, <2>1, CompleteEffect
<1>9. CASE R!SetupComplete
  <2>1. /\ R!CompleteBootStep(4) /\ socket = "open"
        /\ UNCHANGED <<boot, graph, voice, R!bridge, window, loaded>>
    BY <1>9 DEF R!SetupComplete
  <2>2. QED
    BY <1>00, <2>1, CompleteEffect
<1>13. CASE R!FirstAudio
  <2>1. R!CompleteBootStep(2) /\ voice' = TRUE /\ UNCHANGED <<boot, graph, R!bridge, window, loaded>>
    BY <1>13 DEF R!FirstAudio
  <2>2. QED
    BY <1>00, <2>1, CompleteEffect
<1>6. CASE R!Probed
  <2>1. PICK s \in {"online", "offline"} : R!Set("python", s)
    BY <1>6 DEF R!Probed
  <2>2. "python" \in R!Subsystems \ {"gemini"} /\ s \in R!Chips
    BY DEF R!Subsystems, R!Chips
  <2>3. QED
    BY <1>6, <2>1, <2>2, SetEffect DEF R!Probed
<1>7. CASE R!MicrophoneTold
  <2>1. PICK s \in {"online", "offline", "degraded"} : R!Set("microphone", s)
    BY <1>7 DEF R!MicrophoneTold
  <2>2. "microphone" \in R!Subsystems \ {"gemini"} /\ s \in R!Chips
    BY DEF R!Subsystems, R!Chips
  <2>3. QED
    BY <1>7, <2>1, <2>2, SetEffect DEF R!MicrophoneTold
<1> USE DEF StatusInv, R!TypeOK, R!StatusIsTrue, R!ShownIsCurrent, R!GeminiChipIsTrue,
            R!bridge
<1>1. CASE R!Broadcast
  BY <1>1 DEF R!Broadcast, R!Listening
<1>2. CASE R!TaskMoves
  BY <1>2 DEF R!TaskMoves, R!MaybeBroadcast, R!Outdated
<1>8. ASSUME \/ R!Opens \/ R!SendFails \/ R!ServerError \/ R!SocketFails
             \/ R!PeerCloses \/ R!Closes \/ R!HeartbeatDrops
      PROVE  StatusInv'
  <2> USE <1>0 DEF R!BridgeMoves, R!Tells, R!ChipOf, R!MaybeBroadcast, R!Outdated, R!Chips,
                   R!Links, R!Sockets
  <2>1. CASE R!Opens
    BY <2>1 DEF R!Opens
  <2>2. CASE R!SendFails
    BY <2>2 DEF R!SendFails
  <2>3. CASE R!ServerError
    BY <2>3 DEF R!ServerError
  <2>4. CASE R!SocketFails
    BY <2>4 DEF R!SocketFails
  <2>5. CASE R!PeerCloses
    BY <2>5 DEF R!PeerCloses, R!hub
  <2>6. CASE R!Closes
    BY <2>6 DEF R!Closes
  <2>7. CASE R!HeartbeatDrops
    BY <2>7 DEF R!HeartbeatDrops, R!hub
  <2>8. QED
    BY <1>8, <2>1, <2>2, <2>3, <2>4, <2>5, <2>6, <2>7
<1>10. CASE R!Mount
  BY <1>10 DEF R!Mount, R!hub
<1>11. CASE R!Answered
  BY <1>11 DEF R!Answered
<1>12. CASE R!DidFinishLoad
  BY <1>12 DEF R!DidFinishLoad, R!Sent, R!Outdated, R!Listening
<1>14. CASE UNCHANGED R!vars
  BY <1>14 DEF R!vars, R!hub
<1>15. QED
  BY <1>1, <1>2, <1>3, <1>4, <1>5, <1>6, <1>7, <1>8, <1>9, <1>10, <1>11, <1>12, <1>13, <1>14,
     <1>16 DEF R!Next

\* A renderer that has its first answers shows what is so or is about to be told, and
\* Gemini's chip is true of the bridge's socket, with the exceptions that the parts of the
\* property name (runtime_state.ts, main.ts, gemini_live_bridge.ts).
THEOREM HUDIsTrue == R!Spec => []StatusIsTrue
<1>1. StatusInv => StatusIsTrue
  BY DEF StatusInv, StatusIsTrue
<1>2. QED
  BY <1>1, StatusInit, StatusStep, PTL DEF R!Spec

-----------------------------------------------------------------------------
(* The context engine                                                      *)

ContextTypes ==
  /\ session \in [Sessions -> {"none", "starting", "ready", "exited", "killed"}]
  /\ asker \in [Sessions -> BOOLEAN]
  /\ ps \in Sessions \cup {None}
  /\ timers \subseteq [of : Sessions, left : Int, own : BOOLEAN]

\* A query waits for one process, which is the current one unless that was given up, and
\* during the query no poll begins.
OneQuery ==
  \A s \in Sessions : asker[s] =>
    /\ poll = "answer" /\ session[s] \in {"ready", "killed"} /\ ps \in {s, None}
    /\ \A u \in Sessions : asker[u] => u = s

ContextInv == ContextTypes /\ OneQuery /\ C!OnePowerShell

LEMMA ContextInit == C!Init => ContextInv
  BY DEF C!Init, ContextInv, ContextTypes, OneQuery, C!OnePowerShell, C!Live

\* A query begins when none waits.
LEMMA AskStep ==
  ASSUME C!ContextAssumption, ContextInv, poll # "answer", C!Ready, C!Ask(ps),
         UNCHANGED <<session, ps>>
  PROVE  ContextInv'
<1>1. ps \in Sessions /\ session[ps] = "ready"
  BY DEF C!Ready, ContextInv, ContextTypes
<1>2. poll' = "answer" /\ asker' = [asker EXCEPT ![ps] = TRUE] /\ UNCHANGED <<session, ps>>
  BY DEF C!Ask
<1>3. timers' \subseteq [of : Sessions, left : Int, own : BOOLEAN]
  <2>1. ASSUME NEW t \in timers
        PROVE  [t EXCEPT !.own = FALSE] \in [of : Sessions, left : Int, own : BOOLEAN]
    BY DEF ContextInv, ContextTypes
  <2>2. [of |-> ps, left |-> QueryTimeout, own |-> TRUE]
          \in [of : Sessions, left : Int, own : BOOLEAN]
    BY <1>1 DEF C!ContextAssumption
  <2>3. QED
    BY <2>1, <2>2 DEF C!Ask
<1>4. QED
  BY <1>1, <1>2, <1>3 DEF ContextInv, ContextTypes, OneQuery, C!OnePowerShell, C!Live

LEMMA ContextStep == ASSUME C!ContextAssumption PROVE ContextInv /\ [C!Next]_(C!vars) => ContextInv'
<1> SUFFICES ASSUME ContextInv, [C!Next]_(C!vars) PROVE ContextInv'
  OBVIOUS
<1> USE DEF ContextInv, ContextTypes, OneQuery, C!OnePowerShell, C!Live, C!ContextAssumption
<1>1. CASE C!PollTick
  <2>1. CASE poll = "none" /\ C!Ready /\ C!Ask(ps) /\ UNCHANGED <<session, ps>>
    BY <2>1, AskStep
  <2>2. ASSUME poll = "none", ~C!Ready, NEW s \in Sessions, s # ps, session[s] = "none", ps' = s,
               session' = [(IF ps = None THEN session ELSE C!Kill(ps)) EXCEPT ![s] = "starting"],
               timers' \subseteq timers, UNCHANGED asker
        PROVE  ContextInv'
    <3>1. \A u \in Sessions : ~asker[u]
      BY <2>2
    <3>2. CASE ps = None
      BY <2>2, <3>1, <3>2
    <3>3. CASE ps # None
      BY <2>2, <3>1, <3>3 DEF C!Kill
    <3>4. QED
      BY <3>2, <3>3
  <2>3. CASE UNCHANGED <<session, asker, ps, poll, timers>>
    BY <2>3
  <2>4. QED
    BY <1>1, <2>1, <2>2, <2>3 DEF C!PollTick, C!Poll, C!Forgotten
<1>2. CASE C!SessionIsReady
  BY <1>2, AskStep DEF C!SessionIsReady
<1>3. CASE C!SessionTimeout
  <2>1. \A u \in Sessions : ~asker[u]
    BY <1>3 DEF C!SessionTimeout
  <2>2. QED
    BY <1>3, <2>1 DEF C!SessionTimeout, C!PollFails, C!Kill, C!Forgotten
<1>4. ASSUME NEW t \in timers, C!QueryTimer(t) PROVE ContextInv'
  BY <1>4, ZenonT(30) DEF C!QueryTimer, C!Forgotten
<1>5. CASE C!Tick
  <2>1. timers' \subseteq [of : Sessions, left : Int, own : BOOLEAN]
    BY <1>5 DEF C!Tick
  <2>2. QED
    BY <1>5, <2>1 DEF C!Tick
<1>6. ASSUME NEW s \in Sessions, C!StartsUp(s) \/ C!Exits(s) \/ C!Forget(s) PROVE ContextInv'
  BY <1>6 DEF C!StartsUp, C!Exits, C!Forget, C!Becomes
<1>7. ASSUME NEW s \in Sessions, C!Answers(s) \/ C!ExitsAsked(s) PROVE ContextInv'
  BY <1>7 DEF C!Answers, C!ExitsAsked, C!Forgotten
<1>8. CASE C!Stop
  BY <1>8 DEF C!Stop, C!Kill, C!Forgotten
<1>9. CASE UNCHANGED C!vars
  BY <1>9 DEF C!vars
<1>10. QED
  BY <1>1, <1>2, <1>3, <1>4, <1>5, <1>6, <1>7, <1>8, <1>9 DEF C!Next, C!Timer, C!Process

\* Whatever times out, exits or is replaced, one PowerShell runs at most, the one that
\* the next query or stop finds (context_engine.ts:120-200).
THEOREM OneSessionOfPowerShell == ASSUME C!ContextAssumption PROVE C!Spec => []OnePowerShell
<1>1. ContextInv => OnePowerShell
  BY DEF ContextInv, OnePowerShell
<1>2. ContextInv /\ [C!Next]_(C!vars) => ContextInv'
  BY ContextStep
<1>3. QED
  BY <1>1, <1>2, ContextInit, PTL DEF C!Spec

-----------------------------------------------------------------------------
(* The audit trail                                                         *)

AuditTypes ==
  /\ recorded \in Nat /\ events \in Seq(Nat) /\ written \in Seq(Nat) /\ dropped \subseteq Nat

Ascending(list) == \A j, k \in DOMAIN list : j < k => list[j] < list[k]

\* A batch holds the events up to n that are neither written nor dropped, in order.
IsNext(batch, n) ==
  /\ Ascending(batch)
  /\ \A e \in A!InBatch(batch) : \A d \in A!InBatch(written) \cup dropped : d < e
  /\ A!InBatch(written) \cup dropped \cup A!InBatch(batch) = 1 .. n

AuditInv ==
  /\ AuditTypes
  /\ Ascending(written) /\ A!InBatch(written) \cap dropped = {}
  /\ IsNext(events, recorded)
  /\ events # <<>> => flushTimer /\ Len(events) < BatchSize

LEMMA InJoined ==
  ASSUME NEW s \in Seq(Nat), NEW t \in Seq(Nat)
  PROVE  /\ s \o t \in Seq(Nat)
         /\ A!InBatch(s \o t) = A!InBatch(s) \cup A!InBatch(t)
         /\ Ascending(s) /\ Ascending(t)
              /\ (\A d \in A!InBatch(s) : \A e \in A!InBatch(t) : d < e) => Ascending(s \o t)
<1> DEFINE u == s \o t
<1>1. /\ u \in Seq(Nat) /\ Len(s) \in Nat /\ Len(t) \in Nat
      /\ Len(u) = Len(s) + Len(t)
      /\ \A k \in 1 .. Len(s) : u[k] = s[k]
      /\ \A k \in Len(s) + 1 .. Len(s) + Len(t) : u[k] = t[k - Len(s)]
  OBVIOUS
<1>2. DOMAIN s = 1 .. Len(s) /\ DOMAIN t = 1 .. Len(t) /\ DOMAIN u = 1 .. Len(s) + Len(t)
  BY <1>1
<1> HIDE DEF u
<1>3. A!InBatch(u) = A!InBatch(s) \cup A!InBatch(t)
  <2>1. ASSUME NEW k \in 1 .. Len(t) PROVE t[k] \in A!InBatch(u)
    <3>1. Len(s) + k \in 1 .. Len(s) + Len(t) /\ Len(s) + k \in Len(s) + 1 .. Len(s) + Len(t)
          /\ (Len(s) + k) - Len(s) = k
      BY <1>1
    <3>2. u[Len(s) + k] = t[k]
      BY <1>1, <3>1
    <3>3. QED
      BY <1>2, <3>1, <3>2 DEF A!InBatch
  <2>2. ASSUME NEW k \in 1 .. Len(s) PROVE s[k] \in A!InBatch(u)
    <3>1. k \in 1 .. Len(s) + Len(t)
      BY <1>1
    <3>2. QED
      BY <1>1, <1>2, <3>1 DEF A!InBatch
  <2>3. ASSUME NEW k \in 1 .. Len(s) + Len(t)
        PROVE  u[k] \in A!InBatch(s) \cup A!InBatch(t)
    <3>1. CASE k \in 1 .. Len(s)
      BY <1>1, <1>2, <3>1 DEF A!InBatch
    <3>2. CASE k \in Len(s) + 1 .. Len(s) + Len(t)
      <4>1. k - Len(s) \in 1 .. Len(t)
        BY <1>1, <3>2
      <4>2. QED
        BY <1>1, <1>2, <3>2, <4>1 DEF A!InBatch
    <3>3. QED
      BY <1>1, <3>1, <3>2
  <2>4. QED
    BY <1>2, <2>1, <2>2, <2>3 DEF A!InBatch
<1>4. ASSUME Ascending(s), Ascending(t),
             \A d \in A!InBatch(s) : \A e \in A!InBatch(t) : d < e
      PROVE  Ascending(u)
  <2>1. ASSUME NEW j \in 1 .. Len(s) + Len(t), NEW k \in 1 .. Len(s) + Len(t), j < k
        PROVE  u[j] < u[k]
    <3>1. CASE k \in 1 .. Len(s)
      <4>1. j \in 1 .. Len(s)
        BY <1>1, <2>1, <3>1
      <4>2. QED
        BY <1>1, <1>2, <1>4, <2>1, <3>1, <4>1 DEF Ascending
    <3>2. CASE j \in 1 .. Len(s) /\ k \in Len(s) + 1 .. Len(s) + Len(t)
      <4>1. k - Len(s) \in 1 .. Len(t)
        BY <1>1, <3>2
      <4>2. s[j] \in A!InBatch(s) /\ t[k - Len(s)] \in A!InBatch(t)
        BY <1>2, <3>2, <4>1 DEF A!InBatch
      <4>3. QED
        BY <1>1, <1>4, <3>2, <4>2
    <3>3. CASE j \in Len(s) + 1 .. Len(s) + Len(t) /\ k \in Len(s) + 1 .. Len(s) + Len(t)
      <4>1. j - Len(s) \in 1 .. Len(t) /\ k - Len(s) \in 1 .. Len(t) /\ j - Len(s) < k - Len(s)
        BY <1>1, <2>1, <3>3
      <4>2. t[j - Len(s)] < t[k - Len(s)]
        BY <1>4, <4>1 DEF Ascending
      <4>3. u[j] = t[j - Len(s)] /\ u[k] = t[k - Len(s)]
        BY <1>1, <3>3
      <4>4. QED
        BY <4>2, <4>3
    <3>4. QED
      BY <1>1, <2>1, <3>1, <3>2, <3>3
  <2>2. QED
    BY <1>2, <2>1 DEF Ascending
<1>5. QED
  BY <1>1, <1>3, <1>4 DEF u

\* An event that is recorded comes after all others.
LEMMA InAppended ==
  ASSUME NEW s \in Seq(Nat), NEW e \in Nat
  PROVE  /\ Append(s, e) \in Seq(Nat) /\ Len(Append(s, e)) = Len(s) + 1
         /\ A!InBatch(Append(s, e)) = A!InBatch(s) \cup {e}
         /\ Ascending(s) /\ (\A d \in A!InBatch(s) : d < e) => Ascending(Append(s, e))
<1>1. <<e>> \in Seq(Nat) /\ Append(s, e) = s \o <<e>> /\ Len(Append(s, e)) = Len(s) + 1
  OBVIOUS
<1>2. A!InBatch(<<e>>) = {e} /\ Ascending(<<e>>)
  BY DEF A!InBatch, Ascending
<1>3. QED
  BY <1>1, <1>2, InJoined

\* A batch is written as a whole or not at all, and either way the queue is empty after.
LEMMA FlushStep ==
  ASSUME AuditInv, NEW batch \in Seq(Nat), NEW n \in Nat, IsNext(batch, n), A!Flush(batch),
         recorded' = n
  PROVE  AuditInv'
<1>1. PICK ok \in BOOLEAN :
        /\ events' = <<>>
        /\ written' = IF ok THEN written \o batch ELSE written
        /\ dropped' = IF ok THEN dropped ELSE dropped \cup A!InBatch(batch)
  BY DEF A!Flush, A!QueueAfter
<1>2. A!InBatch(events') = {} /\ Ascending(events') /\ events' \in Seq(Nat)
  BY <1>1 DEF A!InBatch, Ascending
<1>3. A!InBatch(batch) \subseteq Nat
  BY DEF A!InBatch
<1>4. CASE ok
  <2>1. /\ written' \in Seq(Nat) /\ A!InBatch(written') = A!InBatch(written) \cup A!InBatch(batch)
        /\ Ascending(written')
    BY <1>1, <1>4, InJoined DEF AuditInv, AuditTypes, IsNext
  <2>2. A!InBatch(written') \cap dropped' = {}
    BY <1>1, <1>3, <1>4, <2>1 DEF AuditInv, AuditTypes, IsNext
  <2>3. A!InBatch(written') \cup dropped' \cup A!InBatch(events') = 1 .. n
    BY <1>1, <1>2, <1>4, <2>1 DEF IsNext
  <2>4. QED
    BY <1>1, <1>2, <1>4, <2>1, <2>2, <2>3 DEF AuditInv, AuditTypes, IsNext
<1>5. CASE ~ok
  <2>1. A!InBatch(written') \cap dropped' = {}
    BY <1>1, <1>3, <1>5 DEF AuditInv, AuditTypes, IsNext
  <2>2. A!InBatch(written') \cup dropped' \cup A!InBatch(events') = 1 .. n
    BY <1>1, <1>2, <1>5 DEF IsNext
  <2>3. QED
    BY <1>1, <1>2, <1>3, <1>5, <2>1, <2>2 DEF AuditInv, AuditTypes, IsNext
<1>6. QED
  BY <1>4, <1>5

LEMMA AuditInit == A!Init => AuditInv
<1>1. A!InBatch(<<>>) = {} /\ Ascending(<<>>) /\ 1 .. 0 = {}
  BY DEF A!InBatch, Ascending
<1>2. QED
  BY <1>1 DEF A!Init, AuditInv, AuditTypes, IsNext

LEMMA AuditStep == AuditInv /\ [A!Next]_(A!vars) => AuditInv'
<1> SUFFICES ASSUME AuditInv, [A!Next]_(A!vars) PROVE AuditInv'
  OBVIOUS
<1>1. CASE A!Record
  <2> DEFINE full == Append(events, recorded + 1)
  <2>1. recorded' = recorded + 1 /\ recorded' \in Nat
    BY <1>1 DEF A!Record, AuditInv, AuditTypes
  <2>2. \A d \in A!InBatch(written) \cup dropped \cup A!InBatch(events) : d < recorded + 1
    BY DEF AuditInv, AuditTypes, IsNext
  <2>3. /\ full \in Seq(Nat) /\ Len(full) = Len(events) + 1
        /\ A!InBatch(full) = A!InBatch(events) \cup {recorded + 1} /\ Ascending(full)
    BY <2>1, <2>2, InAppended DEF AuditInv, AuditTypes, IsNext
  <2>4. (1 .. recorded) \cup {recorded + 1} = 1 .. recorded + 1
    BY DEF AuditInv, AuditTypes
  <2>5. IsNext(full, recorded + 1)
    <3>1. A!InBatch(written) \cup dropped \cup A!InBatch(full) = 1 .. recorded + 1
      BY <2>3, <2>4 DEF AuditInv, IsNext
    <3>2. \A e \in A!InBatch(full) : \A d \in A!InBatch(written) \cup dropped : d < e
      BY <2>2, <2>3 DEF AuditInv, IsNext
    <3>3. QED
      BY <2>3, <3>1, <3>2 DEF IsNext
  <2> HIDE DEF full
  <2>6. CASE Len(full) >= BatchSize
    <3>1. A!Flush(full)
      BY <1>1, <2>6 DEF A!Record, full
    <3>2. QED
      BY <2>1, <2>3, <2>5, <3>1, FlushStep
  <2>7. CASE ~(Len(full) >= BatchSize)
    <3>1. events' = full /\ flushTimer' = TRUE /\ UNCHANGED <<written, dropped>>
      BY <1>1, <2>7 DEF A!Record, full
    <3>2. IsNext(events, recorded)'
      BY <2>1, <2>5, <3>1 DEF IsNext
    <3>3. Len(full) < BatchSize
      BY <2>3, <2>7, AuditAssumed DEF AuditInv, AuditTypes, A!AuditAssumption
    <3>4. QED
      BY <2>1, <2>3, <3>1, <3>2, <3>3 DEF AuditInv, AuditTypes
  <2>8. QED
    BY <2>6, <2>7
<1>2. CASE A!Flush(events) /\ recorded' = recorded
  BY <1>2, FlushStep DEF AuditInv, AuditTypes
<1>3. CASE UNCHANGED A!vars
  BY <1>3 DEF A!vars, AuditInv, AuditTypes, IsNext
<1>4. QED
  BY <1>1, <1>2, <1>3 DEF A!Next, A!TimerFires, A!Recent, A!Close

\* The trail is in order, without duplicates, and tells of every event that was recorded
\* but for the batches that could not be written (audit_logger.ts).
THEOREM TheTrail == A!SafeSpec => []TrailIsSound
<1>1. AuditInv => TrailIsSound
  <2> SUFFICES ASSUME AuditInv PROVE A!TrailIsSound
    BY DEF TrailIsSound
  <2>1. \A e \in A!InBatch(events) : e \notin A!InBatch(written) \cup dropped
    <3>1. A!InBatch(events) \subseteq Nat
      BY DEF AuditInv, AuditTypes, A!InBatch
    <3>2. \A e \in A!InBatch(events) : \A d \in A!InBatch(written) \cup dropped : d < e
      BY DEF AuditInv, IsNext
    <3>3. \A e \in Nat : ~(e < e)
      OBVIOUS
    <3>4. QED
      BY <3>1, <3>2, <3>3
  <2>2. QED
    BY <2>1 DEF AuditInv, IsNext, Ascending, A!TrailIsSound
<1>2. QED
  BY <1>1, AuditInit, AuditStep, PTL DEF A!SafeSpec
-----------------------------------------------------------------------------
(* The workspace                                                           *)

\* What the manager keeps and writes: each surface once, and no more than there is room for
IsWorkspace(list) ==
  /\ list \in Seq(W!Surfaces) /\ Len(list) <= MaxSurfaces
  /\ \A i, j \in DOMAIN list : list[i].key = list[j].key => i = j

\* As long as every write is whole, the file holds what is open.
WorkspaceInv ==
  /\ IsWorkspace(surfaces) /\ hydrated \in BOOLEAN /\ faulty \in BOOLEAN
  /\ stored = W!Torn \/ IsWorkspace(stored)
  /\ ~faulty => IsWorkspace(stored)
  /\ ~faulty /\ hydrated => stored = surfaces

LEMMA NothingIsOpen == IsWorkspace(<< >>)
  BY WorkspaceAssumed DEF IsWorkspace, W!WorkspaceAssumption

LEMMA TornIsNone == ~ IsWorkspace(W!Torn)
<1> SUFFICES ASSUME << <<>> >> \in Seq(W!Surfaces) PROVE FALSE
  BY DEF IsWorkspace, W!Torn
<1>1. << >> \in W!Surfaces
  <2>1. << <<>> >>[1] = << >> /\ 1 \in DOMAIN << <<>> >>
    OBVIOUS
  <2>2. QED
    BY <2>1
<1>2. DOMAIN << >> = {} /\ \A surface \in W!Surfaces : DOMAIN surface = {"key", "content"}
  BY DEF W!Surfaces
<1>3. QED
  BY <1>1, <1>2

\* load finds every surface of a file to be the first of its key.
LEMMA LoadIsExact == ASSUME IsWorkspace(stored) PROVE W!Hydrated = stored
<1> DEFINE all == DOMAIN stored
           firsts == {i \in all : \A j \in 1 .. i - 1 : stored[j].key # stored[i].key}
           Upto(i) == {j \in firsts : j <= i}
           Nth(n) == CHOOSE i \in firsts : W!Cardinality(Upto(i)) = n
<1>1. stored \in Seq(W!Surfaces) /\ Len(stored) \in Nat /\ all = 1 .. Len(stored)
      /\ Len(stored) <= MaxSurfaces
  BY DEF IsWorkspace
<1>2. firsts = 1 .. Len(stored)
  <2>1. ASSUME NEW i \in all, NEW j \in 1 .. i - 1 PROVE stored[j].key # stored[i].key
    <3>1. j \in all /\ j # i
      BY <1>1, <2>1
    <3>2. QED
      BY <2>1, <3>1 DEF IsWorkspace
  <2>2. QED
    BY <1>1, <2>1
<1>3. \A set : W!Cardinality(set) = Cardinality(set)
  BY DEF W!Cardinality, Cardinality
<1>4. \A i \in firsts : Upto(i) = 1 .. i /\ W!Cardinality(Upto(i)) = i
  <2> SUFFICES ASSUME NEW i \in firsts PROVE Upto(i) = 1 .. i /\ W!Cardinality(Upto(i)) = i
    OBVIOUS
  <2>1. i \in Nat /\ i >= 1 /\ i <= Len(stored)
    BY <1>1, <1>2
  <2>2. Upto(i) = 1 .. i
    BY <1>1, <1>2, <2>1
  <2>3. Cardinality(1 .. i) = i
    BY <2>1, FS_Interval
  <2>4. QED
    BY <1>3, <2>2, <2>3
<1>5. W!Cardinality(firsts) = Len(stored)
  <2>1. \A n \in Nat : Cardinality(1 .. n) = n
    BY FS_Interval
  <2>2. QED
    BY <1>1, <1>2, <1>3, <2>1
<1>6. \A n \in firsts : Nth(n) = n
  BY <1>4
<1> DEFINE loaded1 == [n \in 1 .. W!Cardinality(firsts) |-> stored[Nth(n)]]
<1>7. loaded1 = stored
  <2> HIDE DEF firsts, Nth
  <2>1. loaded1 = [n \in 1 .. Len(stored) |-> stored[n]]
    BY <1>2, <1>5, <1>6
  <2>2. stored = [n \in 1 .. Len(stored) |-> stored[n]]
    BY <1>1
  <2>3. QED
    BY <2>1, <2>2
<1>8. W!Newest(stored) = stored
  <2>1. SubSeq(stored, 1, Len(stored)) = stored
    BY <1>1
  <2>2. Len(stored) < MaxSurfaces \/ Len(stored) = MaxSurfaces
    <3>1. \A x, y \in Nat : x <= y => x < y \/ x = y
      OBVIOUS
    <3>2. QED
      BY <1>1, <3>1, WorkspaceAssumed DEF W!WorkspaceAssumption
  <2>3. QED
    BY <2>1, <2>2 DEF W!Newest
<1>9. stored # W!Torn
  BY TornIsNone
<1>10. W!Hydrated = W!Newest(loaded1)
  BY <1>9 DEF W!Hydrated
<1> HIDE DEF loaded1
<1>11. QED
  BY <1>7, <1>8, <1>10

LEMMA LoadedIsWorkspace ==
  ASSUME WorkspaceInv
  PROVE  IsWorkspace(W!Loaded) /\ (hydrated => W!Loaded = surfaces) /\ (~faulty => W!Loaded = stored)
<1>1. stored = W!Torn => W!Hydrated = << >>
  BY DEF W!Hydrated
<1>2. QED
  BY <1>1, NothingIsOpen, LoadIsExact, TornIsNone DEF WorkspaceInv, W!Loaded

LEMMA PersistStep ==
  ASSUME WorkspaceInv, NEW list, IsWorkspace(list), W!Persist(list) PROVE WorkspaceInv'
<1>1. surfaces' = list /\ hydrated' = TRUE
  BY DEF W!Persist
<1>2. CASE stored' = list /\ UNCHANGED faulty
  BY <1>1, <1>2 DEF WorkspaceInv, IsWorkspace
<1>3. CASE stored' \in {stored, W!Torn} /\ faulty' = TRUE
  BY <1>1, <1>3 DEF WorkspaceInv, IsWorkspace, W!Torn
<1>4. QED
  BY <1>2, <1>3 DEF W!Persist

\* A surface takes the place of the one with its key, or is put in front of the others.
LEMMA Replaced ==
  ASSUME NEW list, IsWorkspace(list), NEW surface \in W!Surfaces,
         NEW there, there = W!Existing(list, surface.key), there # {}
  PROVE  IsWorkspace([i \in DOMAIN list |-> IF i \in there THEN surface ELSE list[i]])
<1> DEFINE new == [i \in DOMAIN list |-> IF i \in there THEN surface ELSE list[i]]
<1>1. list \in Seq(W!Surfaces) /\ Len(list) \in Nat /\ DOMAIN list = 1 .. Len(list)
  BY DEF IsWorkspace
<1>2. new \in Seq(W!Surfaces) /\ Len(new) = Len(list) /\ DOMAIN new = DOMAIN list
  BY <1>1
<1>3. \A i \in DOMAIN list : new[i].key = list[i].key
  BY DEF W!Existing
<1>4. QED
  BY <1>2, <1>3 DEF IsWorkspace

LEMMA Patched ==
  ASSUME NEW list, IsWorkspace(list), NEW n \in DOMAIN list, NEW content \in Contents
  PROVE  IsWorkspace([list EXCEPT ![n] = [key |-> list[n].key, content |-> content]])
<1> DEFINE surface == [key |-> list[n].key, content |-> content]
<1> DEFINE new == [list EXCEPT ![n] = surface]
<1>1. list \in Seq(W!Surfaces) /\ Len(list) \in Nat /\ DOMAIN list = 1 .. Len(list)
  BY DEF IsWorkspace
<1>2. surface \in W!Surfaces
  <2>1. list[n] \in W!Surfaces
    BY <1>1
  <2>2. list[n].key \in Keys
    BY <2>1 DEF W!Surfaces
  <2>3. QED
    BY <2>2 DEF W!Surfaces
<1>3. new \in Seq(W!Surfaces) /\ Len(new) = Len(list) /\ DOMAIN new = DOMAIN list
  BY <1>1, <1>2
<1>4. \A i \in DOMAIN list : new[i].key = list[i].key
  BY <1>1
<1>5. QED
  BY <1>3, <1>4 DEF IsWorkspace

LEMMA PutInFront ==
  ASSUME NEW list, IsWorkspace(list), NEW surface \in W!Surfaces,
         W!Existing(list, surface.key) = {}
  PROVE  IsWorkspace(W!Newest(<<surface>> \o list))
<1> DEFINE new == <<surface>> \o list
           room == IF Len(new) < MaxSurfaces THEN Len(new) ELSE MaxSurfaces
<1>1. /\ list \in Seq(W!Surfaces) /\ Len(list) \in Nat /\ DOMAIN list = 1 .. Len(list)
      /\ MaxSurfaces \in Nat
  BY WorkspaceAssumed DEF IsWorkspace, W!WorkspaceAssumption
<1>2. /\ new \in Seq(W!Surfaces) /\ Len(new) = Len(list) + 1 /\ new[1] = surface
      /\ \A i \in 2 .. Len(new) : i - 1 \in DOMAIN list /\ new[i] = list[i - 1]
  BY <1>1
<1>3. \A i, j \in 1 .. Len(new) : new[i].key = new[j].key => i = j
  <2> SUFFICES ASSUME NEW i \in 1 .. Len(new), NEW j \in 1 .. Len(new), new[i].key = new[j].key
               PROVE  i = j
    OBVIOUS
  <2>1. CASE i # 1 /\ j # 1
    <3>1. i \in 2 .. Len(new) /\ j \in 2 .. Len(new)
      BY <1>1, <1>2, <2>1
    <3>2. i - 1 = j - 1
      BY <1>2, <3>1 DEF IsWorkspace
    <3>3. QED
      BY <3>1, <3>2
  <2>2. \A k \in 2 .. Len(new) : new[k].key # surface.key
    BY <1>2 DEF W!Existing
  <2>3. CASE i = 1 /\ j # 1
    <3>1. j \in 2 .. Len(new)
      BY <1>1, <1>2, <2>3
    <3>2. QED
      BY <1>2, <2>2, <2>3, <3>1
  <2>4. CASE i # 1 /\ j = 1
    <3>1. i \in 2 .. Len(new)
      BY <1>1, <1>2, <2>4
    <3>2. QED
      BY <1>2, <2>2, <2>4, <3>1
  <2>5. QED
    BY <2>1, <2>3, <2>4
<1>4. room \in 0 .. Len(new) /\ room <= MaxSurfaces
  BY <1>1, <1>2
<1> HIDE DEF new, room
<1>5. SubSeq(new, 1, room) \in Seq(W!Surfaces) /\ Len(SubSeq(new, 1, room)) = room
      /\ DOMAIN SubSeq(new, 1, room) = 1 .. room
      /\ \A i \in 1 .. room : SubSeq(new, 1, room)[i] = new[i] /\ i \in 1 .. Len(new)
  BY <1>2, <1>4
<1>6. IsWorkspace(SubSeq(new, 1, room))
  BY <1>3, <1>4, <1>5 DEF IsWorkspace
<1>7. QED
  BY <1>6 DEF W!Newest, new, room

LEMMA JoinedAt ==
  ASSUME NEW T, NEW s \in Seq(T), NEW t \in Seq(T), NEW i \in 1 .. Len(s) + Len(t)
  PROVE  (s \o t)[i] = IF i <= Len(s) THEN s[i] ELSE t[i - Len(s)]
  OBVIOUS

LEMMA TakenAway ==
  ASSUME NEW list, IsWorkspace(list), NEW n \in DOMAIN list
  PROVE  IsWorkspace(W!RemoveAt(list, n))
<1> DEFINE new == W!RemoveAt(list, n)
<1>1. list \in Seq(W!Surfaces) /\ Len(list) \in Nat /\ n \in 1 .. Len(list)
  BY DEF IsWorkspace
<1>2. new = SubSeq(list, 1, n - 1) \o SubSeq(list, n + 1, Len(list))
  BY DEF W!RemoveAt
<1>3. /\ SubSeq(list, 1, n - 1) \in Seq(W!Surfaces) /\ Len(SubSeq(list, 1, n - 1)) = n - 1
      /\ \A i \in 1 .. n - 1 : SubSeq(list, 1, n - 1)[i] = list[i]
      /\ SubSeq(list, n + 1, Len(list)) \in Seq(W!Surfaces)
      /\ Len(SubSeq(list, n + 1, Len(list))) = Len(list) - n
      /\ \A i \in 1 .. Len(list) - n : SubSeq(list, n + 1, Len(list))[i] = list[i + n]
  BY <1>1
<1> DEFINE From(i) == IF i < n THEN i ELSE i + 1
<1>4. /\ new \in Seq(W!Surfaces) /\ Len(new) = Len(list) - 1
      /\ \A i \in 1 .. Len(list) - 1 : new[i] = list[From(i)] /\ From(i) \in DOMAIN list
  <2> DEFINE a == SubSeq(list, 1, n - 1)
             b == SubSeq(list, n + 1, Len(list))
  <2>1. /\ a \in Seq(W!Surfaces) /\ b \in Seq(W!Surfaces) /\ new = a \o b
        /\ Len(a) = n - 1 /\ Len(b) = Len(list) - n
        /\ \A i \in 1 .. n - 1 : a[i] = list[i]
        /\ \A i \in 1 .. Len(list) - n : b[i] = list[i + n]
    BY <1>2, <1>3
  <2> HIDE DEF new, a, b
  <2>2. new \in Seq(W!Surfaces) /\ Len(new) = Len(list) - 1
    BY <1>1, <2>1
  <2>3. ASSUME NEW i \in 1 .. Len(list) - 1
        PROVE  new[i] = list[From(i)] /\ From(i) \in DOMAIN list
    <3>1. CASE i < n
      <4>0. i \in 1 .. n - 1
        BY <1>1, <3>1
      <4>1. i \in 1 .. Len(a) + Len(b) /\ i <= Len(a)
        BY <1>1, <2>1, <4>0
      <4>2. new[i] = a[i]
        BY <2>1, <4>1, JoinedAt, SMTT(30)
      <4>3. QED
        BY <1>1, <2>1, <3>1, <4>0, <4>2
    <3>2. CASE ~(i < n)
      <4>1. i - (n - 1) \in 1 .. Len(list) - n /\ i - (n - 1) + n = i + 1
        BY <1>1, <3>2
      <4>2. new[i] = b[i - (n - 1)]
        <5>1. i \in 1 .. Len(a) + Len(b) /\ ~(i <= Len(a))
          BY <1>1, <2>1, <3>2
        <5>2. QED
          BY <2>1, <5>1, JoinedAt, SMTT(30)
      <4>3. b[i - (n - 1)] = list[i + 1]
        BY <2>1, <4>1
      <4>4. i + 1 \in DOMAIN list
        BY <1>1
      <4>5. QED
        BY <3>2, <4>2, <4>3, <4>4
    <3>3. QED
      BY <3>1, <3>2
  <2>4. QED
    BY <2>2, <2>3
<1>5. \A i, j \in 1 .. Len(list) - 1 : From(i) = From(j) => i = j
  BY <1>1
<1> HIDE DEF new, From
<1>6. DOMAIN new = 1 .. Len(list) - 1 /\ Len(new) <= MaxSurfaces
  BY <1>1, <1>4, WorkspaceAssumed DEF IsWorkspace, W!WorkspaceAssumption
<1>7. \A i, j \in DOMAIN new : new[i].key = new[j].key => i = j
  BY <1>4, <1>5, <1>6 DEF IsWorkspace
<1>8. IsWorkspace(new)
  BY <1>4, <1>6, <1>7 DEF IsWorkspace
<1>9. QED
  BY <1>8 DEF new

LEMMA WorkspaceStep == WorkspaceInv /\ [W!Next]_(W!vars) => WorkspaceInv'
<1> SUFFICES ASSUME WorkspaceInv, [W!Next]_(W!vars) PROVE WorkspaceInv'
  OBVIOUS
<1>1. ASSUME NEW surface \in W!Surfaces, W!Open(surface) PROVE WorkspaceInv'
  <2>1. CASE W!Existing(W!Loaded, surface.key) # {}
    BY <1>1, <2>1, LoadedIsWorkspace, Replaced, PersistStep DEF W!Open
  <2>2. CASE W!Existing(W!Loaded, surface.key) = {}
    BY <1>1, <2>2, LoadedIsWorkspace, PutInFront, PersistStep DEF W!Open
  <2>3. QED
    BY <2>1, <2>2
<1>2. ASSUME NEW i \in 1 .. MaxSurfaces, W!Close(i) PROVE WorkspaceInv'
  BY <1>2, LoadedIsWorkspace, TakenAway, PersistStep DEF W!Close
<1>6. ASSUME NEW i \in 1 .. MaxSurfaces, NEW content \in Contents, W!Update(i, content)
      PROVE  WorkspaceInv'
  BY <1>6, LoadedIsWorkspace, Patched, PersistStep DEF W!Update
<1>3. CASE W!List
  BY <1>3, LoadedIsWorkspace DEF W!List, WorkspaceInv, IsWorkspace, W!Torn
<1>4. CASE W!Restart
  BY <1>4, NothingIsOpen DEF W!Restart, WorkspaceInv, IsWorkspace, W!Torn
<1>5. CASE UNCHANGED W!vars
  BY <1>5 DEF W!vars, WorkspaceInv, IsWorkspace, W!Torn
<1>7. QED
  BY <1>1, <1>2, <1>3, <1>4, <1>5, <1>6 DEF W!Next

\* What a restart reads back is what was open, however surfaces replaced each other and
\* pushed each other out, unless a write failed (workspace_manager.ts).
THEOREM RestartsShowTheSame == W!Spec => []RestartShowsTheSame
<1>1. W!Init => WorkspaceInv
  BY NothingIsOpen DEF W!Init, WorkspaceInv
<1>2. WorkspaceInv => RestartShowsTheSame
  BY LoadIsExact DEF WorkspaceInv, RestartShowsTheSame, W!RestartShowsTheSame
<1>3. QED
  BY <1>1, <1>2, WorkspaceStep, PTL DEF W!Spec

-----------------------------------------------------------------------------
(* The screen capturer and the modes                                       *)

\* A loop that waits for its timer is the one whose timer the capturer keeps, and only a
\* capturer that is on has a timer.
LoopsInv ==
  /\ isCapturing \in BOOLEAN /\ resumed \in BOOLEAN
  /\ loop \in [Loops -> {"idle", "grabbing", "armed"}]
  /\ ~resumed =>
       /\ \A k, l \in Loops : loop[k] # "idle" /\ loop[l] # "idle" => k = l
       /\ isCapturing => \E l \in Loops : loop[l] # "idle"
       /\ \A l \in Loops : loop[l] = "armed" => isCapturing /\ timerId = l

LEMMA LoopsInit == S!Init => LoopsInv
  BY DEF S!Init, LoopsInv

LEMMA LoopsStep == LoopsInv /\ [S!Next]_(S!vars) => LoopsInv'
<1> SUFFICES ASSUME LoopsInv, [S!Next]_(S!vars) PROVE LoopsInv'
  OBVIOUS
<1> USE DEF LoopsInv
<1>1. CASE S!StopCapture
  BY <1>1 DEF S!StopCapture, S!StopClearsTimer
<1>2. ASSUME NEW l \in Loops, S!StartCapture(l) PROVE LoopsInv'
  BY <1>2 DEF S!StartCapture, S!Live
<1>3. ASSUME NEW l \in Loops, loop[l] = "grabbing", S!Rearm(l), UNCHANGED <<isCapturing, resumed>>
      PROVE LoopsInv'
  BY <1>3 DEF S!Rearm, S!Arms
<1>4. ASSUME NEW l \in Loops, S!TimerFires(l) PROVE LoopsInv'
  BY <1>4 DEF S!TimerFires
<1>5. CASE UNCHANGED S!vars
  BY <1>5 DEF S!vars
<1>6. QED
  BY <1>1, <1>2, <1>3, <1>4, <1>5 DEF S!Next, S!Grabbed, S!GrabFails

\* While an import of node-cron is awaited and nothing came in between, there is no job.
JobsInv ==
  /\ cronJob \in Jobs \cup {None}
  /\ cron \in [Jobs -> {"unborn", "scheduled", "stopped"}]
  /\ imports \in Nat /\ dreamRaced \in BOOLEAN
  /\ ~dreamRaced =>
       /\ imports <= 1 /\ (imports = 1 => cronJob = None)
       /\ \A j \in Jobs : cron[j] = "scheduled" => j = cronJob

\* isRunning keeps every job but one out of runDreamCycle, and dreams counts that one.
DreamInv ==
  /\ cycle \in [Jobs -> M!Stages]
  /\ isRunning \in BOOLEAN
  /\ ~isRunning => dreams = 0 /\ \A j \in Jobs : cycle[j] = "none"
  /\ isRunning => dreams = 1 /\ \E j \in Jobs : \A k \in Jobs : cycle[k] # "none" <=> k = j

\* While the sources of the screen are awaited and nothing came in between, there is no
\* recorder.
AudioInv ==
  /\ audioProcess \in Jobs \cup {None}
  /\ ffmpeg \in [Jobs -> {"unborn", "failed", "running", "terminated", "dead", "closed"}]
  /\ asking \in Nat /\ audioRaced \in BOOLEAN
  /\ ~audioRaced =>
       /\ asking <= 1 /\ (asking = 1 => audioProcess = None)
       /\ \A j \in Jobs : ffmpeg[j] = "running" => j = audioProcess

DiarizationInv ==
  /\ diarization \in [Jobs -> {"none", "probing", "piping", "done"}]
  /\ results \in [Jobs -> Nat]
  /\ M!ToldOnce

\* While a watcher is awaited and nothing came in between, there is no other.
WatchInv ==
  /\ watcher \in Jobs \cup {None} /\ opening \subseteq Jobs /\ watchRaced \in BOOLEAN
  /\ native \in [Jobs -> {"unborn", "watching", "broken", "closed"}]
  /\ ~watchRaced =>
       /\ \A i, j \in opening : i = j
       /\ opening # {} => watcher = None
       /\ \A j \in Jobs : native[j] = "watching" => j = watcher \/ j \in opening

ModesInv == JobsInv /\ DreamInv /\ AudioInv /\ DiarizationInv /\ WatchInv

LEMMA ModesInit == M!Init => ModesInv
<1> SUFFICES ASSUME M!Init PROVE ModesInv
  OBVIOUS
<1>0. 0 \in Nat /\ 0 <= 1 /\ 0 # 1
  OBVIOUS
<1> USE DEF M!Init
<1>1. JobsInv
  BY <1>0 DEF JobsInv
<1>2. DreamInv
  BY DEF DreamInv, M!Stages
<1>3. AudioInv
  BY <1>0 DEF AudioInv
<1>4. DiarizationInv
  BY DEF DiarizationInv, M!ToldOnce
<1>5. WatchInv
  BY DEF WatchInv
<1>6. QED
  BY <1>1, <1>2, <1>3, <1>4, <1>5 DEF ModesInv

LEMMA JobsStep == ASSUME JobsInv, M!DreamNext PROVE JobsInv'
<1> USE DEF JobsInv
<1>1. CASE M!DreamStart
  <2>1. /\ cronJob = None /\ imports' = imports + 1 /\ UNCHANGED <<cronJob, cron>>
        /\ dreamRaced' \in BOOLEAN /\ (~dreamRaced' => ~dreamRaced /\ ~(imports > 0))
    BY <1>1 DEF M!DreamStart
  <2>2. imports' \in Nat /\ (~(imports > 0) => imports' = 1)
    BY <2>1
  <2>3. QED
    BY <2>1, <2>2
<1>2. CASE M!DreamStop
  BY <1>2, ModesAssumed DEF M!DreamStop, M!ModesAssumption
<1>3. ASSUME NEW j \in Jobs, M!CronImported(j) PROVE JobsInv'
  BY <1>3, ModesAssumed DEF M!CronImported, M!ModesAssumption
<1>4. ASSUME NEW j \in Jobs, M!RunDreamCycle(j) PROVE JobsInv'
  BY <1>4 DEF M!RunDreamCycle
<1>5. ASSUME NEW j \in Jobs, M!StageEnds(j) PROVE JobsInv'
  BY <1>5 DEF M!StageEnds
<1>6. QED
  BY <1>1, <1>2, <1>3, <1>4, <1>5 DEF M!DreamNext

LEMMA DreamStep == ASSUME DreamInv, M!DreamNext PROVE DreamInv'
<1> USE DEF DreamInv
<1>1. CASE M!DreamStart \/ M!DreamStop \/ \E j \in Jobs : M!CronImported(j)
  BY <1>1 DEF M!DreamStart, M!DreamStop, M!CronImported
<1>2. ASSUME NEW j \in Jobs, M!RunDreamCycle(j) PROVE DreamInv'
  BY <1>2 DEF M!RunDreamCycle, M!Stages
<1>3. ASSUME NEW j \in Jobs, M!StageEnds(j) PROVE DreamInv'
  <2>1. isRunning /\ dreams = 1 /\ \A k \in Jobs : cycle[k] # "none" <=> k = j
    BY <1>3 DEF M!StageEnds
  <2>2. CASE cycle[j] = "agenda"
    <3>1. cycle' = [cycle EXCEPT ![j] = "none"] /\ ~isRunning' /\ dreams' = dreams - 1
      BY <1>3, <2>2 DEF M!StageEnds
    <3>2. \A k \in Jobs : cycle'[k] = "none"
      BY <2>1, <3>1
    <3>3. dreams' = 0
      BY <2>1, <3>1
    <3>4. cycle' \in [Jobs -> M!Stages]
      BY <3>1 DEF M!Stages
    <3>5. isRunning' = FALSE
      BY <1>3, <2>2 DEF M!StageEnds
    <3>6. QED
      BY <3>2, <3>3, <3>4, <3>5
  <2>3. CASE cycle[j] # "agenda"
    <3>1. PICK next \in {"compress", "agenda"} : cycle' = [cycle EXCEPT ![j] = next]
      BY <1>3, <2>3 DEF M!StageEnds, M!Stages
    <3>2. UNCHANGED <<isRunning, dreams>>
      BY <1>3, <2>3 DEF M!StageEnds
    <3>3. \A k \in Jobs : cycle'[k] # "none" <=> k = j
      BY <2>1, <3>1
    <3>4. QED
      BY <2>1, <3>1, <3>2, <3>3 DEF M!Stages
  <2>4. QED
    BY <2>2, <2>3
<1>4. QED
  BY <1>1, <1>2, <1>3 DEF M!DreamNext

LEMMA AudioStep == ASSUME AudioInv, M!AudioNext PROVE AudioInv'
<1> USE DEF AudioInv, M!Terminate
<1>1. CASE M!DetectActiveMeeting
  BY <1>1 DEF M!DetectActiveMeeting
<1>2. CASE M!StartAudioCapture
  <2>1. /\ asking' = asking + 1 /\ UNCHANGED <<audioProcess, ffmpeg>>
        /\ audioRaced' \in BOOLEAN
        /\ ~audioRaced' => ~audioRaced /\ ~(asking > 0) /\ audioProcess = None
    BY <1>2 DEF M!StartAudioCapture
  <2>2. asking' \in Nat /\ (~(asking > 0) => asking' = 1)
    BY <2>1
  <2>3. QED
    BY <2>1, <2>2
<1>3. CASE M!MeetingStop
  BY <1>3 DEF M!MeetingStop
<1>4. ASSUME NEW j \in Jobs, M!SourcesKnown(j) PROVE AudioInv'
  BY <1>4, ModesAssumed DEF M!SourcesKnown, M!ModesAssumption
<1>5. ASSUME NEW j \in Jobs, M!AudioEnds(j) PROVE AudioInv'
  BY <1>5, ModesAssumed DEF M!AudioEnds, M!ModesAssumption
<1>6. ASSUME NEW j \in Jobs, M!AudioExits(j) PROVE AudioInv'
  BY <1>6 DEF M!AudioExits
<1>7. QED
  BY <1>1, <1>2, <1>3, <1>4, <1>5, <1>6 DEF M!AudioNext

LEMMA DiarizationStep == ASSUME DiarizationInv, M!DiarizationNext PROVE DiarizationInv'
<1> USE DEF DiarizationInv, M!ToldOnce
<1>1. ASSUME NEW j \in Jobs, M!RunSpeakerDiarization(j) PROVE DiarizationInv'
  BY <1>1 DEF M!RunSpeakerDiarization
<1>0. ASSUME NEW j \in Jobs, NEW n \in 0 .. 2, diarization[j] # "done", M!Tell(j, n),
             spawnError \subseteq spawnError', j \in spawnError' \/ n = 1
      PROVE  DiarizationInv'
  <2>1. results[j] + n \in Nat
    BY <1>0
  <2>2. results' \in [Jobs -> Nat] /\ diarization' = [diarization EXCEPT ![j] = "done"]
    BY <1>0, <2>1 DEF M!Tell
  <2>3. ASSUME NEW i \in Jobs \ spawnError'
        PROVE  results'[i] = IF diarization'[i] = "done" THEN 1 ELSE 0
    BY <1>0, <2>3 DEF M!Tell
  <2>4. QED
    BY <2>2, <2>3
<1>2. ASSUME NEW j \in Jobs, M!ProbeEnds(j) PROVE DiarizationInv'
  <2>0. diarization[j] # "done" /\ 1 \in 0 .. 2 /\ 2 \in 0 .. 2
    BY <1>2 DEF M!ProbeEnds
  <2>1. CASE diarization' = [diarization EXCEPT ![j] = "piping"] /\ UNCHANGED <<results, spawnError>>
    BY <1>2, <2>1 DEF M!ProbeEnds
  <2>2. CASE M!Tell(j, 1) /\ UNCHANGED spawnError
    BY <1>0, <2>0, <2>2
  <2>3. CASE M!Tell(j, 2) /\ spawnError' = spawnError \cup {j}
    <3>1. M!Tell(j, 2) /\ spawnError \subseteq spawnError' /\ j \in spawnError'
      BY <2>3
    <3>2. QED
      BY <1>0, <2>0, <3>1
  <2>4. QED
    BY <1>2, <2>1, <2>2, <2>3 DEF M!ProbeEnds
<1>3. ASSUME NEW j \in Jobs, M!PipelineEnds(j) PROVE DiarizationInv'
  <2>1. diarization[j] # "done" /\ 0 \in 0 .. 2 /\ 1 \in 0 .. 2
    BY <1>3 DEF M!PipelineEnds
  <2>2. CASE M!Tell(j, 1) /\ UNCHANGED spawnError
    BY <1>0, <2>1, <2>2
  <2>3. CASE M!Tell(j, 0) /\ spawnError' = spawnError \cup {j}
    <3>1. M!Tell(j, 0) /\ spawnError \subseteq spawnError' /\ j \in spawnError'
      BY <2>3
    <3>2. QED
      BY <1>0, <2>1, <3>1
  <2>4. QED
    BY <1>3, <2>2, <2>3 DEF M!PipelineEnds
<1>4. QED
  BY <1>1, <1>2, <1>3 DEF M!DiarizationNext

LEMMA WatchStep == ASSUME WatchInv, M!CodingNext PROVE WatchInv'
<1> USE DEF WatchInv
<1>1. CASE M!DetectActiveEditor
  BY <1>1 DEF M!DetectActiveEditor
<1>2. CASE M!StopWatching
  BY <1>2 DEF M!StopWatching
<1>3. ASSUME NEW j \in Jobs, M!StartWatching(j) PROVE WatchInv'
  BY <1>3, ModesAssumed DEF M!StartWatching, M!ModesAssumption
<1>4. ASSUME NEW j \in Jobs, M!WatcherReady(j) PROVE WatchInv'
  <2>1. /\ opening' = opening \ {j} /\ watcher' = j /\ UNCHANGED <<native, watchRaced>>
        /\ j \in opening
    BY <1>4 DEF M!WatcherReady
  <2>2. ~watchRaced => opening = {j}
    BY <2>1
  <2>3. QED
    BY <2>1, <2>2, ModesAssumed DEF M!ModesAssumption
<1>5. ASSUME NEW j \in Jobs, M!WatcherBreaks(j) PROVE WatchInv'
  BY <1>5 DEF M!WatcherBreaks
<1>6. QED
  BY <1>1, <1>2, <1>3, <1>4, <1>5 DEF M!CodingNext

LEMMA ModesStep == ModesInv /\ [M!Next]_(M!vars) => ModesInv'
<1> SUFFICES ASSUME ModesInv, [M!Next]_(M!vars) PROVE ModesInv'
  OBVIOUS
<1>1. UNCHANGED M!dreamVars => (JobsInv /\ DreamInv)'
  BY DEF M!dreamVars, ModesInv, JobsInv, DreamInv
<1>2. UNCHANGED M!audioVars => AudioInv'
  BY DEF M!audioVars, ModesInv, AudioInv
<1>3. UNCHANGED M!diarizationVars => DiarizationInv'
  BY DEF M!diarizationVars, ModesInv, DiarizationInv, M!ToldOnce
<1>4. UNCHANGED M!codingVars => WatchInv'
  BY DEF M!codingVars, ModesInv, WatchInv
<1>5. CASE M!DreamMoves
  BY <1>2, <1>3, <1>4, <1>5, JobsStep, DreamStep DEF M!DreamMoves, M!meetingVars, ModesInv
<1>6. CASE M!AudioMoves
  BY <1>1, <1>3, <1>4, <1>6, AudioStep DEF M!AudioMoves, ModesInv
<1>7. CASE M!DiarizationMoves
  BY <1>1, <1>2, <1>4, <1>7, DiarizationStep DEF M!DiarizationMoves, ModesInv
<1>8. CASE M!CodingMoves
  BY <1>1, <1>2, <1>3, <1>8, WatchStep DEF M!CodingMoves, M!meetingVars, ModesInv
<1>9. CASE UNCHANGED M!vars
  BY <1>1, <1>2, <1>3, <1>4, <1>9 DEF M!vars, M!meetingVars, ModesInv
<1>10. QED
  BY <1>5, <1>6, <1>7, <1>8, <1>9 DEF M!Next

LEMMA OneDreamHolds == DreamInv => M!OneDream
<1> SUFFICES ASSUME DreamInv PROVE M!OneDream
  OBVIOUS
<1> DEFINE dreaming == {j \in Jobs : cycle[j] # "none"}
<1>0. M!Cardinality(dreaming) = Cardinality(dreaming)
  BY DEF M!Cardinality, Cardinality
<1>1. CASE ~isRunning
  <2>1. dreaming = {}
    BY <1>1 DEF DreamInv
  <2>2. Cardinality(dreaming) = 0
    BY <2>1, FS_EmptySet
  <2>3. dreams = 0
    BY <1>1 DEF DreamInv
  <2>4. QED
    BY <1>0, <1>1, <2>2, <2>3 DEF M!OneDream
<1>2. CASE isRunning
  <2>1. PICK j \in Jobs : dreaming = {j}
    BY <1>2 DEF DreamInv
  <2>2. Cardinality(dreaming) = 1
    BY <2>1, FS_Singleton
  <2>3. dreams = 1
    BY <1>2 DEF DreamInv
  <2>4. QED
    BY <1>0, <1>2, <2>2, <2>3 DEF M!OneDream
<1>3. QED
  BY <1>1, <1>2

\* The daemons keep hold of what they start, however their starts, stops, awaits and
\* errors fall (screen_capturer.ts, dream_mode.ts, specialized_modes).
THEOREM DaemonsKeepHold == S!SafeSpec /\ M!SafeSpec => []DaemonsInOrder
<1>1. LoopsInv => S!OneLoopInOrder
  BY DEF LoopsInv, S!OneLoopInOrder, S!Live
<1>2. ModesInv => M!NothingLeftRunning /\ M!OneDream /\ M!ToldOnce
  BY OneDreamHolds
     DEF ModesInv, JobsInv, AudioInv, DiarizationInv, WatchInv, M!NothingLeftRunning
<1>3. LoopsInv /\ ModesInv => DaemonsInOrder
  BY <1>1, <1>2 DEF DaemonsInOrder
<1>4. S!SafeSpec => []LoopsInv
  BY LoopsInit, LoopsStep, PTL DEF S!SafeSpec
<1>5. M!SafeSpec => []ModesInv
  BY ModesInit, ModesStep, PTL DEF M!SafeSpec
<1>6. QED
  BY <1>3, <1>4, <1>5, PTL
=============================================================================
