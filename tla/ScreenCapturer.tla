--------------------------- MODULE ScreenCapturer ----------------------------
(***************************************************************************)
(* The screen capturer: class ScreenCapturer of                            *)
(* src/src/main/ingestors/screen_capturer.ts.                              *)
(*                                                                         *)
(* captureLoop awaits a picture of the screen, compares it block by block  *)
(* with the one before and arms a timer for its next turn.  A stop and a   *)
(* start can come during the await: the old loop then goes on beside the   *)
(* new one.  The native module exports none of the names the class looks   *)
(* for, so the capture in JavaScript is the one that is modelled.  main    *)
(* starts the capturer once and stops it when it quits.                    *)
(***************************************************************************)
EXTENDS Integers, Sequences, FiniteSets

CONSTANTS
  Loops,      \* bound: captureLoop going on at once
  Hashes,     \* what calculateBlockHashes makes of a block
  MaxBlocks   \* bound: blocks of a picture

CapturerAssumption ==
  IsFiniteSet(Loops) /\ IsFiniteSet(Hashes) /\ MaxBlocks \in Nat \ {0}

NoLoop == "none"
CapturerNames == NoLoop \notin Loops

\* A picture is the list of the hashes of its blocks; a screen may change its size.
Pictures == UNION {[1 .. n -> Hashes] : n \in 1 .. MaxBlocks}

VARIABLES
  isCapturing,        \* this.isCapturing
  loop,               \* where each captureLoop stands: "idle", "grabbing" or "armed"
  timerId,            \* the loop whose timer this.timerId is, or NoLoop
  prevHashes,         \* this.prevHashes
  lastMutatedBlocks,  \* this.lastMutatedBlocks, the blocks and not their number
  resumed             \* history: startCapture came while a loop was still there

vars == <<isCapturing, loop, timerId, prevHashes, lastMutatedBlocks, resumed>>

TypeOK ==
  /\ isCapturing \in BOOLEAN /\ resumed \in BOOLEAN
  /\ loop \in [Loops -> {"idle", "grabbing", "armed"}]
  /\ timerId \in Loops \cup {NoLoop}
  /\ prevHashes \in Pictures \cup {<<>>}
  /\ lastMutatedBlocks \subseteq 1 .. MaxBlocks

Init ==
  /\ isCapturing = FALSE /\ resumed = FALSE
  /\ loop = [l \in Loops |-> "idle"]
  /\ timerId = NoLoop
  /\ prevHashes = <<>>
  /\ lastMutatedBlocks = {}

-----------------------------------------------------------------------------

Live == {l \in Loops : loop[l] # "idle"}

\* findMutatedBlocks: blocks that are gone do not count.
FindMutatedBlocks(prev, curr) ==
  {i \in 1 .. Len(curr) : i > Len(prev) \/ prev[i] # curr[i]}

StartCapture(l) ==
  /\ ~isCapturing
  /\ loop[l] = "idle"
  /\ isCapturing' = TRUE
  /\ loop' = [loop EXCEPT ![l] = "grabbing"]
  /\ resumed' = (resumed \/ Live # {})
  /\ UNCHANGED <<timerId, prevHashes, lastMutatedBlocks>>

\* clearTimeout ends the loop that waits for this.timerId, and no other.
StopClearsTimer == [l \in Loops |-> IF l = timerId /\ loop[l] = "armed" THEN "idle" ELSE loop[l]]

StopCapture ==
  /\ isCapturing' = FALSE
  /\ loop' = StopClearsTimer
  /\ timerId' = NoLoop
  /\ UNCHANGED <<prevHashes, lastMutatedBlocks, resumed>>

\* A bug: the loop arms its timer whether or not the capturer was stopped.
ArmsAlways(l) == TRUE

\* The finally of captureLoop.
Arms(l) == isCapturing

Rearm(l) ==
  /\ loop' = [loop EXCEPT ![l] = IF Arms(l) THEN "armed" ELSE "idle"]
  /\ timerId' = IF Arms(l) THEN l ELSE timerId

\* A picture has come: it is compared and kept also by a loop that was stopped.
Grabbed(l) ==
  /\ loop[l] = "grabbing"
  /\ \E curr \in Pictures :
       /\ lastMutatedBlocks' = FindMutatedBlocks(prevHashes, curr)
       /\ prevHashes' = curr
  /\ Rearm(l)
  /\ UNCHANGED <<isCapturing, resumed>>

\* No picture: no source, an empty thumbnail, or an exception.
GrabFails(l) ==
  /\ loop[l] = "grabbing"
  /\ Rearm(l)
  /\ UNCHANGED <<isCapturing, prevHashes, lastMutatedBlocks, resumed>>

\* The timer of a loop: captureLoop, to its await or its first return.
TimerFires(l) ==
  /\ loop[l] = "armed"
  /\ loop' = [loop EXCEPT ![l] = IF isCapturing THEN "grabbing" ELSE "idle"]
  /\ UNCHANGED <<isCapturing, timerId, prevHashes, lastMutatedBlocks, resumed>>

Next ==
  \/ StopCapture
  \/ \E l \in Loops : StartCapture(l) \/ Grabbed(l) \/ GrabFails(l) \/ TimerFires(l)

SafeSpec == Init /\ [][Next]_vars

-----------------------------------------------------------------------------

\* As long as no start comes while a loop of before is still there, the screen is
\* captured by one loop, a capturer that is on has that loop, and a capturer that is
\* off has at most the turn that was going on, with no timer behind it.
OneLoopInOrder ==
  ~resumed =>
    /\ \A k, l \in Live : k = l
    /\ isCapturing => \E l \in Live : loop[l] = "armed" => timerId = l
    /\ ~isCapturing => \A l \in Live : loop[l] = "grabbing"
=============================================================================
