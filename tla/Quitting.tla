------------------------------ MODULE Quitting -------------------------------
(***************************************************************************)
(* How the app ends: shutdownServices, the will-quit handler and the       *)
(* signal handlers of main.ts, composed with the memory, which the         *)
(* teardown saves last.  The awaits of the teardown (live coding, the      *)
(* orchestrator, two databases) are one, which may hang.  When the         *)
(* will-quit handler's race is decided the app exits before anything else  *)
(* can happen.  app.quit closes the windows first, so its will-quit may    *)
(* come later; a will-quit whose default nobody prevents ends the app.     *)
(***************************************************************************)
EXTENDS MemoryEngine

CONSTANT MaxBoots  \* bound: starts of the app

ASSUME BootsAssumption == MaxBoots \in Nat

VARIABLES
  running,           \* the process exists
  servicesShutdown,  \* shutdownServices was called
  teardown,          \* it is under way
  asked,             \* a signal called app.quit, whose will-quit is still to come
  shutdownStarted,   \* will-quit awaits the teardown
  boots,             \* starts so far
  hurried,           \* history: a signal came, or the time limit before the teardown's end
  lost               \* history: the app exited with memories that were not in the file

quit == <<running, servicesShutdown, teardown, asked, shutdownStarted, boots>>
vars == <<mvars, quit, hurried, lost>>

TypeOK ==
  /\ MTypeOK
  /\ {running, servicesShutdown, teardown, asked, shutdownStarted} \subseteq BOOLEAN
  /\ boots \in 0 .. MaxBoots
  /\ hurried \in BOOLEAN /\ lost \in BOOLEAN

Init ==
  /\ MInit
  /\ running = FALSE /\ servicesShutdown = FALSE
  /\ teardown = FALSE /\ asked = FALSE /\ shutdownStarted = FALSE
  /\ boots = 0 /\ hurried = FALSE /\ lost = FALSE

Boot ==
  /\ ~running /\ boots < MaxBoots
  /\ boots' = boots + 1
  /\ running' = TRUE
  /\ servicesShutdown' = FALSE
  /\ teardown' = FALSE /\ asked' = FALSE /\ shutdownStarted' = FALSE
  /\ Load
  /\ UNCHANGED <<hurried, lost>>

Remembers ==
  /\ running
  /\ MemoryStep
  /\ UNCHANGED <<quit, hurried, lost>>

\* SIGINT, SIGTERM: the teardown begins if it has not, then app.quit.
Signal ==
  /\ running
  /\ servicesShutdown' = TRUE
  /\ teardown' = (teardown \/ ~servicesShutdown)
  /\ asked' = TRUE
  /\ hurried' = TRUE
  /\ UNCHANGED <<mvars, running, shutdownStarted, boots, lost>>

\* app.exit, with what is in the file by then.
Exit(saved) ==
  /\ running' = FALSE
  /\ lost' = (lost \/ Memory # saved)
  /\ Gone

\* will-quit, by the tray (which the teardown destroys) or after a signal: the first one
\* prevents the default quit and awaits the teardown if it begins here; after a signal its
\* own call returns at once.  A second one, by a signal during the teardown, returns
\* without preventing anything: the app ends.
WillQuit ==
  /\ running /\ (asked \/ ~servicesShutdown)
  /\ asked' = FALSE
  /\ shutdownStarted' = TRUE
  /\ servicesShutdown' = TRUE
  /\ \/ /\ ~servicesShutdown
        /\ teardown' = TRUE
        /\ UNCHANGED <<volatile, running, lost>>
     \/ /\ servicesShutdown
        /\ Exit(file)
        /\ UNCHANGED teardown
  /\ UNCHANGED <<boots, file, stored, edits, faults, history, hurried>>

\* Bug: the memory is left to its timer.
NotSaved ==
  /\ running /\ teardown
  /\ teardown' = FALSE
  /\ IF shutdownStarted THEN Exit(file) ELSE UNCHANGED <<volatile, running, lost>>
  /\ UNCHANGED <<servicesShutdown, asked, shutdownStarted, boots, stored, edits,
                 file, faults, history, hurried>>

\* The end of shutdownServices: the memory is written; the app exits if will-quit awaits it.
TeardownEnds ==
  /\ running /\ teardown
  /\ teardown' = FALSE
  /\ \/ file' = Memory /\ UNCHANGED faults
     \/ faults < MaxFaults /\ faults' = faults + 1 /\ file' \in {file, Empty}
  /\ savedEarly' = (savedEarly \/ embeds # {} \/ merging # <<>>)
  /\ \/ /\ shutdownStarted
        /\ Exit(file')
     \/ /\ ~shutdownStarted
        /\ saveTimer' = FALSE
        /\ UNCHANGED <<entries, vectors, identity, stores, embeds, merging, shared, running, lost>>
  /\ UNCHANGED <<servicesShutdown, asked, shutdownStarted, boots, stored, edits,
                 raced, edited, revived, crossed, hurried>>

\* Three seconds after will-quit.
TimeLimit ==
  /\ running /\ shutdownStarted
  /\ hurried' = TRUE
  /\ Exit(file)
  /\ UNCHANGED <<servicesShutdown, teardown, asked, shutdownStarted, boots,
                 file, stored, edits, faults, history>>

\* The process is killed, perhaps while it writes the file.
Crash ==
  /\ running
  /\ running' = FALSE
  /\ Gone
  /\ \/ UNCHANGED file
     \/ saveTimer /\ file' = Empty
  /\ UNCHANGED <<servicesShutdown, teardown, asked, shutdownStarted, boots,
                 stored, edits, faults, history, hurried, lost>>

Next ==
  \/ Boot \/ Remembers \/ Signal \/ WillQuit
  \/ TeardownEnds \/ TimeLimit \/ Crash

Spec == Init /\ [][Next]_vars

-----------------------------------------------------------------------------

\* What is remembered is in the file, or will be: a save is planned or the loop that
\* ends with one is under way, unless a write failed; vectors too, unless the file was
\* written during an embedding.
SavedOrPlanned ==
  running /\ faults = 0 =>
    \/ saveTimer \/ merging # <<>>
    \/ /\ file.entries = entries /\ file.identity = identity
       /\ savedEarly \/ file.vectors = vectors

\* The tray's quit saves every memory, however embeddings, saves and the teardown
\* interleave, unless a write failed, the time limit cut the teardown short, or a signal
\* came, whose will-quit ends the app whether or not a teardown is under way.
QuitSaves == lost => hurried \/ faults > 0

\* What is remembered reaches the file, by a planned save or by the quit.
SavesInOrder == SavedOrPlanned /\ QuitSaves

=============================================================================
