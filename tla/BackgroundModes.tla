--------------------------- MODULE BackgroundModes ---------------------------
(***************************************************************************)
(* What runs beside the conversation: DreamMode of                         *)
(* src/src/main/services/dream_mode.ts, and MeetingMode and LiveCodingMode *)
(* of src/src/main/services/specialized_modes.  Each holds on to one thing *)
(* that it started - a cron job, an ffmpeg process, a file watcher - and   *)
(* starts it behind an await, during which it can be started again or      *)
(* stopped.  They share no state.                                          *)
(***************************************************************************)
EXTENDS Integers, FiniteSets

CONSTANTS
  Jobs,      \* bound: what each mode has started in one behaviour
  NoJob

ModesAssumption == IsFiniteSet(Jobs) /\ NoJob \notin Jobs

VARIABLES
  \* DreamMode
  cronJob,     \* this.cronJob, or NoJob
  cron,        \* each job of node-cron: "unborn", "scheduled" or "stopped"
  imports,     \* imports of node-cron that start() waits for
  isRunning,   \* this.isRunning
  cycle,       \* the turn each job's cycle is at: "none", or the stage it awaits
  dreams,      \* history: dream-start events not yet followed by dream-complete
  dreamRaced,  \* history: a start or stop came while an import was awaited
  \* MeetingMode
  active,      \* this.active, with this.currentApp and currentTitle
  audioProcess,\* this.audioProcess, or NoJob
  ffmpeg,      \* each process: "unborn", "failed", "running", "terminated", "dead", "closed"
  asking,      \* calls of startAudioCapture that await getSources
  audioRaced,  \* history: a start came when there was one already, or a stop in its await
  diarization, \* each run: "none", "probing", "piping" or "done"
  results,     \* history: events that results of each run's result
  spawnError,  \* history: the interpreter could not be spawned for a run
  \* LiveCodingMode
  activeEditor,\* this.activeEditor is not empty
  watcher,     \* this.watcher, or NoJob
  native,      \* each fs.watch: "unborn", "watching", "broken", "closed"
  opening,     \* watchers that startWatching awaits
  watchRaced   \* history: a start or stop came while a watcher was awaited

dreamVars == <<cronJob, cron, imports, isRunning, cycle, dreams, dreamRaced>>
audioVars == <<active, audioProcess, ffmpeg, asking, audioRaced>>
diarizationVars == <<diarization, results, spawnError>>
meetingVars == <<audioVars, diarizationVars>>
codingVars == <<activeEditor, watcher, native, opening, watchRaced>>
vars == <<dreamVars, meetingVars, codingVars>>

Stages == {"none", "cluster", "compress", "agenda"}

TypeOK ==
  /\ {cronJob, audioProcess, watcher} \subseteq Jobs \cup {NoJob}
  /\ cron \in [Jobs -> {"unborn", "scheduled", "stopped"}]
  /\ imports \in 0 .. Cardinality(Jobs) /\ asking \in 0 .. Cardinality(Jobs)
  /\ {isRunning, active, activeEditor} \subseteq BOOLEAN
  /\ cycle \in [Jobs -> Stages]
  /\ dreams \in Nat
  /\ ffmpeg \in [Jobs -> {"unborn", "failed", "running", "terminated", "dead", "closed"}]
  /\ diarization \in [Jobs -> {"none", "probing", "piping", "done"}]
  /\ results \in [Jobs -> 0 .. 2]
  /\ spawnError \subseteq Jobs
  /\ native \in [Jobs -> {"unborn", "watching", "broken", "closed"}]
  /\ opening \subseteq Jobs
  /\ {dreamRaced, audioRaced, watchRaced} \subseteq BOOLEAN

Init ==
  /\ cronJob = NoJob /\ audioProcess = NoJob /\ watcher = NoJob
  /\ cron = [j \in Jobs |-> "unborn"]
  /\ ffmpeg = [j \in Jobs |-> "unborn"]
  /\ native = [j \in Jobs |-> "unborn"]
  /\ imports = 0 /\ asking = 0 /\ opening = {}
  /\ isRunning = FALSE /\ active = FALSE /\ activeEditor = FALSE
  /\ diarization = [j \in Jobs |-> "none"]
  /\ results = [j \in Jobs |-> 0]
  /\ spawnError = {}
  /\ cycle = [j \in Jobs |-> "none"]
  /\ dreams = 0
  /\ dreamRaced = FALSE /\ audioRaced = FALSE /\ watchRaced = FALSE

Born(state) == {j \in Jobs : state[j] # "unborn"}

\* Each start that waits has a job left to make.
HasRoom(state, waiting) == Cardinality(Born(state)) + waiting < Cardinality(Jobs)

-----------------------------------------------------------------------------
(* DreamMode.                                                              *)

DreamStart ==
  /\ cronJob = NoJob
  /\ HasRoom(cron, imports)
  /\ imports' = imports + 1
  /\ dreamRaced' = (dreamRaced \/ imports > 0)
  /\ UNCHANGED <<cronJob, cron, isRunning, cycle, dreams>>

\* The import has come, or failed; what was done meanwhile is not looked at.
CronImported(j) ==
  /\ imports > 0
  /\ imports' = imports - 1
  /\ \/ /\ cron[j] = "unborn"
        /\ cron' = [cron EXCEPT ![j] = "scheduled"]
        /\ cronJob' = j
     \/ UNCHANGED <<cron, cronJob>>
  /\ UNCHANGED <<isRunning, cycle, dreams, dreamRaced>>

DreamStop ==
  /\ cron' = [j \in Jobs |-> IF j = cronJob THEN "stopped" ELSE cron[j]]
  /\ cronJob' = NoJob
  /\ dreamRaced' = (dreamRaced \/ imports > 0)
  /\ UNCHANGED <<imports, isRunning, cycle, dreams>>

\* The hour of a job has come: runDreamCycle, to its first await.
RunDreamCycle(j) ==
  /\ cron[j] = "scheduled"
  /\ ~isRunning
  /\ cycle[j] = "none"
  /\ isRunning' = TRUE
  /\ cycle' = [cycle EXCEPT ![j] = "cluster"]
  /\ dreams' = dreams + 1
  /\ UNCHANGED <<cronJob, cron, imports, dreamRaced>>

\* A stage ends, with an error or without: the first two keep theirs to themselves,
\* and dream-complete is sent whatever the third one did.
StageEnds(j) ==
  /\ cycle[j] # "none"
  /\ cycle' = [cycle EXCEPT ![j] = CASE @ = "cluster" -> "compress"
                                     [] @ = "compress" -> "agenda"
                                     [] @ = "agenda" -> "none"]
  /\ IF cycle[j] = "agenda"
       THEN isRunning' = FALSE /\ dreams' = dreams - 1
       ELSE UNCHANGED <<isRunning, dreams>>
  /\ UNCHANGED <<cronJob, cron, imports, dreamRaced>>

DreamNext ==
  \/ DreamStart \/ DreamStop
  \/ \E j \in Jobs : CronImported(j) \/ RunDreamCycle(j) \/ StageEnds(j)

-----------------------------------------------------------------------------
(* MeetingMode.                                                            *)

\* detectActiveMeeting, when the windows are known.
DetectActiveMeeting ==
  /\ active' \in BOOLEAN
  /\ UNCHANGED <<audioProcess, ffmpeg, asking, audioRaced>>

StartAudioCapture ==
  /\ HasRoom(ffmpeg, asking)
  /\ asking' = asking + 1
  /\ audioRaced' = (audioRaced \/ asking > 0 \/ audioProcess # NoJob)
  /\ UNCHANGED <<active, audioProcess, ffmpeg>>

\* The sources are known, and there are some: ffmpeg is spawned, or cannot be.
SourcesKnown(j) ==
  /\ asking > 0
  /\ asking' = asking - 1
  /\ \/ /\ ffmpeg[j] = "unborn"
        /\ \E born \in {"running", "failed"} : ffmpeg' = [ffmpeg EXCEPT ![j] = born]
        /\ audioProcess' = j
     \/ UNCHANGED <<ffmpeg, audioProcess>>
  /\ UNCHANGED <<active, audioRaced>>

\* cleanupAudioProcess sends SIGTERM to the current process.
Terminate(procs) ==
  [j \in Jobs |-> IF j = audioProcess /\ procs[j] = "running" THEN "terminated" ELSE procs[j]]

\* 'error', or 'close': whichever process it comes from, the current one is cleaned up.
AudioEnds(j) ==
  /\ ffmpeg[j] \in {"failed", "dead"}
  /\ ffmpeg' = Terminate([ffmpeg EXCEPT ![j] = "closed"])
  /\ audioProcess' = NoJob
  /\ UNCHANGED <<active, asking, audioRaced>>

MeetingStop ==
  /\ active' = FALSE
  /\ ffmpeg' = Terminate(ffmpeg)
  /\ audioProcess' = NoJob
  /\ audioRaced' = (audioRaced \/ asking > 0)
  /\ UNCHANGED asking

\* ffmpeg exits, by the signal or on its own.
AudioExits(j) ==
  /\ ffmpeg[j] \in {"running", "terminated"}
  /\ ffmpeg' = [ffmpeg EXCEPT ![j] = "dead"]
  /\ UNCHANGED <<active, audioProcess, asking, audioRaced>>

AudioNext ==
  \/ DetectActiveMeeting \/ StartAudioCapture \/ MeetingStop
  \/ \E j \in Jobs : SourcesKnown(j) \/ AudioEnds(j) \/ AudioExits(j)

\* The probe of pyannote is spawned.
RunSpeakerDiarization(j) ==
  /\ diarization[j] = "none"
  /\ diarization' = [diarization EXCEPT ![j] = "probing"]
  /\ UNCHANGED <<results, spawnError>>

Tell(j, events) ==
  /\ diarization' = [diarization EXCEPT ![j] = "done"]
  /\ results' = [results EXCEPT ![j] = @ + events]

ProbeEnds(j) ==
  /\ diarization[j] = "probing"
  /\ \/ /\ diarization' = [diarization EXCEPT ![j] = "piping"]
        /\ UNCHANGED <<results, spawnError>>
     \/ Tell(j, 1) /\ UNCHANGED spawnError
     \* No interpreter: 'error' tells of it, and so does the 'close' that follows.
     \/ Tell(j, 2) /\ spawnError' = spawnError \cup {j}

PipelineEnds(j) ==
  /\ diarization[j] = "piping"
  /\ \/ Tell(j, 1) /\ UNCHANGED spawnError
     \* 'error' has no listener: it is an uncaught exception, and no 'close' follows.
     \/ Tell(j, 0) /\ spawnError' = spawnError \cup {j}

DiarizationNext ==
  \E j \in Jobs : RunSpeakerDiarization(j) \/ ProbeEnds(j) \/ PipelineEnds(j)

-----------------------------------------------------------------------------
(* LiveCodingMode.                                                         *)

\* detectActiveEditor, when the windows are known.
DetectActiveEditor ==
  /\ activeEditor' \in BOOLEAN
  /\ UNCHANGED <<watcher, native, opening, watchRaced>>

\* startWatching, to its await: fs.watch is there, or has thrown and nothing changes.
StartWatching(j) ==
  /\ watcher = NoJob
  /\ native[j] = "unborn"
  /\ native' = [native EXCEPT ![j] = "watching"]
  /\ opening' = opening \cup {j}
  /\ watchRaced' = (watchRaced \/ opening # {})
  /\ UNCHANGED <<activeEditor, watcher>>

WatcherReady(j) ==
  /\ j \in opening
  /\ opening' = opening \ {j}
  /\ watcher' = j
  /\ UNCHANGED <<activeEditor, native, watchRaced>>

\* 'error': the handle is closed; the mode logs it and keeps the watcher.
WatcherBreaks(j) ==
  /\ native[j] = "watching"
  /\ native' = [native EXCEPT ![j] = "broken"]
  /\ UNCHANGED <<activeEditor, watcher, opening, watchRaced>>

StopWatching ==
  /\ native' = [j \in Jobs |-> IF j = watcher THEN "closed" ELSE native[j]]
  /\ watcher' = NoJob
  /\ watchRaced' = (watchRaced \/ opening # {})
  /\ UNCHANGED <<activeEditor, opening>>

CodingNext ==
  \/ DetectActiveEditor \/ StopWatching
  \/ \E j \in Jobs : StartWatching(j) \/ WatcherReady(j) \/ WatcherBreaks(j)

-----------------------------------------------------------------------------

DreamMoves == DreamNext /\ UNCHANGED <<meetingVars, codingVars>>
AudioMoves == AudioNext /\ UNCHANGED <<dreamVars, diarizationVars, codingVars>>
DiarizationMoves == DiarizationNext /\ UNCHANGED <<dreamVars, audioVars, codingVars>>
CodingMoves == CodingNext /\ UNCHANGED <<dreamVars, meetingVars>>

Next == DreamMoves \/ AudioMoves \/ DiarizationMoves \/ CodingMoves

SafeSpec == Init /\ [][Next]_vars

\* Nothing that a mode started is out of its hands, as long as no start or stop comes
\* during the await of another start: jobs of cron, recorders and watchers that go on
\* are the ones the mode would stop.
NothingLeftRunning ==
  /\ ~dreamRaced => \A j \in Jobs : cron[j] = "scheduled" => j = cronJob
  /\ ~audioRaced => \A j \in Jobs : ffmpeg[j] = "running" => j = audioProcess
  /\ ~watchRaced => \A j \in Jobs : native[j] = "watching" => j = watcher \/ j \in opening

\* Whatever jobs are scheduled, one dream goes on at a time, and each dream-start is
\* followed by its dream-complete before the next one.
OneDream ==
  /\ Cardinality({j \in Jobs : cycle[j] # "none"}) = dreams
  /\ dreams <= 1
  /\ isRunning <=> dreams = 1

\* Each run of the diarization tells of its result once, if Python can be spawned.
ToldOnce ==
  \A j \in Jobs \ spawnError : results[j] = IF diarization[j] = "done" THEN 1 ELSE 0
=============================================================================
