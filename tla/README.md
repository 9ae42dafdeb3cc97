# TLA+ specifications of NOVA

NOVA is a desktop assistant: an Electron main process (TypeScript, `src/src/main`), a renderer, a
persistent Python worker (`src/python/nova_runtime`) and a Node worker process in which generated
tools run. `src/New Backend` is a second main process with the same duties, which the app does not
load but whose own adapter and tests do. These modules model the parts in which concurrency,
failure and order decide whether the program is correct.

Check a run with `tlc -config MCX.cfg MCX`, the proofs with `tlapm XProofs.tla` for each of the
eight modules whose name ends so.

## 1. Inventory

Files are below `src/src/main/services/` unless they say otherwise. "Hard" is what a test hardly
reaches; "correct when" names the properties of section 3.

| Component | State | Operations | Hard | Correct when |
|---|---|---|---|---|
| Sandbox bridge (`tool_executor.ts`, class SandboxWorker) and worker (`sandbox_worker.ts`) | `child`, `stdoutBuffer`, `pending`, wall-clock timers | `run`, `ensureSpawned`, `onWorkerData`, `killWorker`, `failPending`, `shutdown`, `'error'`, `'close'` | exit code seen before `close`, stale events, timers that outlive their worker, lines read in pieces | NoOrphanWorker, RunawaysDie, ImplementsToolCalls; proved besides: AbandonedWorkIsGone, AnswersAreGenuine, NoLostPromise, ShutdownIsFinal |
| Python bridge (`python_runtime.ts`) and loop (`runtime/worker.py`) | `child`, `starting`, `stopped`, `stopping`, restart timer, calls | `request`, `startWorker`, `scheduleRestart`, `stopWorker`, data, `'error'`, `'close'` | a shared lazy start with an await in it, restarts, a stop during a start, late `close` | OneWorkerInOrder, StopInOrder, EveryCallSettles |
| Tool forge (`tool_forge.ts`, `services/forge.py`) | a job per forge, the tools directory, forged tools | `forgeTool`, `writeArtifacts`, `forge.test`, `forge.run`, hydration | files shared by jobs between test and use, restart in the middle | RecordIsTested, ProductionRunsTested (violated) |
| Tool registry and store (`tool_registry.ts`, `tool_store.ts`), start-up (`autonomous_execution_engine.ts` 168-219), declarations (`agent_orchestrator.ts`) | tools with versions and counts, the file or table, the directories of forged tools, the declarations | `register`, `publishVersion`, `rollback`, `setEnabled`, `remove`, `recordExecution`, migration, hydration, start-up | write errors that are only logged or thrown half-way, files overwritten in place, directories that outlive their tool, changes that no listener hears of | RecordsAreExact (VersionsGoBack), RestartRestores, DeclarationsFollow |
| Tool builder and executor (`tool_builder.ts`, `tool_executor.ts`) | build queue, pending approval, executions under way | `ensureCapability`, `requestApproval`, `execute`, `executeDefinition`, `generate_tool` | clicks that name no build, an approval that expires, a build behind itself, a record that throws | RecordsAreExact (RunsAreCountedOnce), ConsentIsMeant, EveryBuildSettles |
| Execution engine (`autonomous_execution_engine.ts`, `task_runner.ts`) | plan, step, attempt, results of each task | `run`, `plan`, `ensureTool`, verification | overlapping tasks, three attempts of a step that may have acted, tools switched off meanwhile | TracesAreTrue (ClaimsAreBacked, TraceNamesTheTool) |
| Providers (`ai_provider.ts`, `task_router.ts`) and typed requests (`src/src/main/main.ts` 1281-1419) | prompts, the tokens collected for each | `complete`, `streamLiveText`, routing, TRIGGER_AUTOMATION | prompts share one session, whose tokens name none | AnswersAreOwn, SynthesisIsGroqs (violated) |
| Gemini Live bridge (`gemini_live_bridge.ts`) | `ws`, `connected`, `sessionReady`, `intentionalClose`, two timers, two transcripts | `connectStream`, socket events, server messages, heartbeat, sends, `disconnectStream` | losses that say nothing, one timer for several losses, flags that outlive a socket | SessionInOrder (OneSession, DownMeansPlanned, FlagsInOrder), SilenceIsNoticed |
| Voice turn (`src/src/main/main.ts` 475-614, 648 ff.) | `voiceTurnHandledByToolCall` | `tool-call`, `interaction-complete`, Whisper `final`, typed text | two recognisers of one turn, a flag shared by consecutive turns, sessions lost within a turn | SpokenRequestsExecuteInOrder, ExecutesOnceInOrder |
| Local transcription (`whisper_live_bridge.ts`, `services/whisper.py`) | `pending`, `flushing`, `queuedEnd`; the worker's audio | `pushAudio`, `endSpeech`, `flush`, `reset`; `whisper.audio`, `whisper.reset` | speech during a decode, requests that time out and are still carried out, a worker that dies with its audio | HeardInOrder (WordsAreHeardOnce, FinalsAreUtterances), EndsAreHeard |
| Microphone (`mic_manager.ts`, `audio_recorder.ts`, `src/src/App.tsx`) | recorder's stream and taps, reports under way, the manager's state and chip | capture at boot, toggle, `discover`, `runDiagnostic`, reports | two starts that both await the device, answers older than a report | OffReleasesTheDevice, ListeningIsCapture |
| Voice activity (`src/src/App.tsx`, `voice_processor.ts`) | the HUD's voice state, two silence timers, the answer that plays | frames, reports, `speaking-end`, flush, barge-in | which event leaves SPEAKING, a hold that runs out as speech goes on | EndsFollowSilence, SpeechIsHeard (violated) |
| Long-term memory (`memory_engine.ts`) | entries, vectors, identity, save timer, file | `store`, `forget*`, `updateMemory`, `consolidate`, `confirm`, `prune`, `persist`, `init` | what changes during an embedding, a text longer than an entry, a debounce that loses what comes before the end, a torn file | MemoryIsConsistent (IndexMatches, RememberedOnce) |
| Quitting (`src/src/main/main.ts` 1491-1548) | `servicesShutdown`, `shutdownStarted` | will-quit, SIGINT, SIGTERM, the time limit | the second request returns at once, and lets the default quit go on | SavesInOrder (SavedOrPlanned, QuitSaves) |
| Context engine (`context_engine.ts`) | the PowerShell session, the query in flight, its timer | `start`, `stop`, `poll`, output, exit | the timer of a query that ended acts on the next | OnePowerShell, PollsGoOn |
| Runtime state (`runtime_state.ts`, `main.ts`), the HUD's copy (`App.tsx`) and the bridge's `connectionState` (`gemini_live_bridge.ts`) | boot steps, chips, a delayed broadcast; the socket | steps of boot, chips, snapshots, connect, drop, redial | a window that mounts between one-shot broadcasts, a socket that goes and nobody is told | StatusIsTrue (ShownIsCurrent, GeminiChipIsTrue) |
| Desktop tools (`builtin_tools.ts`, `services/automation.py`, `windows.py`) | requests to the worker, keys held down | keys, chords, typing, clicks, drags, windows, files, URLs | sends of which only a part is taken, a worker that dies between the last send and its answer, timeouts and retries | HandsInOrder (NothingHeldInOrder, ActsOnceInOrder), SuccessIsReal, UndisturbedClicks (violated) |
| Workspace (`workspace_manager.ts`) | surfaces, their file | `open`, `update`, `close`, `hydrate` | a file overwritten in place, a cap | RestartShowsTheSame |
| Screen capturer (`src/src/main/ingestors/screen_capturer.ts`) | `isCapturing`, `timerId`, the last picture | `startCapture`, `stopCapture`, `captureLoop` | a stop and a start during the await of a picture leave two loops | DaemonsInOrder (OneLoopInOrder) |
| Modes (`dream_mode.ts`, `specialized_modes/`) | a cron job, an ffmpeg process, a file watcher | start, stop, cycle, diarization | each starts its thing behind an await, during which it may be started again or stopped | DaemonsInOrder (NothingLeftRunning, OneDream, ToldOnce) |
| Audit trail (`audit_logger.ts`) | `queue`, `flushTimer`, the store | `record`, `flush`, `recent`, `close` | three things write the queue; a batch that cannot be written is dropped | TrailIsSound |
| Upgrades and trials (`src/src/main/adam/`, `src/New Backend/src/upgrades/`) | proposals and their file, the trial manager's state | propose, build, start, accept, keep, health checks, shutdown | a check that answers after its trial, a trial of a proposal that was not ready | TrialsAreSound (TriedWasValidated, VerdictsAgree) |
| New Backend's agent (`NovaAgent.ts`, `execution_ledger.ts`, `index.ts`) | turns, the ledger and its file, the pause of maintenance | `handleRequest`, `handleEnvelope`, `run`, `shutdown`, `start` | a repeated envelope, writes that throw, turns that overlap | ExecutedOnceInOrder, AnswersAreRecorded, PausedInTurns |
| New Backend's forge (`forge/`, `tools/tool_library.ts`, `NovaAgent.ts`) | jobs, the library and its file, directories, the cache of a process | `executeStep`, `forge`, repair, hydration | forgings of one id, forgings cut off, a library written at the end only | LibraryIsSound (ToolsAreTested, OneToolPerName), ForgedOnce |
| New Backend's maintenance (`maintenance/`) | findings, health, repairs under way, staging | scan, `repairTool`, its attempts, errors | repairs beside scans, requests and a pause | StagedIsTested |

Interaction: the renderer talks to main by IPC (audio, reports of the microphone, requests,
approvals). main hands audio to Gemini and, once the model is warm, to the Whisper bridge, which
like most services calls the Python bridge. A spoken or typed request goes to a task of the
execution engine, which finds or forges tools in the registry and executes them through the tool
executor, in the sandbox worker or in the Python worker. Plans, designs and verdicts are prompts
to a provider; Gemini as a provider is the session in which the user talks. Gemini calls tools by
the declarations it got in its setup frame. Outcomes are stored in the memory; the teardown saves
it last. What the services report of themselves goes through the runtime state.

The remaining components are listed with a reason in `PROJECT.json`; see section 6.

## 2. Modules

```
ToolCalls     <--implemented by--  SandboxBridge
ToolRegistry  <--EXTENDS--  ToolBuilder        MicCapture    <--EXTENDS--  Microphone
GeminiBridge  <--EXTENDS--  VoiceTurn          MemoryEngine  <--EXTENDS--  Quitting

MC module      composes                                              proved about in
MCBridges      SandboxBridge | PythonBridge                          BridgesProofs
MCForging      ToolForge | TaskRuns | LiveGeneration                 ForgingProofs
MCVoiceTurn    VoiceTurn                                             VoiceTurnProofs
MCToolBuilder  ToolBuilder                                           ToolBuilderProofs
MCHearing      WhisperBridge | Microphone | VoiceActivity            HearingProofs
MCNewBackend   BackendForge | BackendTurns | UpgradeTrial
               | SelfMaintenance                                     NewBackendProofs
MCQuitting     Quitting                                              MemoryProofs
MCDesktop      DesktopTools | ContextEngine | RuntimeStatus
               | WorkspaceManager | ScreenCapturer | BackgroundModes
               | AuditLogger                                         DesktopProofs
```

An extending module composes two parts that interact: an action of it says what both do. The five
MC modules with a `|` check neighbours that share no modelled state in one run: a variable
`focus`, drawn at the start, says which of them moves, so that the states are the sum and not the
product of theirs. The other MC modules only give the constants values. Each proof module EXTENDS
the MC module of its run (VoiceTurnProofs the component itself), so that the property a theorem is
about is the very definition the run checks. That costs no generality: the constants of an MC
module get their values from the cfg only, so that they are arbitrary in a proof, and a theorem is
about the component's own specification (`P!Spec`, say), not about the composition under `focus`.
A definition under a "Bug" comment is not part of the model; it is what a plausible mistake would
make of the next definition, and the run must then fail. A property that is a conjunction of named
parts has a bug for each part; `PROJECT.json` names one of them.

**ToolCalls** promises, without processes: a call is accepted or refused, and an accepted call is
answered, expires, or fails with the worker or at the end, exactly once.

**SandboxBridge**. A request and the worker that would be spawned for it share a number. A worker
is `unborn`, `running`, `dead` (ended, host not told), `exited` (exit code set, `close` not
emitted), `failed` (no such program) or `closed`. Between `exited` and `closed` `ensureSpawned`
may replace a worker whose `close` is still to come. A response is written in two chunks, so that
a worker can die between them and the host can read half a line. Deadlines are equal, so timers
fire in the order they were armed (`Due`).

**PythonBridge**. The same kinds of process states. A start awaits the interpreter probe:
`starting` holds between `Request`, `RestartFires` and `StartSucceeds` or `StartFails`, and a stop
may come in between. `lateClose` and `stopInStart` record the two orders in which the code's
guarantees are lost.

**ToolForge**. A design is the pair (forge, repairs before it); its source, tests and manifest are
written together. Each await of `forgeTool` is a phase. `files` is the directory of each technical
id, which forges of one id share; `registry` holds the source put on record. `met` records how
production can come to hold an untested design: `collision` (over the files of a running forge),
`overwrite` (over a registered tool's), `hydrated`.

**ToolRegistry** has the cache, the two stores (a JSON file that is overwritten in place and may
be torn; a table of which one row is written, which throws when it fails), the declarations of the
orchestrator and of the session. `unsaved` are the tools whose last write failed. `dirs` is the
design in each directory below the tools root; a start migrates the legacy manifest, registers
the designs of which the registry has no tool (under new ids, in any order of the directories)
and then the built-in tools. `untold` are the names of tools that were switched or removed, or
whose table write threw, since the declarations were rebuilt.
**ToolBuilder** adds executions (slots that hold what was found when the execution began) and the
build queue: find, generate, forge or validate, ask, register, run once. A forging writes its
directory before it asks for anything else, whether or not it succeeds.

**TaskRuns**. A task's steps are drawn when they are reached. `tool` is what the attempt found,
`final` what the attempts left so far; forging and executing are awaits during which other tasks
run and the user switches tools.

**GeminiBridge**. Sockets are numbered as they are made; `attached` are those with handlers,
`mute` those whose peer is gone and has said nothing. `torn` records that the bridge has dropped a
socket itself and so kept `connected` and `sessionReady` of a session that is over. A transcript
is the set of turns it has words of, which is how words of a lost session show up in the next.
**VoiceTurn** adds main.ts: the tools of a tool call run while the session goes on (`ToolsDone`),
and Whisper's text of a turn may come at any time during or after the turn. `carried` records that
a turn ended without its `interaction-complete`, `overtaken` that Whisper's text of a turn which
Gemini had begun was routed. (Here Whisper is one action; what is behind it is WhisperBridge.)

**WhisperBridge**. The microphone streams: chunks are numbered, and `talker` says whose words a
chunk holds, silence included. `stdin` is what the serial worker has still to do; a request that
timed out stays in it. Decoding and handling the answer are one step, since nothing that the
worker reads changes between the two.

**VoiceActivity** has the renderer's voice state and main's `VoiceProcessor`, with the messages
between them in order; what the user does (`talking`) shows in the amplitude of the frames.

**MicCapture** has the recorder's fields across its two awaits, **Microphone** the manager with
discovery and diagnostic between theirs, and the reports in the order they were sent.

**MemoryEngine**. The vector of an entry is modelled by the text it was computed from. `stores`
and `embeds` are embeddings under way, `merging` the loop of `consolidate`; `shared` says whether
that loop still runs over the array which `store` pushes to (any `filter` makes a new one). A text
is a sequence of facts, of which an entry keeps the first `MaxText` (4000 characters in the code);
`store` looks up and embeds the whole text. **Quitting** adds the life of the process: boot,
will-quit, signals, the time limit, a crash, with the memory written at the end of the teardown.
`asked` says that a signal has called `app.quit`, whose will-quit is still to come; one that finds
the teardown begun ends the app. Only tests call `forget`, `updateMemory` and `consolidate` so
far; they are public operations and modelled.

**UpgradeTrial**. The status of a proposal is in the file, the trial manager's state is not.
`waiting` counts the health checks of each trial that have not answered. **BackendTurns**: a turn
is numbered, and so is the id of a typed request; a turn goes from the check of the ledger over
the plan and the attempts of its steps to its entry in the ledger.

**BackendForge**. A job is one `executeStep`: it looks for a tool in the library and in the cache
of the process, takes a template, or asks for a design and writes, audits, tests and repairs it.
Audit and test look at different things, the design and the files. `crossed` are ids two forgings
used at once, `abandoned` those whose forging failed or was cut off, `rivals` capabilities forged
twice at once. **SelfMaintenance**: a scan is one step, a repair several; the health of a tool is
derived from its counts as the code does.

**LiveGeneration**. Every prompt has an owner; the session answers what it was asked in order, a
few tokens each. `streamLiveText` collects whatever is said until a pause. `disturbed` says that
since the prompt was sent the session had something else to answer, was lost or paused.

**ContextEngine** is the one module with time: units in which polls, the wait for a session and
the timers of queries run down. **RuntimeStatus** keeps of what a window shows whether it is
current, and of the Gemini bridge its socket and the `connectionState` it told last, which do not
change together; `silent` records that the heartbeat dropped the socket and told nobody.
**DesktopTools** groups the tools into classes by what they send and check: a request of the
worker is a script of sends, of which Windows may take a part, and the call has acted with the
last of them, whoever is told of it. `unheard` are the calls of which an attempt was not answered.
**WorkspaceManager** is the list of surfaces and its file.

**ScreenCapturer**. Every call of `captureLoop` that has not ended is a loop, `grabbing` or
`armed`; a picture is the list of the hashes of its blocks, and what changed is computed from two
of them as the code does. **BackgroundModes** has the three modes beside each other: what each
holds on to (`cronJob`, `audioProcess`, `watcher`), the awaits between deciding to start it and
holding it, and what has been started in fact (`cron`, `ffmpeg`, `native`).
**AuditLogger** is the queue with its timer, and the store, in which a record is its number.

Properties named `...InOrder`, and those that begin with a history variable, have one form: the
property the code wants holds in every behaviour in which one exactly described thing did not
happen. Without the antecedent TLC finds a counterexample in each case; section 4 tells them.

## 3. Runs

| Run | Instance | States | Shows |
|---|---|---|---|
| bridges | 3 requests to the sandbox; 2 calls of Python, 3 spawns | 331 628 | one worker at a time, runaways are killed, calls settle, the sandbox bridge implements ToolCalls |
| forging | 2 queued builds, 1 forge of the engine, 1 directory, 2 repairs; 2 tasks of 2 and 1 steps, 3 attempts, 2 switches; 2 typed requests of 2 prompts of 2 tokens, 1 talk, 1 loss | 2 560 143 | where records, traces and answers are what they claim |
| tool_forge_untested | 2 queued builds | - | violation of ProductionRunsTested |
| synthesis_fallback | 1 typed request | - | violation of SynthesisIsGroqs |
| voice_turn | 3 sockets, 2 turns | 142 421 | the session, and where a request is executed exactly once |
| tools | 3 events, 2 builds, 2 executions at a time, 2 tool directories, 1 write error, 1 restart, both stores | 265 883 | versions, counts, consent, restart, declarations |
| hearing | 6 chunks, 2 utterances, 2 failures; 4 streams, 3 reports, 1 diagnostic; 2 talks, 2 chunks, 1 drop | 644 261 | what a final text holds and that one comes, capture, who speaks |
| voice_activity | 1 talk, 1 chunk | - | violation of SpeechIsHeard |
| new_backend | 2 jobs, 2 capabilities, 2 designs; 3 turns, 1 repeated id, 2 steps; 2 proposals, 3 trials, 2 checks each; 1 tool under maintenance; 1 or 2 ends of the process | 1 044 179 | library, ledger, verdicts, repairs |
| memory | 3 stores of a short text and one too long for an entry, 2 edits, 1 write error, 2 entries at most, 1 boot | 3 519 305 | index, duplicates, saves and quits |
| desktop | 2 calls made twice; 2 PowerShell processes; 3 surfaces of which 2 are kept; 3 loops, 2 blocks; 3 jobs of each mode; 6 events in batches of 3 | 763 558 | desktop, HUD, workspace, screen capturer, modes, audit trail |
| desktop_clicks | 2 calls made twice | - | violation of UndisturbedClicks |

Bounds. *MaxRuns = 3*: one request whose worker is lost, one stranded by it, one innocent.
*MaxCalls = 2* share a start, or one is under way as the other comes; *MaxSpawns = 3*: a worker,
the one that replaces it before its `close`, and the one spawned after that `close` hid the
second. *MaxRepairs = 2* and the 3 attempts of a task are the code's constants; a job or turn of
the New Backend has 2 attempts instead of 4, a forging of it 1 repair instead of 3, a repair 2
attempts instead of 3, since each attempt begins in the state the last one left. One tools
directory is the worst case, since forges of different ids share nothing. A typed request sends 2
prompts and an answer has 2 tokens: one that is its own and one that is not can be mixed, and a
late one can be collected by the next. *MaxSockets = 3* allows a loss while another is being
repaired; *MaxTurns = 2* a turn and the one that inherits from it. *MaxChunks = 6* is two
utterances with a silence, more than the window (3) and more than what is flushed at once (2).
*MaxEvents = 3*: an execution or build, an edit or a second one during it, and a restart; two
directories are those of two forgings, and three ids besides the fixed ones leave one for what a
restart registers after a removal. A text of three facts is longer than an entry, one of one fact
is not. *MaxStreams = 4*: two starts that overlap, twice. *MaxEntries = 2* makes the third memory
prune one. 3 trials: one of each proposal and the one a late check hits after its own. Two jobs of
the New Backend's forge can share a capability or a name; the constraint OneTemplateAtOnce leaves
out two jobs with the template, which are two with a design but for the text. Two PowerShell
processes are a session and the one that replaces it; the times keep the order of the code's
limits. Two calls are one under way and one queued behind it. Three loops are two that overlap and
the one started after them, and so are three jobs of a mode; the audit's batches are of 3 instead
of 20, since only "full" is asked of them. Symmetry is used in forging (typed requests) and
new_backend (jobs): these are interchangeable, and the runs check no liveness. When a bound is
used up the action it limits is disabled; the systems may also really stop (after a shutdown, quit
or disconnect), hence `CHECK_DEADLOCK FALSE`. Each module states its type invariant; to save time
it is not in the configurations but holds in all these instances (add it to INVARIANTS). Section 5
says which are proved.

Fairness is stated only where liveness is checked, and always as weak fairness; a run with a
`focus` takes it over from the module.
- Sandbox and Python: the event loop runs - timers fire, the probe of the interpreter ends, pipes
  are read, due events are delivered. Workers get no fairness for their tools: a tool may run for
  ever. A killed process dies. A program that holds a dead worker's stdout ends some day, since
  `close` waits for it.
- Gemini: the reconnect timer fires, and a heartbeat without a pong finds the connection stale;
  nothing is assumed of the server.
- Whisper: the worker answers (a decode is bounded by its window, and the request by its limit).
- Tools: provider, forge and approval have timeouts; an execution that began ends, by its worker's
  deadline or because the builtin handlers end.
- Voice activity: frames and messages are delivered. Context engine: time passes and due timers
  fire; nothing is assumed of PowerShell.

## 4. What the checks found

Four claims of the repository are checked as such and violated:

1. *tool_forge_untested* (`autonomous_execution_engine.ts:180`, `tool_forge.ts:403`): designs are
   written to the tools directory before their test, and start-up registers whatever it finds
   there, so that untested code runs although `forge.py:13` says "production never runs untested
   code".
2. *synthesis_fallback* (`tool_forge.ts:385`): without a Groq key a build asks Gemini, although
   `docs/CHATGPT_REPAIR_REPORT.md:30` says that such tasks no longer fall back to it.
3. *voice_activity* (`App.tsx:82`): after the first answer speech is no longer reported, so that
   nobody barges in, although `gemini_live_bridge.ts:370` says so.
4. *desktop_clicks* (`automation.py:198`): the click's event is built with an argument `ctypes`
   refuses, so that no click, drag or scroll is ever sent.

The others are the antecedents of properties: drop the antecedent to see the behaviour.

5. `tool_executor.ts:115`: a request's timer kills `this.child`, whatever it is by then; after a
   worker was lost, the timers of its stranded requests kill the fresh worker of others.
6. `python_runtime.ts:289` (`lateClose`): a `close` that comes after the next worker was spawned
   makes the host forget the live worker; two run.
7. `python_runtime.ts:250` (`stopInStart`): a `stopWorker` during the await of a start is undone
   by it.
8. `main.ts:592` (`carried`): `voiceTurnHandledByToolCall` is reset only by an event that an empty
   transcript suppresses; the next spoken request is taken for handled and is not executed.
9. `main.ts:605` (`overtaken`): Whisper's text of a turn is routed whenever the session is not
   ready at that moment, even if Gemini resolved the turn before the session was lost.
10. `gemini_live_bridge.ts:524` (`torn`): after the heartbeat or a server error drops the socket
    the flags stay true: audio goes to the next socket before its setup, typed text is dropped.
11. `whisper_live_bridge.ts:27` (`overlapped`): what is spoken while an end is decoded is dropped
    by the reset, or was already glued to that utterance; `whisper.py:60` (`cut`): the beginning
    of an utterance of more than four seconds is not decoded.
12. `main.ts:1530`, `:1542` (`hurried`): the second `will-quit` of a shutdown returns without
    `preventDefault`, and a signal during the awaited teardown brings one about: the app exits
    before the memory is saved. After a signal that comes first, the call of `shutdownServices` in
    `will-quit` returns at once, with the same end.
13. `memory_engine.ts:319` (`revived`, `crossed`): an embedding that arrives late is stored for an
    entry that is gone or says something else by then; `:252` (`raced`): two overlapping stores of
    one text are both kept. `store` looks up and embeds the whole text and keeps its first 4000
    characters (`:244`, `:252`, `:256`), so that a longer text is never found again, is kept twice
    and has the vector of a text that is in no entry. A debounce without a maximum delays a save
    as long as memories come.
14. `audio_recorder.ts:115` (`overlapped`): capture at boot and the toggle may both open a stream,
    of which one is never released. A discovery that ends late overwrites LISTENING
    (`mic_manager.ts:107`), and capture started by the toggle reports no speech. `MIC_SET_MUTED`
    reads its argument at the wrong position.
15. `upgrade_engine.ts:63` (`untimely`): the trial manager begins the trial of a proposal that was
    not ready; `TrialManager.ts:75` (`outrun`): the health check does not look again after its
    await. A proposal whose trial was broken off stays on `trial` in the file (`kept`).
16. `NovaAgent.ts:184` (`crossed`, `unsaved`): the ledger is asked many awaits before it is
    written; a duplicate of a failed request is answered `completed`. `index.ts:233` (`torn`,
    `overlapped`): maintenance stays paused after a write that throws, and is resumed by the first
    of two overlapping turns.
17. `autonomous_execution_engine.ts:293`: a tool forged for a step is executed by the forge and
    then again by the step.
18. `tool_registry.ts:59`: a migrated tool that was removed is migrated again at the next start;
    `autonomous_execution_engine.ts:171`: a forged tool that was removed, or whose record was
    lost with a torn file, is registered again from its directory, enabled and without its
    versions and counts. Two forged tools of one display name are both declared. A tool that is
    enabled, disabled or removed by hand reaches the declarations at the next rebuild only
    (`untold`), and the engine executes a disabled tool that a plan names (`:275`, `:363`).
19. `New Backend/src/forge/ToolForge.ts:172` (`abandoned`, `crossed`): a design lies in the tools
    directory before its audit and test, and `tool_library.ts:116` takes it for an active tool
    after a failed or cut-off forging, although `runtool.py:4` says that only tested tools reach
    it. The library is flushed at shutdown only; its TOOL_TOGGLE reads its arguments one place too
    far to the right (`electron_adapter.ts:195`); a failed tool is never forged again in a
    process, since the cache still has it.
20. `ai_provider.ts:32` (`disturbed`): a prompt through the live session collects whatever is
    said, the conversation or the late answer of a prompt that timed out; its answer is also
    spoken and shown. With only a Gemini key a typed automation request is sent to the session and
    built at the same time.
21. `automation.py:152`, `:362` (`hurt`, `unheard`, `shifted`): a chord that is cut leaves a key
    held, the key of a shifted character is never released; a request that timed out is still
    carried out, and again by a retry, and so is one whose worker died after its last send and
    before its answer. Window tools, OCR and devices answer success whatever happened.
22. `context_engine.ts:161` (`sniped`): after a session that was slow to start, the timer of an
    earlier query ends the next one, and with it the polls.
23. `runtime_state.ts:160` says ONLINE while Python is still starting; boot step 3 may complete
    before 1, step 1 is set back to active when the page has loaded, and the failures of steps 2
    and 4 are unreachable. The memory's chip is online although its start may have failed.
    `gemini_live_bridge.ts:520` (`silent`): after the heartbeat dropped the socket the chip stays
    online until the redial, although a subsystem that is down shows it
    (`runtime_state.ts:7`); after a `send` that throws, an open session is shown offline.
    Surfaces of one type and source replace each other, so that there is one note and one image of
    a type; only an `update` could make a second.
24. `New Backend/src/maintenance`: findings are never resolved, a candidate that failed stays in
    staging (`SelfRepairEngine.ts:6` says discarded), and a tool that becomes unhealthy during the
    repair of its degraded state is not repaired again.
25. `audit_logger.ts:144`: the audit logger that main uses is given neither a database nor a file
    (`store = "none"`), so that it keeps nothing and only a line in the log tells of an event,
    although the header of the file has events written to `audit_events`; with a database,
    `recent` reads only the column without the action.
26. `screen_capturer.ts`, `dream_mode.ts`, `specialized_modes/` (`resumed`, `dreamRaced`,
    `audioRaced`, `watchRaced`): a start during the await of another one, or a stop in it, leaves
    a loop, a job, a recorder or a watcher that nothing stops any more. main starts the capturer,
    the dreams and the watcher once at boot, and has no calls of the recorder and its diarization,
    so that this needs new callers. After an error of the watcher, `startWatching` returns at
    once, since the broken one is still held; the deletion of a file is not reported. The native
    capture module exports none of the names that are looked for, so that the capturer always
    takes pictures in JavaScript.

## 5. Proofs

Every safety property of the passing runs, invariant or action property, is the conclusion of a
theorem: it holds for every value of the constants, and so for every number of requests, turns,
tools, memories, restarts and failures. Each is proved along one line: an inductive invariant IInv
with `Init => IInv` and `IInv /\ [Next]_vars => IInv'`, one step for each action and below it one
for each conjunct which the action disturbs, and `IInv => Property`. The assumptions are the named
ones of the constants (`...Assumption`: bounds are natural numbers, what is counted is finite, a
value for "none" is none of the others), which TLC evaluates in every run; a theorem that begins
with `ASSUME P!BoundsAssumption` is about a component that is reached by INSTANCE. No theorem
assumes anything of the behaviour.

**BridgesProofs** (SandboxBridge, PythonBridge)
- *TypeCorrect*, *BridgeSafe* (NoOrphanWorker, AbandonedWorkIsGone, AnswersAreGenuine,
  NoLostPromise, ShutdownIsFinal), *Refinement* (`SafeSpec => Abs!CSafe`: each step is a step of
  ToolCalls or a stutter). The five properties are not inductive. That no live worker is forgotten
  needs that `this.child` was spawned, was not killed and had no `close` handled (ChildIsLive);
  that abandoned work is gone needs which worker each request was written to, and that it had been
  spawned (IssuedRequests); that answers are genuine needs that the end of a response is in a pipe
  only after the tool ended (TailsAreFinished).
- *OneWorker*, *StopIsPermanent*. Workers are spawned in order and `this.child` is the last
  (ChildIsLast), a start goes on only while no worker is usable (StartNeeded), calls wait for a
  start only while there is one, and a worker that could not be spawned stays `this.child` until
  its error is handled.

**VoiceTurnProofs** (GeminiBridge, VoiceTurn)
- *SessionTheorem*: the socket in use was made, and those not made yet are the last
  (UnbornAreLast).
- *SpokenRequestsTheorem*, *ExecutesOnceTheorem*: unless a turn was carried over, words wait for
  the current turn only and the flag is set by its own tool call (NothingCarried,
  FlagTellsOfTools); unless one was overtaken, what was routed is over and none of its words waits
  (RoutedIsOver).

**ForgingProofs** (ToolForge, TaskRuns, LiveGeneration)
- *TypeCorrect*, *RecordsAreTested*: while a design is tested its directory holds it and nothing
  else, and a test that passed is that design's (FilesAreTheJobs); without this the test says
  nothing of what is registered.
- *TracesTellTheTruth*: at each await of a task, what it found, forged, executed and left agree
  (TaskInOrder).
- *AnswersAreWhole*: the session says the tokens of the prompt at the head of its queue in order,
  and an undisturbed collector has the first of them and no others (HearsItsOwn, GotItsOwn).

**ToolBuilderProofs** (ToolRegistry, ToolBuilder)
- *RecordsStayExact*, *DeclarationsStayTrue*, *RestartsRestore*: the list of tools names each
  once, their versions go back in time, and cache and open store agree on every tool whose last
  write did not fail (RegistryInv); the executions of a tool are its count and those in a slot, up
  to what a throwing write of a table counts twice (RunsInv). DeclarationsFollow is inductive with
  RegistryInv. That a restart restores what was saved, and adds the tools of directories which
  have none, each once, follows from RegistryInv before the step.
- *ConsentStaysMeant*: one build at a time is past the queue, it alone can wait for approval, and
  a click that was taken is the open approval's or that of a build which had expired (QueueInv).

**HearingProofs** (WhisperBridge, Microphone, VoiceActivity)
- *OffReleases*, *ListeningIsTrue*: one start at a time, which holds the one open stream; the last
  report under way tells what the recorder does (StartInOrder, ReportsTell).
- *WordsAreHeard*: what a final text contains is neither in the bridge nor on its way, or in a
  worker that forgets it next (HeardIsGone); an utterance is under way as a whole, and while its
  end is served nobody speaks (WholeUtterances). Both need that at most the last request is
  awaited (OneAwaited) and that nothing is passed on before the warm-up.
- *EndsAfterSilence*: a hold does not survive a report of speech (HoldInv).

**NewBackendProofs** (BackendForge, BackendTurns, UpgradeTrial, SelfMaintenance)
- *TheLibrary*, *ForgedOnceOnly*: the directory a job audits or tests holds its design
  (FilesAreTheJobs), a directory start-up would take for a tool is tested or a forging is at it
  (DirectoriesAreTested), and of the jobs of a capability without rivals at most one forges for
  the first time (FirstForging). Forged identifiers grow without a bound.
- *ExecutedOnce*, *AnswersRecorded*, *Paused*: a turn has its own request, and what the ledger
  says of one is accounted for by the turns that executed it (TurnsHaveRequests, LedgerIsTrue).
- *TrialTypesCorrect*, *Trials*: what the host learned of was validated, a trial that is on was
  counted, and a verdict is of a proposal unless its check was outrun (TrialsHold).
- *StagedWasTested*: a tool has one repair at most, and its staging directory holds that repair's
  candidate (UpkeepInv).

**MemoryProofs** (MemoryEngine, Quitting)
- *EverythingIsSaved*: what is embedded again will be saved after it, and a teardown is under way
  when `will-quit` comes only if the shutdown was hurried (SaveInv).
- *MemoriesAreFound*: every entry has the vector of a text whose first MaxText characters are its
  own, is being embedded with such a text, or the loop of `consolidate` has still to come to it,
  and no embedding of an older text is under way (Indexed); an id is of one call of `store`
  (Named); a file that was not written during an embedding has this too, since a restart reads it
  (Filed); entries are no longer than MaxText (Short), and texts under way are none of the
  entries', but for those that fill MaxText (Once). The lemmas on `Keep`, what a `filter` of the
  entries leaves, also prove that its recursive function exists.

**DesktopProofs** (DesktopTools, RuntimeStatus, ContextEngine, AuditLogger, WorkspaceManager,
ScreenCapturer, BackgroundModes)
- *HandsLetGo*, *SuccessHappened*: what is down is released by the sends that are left (HeldInv),
  a success has acted (SuccessInv), and unless an attempt went unheard a call has one request with
  the worker, which acts at its last send (OnceInv).
- *HUDIsTrue*: StatusIsTrue, which compares the chip with the socket, is inductive with the types.
  *OneSessionOfPowerShell*: a query is of one process and keeps others from beginning (OneQuery).
  *TheTrail*: written, dropped and queued events make up all recorded ones in order (AuditInv).
  *RestartsShowTheSame*: while every write was whole the file is what is open.
- *DaemonsKeepHold*: a loop with a timer is the one whose timer the capturer keeps; while
  something is awaited and nothing came in between, there is no other (LoopsInv, ModesInv).

Where a proof needs induction over a sequence or a recursive function, it is by a least
counterexample, with the well-foundedness of the naturals from the library: the induction theorems
themselves take an operator as a parameter, which the provers cannot instantiate.

Only model-checked, and why:
- liveness: RunawaysDie, EveryCallSettles, SilenceIsNoticed, EveryBuildSettles, EndsAreHeard,
  PollsGoOn and the fairness part of ImplementsToolCalls, because the prover does not treat
  ENABLED;
- the type invariants of modules whose safety proofs need only a part of them (MicTypes,
  TurnTypes, ForgeTypes and so on): what is left out is data that no guard reads, or texts that
  FlattenSeq and SelectSeq build, which are opaque to the provers;
- the four violated claims of section 4, which are counterexamples.

## 6. Not modelled

Within the modelled components:
- Sandbox: the contents of requests and the compile cache (a miss recompiles); a deadline's
  length. Concurrent requests are served in order, as the worker is serial.
- Python: the growing restart delay (only order matters; every spawn resets it, so that a worker
  that crashes at once is restarted every base interval), line framing (as in SandboxBridge).
- Forge: what the audit accepts (a design passes it or the generation fails), the time-stamped
  fallback of a technical id, the progress reports.
- Registry and builder: the success count and the health derived from it, the shown progress.
- Engine: what plans and prompts say, and which kind of request a text is. Providers: keys are
  constant; a key that is set at run time is another behaviour.
- Gemini: a `send` or constructor that throws, the delays, the handshake that never ends (no bound
  exists in the code). `setApiKey` is called before the first connect, so the key is a choice of
  the initial state.
- Voice: `routeVoiceRequest` is one step; what it executes is TaskRuns.
- Whisper: partial texts, the throttling of decodes, a worker start that fails (a failed request).
- Workspace: a call of `open` or `update` with an id and another type or source than the surface
  of that id has, or with an id of no surface; no caller makes one.
- Start-up: the writes of hydrated and migrated tools succeed; the bound on identifiers limits how
  many are hydrated. A forging of TaskRuns writes no directory of ToolBuilder's.
- Memory: `search`, whose counts of accesses are saved only with something else; scores; kinds of
  entries (all are preferences here, the only kind that is merged).
- Quitting: the awaits of the teardown are one, and what other services lose is not followed.
- Upgrades: the contents of proposals. Backend: handlers that only read.
- Desktop: what tools read or return, coordinates, titles; the tools are classes of like ones.
- Runtime state: the activity feed, details beside a chip, wording.
- Voice activity: the amplitude has three ranges. Microphone: mute, which is never set.

Components: the user interface (most of `src/src/renderer` and `App.tsx`), the tests and scripts,
and the Python services that answer one query of the operating system make up more than half of
the implementation; nothing in them has a protocol to check beyond the calls that are the inputs
of the modules above. Validator, security audit, firewall, sanitizer and encryption are functions
over text. The graph engine is never written by the app; of the ledgers the audit trail is
modelled, the others are tables that one writer appends to. The wake-word detector is
`unavailable`, since no keyword file is packaged, and nothing listens to its event. What a meeting
is recognised by and what the compiler's output says are patterns over text. In the app nothing
listens to the findings of the A.D.A.M. engines and their repairs have no callers. The New
Backend's live bridge can never connect: Node's own WebSocket has no `on`, and `ws` is looked for
through `globalThis.require`, which is undefined.

## 7. Plan

Done: the modules of section 2, a theorem for each safety property of the runs. Next, in this
order:

1. The rest of the type invariants as theorems: of VoiceTurn and of the modules of MCDesktop,
   whose parts are nearly complete, then of ToolBuilder and MemoryEngine.
2. The safety half of liveness: that a step which would break a promise for good is never taken,
   such as a call that is neither waiting, served nor settled (PythonBridge), an end that is
   neither queued, under way nor heard (WhisperBridge), a build that is in no place of the queue
   (ToolBuilder).
3. What a weaker history would allow: each `...InOrder` property names what breaks it; where the
   antecedent covers more orders than do any harm (`overlapped`, `raced`), a narrower one can be
   proved with the same invariants.
