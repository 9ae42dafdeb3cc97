---------------------------- MODULE ToolRegistry ----------------------------
(***************************************************************************)
(* The tool registry (src/src/main/services/tool_registry.ts), its store   *)
(* on disk (tool_store.ts), the directory of forged tools from which every *)
(* start registers what the registry lacks (autonomous_execution_engine.ts *)
(* and tool_forge.ts) and the tool declarations that the orchestrator      *)
(* derives from the registry (agent_orchestrator.ts) and a session         *)
(* receives in its setup frame.                                            *)
(*                                                                         *)
(* The registry's cache and the JSON store hold the same objects, so a     *)
(* JSON write saves every tool; a SQLite write saves one row and throws    *)
(* when it fails, after the cache was changed and before anything is       *)
(* emitted.  A source and its SHA-256 are the same value, kept in two      *)
(* fields as the code does.  The writes of a start are taken to succeed.   *)
(***************************************************************************)
EXTENDS Naturals, Sequences, FiniteSets

Seqs == INSTANCE SequencesExt

CONSTANTS
  Ids,          \* registry ids
  Names,        \* tool names
  Intents,      \* requests that a tool answers
  TechIds,      \* technical ids: the names of the directories of forged tools
  Sources,      \* source texts
  BuiltinTool,  \* the id of the built-in generate_tool
  BuiltinName,  \* its name
  BuiltinIntent, \* the request whose words its description contains
  LegacyTool,   \* the id of the one entry of the legacy manifest tools.json
  LegacyName,
  AnySource,    \* the source of a tool that is neither published nor compiled
  None,
  MaxVersions,  \* NovaConfig.tooling.maxVersionsPerTool
  MaxPatch,     \* bound: publications stop at version 1.0.MaxPatch
  MaxFaults,    \* bound on write errors
  MaxBoots      \* bound on restarts

ASSUME RegistryAssumption ==
  /\ {BuiltinTool, LegacyTool} \subseteq Ids /\ BuiltinTool # LegacyTool
  /\ {BuiltinName, LegacyName} \subseteq Names
  /\ AnySource \in Sources /\ BuiltinIntent \in Intents
  /\ None \notin Ids \cup Names \cup Intents \cup TechIds
  /\ None \notin [name : Names, intent : Intents \cup {None}]
  /\ {MaxVersions, MaxPatch, MaxFaults, MaxBoots} \subseteq Nat

VARIABLES
  reg,      \* ToolRegistry.cache: the tools and their insertion order
  disk,     \* the content of the two store files
  store,    \* the store that was opened at this start
  unsaved,  \* ids whose last write failed (for JSON: the dirty flag)
  dirs,     \* the design in each directory of the tools root, or None
  declared, \* names in AgentOrchestrator.toolDeclarations
  offered,  \* names the current Gemini session was set up with
  untold,   \* history: names of tools changed without a word since the last rebuild
  torn,     \* history: the last start found a half-written file
  faults, boots

toldVars == <<declared, offered, untold>>
regVars == <<reg, disk, store, unsaved, dirs, toldVars, torn, faults, boots>>

Stores == {"sqlite", "json"}
Version == [version : 0 .. MaxPatch, src : Sources, hash : Sources]
Design == [name : Names, intent : Intents \cup {None}]
Tool == [name : Names, intent : Intents \cup {None}, kind : {"builtin", "python", "sandboxed"},
         tech : TechIds \cup {None}, version : 0 .. MaxPatch, src : Sources, hash : Sources,
         versions : UNION {[1 .. n -> Version] : n \in 0 .. MaxVersions},
         enabled : BOOLEAN, status : {"active", "pending"}, runs : Nat]

\* A fresh tool is version 1.0.0, enabled and without executions; tech is the technical
\* id of a forged one.
Fresh(name, intent, kind, tech, src, status) ==
  [name |-> name, intent |-> intent, kind |-> kind, tech |-> tech, version |-> 0,
   src |-> src, hash |-> src, versions |-> << >>, enabled |-> TRUE, status |-> status, runs |-> 0]

-----------------------------------------------------------------------------
(* The map of tools, in insertion order.                                   *)

Empty == [tools |-> << >>, order |-> << >>]
Has(r, id) == id \in DOMAIN r.tools

Put(r, id, tool) ==
  [tools |-> [i \in DOMAIN r.tools \cup {id} |-> IF i = id THEN tool ELSE r.tools[i]],
   order |-> IF Has(r, id) THEN r.order ELSE Append(r.order, id)]

Drop(r, id) ==
  [tools |-> [i \in DOMAIN r.tools \ {id} |-> r.tools[i]],
   order |-> IF Has(r, id) THEN Seqs!RemoveAt(r.order, CHOOSE k \in DOMAIN r.order : r.order[k] = id)
             ELSE r.order]

\* ToolRegistry.getByName: the first inserted tool of that name.
GetByName(r, name) ==
  LET found == {k \in DOMAIN r.order : r.tools[r.order[k]].name = name}
  IN  IF found = {} THEN None ELSE r.order[CHOOSE k \in found : \A j \in found : k <= j]

\* The tools findCapability may choose: searchCapability skips disabled and pending
\* ones; a strong match is a tool whose description was written for the request.
Capable(r, intent) ==
  {i \in DOMAIN r.tools : r.tools[i].enabled /\ r.tools[i].status # "pending"
                          /\ r.tools[i].intent = intent}

\* rebuildDeclarations: the names offered to the model, pending tools included ('failed'
\* ones are not, and nothing here fails).  Of two tools of one name that are not
\* sandboxed both are declared.
Declarable(r) == {r.tools[i].name : i \in {j \in DOMAIN r.tools : r.tools[j].enabled}}

-----------------------------------------------------------------------------
(* Writing.                                                                *)

\* JsonToolStore.persist rewrites the file; SqliteToolStore replaces one row,
\* which moves it behind the others.
Written(r, id) ==
  IF store = "json" THEN r
  ELSE IF Has(r, id) THEN Put(Drop(disk.sqlite, id), id, r.tools[id])
  ELSE Drop(disk.sqlite, id)

\* The registry becomes r, of which the tool id changed, and is written; failed counts
\* the failed writes.  A JSON write that fails may have truncated the file before.
SaveAfter(r, id, ok, failed) ==
  /\ reg' = r
  /\ faults + failed <= MaxFaults /\ faults' = faults + failed
  /\ IF ok
     THEN /\ disk' = [disk EXCEPT ![store] = Written(r, id)]
          /\ unsaved' = IF store = "json" THEN {} ELSE unsaved \ {id}
     ELSE /\ unsaved' = unsaved \cup {id}
          /\ disk' \in {disk} \cup (IF store = "json" THEN {[disk EXCEPT !.json = Empty]} ELSE {})
  /\ UNCHANGED <<store, dirs, torn, boots>>

Save(r, id, ok) == SaveAfter(r, id, ok, IF ok THEN 0 ELSE 1)
Throws(ok) == ~ok /\ store = "sqlite"

\* The orchestrator's listener of 'tool-registered', 'tool-updated' and 'tool-created'.
Rebuild(r) == declared' = Declarable(r) /\ untold' = {}

\* A change that is announced once it is written, and one that has no listener
\* ('tool-state-changed', 'tool-removed').
SaveQuietly(r, id, name, ok) ==
  Save(r, id, ok) /\ UNCHANGED <<declared, offered>> /\ untold' = untold \cup {name}
SaveAndTell(r, id, ok) ==
  IF Throws(ok) THEN SaveQuietly(r, id, r.tools[id].name, ok)
  ELSE Save(r, id, ok) /\ Rebuild(r) /\ UNCHANGED offered

-----------------------------------------------------------------------------
(* Operations of the registry.                                             *)

RegisterWithoutNotice(id, tool, ok) ==
  Save(Put(reg, id, tool), id, ok) /\ UNCHANGED toldVars
Register(id, tool, ok) == SaveAndTell(Put(reg, id, tool), id, ok)

Published(t, src) ==
  LET kept == <<[version |-> t.version, src |-> t.src, hash |-> t.hash]>> \o t.versions
  IN  [t EXCEPT !.versions = SubSeq(kept, 1, IF Len(kept) > MaxVersions THEN MaxVersions ELSE Len(kept)),
                !.version = t.version + 1, !.src = src, !.hash = src]

PublishVersion(id, src, ok) ==
  /\ Has(reg, id) /\ reg.tools[id].hash # src
  /\ reg.tools[id].version < MaxPatch
  /\ SaveAndTell(Put(reg, id, Published(reg.tools[id], src)), id, ok)

\* Rollback reactivates the tool, without enabling it.
RolledBackUnderNewHash(t) ==
  [t EXCEPT !.versions = Tail(t.versions), !.status = "active",
            !.version = Head(t.versions).version, !.src = Head(t.versions).src]
RolledBack(t) ==
  [t EXCEPT !.versions = Tail(t.versions), !.status = "active",
            !.version = Head(t.versions).version,
            !.src = Head(t.versions).src, !.hash = Head(t.versions).hash]

Rollback(id, ok) ==
  /\ Has(reg, id) /\ reg.tools[id].versions # << >>
  /\ SaveAndTell(Put(reg, id, RolledBack(reg.tools[id])), id, ok)

Toggled(t, enabled) ==
  [t EXCEPT !.enabled = enabled, !.status = IF enabled THEN "active" ELSE t.status]

SetEnabled(id, enabled, ok) ==
  /\ Has(reg, id)
  /\ SaveQuietly(Put(reg, id, Toggled(reg.tools[id], enabled)), id, reg.tools[id].name, ok)

Remove(id, ok) == Has(reg, id) /\ SaveQuietly(Drop(reg, id), id, reg.tools[id].name, ok)

\* recordExecution, which emits nothing; the success count and the health computed
\* from it are left out.
Recorded(r, id) == Put(r, id, [r.tools[id] EXCEPT !.runs = @ + 1])

\* The setup frame of a new Gemini session carries the declarations.
SessionSetup ==
  /\ offered' = declared
  /\ UNCHANGED <<reg, disk, store, unsaved, dirs, declared, untold, torn, faults, boots>>

\* ToolRegistry.close: a JSON store that is dirty tries once more.
Close(ok) ==
  /\ unsaved # {} /\ store = "json"
  /\ Save(reg, CHOOSE i \in unsaved : TRUE, ok)
  /\ UNCHANGED toldVars

-----------------------------------------------------------------------------
(* Starting.                                                               *)

\* migrateLegacyManifest: the legacy tool, unless it is there.
Migrated(r) ==
  IF Has(r, LegacyTool) THEN r
  ELSE Put(r, LegacyTool, Fresh(LegacyName, None, "sandboxed", None, AnySource, "pending"))

\* A bug: a directory is hydrated although its tool is registered.
MissingOrNot(r) == {t \in TechIds : dirs[t] # None}

\* hydrateToolsFromDisk: every design in the tools directory of which the registry has
\* no tool is registered, enabled and under a new id.  Directories come in any order;
\* from says of which directory each new id is.
Missing(r) == {t \in TechIds : dirs[t] # None /\ \A i \in DOMAIN r.tools : r.tools[i].tech # t}

FromManifest(t) == Fresh(dirs[t].name, dirs[t].intent, "python", t, AnySource, "active")
Hydrated(r, from, order) ==
  [tools |-> [i \in DOMAIN r.tools \cup DOMAIN from |->
                IF i \in DOMAIN from THEN FromManifest(from[i]) ELSE r.tools[i]],
   order |-> r.order \o order]

\* Every order of some ids.
Orders(ids) == UNION {Seqs!Bijection(1 .. n, ids) : n \in 0 .. Cardinality(TechIds)}

\* registerBuiltinTools: generate_tool, unless something has its name.
WithBuiltins(r) ==
  IF GetByName(r, BuiltinName) # None THEN r
  ELSE Put(r, BuiltinTool, Fresh(BuiltinName, BuiltinIntent, "builtin", None, AnySource, "active"))

RegInit ==
  /\ store \in Stores
  /\ reg = WithBuiltins(Migrated(Empty)) /\ dirs = [t \in TechIds |-> None]
  /\ disk = [s \in Stores |-> IF s = store THEN reg ELSE Empty]
  /\ declared = Declarable(reg) /\ offered = {}
  /\ unsaved = {} /\ untold = {} /\ torn = FALSE
  /\ faults = 0 /\ boots = 0

\* The app ends and starts again, with the store that opens this time.  The end may
\* cut a JSON write short; a file that does not parse is read as no tools.  The new
\* tools get ids of free.
Restart(opened, cut, free) ==
  /\ boots < MaxBoots
  /\ cut => store = "json" /\ opened = "json"
  /\ LET loaded == Migrated(IF cut THEN Empty ELSE disk[opened])
     IN  \E ids \in SUBSET free :
           \E from \in Seqs!Bijection(ids, Missing(loaded)), order \in Orders(ids) :
             reg' = WithBuiltins(Hydrated(loaded, from, order))
  /\ disk' = [disk EXCEPT ![opened] = reg']
  /\ store' = opened
  /\ Rebuild(reg') /\ offered' = {}
  /\ unsaved' = {} /\ torn' = cut
  /\ boots' = boots + 1
  /\ UNCHANGED <<dirs, faults>>

-----------------------------------------------------------------------------
RegTypeOK ==
  /\ DOMAIN reg.tools \subseteq Ids
  /\ \A i \in DOMAIN reg.tools : reg.tools[i] \in Tool
  /\ {reg.order[k] : k \in 1 .. Len(reg.order)} = DOMAIN reg.tools
  /\ store \in Stores /\ unsaved \subseteq Ids
  /\ dirs \in [TechIds -> Design \cup {None}]
  /\ declared \subseteq Names /\ offered \subseteq Names /\ untold \subseteq Names
  /\ torn \in BOOLEAN
  /\ faults \in 0 .. MaxFaults /\ boots \in 0 .. MaxBoots

(* Whatever the order of publications and rollbacks, the versions a tool    *)
(* keeps are older the further down they are, so that a rollback goes back  *)
(* in time, and every one of them names the hash of its own source: the     *)
(* sandbox worker finds compiled code by that hash (tool_registry.ts,       *)
(* publishVersion and rollback).                                            *)
VersionsGoBack ==
  \A i \in DOMAIN reg.tools :
    LET t == reg.tools[i]
        past == <<[version |-> t.version, src |-> t.src, hash |-> t.hash]>> \o t.versions
    IN  /\ \A k \in 1 .. Len(past) : past[k].hash = past[k].src
        /\ \A k \in 1 .. Len(past) - 1 : past[k + 1].version < past[k].version
        /\ Len(t.versions) <= MaxVersions

(* A start gives back every tool as it was - disabled tools disabled,      *)
(* rolled back tools rolled back - and of its own adds one tool for each    *)
(* directory that no registered tool is of, such as the directory of a tool *)
(* that was removed, and none for any other: unless a write failed, the     *)
(* last one was cut short or the other store opened.  And whatever          *)
(* happened, no forged tool is lost: each directory has its tool            *)
(* (tool_store.ts, load; autonomous_execution_engine.ts,                    *)
(* hydrateToolsFromDisk).                                                   *)
RestartRestores ==
  [][boots' # boots =>
       LET added == DOMAIN reg'.tools \ (DOMAIN reg.tools \cup {BuiltinTool, LegacyTool})
       IN  /\ ~torn' /\ unsaved = {} /\ store' = store =>
                /\ \A i \in DOMAIN reg.tools : Has(reg', i) /\ reg'.tools[i] = reg.tools[i]
                /\ \A i \in added : \A j \in DOMAIN reg.tools : reg.tools[j].tech # reg'.tools[i].tech
                /\ \A i, j \in added : reg'.tools[i].tech = reg'.tools[j].tech => i = j
           /\ \A t \in TechIds : dirs[t] # None => \E i \in DOMAIN reg'.tools : reg'.tools[i].tech = t]_regVars

(* The declarations follow the registry: a tool is declared exactly if it   *)
(* is registered and enabled, except where it was switched or removed, or   *)
(* its SQLite write threw, since the declarations were last rebuilt         *)
(* (agent_orchestrator.ts, whose listeners are of 'tool-registered' and     *)
(* 'tool-updated' only).                                                    *)
DeclarationsFollow == \A n \in Names \ untold : n \in declared <=> n \in Declarable(reg)
=============================================================================
