---------------------------- MODULE BackendForge ----------------------------
(***************************************************************************)
(* The tool forge of the New Backend (src/New Backend/src): executeStep of *)
(* NovaAgent, which finds or forges a tool and runs it, ToolForge with its *)
(* repair loop, the tool library with its file, and the tools directory.   *)
(*                                                                         *)
(* A job is one call of executeStep; jobs of different turns overlap.  A   *)
(* design is written into the directory of its technical id before it is   *)
(* audited and tested.  The audit reads the design, the test reads the     *)
(* files, by a process that starts some time later.  The library is        *)
(* written to its file at shutdown only; start-up adds a tool for every    *)
(* directory it does not know.  Nothing switches a tool off: the handler   *)
(* of TOOL_TOGGLE takes its arguments one place too far to the right       *)
(* (electron_adapter.ts:195) and never finds the tool.                     *)
(***************************************************************************)
EXTENDS Naturals, Sequences, FiniteSets, Functions

CONSTANTS
  Jobs,
  Caps,        \* capabilities that are asked for
  Templates,   \* those with a ready design
  Proposed,    \* technical ids the designs propose; <<2, 3>> stands for x_2_3
  None,
  MaxSources,  \* bound: designs of the provider
  MaxRepairs,  \* forge.maxRepairAttempts, 3 in the code
  MaxAttempts, \* per job, 4 in the code
  MaxBoots     \* bound: ends of the process

ASSUME ForgeAssumption ==
  /\ Templates \subseteq Caps
  /\ None \notin Caps \cup Nat \cup Seq(Nat)
  /\ None \notin [id : Seq(Nat), cap : Caps, says : BOOLEAN, src : Nat]
  /\ \A i \in Proposed : i \in Seq(Nat)
  /\ {MaxSources, MaxRepairs, MaxBoots} \subseteq Nat /\ MaxAttempts \in Nat \ {0}

VARIABLES
  job,        \* what each call of executeStep awaits, and its locals
  library,    \* ToolLibrary: tools with id, capability, source
  saved,      \* the library's file
  dirs,       \* tools/<id>: tool.py, and the manifest's source (0: none)
  cache,      \* sessionForgeCache
  designs,    \* designs of the provider so far
  ends,
  audited,    \* history: sources that passed the audit
  tested,     \* history: sources whose test passed
  crossed,    \* history: ids two forgings used at once
  abandoned,  \* history: ids whose forging failed or was cut off
  forged,     \* history: tools forged in this process, per capability
  rivals      \* history: capabilities forged twice at once

history == <<audited, tested, crossed, abandoned, forged, rivals>>
store == <<library, saved, dirs, cache, designs, ends>>
vars == <<job, store, history>>

Sources == 0 .. MaxSources  \* 0: the source of the templates
Forging == {"designing", "auditing", "testing"}
Idle == [at |-> "idle", cap |-> None, tries |-> 0, repairs |-> 0, tool |-> None,
         id |-> None, src |-> 0, says |-> FALSE, copy |-> None]
Working(j) == job[j].at # "idle"

TypeOK ==
  /\ \A j \in Jobs : /\ job[j].at \in Forging \cup {"idle", "running"}
                     /\ job[j].tries \in 0 .. MaxAttempts /\ job[j].repairs \in 0 .. MaxRepairs
                     /\ job[j].src \in Sources /\ job[j].copy \in Sources \cup {None}
  /\ \A r \in library \cup saved : r.cap \in Caps /\ r.src \in Sources /\ r.says \in BOOLEAN
  /\ \A i \in DOMAIN dirs : dirs[i].tool \in Sources /\ dirs[i].manifest \in Sources \cup {None}
  /\ cache \in [Caps -> library \cup {None}]
  /\ designs \in 0 .. MaxSources /\ ends \in 0 .. MaxBoots
  /\ audited \cup tested \subseteq Sources
  /\ forged \in [Caps -> Nat] /\ rivals \subseteq Caps

Init ==
  /\ job = [j \in Jobs |-> Idle]
  /\ library = {} /\ saved = {} /\ dirs = << >> /\ cache = [c \in Caps |-> None]
  /\ designs = 0 /\ ends = 0
  /\ audited = {} /\ tested = {} /\ crossed = {} /\ abandoned = {}
  /\ forged = [c \in Caps |-> 0] /\ rivals = {}

-----------------------------------------------------------------------------
(* Names and files                                                         *)

\* ensureUniqueTechnical: x, or the first of x_2, x_3, ... that the library has not
Unique(i) ==
  LET Known == {r.id : r \in library}
      Free(n) == Append(i, n) \notin Known
  IN IF i \notin Known THEN i
     ELSE Append(i, CHOOSE n \in 2 .. Cardinality(library) + 2 : Free(n) /\ \A m \in 2 .. n - 1 : ~Free(m))

\* A bug: the id the artifacts were written under is taken for free.
IdOfDesign(i) == i

RegisteredId(i) == Unique(i)

Held(j) == {job[k].id : k \in {k \in Jobs \ {j} : job[k].at \in {"auditing", "testing"}}}

\* What a forging that goes wrong leaves behind
LeftBy(j) == IF job[j].at \in Forging /\ job[j].id # None THEN {job[j].id} ELSE {}

\* writeArtifacts, then the audit is asked for.  `gone' are the ids abandoned before.
WriteArtifacts(j, rec, proposed, src, says, gone) ==
  LET i == Unique(proposed)
      entry == [tool |-> src, manifest |-> src, cap |-> rec.cap, says |-> says]
  IN /\ job' = [job EXCEPT ![j] = [rec EXCEPT !.at = "auditing", !.id = i, !.src = src,
                                              !.says = says, !.copy = None]]
     /\ dirs' = [x \in DOMAIN dirs \cup {i} |-> IF x = i THEN entry ELSE dirs[x]]
     /\ crossed' = (crossed \ {i}) \cup (Held(j) \cap {i})
     /\ abandoned' = gone \ {i}

-----------------------------------------------------------------------------
(* An attempt: find a tool, or forge one                                   *)

\* discover, findExisting: some tool whose words match the request
Matching(c) == {r \in library : r.cap = c /\ r.says}

\* A bug: only tools whose words match are found again.
NotCached(c) == {}

\* The tool that was forged for the capability in this process, whatever its words
Cached(c) == {cache[c]} \ {None}

Found(c, named) ==
  IF named # None THEN {named}
  ELSE IF Matching(c) # {} THEN Matching(c) ELSE Cached(c)

Rest == UNCHANGED <<library, saved, cache, ends, audited, tested, forged, rivals>>
NoFiles(gone) == UNCHANGED <<dirs, crossed, designs>> /\ abandoned' = gone

\* Everything up to the next await happens at once.
Attempt(j, rec, named, gone) ==
  \/ \E r \in Found(rec.cap, named) :
       /\ job' = [job EXCEPT ![j] = [rec EXCEPT !.at = "running", !.tool = r]]
       /\ NoFiles(gone)
  \/ /\ Found(rec.cap, named) = {} /\ rec.cap \in Templates
     /\ \E i \in Proposed : WriteArtifacts(j, rec, i, 0, TRUE, gone)
     /\ UNCHANGED designs
  \/ /\ Found(rec.cap, named) = {} /\ rec.cap \notin Templates
     /\ \/ job' = [job EXCEPT ![j] = [rec EXCEPT !.at = "designing"]]
        \/ job' = [job EXCEPT ![j] = Idle]   \* no provider, at any attempt
     /\ NoFiles(gone)

\* executeStep begins, for a step that may name a tool.
Begin(j, c, named) ==
  /\ ~Working(j)
  /\ Attempt(j, [Idle EXCEPT !.cap = c, !.tries = 1], named, abandoned)
  /\ Rest

\* The attempt throws.  The tool the plan named is tried again, unless the recovery
\* engine decided to drop it; a tool that was found or forged is found again.
Fails(j) ==
  LET gone == abandoned \cup LeftBy(j) IN
  IF job[j].tries = MaxAttempts
  THEN job' = [job EXCEPT ![j] = Idle] /\ NoFiles(gone)
  ELSE \E named \in {job[j].tool, None} :
         Attempt(j, [Idle EXCEPT !.cap = job[j].cap, !.tries = job[j].tries + 1],
                 named, gone)

-----------------------------------------------------------------------------
(* ToolForge.forge                                                         *)

\* generateWithProvider answers; a repaired design may have another id.
Designed(j, proposed, says) ==
  /\ job[j].at = "designing" /\ designs < MaxSources
  /\ designs' = designs + 1
  /\ WriteArtifacts(j, job[j], proposed, designs + 1, says, abandoned \cup LeftBy(j))
  /\ Rest

\* No answer, or none that is a design
DesignFails(j) == job[j].at = "designing" /\ Fails(j) /\ Rest

Audited(j) ==
  /\ job[j].at = "auditing"
  /\ job' = [job EXCEPT ![j].at = "testing"]
  /\ audited' = audited \cup {job[j].src}
  /\ UNCHANGED <<store, tested, crossed, abandoned, forged, rivals>>

\* validate throws when it blocks: there is no repair.
AuditBlocks(j) == job[j].at = "auditing" /\ Fails(j) /\ Rest

\* sandbox_test copies the files that are there now.
TestLoads(j) ==
  /\ job[j].at = "testing" /\ job[j].copy = None
  /\ job' = [job EXCEPT ![j].copy = dirs[job[j].id].tool]
  /\ UNCHANGED <<store, history>>

\* A bug: after the last repair the loop is left as after a success.
PassedOrTired(j, passed) == passed \/ job[j].repairs = MaxRepairs

LoopEnds(j, passed) == passed

\* registerTool, and executeTool begins.
Register(j) ==
  LET i == RegisteredId(job[j].id)
      c == job[j].cap
      tool == [id |-> i, cap |-> c, says |-> job[j].says,
               src |-> IF i \in DOMAIN dirs THEN dirs[i].tool ELSE job[j].src]
  IN /\ library' = library \cup {tool}
     /\ cache' = [cache EXCEPT ![c] = tool]
     /\ job' = [job EXCEPT ![j] = [Idle EXCEPT !.at = "running", !.cap = c,
                                              !.tries = job[j].tries, !.tool = tool]]
     /\ forged' = [forged EXCEPT ![c] = @ + 1]
     /\ rivals' = IF \E k \in Jobs \ {j} : job[k].at \in Forging /\ job[k].cap = c
                  THEN rivals \cup {c} ELSE rivals
     /\ crossed' = IF i = job[j].id THEN crossed ELSE crossed \cup {i}
     /\ UNCHANGED <<saved, dirs, designs, ends, audited, abandoned>>

TestEnds(j, passed) ==
  /\ job[j].at = "testing" /\ job[j].copy # None
  /\ tested' = IF passed THEN tested \cup {job[j].copy} ELSE tested
  /\ IF LoopEnds(j, passed) THEN Register(j)
     ELSE /\ \/ /\ job[j].repairs < MaxRepairs
                /\ job' = [job EXCEPT ![j].at = "designing", ![j].copy = None,
                                      ![j].repairs = @ + 1]
                /\ NoFiles(abandoned)
             \/ Fails(j)   \* too many repairs, or no provider
          /\ UNCHANGED <<library, saved, cache, ends, audited, forged, rivals>>

\* The test could not be run, or ran out of time.
TestBreaks(j) == job[j].at = "testing" /\ Fails(j) /\ Rest

\* executeTool returns, and what it returned is verified.
RunSucceeds(j) ==
  /\ job[j].at = "running" /\ job[j].tool.id \in DOMAIN dirs
  /\ job' = [job EXCEPT ![j] = Idle]
  /\ UNCHANGED <<store, history>>

RunFails(j) == job[j].at = "running" /\ Fails(j) /\ Rest

-----------------------------------------------------------------------------
(* The process                                                             *)

\* hydrateFromDisk: a tool for every directory with a manifest and a tool.py whose
\* id no tool of the file has; the checksum is compared, and a mismatch logged.
Hydrated(kept, files) ==
  {[id |-> i, cap |-> files[i].cap, says |-> files[i].says, src |-> files[i].tool] :
     i \in {i \in DOMAIN files \ {r.id : r \in kept} : files[i].manifest # None}}

\* The process ends and starts again, with these files.
Restart(kept, files, cutOff) ==
  /\ ends < MaxBoots /\ ends' = ends + 1
  /\ saved' = kept /\ dirs' = files
  /\ library' = kept \cup Hydrated(kept, files)
  /\ job' = [j \in Jobs |-> Idle]
  /\ cache' = [c \in Caps |-> None] /\ forged' = [c \in Caps |-> 0] /\ rivals' = {}
  /\ abandoned' = abandoned \cup cutOff \cup UNION {LeftBy(j) : j \in Jobs}
  /\ UNCHANGED <<audited, tested, crossed>>

\* In order, the library is flushed; otherwise the file stays as it was.
EndAndStart == Restart(library, dirs, {}) /\ UNCHANGED designs
CrashAndStart == Restart(saved, dirs, {}) /\ UNCHANGED designs

\* The process dies between tool.py and the manifest.
DieWriting(j, proposed) ==
  LET i == Unique(proposed)
      torn == [tool |-> designs + 1, manifest |-> None, cap |-> job[j].cap, says |-> FALSE]
  IN /\ job[j].at = "designing" /\ designs < MaxSources /\ designs' = designs + 1
     /\ Restart(saved, [x \in DOMAIN dirs \cup {i} |->
                          IF x # i THEN dirs[x]
                          ELSE IF i \in DOMAIN dirs THEN [dirs[i] EXCEPT !.tool = designs + 1]
                          ELSE torn], {i})

Step(j) ==
  \/ \E c \in Caps : \E r \in {r \in library : r.cap = c} \cup {None} : Begin(j, c, r)
  \/ \E i \in Proposed, says \in BOOLEAN : Designed(j, i, says)
  \/ DesignFails(j)
  \/ Audited(j) \/ AuditBlocks(j)
  \/ TestLoads(j) \/ \E passed \in BOOLEAN : TestEnds(j, passed)
  \/ TestBreaks(j)
  \/ RunSucceeds(j) \/ RunFails(j)
  \/ \E i \in Proposed : DieWriting(j, i)

Next == (\E j \in Jobs : Step(j)) \/ EndAndStart \/ CrashAndStart

Spec == Init /\ [][Next]_vars

-----------------------------------------------------------------------------

\* "Only tools that already passed the isolated sandbox tests reach this path"
\* (runtool.py:4): what production loads passed the audit and the test, unless two
\* forgings shared its directory, or its forging did not come to its end and start-up
\* took the directory for a tool.
ToolsAreTested ==
  \A r \in library : r.id \notin crossed \cup abandoned =>
    r.id \in DOMAIN dirs /\ dirs[r.id].tool \in audited \cap tested

\* A technical id names one tool, over overlapping forgings and restarts: it is the
\* name of the directory that is run.
OneToolPerName == \A r, s \in library : r.id = s.id => r = s

\* What the library holds under a name is one tool, and it was tested.
LibraryIsSound == ToolsAreTested /\ OneToolPerName

\* A capability is forged once in a process (ToolForge.ts:144), whatever failed and
\* whichever words the tool was given, unless two forgings of it overlapped.
ForgedOnce == \A c \in Caps \ rivals : forged[c] <= 1

=============================================================================
