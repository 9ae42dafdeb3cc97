--------------------------- MODULE WorkspaceManager ---------------------------
(***************************************************************************)
(* The surfaces of the NOVA workspace (workspace_manager.ts), which the    *)
(* workspace tools and the renderer open and close: a list, newest first,  *)
(* that is written to a file at each change and read when it is first      *)
(* asked for.  Titles, times and ids are left out; a surface's key is its  *)
(* type and source, so that every note has one key and every PNG another.  *)
(*                                                                         *)
(* open with an id and update, which nothing in the app calls, are modelled*)
(* with the id of a surface and what keeps its key: the methods would also *)
(* take another key, or state, and leave two surfaces of one key open.     *)
(***************************************************************************)
EXTENDS Naturals, FiniteSets, SequencesExt

CONSTANTS
  Keys, Contents,
  MaxSurfaces  \* MAX_SURFACES, 12

WorkspaceAssumption == MaxSurfaces \in Nat \ {0}

VARIABLES
  surfaces,
  hydrated, \* this.loaded
  stored,   \* what the file holds, or Torn
  faulty    \* history: a write failed or was cut off

vars == <<surfaces, hydrated, stored, faulty>>

Surfaces == [key : Keys, content : Contents]
Torn == << <<>> >>

TypeOK ==
  /\ surfaces \in Seq(Surfaces)
  /\ hydrated \in BOOLEAN /\ faulty \in BOOLEAN
  /\ stored \in Seq(Surfaces) \cup {Torn}

Init == surfaces = << >> /\ hydrated = FALSE /\ stored = << >> /\ faulty = FALSE

Newest(list) == SubSeq(list, 1, IF Len(list) < MaxSurfaces THEN Len(list) ELSE MaxSurfaces)

\* load: the first surface of each key; a file that cannot be read is an empty one.
Hydrated ==
  LET firsts == {i \in DOMAIN stored : \A j \in 1 .. i - 1 : stored[j].key # stored[i].key}
      Nth(n) == CHOOSE i \in firsts : Cardinality({j \in firsts : j <= i}) = n
  IN  IF stored = Torn THEN << >>
      ELSE Newest([n \in 1 .. Cardinality(firsts) |-> stored[Nth(n)]])

Loaded == IF hydrated THEN surfaces ELSE Hydrated

\* persistAndBroadcast; a write may fail, and is cut off by the end of the process.
Persist(list) ==
  /\ surfaces' = list /\ hydrated' = TRUE
  /\ \/ stored' = list /\ UNCHANGED faulty
     \/ stored' \in {stored, Torn} /\ faulty' = TRUE

\* A bug: a surface is looked up by its id alone, which callers do not give.
NotFound(list, key) == {}

Existing(list, key) == {i \in DOMAIN list : list[i].key = key}

\* open
Open(surface) ==
  LET there == Existing(Loaded, surface.key)
  IN  Persist(IF there # {}
              THEN [i \in DOMAIN Loaded |-> IF i \in there THEN surface ELSE Loaded[i]]
              ELSE Newest(<<surface>> \o Loaded))

\* open with the id of a surface, and update
Update(i, content) ==
  /\ i \in DOMAIN Loaded
  /\ Persist([Loaded EXCEPT ![i] = [key |-> Loaded[i].key, content |-> content]])

Close(i) == i \in DOMAIN Loaded /\ Persist(RemoveAt(Loaded, i))

\* list, of a tool or of the renderer that mounts; update and close of an id that is unknown
List == surfaces' = Loaded /\ hydrated' = TRUE /\ UNCHANGED <<stored, faulty>>

\* The end of the app, and its next start
Restart ==
  /\ surfaces' = << >> /\ hydrated' = FALSE
  /\ UNCHANGED <<stored, faulty>>

Next ==
  \/ \E surface \in Surfaces : Open(surface)
  \/ \E i \in 1 .. MaxSurfaces : Close(i) \/ \E content \in Contents : Update(i, content)
  \/ List \/ Restart

Spec == Init /\ [][Next]_vars

\* A restart brings back the surfaces that are open, each one once and in their order,
\* unless a write failed or was cut off: over replacements, over surfaces pushed out by
\* newer ones, and over restarts in between.
RestartShowsTheSame == hydrated /\ ~faulty => Hydrated = surfaces

=============================================================================
