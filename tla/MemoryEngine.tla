---------------------------- MODULE MemoryEngine -----------------------------
(***************************************************************************)
(* Long-term memory: class MemoryEngine of services/memory_engine.ts.      *)
(*                                                                         *)
(* Every entry has a vector that search compares with the query's.  A      *)
(* vector is modelled by the text it was computed from.  An embedding is   *)
(* awaited (a request to the provider, 15 s at most), and what is stored,  *)
(* changed or forgotten meanwhile is not looked at when it arrives.  The   *)
(* facts a text tells, in their order, stand for it; an entry keeps only   *)
(* the beginning of a text.  The file is overwritten in place: one that    *)
(* cannot be parsed counts as empty.                                       *)
(***************************************************************************)
EXTENDS Integers, Sequences, FiniteSets, SequencesExt

CONSTANTS
  Facts,       \* what texts tell
  Said,        \* the texts that users and tasks ask to remember
  MaxText,     \* the longest text of an entry, in facts (4000 characters)
  MaxStores,   \* bound: memories stored in one behaviour
  MaxEdits,    \* bound: corrections and merges in one behaviour
  MaxFaults,   \* bound: failed writes
  MaxEntries   \* MAX_ENTRIES

ASSUME MemoryAssumption ==
  /\ {MaxStores, MaxEdits, MaxFaults} \subseteq Nat
  /\ {MaxEntries, MaxText} \subseteq Nat \ {0}
  /\ Said \subseteq Seq(Facts) \ {<<>>}

Ids == 1 .. MaxStores

VARIABLES
  entries,    \* this.entries: sequence of [id, text]
  vectors,    \* this.vectors: id -> the text that was embedded
  identity,   \* this.identity is not null
  saveTimer,  \* this.saveTimer is armed
  file,       \* memory.json
  stores,     \* calls of store that await their embedding
  embeds,     \* re-embeddings that updateMemory started
  merging,    \* entries that consolidate embeds anew, the one under way first
  shared,     \* its loop still runs over the array that is this.entries
  stored,     \* calls of store so far
  edits,      \* corrections so far
  faults,     \* failed writes so far
  raced,      \* history: a store began during a store of the same text
  edited,     \* history: a text was changed by updateMemory or consolidate
  revived,    \* history: an embedding arrived after its entry was gone
  crossed,    \* history: two texts of one entry were being embedded at a time
  savedEarly  \* history: the file was written while an entry was re-embedded

volatile == <<entries, vectors, identity, saveTimer, stores, embeds, merging, shared>>
history  == <<raced, edited, revived, crossed, savedEarly>>
mvars    == <<volatile, file, stored, edits, faults, history>>

Texts == UNION {[1 .. n -> Facts] : n \in 1 .. MaxText}
Entry == [id : Ids, text : Texts]
Empty == [entries |-> <<>>, vectors |-> <<>>, identity |-> FALSE]

\* slice(0, 4000)
Cut(text) == IF Len(text) > MaxText THEN SubSeq(text, 1, MaxText) ELSE text

IdsOf(es) == {es[i].id : i \in DOMAIN es}
Memory == [entries |-> entries, vectors |-> vectors, identity |-> identity]

MTypeOK ==
  /\ entries \in Seq(Entry)
  /\ DOMAIN vectors \subseteq Ids /\ \A i \in DOMAIN vectors : vectors[i] \in Texts \cup Said
  /\ identity \in BOOLEAN /\ saveTimer \in BOOLEAN
  /\ stores \subseteq [id : Ids, text : Said]
  /\ embeds \subseteq [n : 1 .. MaxEdits, id : Ids, text : Texts]
  /\ merging \in Seq(Entry) /\ shared \in BOOLEAN
  /\ stored \in 0 .. MaxStores /\ edits \in 0 .. MaxEdits /\ faults \in 0 .. MaxFaults

\* A file of an earlier run, with at most one memory.
MInit ==
  /\ entries = <<>> /\ vectors = <<>> /\ identity = FALSE /\ saveTimer = FALSE
  /\ \/ file = Empty /\ stored = 0
     \/ \E t \in Said :
          /\ file = [entries |-> <<[id |-> 1, text |-> Cut(t)]>>, vectors |-> [i \in {1} |-> t],
                     identity |-> TRUE]
          /\ stored = 1
  /\ stores = {} /\ embeds = {} /\ merging = <<>> /\ shared = FALSE
  /\ edits = 0 /\ faults = 0
  /\ raced = FALSE /\ edited = FALSE /\ revived = FALSE
  /\ crossed = FALSE /\ savedEarly = FALSE

-----------------------------------------------------------------------------

Without(vs, ids) == [i \in DOMAIN vs \ ids |-> vs[i]]
With(vs, id, text) == [i \in DOMAIN vs \cup {id} |-> IF i = id THEN text ELSE vs[i]]

\* Array.filter: the entries with one of these ids, in their order.
Keep(es, ids) ==
  LET kept[i \in 0 .. Len(es)] ==
        IF i = 0 THEN <<>>
        ELSE IF es[i].id \in ids THEN Append(kept[i - 1], es[i]) ELSE kept[i - 1]
  IN  kept[Len(es)]

\* Texts of an entry that are being embedded again.
Embedding(id) ==
  {j.text : j \in {j \in embeds : j.id = id}}
    \cup (IF merging # <<>> /\ merging[1].id = id THEN {merging[1].text} ELSE {})

\* Bug: a text is looked up among those that are being stored.
StoreUnseen(text) ==
  /\ stored < MaxStores
  /\ \A j \in stores : j.text # text
  /\ stored' = stored + 1
  /\ stores' = stores \cup {[id |-> stored', text |-> text]}
  /\ UNCHANGED <<entries, vectors, identity, saveTimer, embeds, merging, shared, file, edits,
                 faults, history>>

\* store: a known text is only strengthened.  The whole text is looked up and embedded.
StoreBegin(text) ==
  /\ stored < MaxStores
  /\ \/ /\ \E k \in DOMAIN entries : entries[k].text = text
        /\ saveTimer' = TRUE
        /\ UNCHANGED <<stores, stored, raced>>
     \/ /\ \A k \in DOMAIN entries : entries[k].text # text
        /\ stored' = stored + 1
        /\ stores' = stores \cup {[id |-> stored', text |-> text]}
        /\ raced' = (raced \/ \E j \in stores : j.text = text)
        /\ UNCHANGED saveTimer
  /\ UNCHANGED <<entries, vectors, identity, embeds, merging, shared, file, edits, faults,
                 edited, revived, crossed, savedEarly>>

\* Bug: what is pruned keeps its vector.
PruneEntries(es, vs, dropped) ==
  /\ entries' = Keep(es, IdsOf(es) \ dropped)
  /\ vectors' = vs

\* prune: these entries and their vectors are dropped.
Prune(es, vs, dropped) ==
  /\ entries' = Keep(es, IdsOf(es) \ dropped)
  /\ vectors' = Without(vs, dropped)

\* The embedding of a new memory arrives; the entry keeps the beginning of its text.  What
\* is pruned is a matter of scores.
StoreEnd(j) ==
  /\ j \in stores
  /\ stores' = stores \ {j}
  /\ LET new == [id |-> j.id, text |-> Cut(j.text)]
     IN /\ \E dropped \in SUBSET (IdsOf(entries) \cup {j.id}) :
             /\ Cardinality(dropped) =
                  (IF Len(entries) + 1 > MaxEntries THEN Len(entries) + 1 - MaxEntries ELSE 0)
             /\ Prune(Append(entries, new), With(vectors, j.id, j.text), dropped)
             /\ shared' = (shared /\ dropped = {})
        /\ merging' = IF shared THEN Append(merging, new) ELSE merging
  /\ saveTimer' = TRUE
  /\ UNCHANGED <<identity, embeds, file, stored, edits, faults, history>>

-----------------------------------------------------------------------------

\* Bug: forgetting plans no save.
ForgetUnsaved(ids) ==
  /\ ids # {}
  /\ entries' = Keep(entries, IdsOf(entries) \ ids)
  /\ vectors' = Without(vectors, ids)
  /\ shared' = FALSE
  /\ UNCHANGED <<identity, saveTimer, stores, embeds, merging, file, stored, faults, history>>

Edit == edits < MaxEdits /\ edits' = edits + 1

\* forget
ForgetAll(ids) ==
  /\ ids # {}
  /\ entries' = Keep(entries, IdsOf(entries) \ ids)
  /\ vectors' = Without(vectors, ids)
  /\ saveTimer' = TRUE
  /\ shared' = FALSE
  /\ UNCHANGED <<identity, stores, embeds, merging, file, stored, faults, history>>

Mentions(f) == {e \in ToSet(entries) : f \in ToSet(e.text)}

\* forgetUserFact forgets the first entry that mentions the fact, forgetMatching all.
ForgetUserFact(f) ==
  /\ Edit
  /\ \E k \in DOMAIN entries :
       /\ entries[k] \in Mentions(f)
       /\ \A l \in 1 .. k - 1 : entries[l] \notin Mentions(f)
       /\ ForgetAll({entries[k].id})
ForgetMatching(f) == Edit /\ ForgetAll({e.id : e \in Mentions(f)})
Forget(id) == Edit /\ id \in IdsOf(entries) /\ ForgetAll({id})

\* updateMemory: the text changes at once, its vector when the embedding of what is kept of
\* it arrives.
UpdateMemory(id, text) ==
  /\ Edit
  /\ id \in IdsOf(entries)
  /\ entries' = [k \in DOMAIN entries |->
                   IF entries[k].id = id THEN [id |-> id, text |-> Cut(text)] ELSE entries[k]]
  /\ embeds' = embeds \cup {[n |-> edits', id |-> id, text |-> Cut(text)]}
  /\ saveTimer' = TRUE
  /\ edited' = TRUE
  /\ crossed' = (crossed \/ Embedding(id) \ {Cut(text)} # {})
  /\ UNCHANGED <<vectors, identity, stores, merging, shared, file, stored, faults,
                 raced, revived, savedEarly>>

\* The embedding arrives, whether or not the entry is still there or still says so.
UpdateEnd(j) ==
  /\ j \in embeds
  /\ embeds' = embeds \ {j}
  /\ vectors' = With(vectors, j.id, j.text)
  /\ revived' = (revived \/ j.id \notin IdsOf(entries))
  /\ UNCHANGED <<entries, identity, saveTimer, stores, merging, shared, file, stored, edits, faults,
                 raced, edited, crossed, savedEarly>>

\* confirm, updateIdentity, and updateMemory of anything but the text.
Touch ==
  /\ ~saveTimer
  /\ saveTimer' = TRUE
  /\ UNCHANGED <<entries, vectors, identity, stores, embeds, merging, shared, file, stored,
                 edits, faults, history>>

\* The next entry of the loop is embedded, with the text it has, or the loop ends.
MergeNext(es, left, same) ==
  IF left = <<>>
  THEN merging' = <<>> /\ shared' = FALSE /\ saveTimer' = TRUE /\ UNCHANGED crossed
  ELSE LET old  == Head(left)
           next == IF old.id \in IdsOf(es)
                   THEN CHOOSE e \in ToSet(es) : e.id = old.id
                   ELSE old
       IN /\ merging' = <<next>> \o Tail(left)
          /\ shared' = same
          /\ crossed' = (crossed \/ \E j \in embeds : j.id = next.id /\ j.text # next.text)
          /\ UNCHANGED saveTimer

\* consolidate merges similar entries into the first of them, then embeds all anew.
Consolidate(ids) ==
  /\ Edit /\ merging = <<>>
  /\ Cardinality(ids) > 1 /\ ids \subseteq IdsOf(entries)
  /\ LET similar == Keep(entries, ids)
         first   == similar[1].id
         text    == Cut(FlattenSeq([k \in DOMAIN similar |-> similar[k].text]))
         kept    == Keep(entries, (IdsOf(entries) \ ids) \cup {first})
         merged  == [k \in DOMAIN kept |->
                       IF kept[k].id = first THEN [id |-> first, text |-> text] ELSE kept[k]]
     IN /\ entries' = merged
        /\ vectors' = Without(vectors, ids \ {first})
        /\ MergeNext(merged, merged, TRUE)
  /\ edited' = TRUE
  /\ UNCHANGED <<identity, stores, embeds, file, stored, faults, raced, revived, savedEarly>>

MergeStep ==
  /\ merging # <<>>
  /\ vectors' = With(vectors, merging[1].id, merging[1].text)
  /\ revived' = (revived \/ merging[1].id \notin IdsOf(entries))
  /\ MergeNext(entries, Tail(merging), shared)
  /\ UNCHANGED <<entries, identity, stores, embeds, file, stored, edits, faults,
                 raced, edited, savedEarly>>

-----------------------------------------------------------------------------

\* persist: an error is swallowed, and may leave half a file.
Persist ==
  /\ saveTimer' = FALSE
  /\ \/ file' = Memory /\ UNCHANGED faults
     \/ faults < MaxFaults /\ faults' = faults + 1 /\ file' \in {file, Empty}
  /\ savedEarly' = (savedEarly \/ embeds # {} \/ merging # <<>>)

SaveTimerFires ==
  /\ saveTimer
  /\ Persist
  /\ UNCHANGED <<entries, vectors, identity, stores, embeds, merging, shared, stored, edits,
                 raced, edited, revived, crossed>>

\* The process ends: what is not in the file is gone.
Gone ==
  /\ entries' = <<>> /\ vectors' = <<>> /\ identity' = FALSE /\ saveTimer' = FALSE
  /\ stores' = {} /\ embeds' = {} /\ merging' = <<>> /\ shared' = FALSE

\* init, then getIdentity and perhaps updateIdentity in main.ts.
Load ==
  /\ entries' = file.entries /\ vectors' = file.vectors
  /\ identity' = TRUE
  /\ saveTimer' \in {~file.identity, TRUE}
  /\ UNCHANGED <<stores, embeds, merging, shared, file, stored, edits, faults, history>>

MemoryStep ==
  \/ \E t \in Said : StoreBegin(t)
  \/ \E f \in Facts : ForgetUserFact(f) \/ ForgetMatching(f)
  \/ \E j \in stores : StoreEnd(j)
  \/ \E id \in Ids : Forget(id) \/ \E t \in Said : UpdateMemory(id, t)
  \/ \E j \in embeds : UpdateEnd(j)
  \/ \E ids \in SUBSET Ids : Consolidate(ids)
  \/ MergeStep \/ Touch \/ SaveTimerFires

-----------------------------------------------------------------------------

\* "stay retrievable later": every entry has a vector, of its text or of the longer text
\* it is the beginning of, or a new one of its text is under way, unless two embeddings of
\* one entry crossed or the file was written during one; and only entries have one, unless
\* an entry went during its embedding.
IndexMatches ==
  /\ IdsOf(entries) \subseteq DOMAIN vectors
  /\ ~revived => DOMAIN vectors = IdsOf(entries)
  /\ ~crossed /\ ~savedEarly =>
       \A k \in DOMAIN entries :
         LET id == entries[k].id IN
           \/ Cut(vectors[id]) = entries[k].text
           \/ entries[k].text \in Embedding(id)
           \/ \E n \in 2 .. Len(merging) : merging[n].id = id

\* A text is remembered once, in whatever order stores, embeddings and restarts come,
\* unless it is as long as an entry may be (a longer one, which is looked up whole, is
\* never found again), two stores of it overlapped or texts were changed.
RememberedOnce ==
  ~raced /\ ~edited =>
    \A k, l \in DOMAIN entries :
      k # l /\ entries[k].text = entries[l].text => Len(entries[k].text) = MaxText

\* Memories and their index: neither duplicates nor entries that search cannot find.
MemoryIsConsistent == IndexMatches /\ RememberedOnce

=============================================================================
