----------------------------- MODULE MemoryProofs -----------------------------
(***************************************************************************)
(* Theorems about the memory and the end of the app: what is remembered    *)
(* reaches the file, and memories and their index agree, with the          *)
(* exceptions that the properties name, for any number of memories, edits, *)
(* failed writes and starts, and any cap on the entries.                   *)
(***************************************************************************)
EXTENDS MCQuitting, SequenceTheorems, FiniteSetTheorems, WellFoundedInduction, TLAPS

-----------------------------------------------------------------------------
(* Lists: what the code builds with push, filter, map and shift.           *)

IsList(s) == s \in Seq({s[i] : i \in DOMAIN s})

LEMMA ListOf == ASSUME NEW X, NEW s \in Seq(X) PROVE IsList(s)
<1>1. Len(s) \in Nat /\ s \in [1 .. Len(s) -> X] /\ DOMAIN s = 1 .. Len(s)
  BY LenProperties
<1>2. s \in [1 .. Len(s) -> {s[i] : i \in DOMAIN s}]
  BY <1>1
<1>3. QED
  BY <1>1, <1>2, SeqDef DEF IsList

LEMMA ListParts ==
  ASSUME NEW s, IsList(s)
  PROVE  Len(s) \in Nat /\ DOMAIN s = 1 .. Len(s) /\ (s = <<>> <=> Len(s) = 0)
<1>1. Len(s) \in Nat /\ DOMAIN s = 1 .. Len(s)
  BY LenProperties DEF IsList
<1>2. s # <<>> => Len(s) # 0
  BY EmptySeq DEF IsList
<1>3. QED
  BY <1>1, <1>2

\* Both lists are lists over one set.
LEMMA Joined ==
  ASSUME NEW s, IsList(s), NEW t, IsList(t)
  PROVE  \E X : s \in Seq(X) /\ t \in Seq(X)
<1> DEFINE X == {s[i] : i \in DOMAIN s} \cup {t[i] : i \in DOMAIN t}
<1>1. s \in Seq(X) /\ t \in Seq(X)
  BY SeqMonotonic, Zenon DEF IsList
<1>2. QED
  BY <1>1

LEMMA OneList == ASSUME NEW e PROVE IsList(<<e>>) /\ Len(<<e>>) = 1 /\ <<e>>[1] = e
<1>1. <<e>> \in Seq({e})
  OBVIOUS
<1>2. QED
  BY <1>1, ListOf

LEMMA Appended ==
  ASSUME NEW s, IsList(s), NEW e
  PROVE  /\ IsList(Append(s, e)) /\ Len(Append(s, e)) = Len(s) + 1
         /\ \A i \in 1 .. Len(s) : Append(s, e)[i] = s[i]
         /\ Append(s, e)[Len(s) + 1] = e
<1>1. PICK X : s \in Seq(X) /\ <<e>> \in Seq(X)
  BY Joined, OneList
<1>2. e \in X
  <2>1. <<e>>[1] \in X
    BY <1>1, ElementOfSeq, OneList
  <2>2. QED
    BY <2>1
<1>3. Append(s, e) \in Seq(X)
  BY <1>1, <1>2
<1>4. /\ Len(Append(s, e)) = Len(s) + 1
      /\ \A i \in 1 .. Len(s) : Append(s, e)[i] = s[i]
      /\ Append(s, e)[Len(s) + 1] = e
  BY <1>1, <1>2
<1>5. QED
  BY <1>3, <1>4, ListOf

LEMMA Shifted ==
  ASSUME NEW s, IsList(s), s # <<>>
  PROVE  /\ IsList(Tail(s)) /\ Len(Tail(s)) = Len(s) - 1
         /\ \A i \in 1 .. Len(s) - 1 : Tail(s)[i] = s[i + 1]
         /\ Head(s) = s[1]
<1>1. PICK X : s \in Seq(X)
  BY DEF IsList
<1>2. /\ Tail(s) \in Seq(X) /\ Len(Tail(s)) = Len(s) - 1
      /\ \A i \in 1 .. Len(Tail(s)) : Tail(s)[i] = s[i + 1]
  BY <1>1, HeadTailProperties
<1>3. Head(s) = s[1]
  BY <1>1
<1>4. QED
  BY <1>2, <1>3, ListOf

\* The list whose first element is replaced.
LEMMA Led ==
  ASSUME NEW s, IsList(s), s # <<>>, NEW e
  PROVE  LET t == <<e>> \o Tail(s) IN
           /\ IsList(t) /\ Len(t) = Len(s) /\ t # <<>>
           /\ t[1] = e /\ \A i \in 2 .. Len(s) : t[i] = s[i]
<1> DEFINE t == <<e>> \o Tail(s)
<1>1. PICK X : <<e>> \in Seq(X) /\ Tail(s) \in Seq(X)
  BY Joined, OneList, Shifted
<1>2. t \in Seq(X) /\ Len(t) = 1 + Len(Tail(s))
      /\ \A i \in 1 .. 1 + Len(Tail(s)) : t[i] = IF i <= 1 THEN <<e>>[1] ELSE Tail(s)[i - 1]
  <2>1. Len(<<e>>) = 1
    BY OneList
  <2>2. /\ t \in Seq(X)
        /\ Len(t) = Len(<<e>>) + Len(Tail(s))
        /\ \A i \in 1 .. Len(<<e>>) + Len(Tail(s)) :
             t[i] = IF i <= Len(<<e>>) THEN <<e>>[i] ELSE Tail(s)[i - Len(<<e>>)]
    BY <1>1, ConcatProperties, Zenon
  <2>3. \A i \in 1 .. 1 + Len(Tail(s)) : i <= 1 => i = 1
    BY Shifted, ListParts
  <2>4. QED
    BY <2>1, <2>2, <2>3
<1>3. Len(s) \in Nat /\ Len(s) # 0 /\ Len(Tail(s)) = Len(s) - 1
      /\ \A i \in 1 .. Len(s) - 1 : Tail(s)[i] = s[i + 1]
  BY Shifted, ListParts
<1> HIDE DEF t
<1>4. Len(t) = Len(s) /\ t[1] = e
  <2>1. <<e>>[1] = e
    OBVIOUS
  <2>2. QED
    BY <1>2, <1>3, <2>1
<1>5. ASSUME NEW i \in 2 .. Len(s) PROVE t[i] = s[i]
  <2>1. i \in 1 .. 1 + Len(Tail(s)) /\ ~(i <= 1) /\ i - 1 \in 1 .. Len(s) - 1 /\ (i - 1) + 1 = i
    BY <1>3
  <2>2. QED
    BY <1>2, <1>3, <2>1
<1>6. IsList(t) /\ t # <<>>
  BY <1>2, <1>3, <1>4, ListOf, ListParts
<1>7. QED
  BY <1>4, <1>5, <1>6 DEF t

\* Array.map: a list of the same length.
LEMMA Mapped ==
  ASSUME NEW s, IsList(s), NEW t, t = [k \in DOMAIN s |-> t[k]]
  PROVE  IsList(t) /\ Len(t) = Len(s) /\ DOMAIN t = DOMAIN s
<1>1. Len(s) \in Nat /\ DOMAIN s = 1 .. Len(s)
  BY ListParts
<1> DEFINE X == {t[i] : i \in DOMAIN t}
<1>2. DOMAIN t = 1 .. Len(s) /\ t \in [1 .. Len(s) -> X]
  BY <1>1, Zenon
<1>3. t \in Seq(X)
  BY <1>1, <1>2, SeqDef
<1>4. IsList(t) /\ Len(t) \in Nat /\ DOMAIN t = 1 .. Len(t)
  BY <1>3, ListOf, ListParts, Zenon
<1>5. Len(t) = Len(s)
  BY <1>1, <1>2, <1>4
<1>6. QED
  BY <1>1, <1>2, <1>4, <1>5

-----------------------------------------------------------------------------
(* Array.filter                                                            *)

LEMMA Least == ASSUME NEW Nums \in SUBSET Nat, Nums # {} PROVE \E n \in Nums : \A m \in Nums : n <= m
<1>1. PICK n \in Nums : \A m \in Nums : ~(<<m, n>> \in OpToRel(<, Nat))
  BY NatLessThanWellFounded, WFMin
<1>2. \A m \in Nums : ~(m < n)
  BY <1>1 DEF OpToRel
<1>3. QED
  BY <1>2

\* r is what is left of the first n entries.
Taken(es, ids, n, r) ==
  /\ IsList(r)
  /\ \A i \in DOMAIN r : \E k \in 1 .. n : r[i] = es[k] /\ es[k].id \in ids
  /\ \A k \in 1 .. n : es[k].id \in ids => \E i \in DOMAIN r : r[i] = es[k]
  /\ \A i, j \in DOMAIN r : i # j => \E k, l \in 1 .. n : k # l /\ r[i] = es[k] /\ r[j] = es[l]

\* The equation of Keep's recursive function.
Filters(es, ids, n, f) ==
  f = [i \in 0 .. n |->
         IF i = 0 THEN <<>>
         ELSE IF es[i].id \in ids THEN Append(f[i - 1], es[i]) ELSE f[i - 1]]

LEMMA NothingTaken == ASSUME NEW es, NEW ids PROVE Taken(es, ids, 0, <<>>)
<1>1. IsList(<<>>)
  BY ListOf, EmptySeq, Zenon
<1>2. DOMAIN <<>> = {} /\ 1 .. 0 = {}
  OBVIOUS
<1>3. QED
  BY <1>1, <1>2 DEF Taken

LEMMA TakesOne ==
  ASSUME NEW es, NEW ids, NEW n \in Nat, NEW r, Taken(es, ids, n, r)
  PROVE  Taken(es, ids, n + 1, IF es[n + 1].id \in ids THEN Append(r, es[n + 1]) ELSE r)
<1>1. 1 .. n \subseteq 1 .. n + 1 /\ n + 1 \in 1 .. n + 1 /\ n + 1 \notin 1 .. n
      /\ \A k \in 1 .. n + 1 : k \in 1 .. n \/ k = n + 1
  OBVIOUS
<1>2. CASE es[n + 1].id \notin ids
  BY <1>1, <1>2 DEF Taken
<1>3. CASE es[n + 1].id \in ids
  <2> DEFINE e == es[n + 1]
             s == Append(r, e)
  <2>1. /\ IsList(r) /\ IsList(s) /\ Len(s) = Len(r) + 1
        /\ \A i \in 1 .. Len(r) : s[i] = r[i]
        /\ s[Len(r) + 1] = e
    <3>1. IsList(r)
      BY DEF Taken
    <3>2. QED
      BY <3>1, Appended, ZenonT(30)
  <2>2. Len(r) \in Nat /\ DOMAIN r = 1 .. Len(r) /\ DOMAIN s = 1 .. Len(s)
    BY <2>1, ListParts
  <2> HIDE DEF s
  <2> DEFINE last == Len(r) + 1
  <2>3. /\ last \in DOMAIN s /\ DOMAIN r \subseteq DOMAIN s /\ last \notin DOMAIN r
        /\ \A i \in DOMAIN s : i \in DOMAIN r \/ i = last
        /\ \A i \in DOMAIN r : s[i] = r[i]
        /\ s[last] = e
    BY <2>1, <2>2
  <2> HIDE DEF last
  <2>4. \A i \in DOMAIN s : \E k \in 1 .. n + 1 : s[i] = es[k] /\ es[k].id \in ids
    BY <1>1, <1>3, <2>3 DEF Taken
  <2>5. \A k \in 1 .. n + 1 : es[k].id \in ids => \E i \in DOMAIN s : s[i] = es[k]
    BY <1>1, <2>3 DEF Taken
  <2>6. ASSUME NEW i \in DOMAIN s, NEW j \in DOMAIN s, i # j
        PROVE  \E k, l \in 1 .. n + 1 : k # l /\ s[i] = es[k] /\ s[j] = es[l]
    <3>1. CASE i \in DOMAIN r /\ j \in DOMAIN r
      BY <1>1, <2>3, <2>6, <3>1 DEF Taken
    <3>2. CASE i \in DOMAIN r /\ j = last
      <4>1. PICK k \in 1 .. n : r[i] = es[k]
        BY <3>2 DEF Taken
      <4>2. QED
        BY <1>1, <2>3, <3>2, <4>1
    <3>3. CASE i = last /\ j \in DOMAIN r
      <4>1. PICK k \in 1 .. n : r[j] = es[k]
        BY <3>3 DEF Taken
      <4>2. QED
        BY <1>1, <2>3, <3>3, <4>1
    <3>4. QED
      BY <2>3, <2>6, <3>1, <3>2, <3>3
  <2>7. Taken(es, ids, n + 1, s)
    BY <2>1, <2>4, <2>5, <2>6 DEF Taken
  <2>8. QED
    BY <1>3, <2>7 DEF s
<1>4. QED
  BY <1>2, <1>3

\* The recursive function exists.
LEMMA FilterExists ==
  ASSUME NEW es, NEW ids, NEW n \in Nat
  PROVE  \E f : Filters(es, ids, n, f)
<1> DEFINE Missing == {m \in Nat : ~(\E f : Filters(es, ids, m, f))}
<1>1. SUFFICES ASSUME Missing # {} PROVE FALSE
  OBVIOUS
<1>2. PICK m \in Missing : \A p \in Missing : m <= p
  BY <1>1, Least
<1>3. CASE m = 0
  <2>1. Filters(es, ids, 0, [i \in 0 .. 0 |-> <<>>])
    BY DEF Filters
  <2>2. QED
    BY <1>3, <2>1
<1>4. CASE m # 0
  <2>1. m - 1 \in Nat /\ ~(m <= m - 1) /\ m \in Nat
    BY <1>4
  <2>2. PICK f : Filters(es, ids, m - 1, f)
    BY <1>2, <2>1
  <2> DEFINE Next1(g, i) == IF es[i].id \in ids THEN Append(g[i - 1], es[i]) ELSE g[i - 1]
             g == [i \in 0 .. m |-> IF i = m THEN Next1(f, m) ELSE f[i]]
  <2>3. ASSUME NEW i \in 0 .. m PROVE g[i] = IF i = 0 THEN <<>> ELSE Next1(g, i)
    <3>1. CASE i = 0
      <4>1. 0 \in 0 .. m - 1 /\ 0 # m /\ 0 \in 0 .. m
        BY <1>4, <2>1
      <4>2. f[0] = <<>>
        BY <2>2, <4>1 DEF Filters
      <4>3. QED
        BY <3>1, <4>1, <4>2
    <3>2. CASE i # 0
      <4>1. i - 1 \in 0 .. m /\ i - 1 # m /\ (i # m => i \in 0 .. m - 1)
        BY <2>1, <3>2
      <4>2. g[i - 1] = f[i - 1]
        BY <4>1
      <4>3. i # m => g[i] = f[i] /\ f[i] = Next1(f, i)
        BY <2>2, <3>2, <4>1 DEF Filters
      <4>4. i = m => g[i] = Next1(f, m)
        OBVIOUS
      <4>5. QED
        BY <3>2, <4>2, <4>3, <4>4
    <3>3. QED
      BY <3>1, <3>2
  <2>4. g = [i \in 0 .. m |-> g[i]]
    OBVIOUS
  <2> HIDE DEF g
  <2>5. Filters(es, ids, m, g)
    BY <2>3, <2>4, Zenon DEF Filters
  <2>6. QED
    BY <2>5
<1>5. QED
  BY <1>3, <1>4

\* Keep keeps the entries with these ids, each once.
LEMMA KeepTakes ==
  ASSUME NEW es, IsList(es), NEW ids
  PROVE  Taken(es, ids, Len(es), Keep(es, ids))
<1> DEFINE kept == CHOOSE f : Filters(es, ids, Len(es), f)
<1>1. Len(es) \in Nat
  BY ListParts
<1>2. Filters(es, ids, Len(es), kept)
  BY <1>1, FilterExists
<1>3. Keep(es, ids) = kept[Len(es)]
  BY DEF Keep, Filters
<1> HIDE DEF kept
<1> DEFINE Bad == {m \in Nat : m <= Len(es) /\ ~Taken(es, ids, m, kept[m])}
<1>4. Bad = {}
  <2>1. SUFFICES ASSUME Bad # {} PROVE FALSE
    OBVIOUS
  <2>2. PICK m \in Bad : \A p \in Bad : m <= p
    BY <2>1, Least
  <2>3. CASE m = 0
    <3>1. kept[0] = <<>>
      BY <1>1, <1>2 DEF Filters
    <3>2. QED
      BY <2>3, <3>1, NothingTaken
  <2>4. CASE m # 0
    <3>1. m - 1 \in Nat /\ m - 1 <= Len(es) /\ ~(m <= m - 1) /\ (m - 1) + 1 = m /\ m \in 0 .. Len(es)
      BY <1>1, <2>4
    <3>2. Taken(es, ids, m - 1, kept[m - 1])
      BY <2>2, <3>1
    <3>3. kept[m] = IF es[m].id \in ids THEN Append(kept[m - 1], es[m]) ELSE kept[m - 1]
      BY <1>2, <2>4, <3>1 DEF Filters
    <3> DEFINE p == m - 1
    <3>4. p \in Nat /\ p + 1 = m /\ Taken(es, ids, p, kept[p])
          /\ kept[p + 1] = IF es[p + 1].id \in ids THEN Append(kept[p], es[p + 1]) ELSE kept[p]
      BY <3>1, <3>2, <3>3
    <3> HIDE DEF p
    <3>5. Taken(es, ids, p + 1, kept[p + 1])
      BY <3>4, TakesOne, ZenonT(30)
    <3>6. QED
      BY <3>4, <3>5
  <2>5. QED
    BY <2>3, <2>4
<1>5. QED
  BY <1>1, <1>3, <1>4

-----------------------------------------------------------------------------
(* The invariant                                                           *)

OneEach(es) == \A k, l \in DOMAIN es : k # l => es[k].id # es[l].id
Unlike(es) ==
  \A k, l \in DOMAIN es : k # l /\ es[k].text = es[l].text => Len(es[k].text) = MaxText

\* No text is longer than an entry may be.
Fits(es) == \A k \in DOMAIN es : Cut(es[k].text) = es[k].text

\* The loop of consolidate has still to come to this id.
Waits(mg, id) == \E n \in 2 .. Len(mg) : mg[n].id = id

\* The text that e has is being embedded.
Awaited(em, mg, e) ==
  \/ \E j \in em : j.id = e.id /\ j.text = e.text
  \/ mg # <<>> /\ mg[1].id = e.id /\ mg[1].text = e.text

\* No other text of e is being embedded.
Alone(em, mg, e) ==
  /\ \A j \in em : j.id = e.id => j.text = e.text
  /\ mg # <<>> /\ mg[1].id = e.id => mg[1].text = e.text

\* e has its vector, or gets it.
Found(vs, em, mg, e) == Cut(vs[e.id]) = e.text \/ Awaited(em, mg, e) \/ Waits(mg, e.id)

Lists == IsList(entries) /\ IsList(merging) /\ IsList(file.entries)

Short == Fits(entries) /\ Fits(file.entries)

\* An id names one call of store; what its memory became is nowhere before it is stored.
Named ==
  /\ stored \in Nat
  /\ OneEach(entries) /\ OneEach(file.entries)
  /\ IdsOf(entries) \cup IdsOf(merging) \cup IdsOf(file.entries) \subseteq 1 .. stored
  /\ \A j \in embeds : j.id \in 1 .. stored
  /\ \A j \in stores :
       /\ j.id \in 1 .. stored
       /\ j.id \notin IdsOf(entries) /\ j.id \notin IdsOf(merging)
       /\ \A i \in embeds : i.id # j.id
       /\ \A i \in stores : i.id = j.id => i = j

Indexed ==
  /\ IdsOf(entries) \subseteq DOMAIN vectors
  /\ ~revived => DOMAIN vectors \subseteq IdsOf(entries)
  /\ ~crossed /\ ~savedEarly =>
       \A k \in DOMAIN entries : Found(vectors, embeds, merging, entries[k])
  /\ ~crossed =>
       \A k \in DOMAIN entries : Waits(merging, entries[k].id) \/ Alone(embeds, merging, entries[k])

\* A file that was not written during an embedding has the vectors of its entries.
Filed ==
  /\ IdsOf(file.entries) \subseteq DOMAIN file.vectors
  /\ ~revived => DOMAIN file.vectors \subseteq IdsOf(file.entries)
  /\ ~crossed /\ ~savedEarly =>
       \A k \in DOMAIN file.entries : Cut(file.vectors[file.entries[k].id]) = file.entries[k].text

Once ==
  ~raced /\ ~edited =>
    /\ Unlike(entries) /\ Unlike(file.entries)
    /\ \A i, j \in stores : i.text = j.text => i = j
    /\ \A j \in stores : \A k \in DOMAIN entries :
         j.text = entries[k].text => Len(j.text) = MaxText

\* A process that is gone awaits nothing.
Asleep == ~running => stores = {} /\ embeds = {} /\ merging = <<>>

MemoryInv == Lists /\ Short /\ Named /\ Indexed /\ Filed /\ Once /\ Asleep

\* What is embedded again is saved after it, if it was not saved before.
SaveInv ==
  /\ Asleep /\ Lists
  /\ faults \in Nat /\ identity \in BOOLEAN /\ file.identity \in BOOLEAN
  /\ running /\ faults = 0 /\ embeds # {} => saveTimer \/ merging # <<>> \/ savedEarly
  /\ running /\ asked => hurried
  /\ running /\ servicesShutdown /\ ~shutdownStarted => asked
  /\ SavesInOrder

-----------------------------------------------------------------------------
(* Lists stay lists                                                        *)

LEMMA EmptyList == IsList(<<>>) /\ Len(<<>>) = 0 /\ DOMAIN <<>> = {}
<1>1. IsList(<<>>)
  BY ListOf, EmptySeq, Zenon
<1>2. QED
  BY <1>1

LEMMA Kept == ASSUME NEW es, IsList(es), NEW ids PROVE IsList(Keep(es, ids))
BY KeepTakes DEF Taken

\* MergeNext embeds the next entry, or the loop ends with a save planned.
LEMMA LoopGoesOn ==
  ASSUME NEW es, NEW left, IsList(left), NEW same, MergeNext(es, left, same)
  PROVE  /\ IsList(merging') /\ (crossed => crossed') /\ (saveTimer => saveTimer')
         /\ saveTimer' \/ merging' # <<>>
         /\ left = <<>> => merging' = <<>>
         /\ left # <<>> =>
              /\ Len(merging') = Len(left) /\ merging' # <<>>
              /\ merging'[1].id = left[1].id
              /\ \A n \in 2 .. Len(left) : merging'[n] = left[n]
              /\ OneEach(es) => \A k \in DOMAIN es : es[k].id = left[1].id => merging'[1] = es[k]
              /\ ~crossed' => \A j \in embeds : j.id = left[1].id => j.text = merging'[1].text
<1>1. CASE left = <<>>
  BY <1>1, EmptyList DEF MergeNext
<1>2. CASE left # <<>>
  <2> DEFINE old == Head(left)
             next == IF old.id \in IdsOf(es) THEN CHOOSE e \in ToSet(es) : e.id = old.id ELSE old
  <2>1. /\ merging' = <<next>> \o Tail(left)
        /\ crossed' = (crossed \/ \E j \in embeds : j.id = next.id /\ j.text # next.text)
        /\ saveTimer' = saveTimer
    BY <1>2 DEF MergeNext
  <2>2. old = left[1]
    BY <1>2, Shifted
  <2>3. old.id \in IdsOf(es) => next \in ToSet(es) /\ next.id = old.id
    <3>1. old.id \in IdsOf(es) => \E e \in ToSet(es) : e.id = old.id
      BY DEF IdsOf, ToSet
    <3>2. QED
      BY <3>1
  <2>4. next.id = left[1].id
    BY <2>2, <2>3
  <2>5. ASSUME OneEach(es), NEW k \in DOMAIN es, es[k].id = left[1].id PROVE next = es[k]
    <3>1. old.id \in IdsOf(es)
      BY <2>2, <2>5 DEF IdsOf
    <3>2. PICK l \in DOMAIN es : next = es[l]
      BY <2>3, <3>1 DEF ToSet
    <3>3. QED
      BY <2>4, <2>5, <3>2 DEF OneEach
  <2> HIDE DEF next, old
  <2>6. /\ IsList(merging') /\ Len(merging') = Len(left) /\ merging' # <<>>
        /\ merging'[1] = next /\ \A n \in 2 .. Len(left) : merging'[n] = left[n]
    BY <1>2, <2>1, Led
  <2>7. ~crossed' => \A j \in embeds : j.id = left[1].id => j.text = merging'[1].text
    BY <2>1, <2>4, <2>6
  <2>8. QED
    BY <1>2, <2>1, <2>4, <2>5, <2>6, <2>7
<1>3. QED
  BY <1>1, <1>2

LEMMA ListsStart == Init => Lists
<1>1. ASSUME Init PROVE Lists
  <2>1. entries = <<>> /\ merging = <<>>
    BY <1>1 DEF Init, MInit
  <2>2. file = Empty \/ \E t \in Said : file.entries = <<[id |-> 1, text |-> Cut(t)]>>
    BY <1>1 DEF Init, MInit
  <2>3. IsList(file.entries)
    <3>1. CASE file = Empty
      BY <3>1, EmptyList DEF Empty
    <3>2. CASE \E t \in Said : file.entries = <<[id |-> 1, text |-> Cut(t)]>>
      BY <3>2, OneList, Zenon
    <3>3. QED
      BY <2>2, <3>1, <3>2
  <2>4. QED
    BY <2>1, <2>3, EmptyList DEF Lists
<1>2. QED
  BY <1>1

LEMMA ListsRemember == ASSUME Lists, MemoryStep PROVE Lists'
<1>1. ASSUME NEW t \in Said, StoreBegin(t) PROVE Lists'
  BY <1>1 DEF StoreBegin, Lists
<1>2. ASSUME NEW ids, ForgetAll(ids) PROVE Lists'
  BY <1>2, Kept DEF ForgetAll, Lists
<1>3. ASSUME NEW j \in stores, StoreEnd(j) PROVE Lists'
  <2> DEFINE new == [id |-> j.id, text |-> Cut(j.text)]
  <2>1. IsList(Append(entries, new)) /\ IsList(Append(merging, new))
    BY Appended, Zenon DEF Lists
  <2>2. PICK dropped : Prune(Append(entries, new), With(vectors, j.id, j.text), dropped)
    BY <1>3 DEF StoreEnd
  <2>3. IsList(entries')
    BY <2>1, <2>2, Kept DEF Prune
  <2>4. QED
    BY <1>3, <2>1, <2>3 DEF StoreEnd, Lists
<1>4. ASSUME NEW id \in Ids, NEW t \in Said, UpdateMemory(id, t) PROVE Lists'
  <2> DEFINE es == [k \in DOMAIN entries |->
                      IF entries[k].id = id THEN [id |-> id, text |-> Cut(t)] ELSE entries[k]]
  <2>1. es = [k \in DOMAIN entries |-> es[k]]
    OBVIOUS
  <2>2. entries' = es /\ merging' = merging /\ file' = file
    BY <1>4 DEF UpdateMemory
  <2> HIDE DEF es
  <2>3. QED
    BY <2>1, <2>2, Mapped, Zenon DEF Lists
<1>5. ASSUME NEW j \in embeds, UpdateEnd(j) PROVE Lists'
  BY <1>5 DEF UpdateEnd, Lists
<1>6. ASSUME NEW ids \in SUBSET Ids, Consolidate(ids) PROVE Lists'
  <2> DEFINE similar == Keep(entries, ids)
             first   == similar[1].id
             text    == Cut(FlattenSeq([k \in DOMAIN similar |-> similar[k].text]))
             kept    == Keep(entries, (IdsOf(entries) \ ids) \cup {first})
             merged  == [k \in DOMAIN kept |->
                           IF kept[k].id = first THEN [id |-> first, text |-> text] ELSE kept[k]]
  <2>1. entries' = merged /\ MergeNext(merged, merged, TRUE) /\ file' = file
    BY <1>6 DEF Consolidate
  <2>2. IsList(kept)
    BY Kept DEF Lists
  <2>3. merged = [k \in DOMAIN kept |-> merged[k]]
    OBVIOUS
  <2> HIDE DEF merged, kept
  <2>4. IsList(merged)
    BY <2>2, <2>3, Mapped, Zenon
  <2>5. QED
    BY <2>1, <2>4, LoopGoesOn DEF Lists
<1>7. CASE MergeStep
  <2>1. IsList(Tail(merging)) /\ MergeNext(entries, Tail(merging), shared)
        /\ entries' = entries /\ file' = file
    BY <1>7, Shifted DEF MergeStep, Lists
  <2>2. QED
    BY <2>1, LoopGoesOn DEF Lists
<1>8. CASE Touch
  BY <1>8 DEF Touch, Lists
<1>9. CASE SaveTimerFires
  BY <1>9, EmptyList DEF SaveTimerFires, Persist, Memory, Empty, Lists
<1>10. QED
  <2>1. ASSUME NEW f \in Facts, ForgetUserFact(f) \/ ForgetMatching(f) PROVE Lists'
    BY <2>1, <1>2 DEF ForgetUserFact, ForgetMatching
  <2>2. ASSUME NEW id \in Ids, Forget(id) PROVE Lists'
    BY <2>2, <1>2 DEF Forget
  <2>3. QED
    BY <1>1, <1>3, <1>4, <1>5, <1>6, <1>7, <1>8, <1>9, <2>1, <2>2 DEF MemoryStep

LEMMA ListsKeep == ASSUME Lists, [Next]_vars PROVE Lists'
<1>1. CASE Boot
  BY <1>1 DEF Boot, Load, Lists
<1>2. CASE Remembers
  BY <1>2, ListsRemember DEF Remembers
<1>3. CASE Signal
  BY <1>3 DEF Signal, mvars, volatile, Lists
<1>4. CASE WillQuit
  BY <1>4, EmptyList DEF WillQuit, Exit, Gone, volatile, Lists
<1>5. CASE TeardownEnds
  <2>1. (entries' = entries /\ merging' = merging) \/ (entries' = <<>> /\ merging' = <<>>)
    BY <1>5 DEF TeardownEnds, Exit, Gone
  <2>2. file' = Memory \/ file' = file \/ file' = Empty
    BY <1>5 DEF TeardownEnds
  <2>3. IsList(file'.entries)
    BY <2>2, EmptyList DEF Memory, Empty, Lists
  <2>4. QED
    BY <2>1, <2>3, EmptyList DEF Lists
<1>6. CASE TimeLimit
  BY <1>6, EmptyList DEF TimeLimit, Exit, Gone, Lists
<1>7. CASE Crash
  BY <1>7, EmptyList DEF Crash, Gone, Empty, Lists
<1>8. CASE UNCHANGED vars
  BY <1>8 DEF vars, mvars, volatile, Lists
<1>9. QED
  BY <1>1, <1>2, <1>3, <1>4, <1>5, <1>6, <1>7, <1>8 DEF Next

-----------------------------------------------------------------------------
(* What is remembered reaches the file                                     *)

LEMMA SaveStarts == Init => SaveInv
<1>1. ASSUME Init PROVE SaveInv
  <2>1. Lists
    BY <1>1, ListsStart
  <2>2. stores = {} /\ embeds = {} /\ merging = <<>> /\ faults = 0 /\ identity = FALSE /\ ~running /\ ~lost
    BY <1>1 DEF Init, MInit
  <2>3. file.identity \in BOOLEAN
    <3>1. CASE file = Empty
      BY <3>1 DEF Empty
    <3>2. CASE file # Empty
      <4>1. PICK t \in Said :
              file = [entries |-> <<[id |-> 1, text |-> Cut(t)]>>, vectors |-> [i \in {1} |-> t],
                      identity |-> TRUE]
        BY <1>1, <3>2 DEF Init, MInit
      <4>2. QED
        BY <4>1
    <3>3. QED
      BY <3>1, <3>2
  <2>4. QED
    BY <2>1, <2>2, <2>3 DEF SaveInv, Asleep, SavesInOrder, SavedOrPlanned, QuitSaves
<1>2. QED
  BY <1>1

\* The shutdown goes on as it did.
QuitGoesOn == UNCHANGED <<quit, hurried, lost>>

\* A step of the memory plans a save, or needs none.
LEMMA PlannedIsSaved ==
  ASSUME SaveInv, Lists', running, QuitGoesOn,
         UNCHANGED file, UNCHANGED faults, UNCHANGED identity,
         \/ saveTimer' \/ merging' # <<>>
         \/ UNCHANGED <<entries, vectors, identity, saveTimer, embeds, merging, savedEarly>>
  PROVE  SaveInv'
<1>1. running' /\ UNCHANGED <<servicesShutdown, asked, shutdownStarted, hurried, lost>>
  BY DEF QuitGoesOn, quit
<1>2. Asleep' /\ faults' \in Nat /\ identity' \in BOOLEAN /\ file'.identity \in BOOLEAN /\ QuitSaves'
      /\ (running' /\ asked' => hurried')
      /\ (running' /\ servicesShutdown' /\ ~shutdownStarted' => asked')
  BY <1>1 DEF SaveInv, Asleep, SavesInOrder, QuitSaves
<1>3. CASE saveTimer' \/ merging' # <<>>
  BY <1>2, <1>3 DEF SaveInv, SavesInOrder, SavedOrPlanned
<1>4. CASE UNCHANGED <<entries, vectors, identity, saveTimer, embeds, merging, savedEarly>>
  BY <1>1, <1>2, <1>4 DEF SaveInv, SavesInOrder, SavedOrPlanned
<1>5. QED
  BY <1>3, <1>4

\* A write saves everything, or is counted.
LEMMA WriteSaves ==
  ASSUME SaveInv, Lists', running,
         UNCHANGED <<running, servicesShutdown, asked, shutdownStarted, hurried, lost>>,
         UNCHANGED <<entries, vectors, identity, embeds, merging>>,
         \/ file' = Memory /\ UNCHANGED faults
         \/ faults < MaxFaults /\ faults' = faults + 1 /\ file' \in {file, Empty},
         savedEarly' = (savedEarly \/ embeds # {} \/ merging # <<>>)
  PROVE  SaveInv'
<1>1. Asleep' /\ identity' \in BOOLEAN
      /\ (running' /\ asked' => hurried')
      /\ (running' /\ servicesShutdown' /\ ~shutdownStarted' => asked')
      /\ (running' /\ faults' = 0 /\ embeds' # {} => savedEarly')
  BY DEF SaveInv, Asleep
<1>2. faults' \in Nat /\ (faults' = 0 => faults = 0 /\ file' = Memory) /\ (faults > 0 => faults' > 0)
  BY DEF SaveInv
<1>3. file' = Memory => file'.entries = entries /\ file'.vectors = vectors /\ file'.identity = identity
  BY DEF Memory
<1>4. file'.identity \in BOOLEAN
  <2>1. Empty.identity = FALSE
    BY DEF Empty
  <2>2. file' = Memory \/ file' = file \/ file' = Empty
    OBVIOUS
  <2>3. QED
    BY <1>1, <1>3, <2>1, <2>2 DEF SaveInv
<1>5. SavesInOrder'
  <2>1. SavedOrPlanned'
    BY <1>2, <1>3 DEF SavedOrPlanned
  <2>2. QuitSaves'
    BY <1>2 DEF SaveInv, SavesInOrder, QuitSaves
  <2>3. QED
    BY <2>1, <2>2 DEF SavesInOrder
<1>6. QED
  BY <1>1, <1>2, <1>4, <1>5 DEF SaveInv

LEMMA SaveRemembers ==
  ASSUME SaveInv, Lists', running, MemoryStep, QuitGoesOn
  PROVE  SaveInv'
<1>0. Lists
  BY DEF SaveInv
<1>1. ASSUME NEW t \in Said, StoreBegin(t) PROVE SaveInv'
  BY <1>1, PlannedIsSaved DEF StoreBegin
<1>2. ASSUME NEW ids, ForgetAll(ids) PROVE SaveInv'
  BY <1>2, PlannedIsSaved DEF ForgetAll
<1>3. ASSUME NEW j \in stores, StoreEnd(j) PROVE SaveInv'
  BY <1>3, PlannedIsSaved DEF StoreEnd
<1>4. ASSUME NEW id \in Ids, NEW t \in Said, UpdateMemory(id, t) PROVE SaveInv'
  BY <1>4, PlannedIsSaved DEF UpdateMemory
<1>5. ASSUME NEW j \in embeds, UpdateEnd(j) PROVE SaveInv'
  <2>1. running' /\ UNCHANGED <<servicesShutdown, asked, shutdownStarted, hurried, lost>>
    BY DEF QuitGoesOn, quit
  <2>2. /\ embeds # {} /\ UNCHANGED <<file, faults, saveTimer, merging, savedEarly, entries, identity>>
    BY <1>5 DEF UpdateEnd
  <2>3. faults = 0 => saveTimer \/ merging # <<>> \/ savedEarly
    BY <2>2 DEF SaveInv
  <2>4. CASE saveTimer \/ merging # <<>>
    BY <2>2, <2>4, PlannedIsSaved
  <2>5. CASE ~(saveTimer \/ merging # <<>>)
    BY <2>1, <2>2, <2>3, <2>5 DEF SaveInv, Asleep, SavesInOrder, SavedOrPlanned, QuitSaves
  <2>6. QED
    BY <2>4, <2>5
<1>6. ASSUME NEW ids \in SUBSET Ids, Consolidate(ids) PROVE SaveInv'
  <2>1. \E es : entries' = es /\ MergeNext(es, es, TRUE)
    BY <1>6 DEF Consolidate
  <2>2. saveTimer' \/ merging' # <<>>
    BY <2>1, LoopGoesOn DEF Lists
  <2>3. QED
    BY <1>6, <2>2, PlannedIsSaved DEF Consolidate
<1>7. CASE MergeStep
  <2>1. IsList(Tail(merging)) /\ MergeNext(entries, Tail(merging), shared)
    BY <1>0, <1>7, Shifted DEF MergeStep, Lists
  <2>2. saveTimer' \/ merging' # <<>>
    BY <2>1, LoopGoesOn
  <2>3. QED
    BY <1>7, <2>2, PlannedIsSaved DEF MergeStep
<1>8. CASE Touch
  BY <1>8, PlannedIsSaved DEF Touch
<1>9. CASE SaveTimerFires
  <2>1. UNCHANGED <<running, servicesShutdown, asked, shutdownStarted, hurried, lost>>
    BY DEF QuitGoesOn, quit
  <2>2. QED
    BY <1>9, <2>1, WriteSaves DEF SaveTimerFires, Persist
<1>10. QED
  <2>1. ASSUME NEW f \in Facts, ForgetUserFact(f) \/ ForgetMatching(f) PROVE SaveInv'
    BY <2>1, <1>2 DEF ForgetUserFact, ForgetMatching
  <2>2. ASSUME NEW id \in Ids, Forget(id) PROVE SaveInv'
    BY <2>2, <1>2 DEF Forget
  <2>3. QED
    BY <1>1, <1>3, <1>4, <1>5, <1>6, <1>7, <1>8, <1>9, <2>1, <2>2 DEF MemoryStep

\* An exit loses nothing that was saved.
LEMMA ExitSaves ==
  ASSUME SaveInv, Lists', Exit(file'), faults' \in Nat, file'.identity \in BOOLEAN,
         UNCHANGED hurried \/ hurried',
         faults > 0 => faults' > 0,
         Memory = file' \/ hurried' \/ faults' > 0
  PROVE  SaveInv'
<1>1. /\ ~running' /\ stores' = {} /\ embeds' = {} /\ merging' = <<>> /\ identity' = FALSE
      /\ lost' = (lost \/ Memory # file')
  BY DEF Exit, Gone
<1>2. lost' => hurried' \/ faults' > 0
  BY <1>1 DEF SaveInv, SavesInOrder, QuitSaves
<1>3. QED
  BY <1>1, <1>2 DEF SaveInv, Asleep, SavesInOrder, SavedOrPlanned, QuitSaves

LEMMA SaveKeeps == ASSUME SaveInv, [Next]_vars PROVE SaveInv'
<1>0. Lists'
  BY ListsKeep DEF SaveInv
<1>1. CASE Boot
  <2>1. /\ faults' \in Nat /\ identity' = TRUE /\ file' = file /\ file.identity \in BOOLEAN
        /\ entries' = file.entries /\ vectors' = file.vectors /\ embeds' = {} /\ merging' = <<>>
        /\ faults' = faults /\ lost' = lost /\ hurried' = hurried /\ ~servicesShutdown' /\ ~asked'
        /\ running' /\ saveTimer' \in {~file.identity, TRUE}
    BY <1>1 DEF Boot, Load, SaveInv, Asleep
  <2>2. saveTimer' \/ file'.identity = identity'
    BY <2>1
  <2>3. QED
    BY <1>0, <2>1, <2>2 DEF SaveInv, Asleep, SavesInOrder, SavedOrPlanned, QuitSaves
<1>2. CASE Remembers
  BY <1>0, <1>2, SaveRemembers DEF Remembers, QuitGoesOn
<1>3. CASE Signal
  BY <1>0, <1>3 DEF Signal, mvars, volatile, history, Memory, SaveInv, Asleep, SavesInOrder, SavedOrPlanned, QuitSaves
<1>4. CASE WillQuit
  <2>1. CASE servicesShutdown
    BY <1>0, <1>4, <2>1, ExitSaves DEF WillQuit, SaveInv
  <2>2. CASE ~servicesShutdown
    <3>1. /\ UNCHANGED <<entries, vectors, identity, saveTimer, stores, embeds, merging>>
          /\ UNCHANGED <<running, lost, file, faults, savedEarly, hurried>> /\ shutdownStarted' /\ ~asked'
      BY <1>4, <2>2 DEF WillQuit, volatile, history
    <3>2. QED
      BY <1>0, <3>1 DEF SaveInv, Asleep, SavesInOrder, SavedOrPlanned, QuitSaves
  <2>3. QED
    BY <2>1, <2>2
<1>5. CASE TeardownEnds
  <2>1. CASE shutdownStarted
    <3>1. faults' \in Nat /\ (faults > 0 => faults' > 0) /\ (file' = Memory \/ faults' > 0)
      BY <1>5 DEF TeardownEnds, SaveInv
    <3>2. file'.identity \in BOOLEAN
      <4>1. Empty.identity = FALSE /\ Memory.identity = identity
        BY DEF Empty, Memory
      <4>2. file' = Memory \/ file' = file \/ file' = Empty
        BY <1>5 DEF TeardownEnds
      <4>3. QED
        BY <4>1, <4>2 DEF SaveInv
    <3>3. QED
      BY <1>0, <1>5, <2>1, <3>1, <3>2, ExitSaves DEF TeardownEnds
  <2>2. CASE ~shutdownStarted
    BY <1>0, <1>5, <2>2, WriteSaves DEF TeardownEnds
  <2>3. QED
    BY <2>1, <2>2
<1>6. CASE TimeLimit
  BY <1>0, <1>6, ExitSaves DEF TimeLimit, SaveInv
<1>7. CASE Crash
  <2>1. file'.identity \in BOOLEAN
    <3>1. Empty.identity = FALSE
      BY DEF Empty
    <3>2. QED
      BY <1>7, <3>1 DEF Crash, SaveInv
  <2>2. QED
    BY <1>0, <1>7, <2>1 DEF Crash, Gone, SaveInv, Asleep, SavesInOrder, SavedOrPlanned, QuitSaves
<1>8. CASE UNCHANGED vars
  BY <1>0, <1>8 DEF vars, mvars, volatile, history, quit, Memory, SaveInv, Asleep, SavesInOrder,
       SavedOrPlanned, QuitSaves
<1>9. QED
  BY <1>1, <1>2, <1>3, <1>4, <1>5, <1>6, <1>7, <1>8 DEF Next

\* What is remembered reaches the file, by a planned save or by the quit (memory_engine.ts,
\* scheduleSave and persist; main.ts, shutdownServices and the will-quit handler), unless a
\* write failed, the time limit cut the teardown short or a signal came.
THEOREM EverythingIsSaved == Spec => []SavesInOrder
<1>1. SaveInv /\ [Next]_vars => SaveInv'
  BY SaveKeeps
<1>2. SaveInv => SavesInOrder
  BY DEF SaveInv
<1>3. QED
  BY <1>1, <1>2, SaveStarts, PTL DEF Spec

-----------------------------------------------------------------------------
(* Memories and their index                                                *)

LEMMA KeepParts ==
  ASSUME NEW es, IsList(es), NEW ids
  PROVE  /\ IsList(Keep(es, ids))
         /\ IdsOf(Keep(es, ids)) = IdsOf(es) \cap ids
         /\ \A i \in DOMAIN Keep(es, ids) : \E k \in DOMAIN es : Keep(es, ids)[i] = es[k]
         /\ OneEach(es) => OneEach(Keep(es, ids))
         /\ Unlike(es) => Unlike(Keep(es, ids))
<1> DEFINE r == Keep(es, ids)
<1>1. DOMAIN es = 1 .. Len(es)
  BY ListParts
<1>2. /\ IsList(r)
      /\ \A i \in DOMAIN r : \E k \in DOMAIN es : r[i] = es[k] /\ es[k].id \in ids
      /\ \A k \in DOMAIN es : es[k].id \in ids => \E i \in DOMAIN r : r[i] = es[k]
      /\ \A i, j \in DOMAIN r : i # j => \E k, l \in DOMAIN es : k # l /\ r[i] = es[k] /\ r[j] = es[l]
  <2>1. Taken(es, ids, Len(es), r)
    BY KeepTakes
  <2>2. QED
    <3>1. IsList(r)
      BY <2>1 DEF Taken
    <3>2. \A i \in DOMAIN r : \E k \in DOMAIN es : r[i] = es[k] /\ es[k].id \in ids
      BY <1>1, <2>1 DEF Taken
    <3>3. \A k \in DOMAIN es : es[k].id \in ids => \E i \in DOMAIN r : r[i] = es[k]
      BY <1>1, <2>1 DEF Taken
    <3>4. \A i, j \in DOMAIN r : i # j => \E k, l \in DOMAIN es : k # l /\ r[i] = es[k] /\ r[j] = es[l]
      <4>1. ASSUME NEW i \in DOMAIN r, NEW j \in DOMAIN r, i # j
            PROVE  \E k, l \in 1 .. Len(es) : k # l /\ r[i] = es[k] /\ r[j] = es[l]
        BY <2>1, <4>1, Zenon DEF Taken
      <4>2. QED
        BY <1>1, <4>1
    <3>5. QED
      BY <3>1, <3>2, <3>3, <3>4
<1> HIDE DEF r
<1>3. IdsOf(r) = IdsOf(es) \cap ids
  <2>1. ASSUME NEW i \in DOMAIN r PROVE r[i].id \in IdsOf(es) \cap ids
    BY <1>2 DEF IdsOf
  <2>2. ASSUME NEW k \in DOMAIN es, es[k].id \in ids PROVE es[k].id \in IdsOf(r)
    <3>1. PICK i \in DOMAIN r : r[i] = es[k]
      BY <1>2, <2>2
    <3>2. QED
      BY <3>1 DEF IdsOf
  <2>3. QED
    BY <2>1, <2>2 DEF IdsOf
<1>4. OneEach(es) => OneEach(r)
  BY <1>2 DEF OneEach
<1>5. Unlike(es) => Unlike(r)
  BY <1>2 DEF Unlike
<1>6. QED
  BY <1>2, <1>3, <1>4, <1>5 DEF r

\* What is left without these ids.
LEMMA DroppedParts ==
  ASSUME NEW es, IsList(es), OneEach(es), NEW dropped, NEW r, r = Keep(es, IdsOf(es) \ dropped)
  PROVE  /\ IdsOf(r) = IdsOf(es) \ dropped
         /\ \A i \in DOMAIN r : \E k \in DOMAIN es : r[i] = es[k]
         /\ OneEach(r) /\ (Unlike(es) => Unlike(r))
<1> DEFINE ids == IdsOf(es) \ dropped
<1>1. r = Keep(es, ids) /\ IdsOf(es) \cap ids = ids
  OBVIOUS
<1> HIDE DEF ids
<1>2. /\ IdsOf(r) = IdsOf(es) \cap ids
      /\ \A i \in DOMAIN r : \E k \in DOMAIN es : r[i] = es[k]
      /\ OneEach(r) /\ (Unlike(es) => Unlike(r))
  <2> DEFINE s == Keep(es, ids)
  <2>1. /\ IdsOf(s) = IdsOf(es) \cap ids
        /\ \A i \in DOMAIN s : \E k \in DOMAIN es : s[i] = es[k]
        /\ OneEach(s) /\ (Unlike(es) => Unlike(s))
    BY KeepParts
  <2> HIDE DEF s
  <2>2. r = s
    BY <1>1 DEF s
  <2>3. QED
    BY <2>1, <2>2
<1>3. QED
  BY <1>1, <1>2 DEF ids

LEMMA WithoutParts ==
  ASSUME NEW vs, NEW ids
  PROVE  /\ DOMAIN Without(vs, ids) = DOMAIN vs \ ids
         /\ \A i \in DOMAIN vs \ ids : Without(vs, ids)[i] = vs[i]
BY DEF Without

LEMMA FileStays ==
  ASSUME Filed, UNCHANGED file,
         revived => revived', crossed => crossed', savedEarly => savedEarly'
  PROVE  Filed'
BY DEF Filed

\* With the entry that was pushed.
LEMMA PushedParts ==
  ASSUME NEW es, IsList(es), NEW j
  PROVE  /\ IsList(Append(es, j))
         /\ IdsOf(Append(es, j)) = IdsOf(es) \cup {j.id}
         /\ \A k \in DOMAIN Append(es, j) :
              Append(es, j)[k] = j \/ \E l \in DOMAIN es : Append(es, j)[k] = es[l]
         /\ OneEach(es) /\ j.id \notin IdsOf(es) => OneEach(Append(es, j))
         /\ Unlike(es) /\ (\A k \in DOMAIN es : j.text = es[k].text => Len(j.text) = MaxText)
              => Unlike(Append(es, j))
<1> DEFINE s == Append(es, j)
           last == Len(es) + 1
<1>1. /\ IsList(es) /\ IsList(s) /\ Len(s) = Len(es) + 1
      /\ \A i \in 1 .. Len(es) : s[i] = es[i]
      /\ s[last] = j
  BY Appended
<1>2. Len(es) \in Nat /\ DOMAIN es = 1 .. Len(es) /\ DOMAIN s = 1 .. Len(s)
  BY <1>1, ListParts
<1> HIDE DEF s
<1>3. /\ last \in DOMAIN s /\ DOMAIN es \subseteq DOMAIN s /\ last \notin DOMAIN es
      /\ \A i \in DOMAIN s : i \in DOMAIN es \/ i = last
      /\ \A i \in DOMAIN es : s[i] = es[i]
  BY <1>1, <1>2
<1> HIDE DEF last
<1>4. IdsOf(s) = IdsOf(es) \cup {j.id}
  BY <1>1, <1>3 DEF IdsOf
<1>5. \A k \in DOMAIN s : s[k] = j \/ \E l \in DOMAIN es : s[k] = es[l]
  BY <1>1, <1>3
<1>6. OneEach(es) /\ j.id \notin IdsOf(es) => OneEach(s)
  BY <1>1, <1>3 DEF OneEach, IdsOf
<1>7. Unlike(es) /\ (\A k \in DOMAIN es : j.text = es[k].text => Len(j.text) = MaxText)
        => Unlike(s)
  BY <1>1, <1>3 DEF Unlike
<1>8. QED
  BY <1>1, <1>4, <1>5, <1>6, <1>7 DEF s

\* The loop of consolidate also comes to an entry that is pushed while it runs.
LEMMA LongerLoop ==
  ASSUME NEW em, NEW mg, IsList(mg), NEW j
  PROVE  /\ \A id : Waits(mg, id) => Waits(Append(mg, j), id)
         /\ \A e : Awaited(em, mg, e) => Awaited(em, Append(mg, j), e)
         /\ \A e : e.id # j.id /\ Alone(em, mg, e) => Alone(em, Append(mg, j), e)
         /\ (\A i \in em : i.id # j.id) /\ j.id \notin IdsOf(mg) => Alone(em, Append(mg, j), j)
<1> DEFINE s == Append(mg, j)
<1>1. /\ Len(s) = Len(mg) + 1 /\ \A i \in 1 .. Len(mg) : s[i] = mg[i]
      /\ s[Len(mg) + 1] = j
      /\ Len(mg) \in Nat /\ DOMAIN mg = 1 .. Len(mg) /\ (mg = <<>> <=> Len(mg) = 0)
      /\ IsList(s)
  BY Appended, ListParts
<1>2. s # <<>>
  BY <1>1, ListParts
<1> HIDE DEF s
<1>3. mg # <<>> => 1 \in DOMAIN mg /\ s[1] = mg[1]
  BY <1>1
<1>4. mg = <<>> => s[1] = j
  BY <1>1
<1>5. \A id : Waits(mg, id) => Waits(s, id)
  BY <1>1 DEF Waits
<1>6. \A e : Awaited(em, mg, e) => Awaited(em, s, e)
  BY <1>2, <1>3 DEF Awaited
<1>7. \A e : e.id # j.id /\ Alone(em, mg, e) => Alone(em, s, e)
  BY <1>3, <1>4 DEF Alone
<1>8. (\A i \in em : i.id # j.id) /\ j.id \notin IdsOf(mg) => Alone(em, s, j)
  BY <1>3, <1>4 DEF Alone, IdsOf
<1>9. QED
  BY <1>5, <1>6, <1>7, <1>8 DEF s

\* A text that is cut is as long as an entry may be.
LEMMA CutParts ==
  ASSUME NEW text
  PROVE  (Cut(text) = text \/ Len(Cut(text)) = MaxText) /\ Cut(Cut(text)) = Cut(text)
<1>1. MaxText \in Nat /\ ~(MaxText > MaxText)
  BY MemoryAssumption
<1>2. CASE Len(text) > MaxText
  <2>1. Cut(text) = [i \in 1 .. MaxText |-> text[i]]
    BY <1>1, <1>2 DEF Cut
  <2>2. Len([i \in 1 .. MaxText |-> text[i]]) = MaxText
    BY <1>1, EmptyList
  <2>3. QED
    BY <1>1, <2>1, <2>2 DEF Cut
<1>3. CASE ~(Len(text) > MaxText)
  BY <1>3 DEF Cut
<1>4. QED
  BY <1>2, <1>3

LEMMA ShortStarts == Init => Short
<1>1. ASSUME Init PROVE Short
  <2>1. entries = <<>> /\ DOMAIN <<>> = {}
    BY <1>1, EmptyList DEF Init, MInit
  <2>2. CASE file = Empty
    BY <2>1, <2>2 DEF Empty, Short, Fits
  <2>3. CASE file # Empty
    <3>1. PICK t \in Said : file.entries = <<[id |-> 1, text |-> Cut(t)]>>
      BY <1>1, <2>3 DEF Init, MInit
    <3> DEFINE e == [id |-> 1, text |-> Cut(t)]
    <3>2. Cut(e.text) = e.text
      BY CutParts
    <3> HIDE DEF e
    <3>3. DOMAIN <<e>> = {1} /\ <<e>>[1] = e /\ file.entries = <<e>>
      BY <3>1 DEF e
    <3>4. QED
      BY <2>1, <3>2, <3>3 DEF Short, Fits
  <2>4. QED
    BY <2>2, <2>3
<1>2. QED
  BY <1>1

LEMMA ShortRemembers == ASSUME Lists, Short, MemoryStep PROVE Short'
<1>1. ASSUME NEW t \in Said, StoreBegin(t) PROVE Short'
  BY <1>1 DEF StoreBegin, Short
<1>2. ASSUME NEW ids, ForgetAll(ids) PROVE Short'
  <2>1. \A i \in DOMAIN entries' : \E k \in DOMAIN entries : entries'[i] = entries[k]
    BY <1>2, KeepParts DEF ForgetAll, Lists
  <2>2. QED
    BY <1>2, <2>1 DEF ForgetAll, Short, Fits
<1>3. ASSUME NEW j \in stores, StoreEnd(j) PROVE Short'
  <2> DEFINE new == [id |-> j.id, text |-> Cut(j.text)]
  <2>1. PICK dropped : Prune(Append(entries, new), With(vectors, j.id, j.text), dropped)
    BY <1>3 DEF StoreEnd
  <2>2. Cut(new.text) = new.text
    BY CutParts
  <2> HIDE DEF new
  <2> DEFINE es == Append(entries, new)
  <2>3. IsList(es) /\ \A k \in DOMAIN es : es[k] = new \/ \E l \in DOMAIN entries : es[k] = entries[l]
    BY PushedParts DEF Lists
  <2>4. entries' = Keep(es, IdsOf(es) \ dropped)
    BY <2>1 DEF Prune
  <2> HIDE DEF es
  <2>5. \A i \in DOMAIN entries' : \E k \in DOMAIN es : entries'[i] = es[k]
    BY <2>3, <2>4, KeepParts
  <2>6. QED
    BY <1>3, <2>2, <2>3, <2>5 DEF StoreEnd, Short, Fits
<1>4. ASSUME NEW id \in Ids, NEW t \in Said, UpdateMemory(id, t) PROVE Short'
  <2>1. /\ DOMAIN entries' = DOMAIN entries /\ file' = file
        /\ \A k \in DOMAIN entries : entries'[k] = entries[k] \/ entries'[k].text = Cut(t)
    BY <1>4 DEF UpdateMemory
  <2>2. QED
    BY <2>1, CutParts DEF Short, Fits
<1>5. ASSUME NEW j \in embeds, UpdateEnd(j) PROVE Short'
  BY <1>5 DEF UpdateEnd, Short
<1>6. ASSUME NEW ids \in SUBSET Ids, Consolidate(ids) PROVE Short'
  <2> DEFINE similar == Keep(entries, ids)
             first   == similar[1].id
             whole   == FlattenSeq([k \in DOMAIN similar |-> similar[k].text])
             kept    == Keep(entries, (IdsOf(entries) \ ids) \cup {first})
  <2>1. /\ DOMAIN entries' = DOMAIN kept /\ file' = file
        /\ \A k \in DOMAIN kept : entries'[k] = kept[k] \/ entries'[k].text = Cut(whole)
    BY <1>6 DEF Consolidate
  <2>2. \A i \in DOMAIN kept : \E k \in DOMAIN entries : kept[i] = entries[k]
    BY KeepParts DEF Lists
  <2> HIDE DEF kept, whole
  <2>3. QED
    BY <2>1, <2>2, CutParts DEF Short, Fits
<1>7. CASE MergeStep
  BY <1>7 DEF MergeStep, Short
<1>8. CASE Touch
  BY <1>8 DEF Touch, Short
<1>9. CASE SaveTimerFires
  BY <1>9, EmptyList DEF SaveTimerFires, Persist, Memory, Empty, Short, Fits
<1>10. QED
  <2>1. ASSUME NEW f \in Facts, ForgetUserFact(f) \/ ForgetMatching(f) PROVE Short'
    BY <2>1, <1>2 DEF ForgetUserFact, ForgetMatching
  <2>2. ASSUME NEW id \in Ids, Forget(id) PROVE Short'
    BY <2>2, <1>2 DEF Forget
  <2>3. QED
    BY <1>1, <1>3, <1>4, <1>5, <1>6, <1>7, <1>8, <1>9, <2>1, <2>2 DEF MemoryStep

LEMMA ShortKeeps == ASSUME Lists, Short, [Next]_vars PROVE Short'
<1>0. DOMAIN <<>> = {} /\ Fits(<<>>)
  BY EmptyList DEF Fits
<1>1. CASE Boot
  BY <1>1 DEF Boot, Load, Short
<1>2. CASE Remembers
  BY <1>2, ShortRemembers DEF Remembers
<1>3. CASE Signal
  BY <1>3 DEF Signal, mvars, volatile, Short
<1>4. CASE WillQuit
  BY <1>0, <1>4 DEF WillQuit, Exit, Gone, volatile, Short
<1>5. CASE TeardownEnds
  <2>1. entries' = entries \/ entries' = <<>>
    BY <1>5 DEF TeardownEnds, Exit, Gone
  <2>2. file' = Memory \/ file' = file \/ file' = Empty
    BY <1>5 DEF TeardownEnds
  <2>3. QED
    BY <1>0, <2>1, <2>2 DEF Memory, Empty, Short
<1>6. CASE TimeLimit
  BY <1>0, <1>6 DEF TimeLimit, Exit, Gone, Short
<1>7. CASE Crash
  BY <1>0, <1>7 DEF Crash, Gone, Empty, Short
<1>8. CASE UNCHANGED vars
  BY <1>8 DEF vars, mvars, volatile, Short
<1>9. QED
  BY <1>1, <1>2, <1>3, <1>4, <1>5, <1>6, <1>7, <1>8 DEF Next

Consistent == Named /\ Indexed /\ Filed /\ Once

LEMMA StoreBeginKeeps == ASSUME MemoryInv, NEW t \in Said, StoreBegin(t) PROVE Consistent'
<1>1. UNCHANGED <<entries, vectors, embeds, merging, file, edited, revived, crossed, savedEarly>>
  BY DEF StoreBegin
<1>2. Indexed' /\ Filed'
  BY <1>1 DEF MemoryInv, Indexed, Filed
<1>3. CASE UNCHANGED <<stores, stored, raced>>
  BY <1>1, <1>2, <1>3 DEF MemoryInv, Named, Once, Consistent
<1>4. CASE /\ \A k \in DOMAIN entries : entries[k].text # t
           /\ stored' = stored + 1
           /\ stores' = stores \cup {[id |-> stored', text |-> t]}
           /\ raced' = (raced \/ \E j \in stores : j.text = t)
  <2> DEFINE j == [id |-> stored', text |-> t]
  <2>1. stored' \in Nat /\ stored' \in 1 .. stored' /\ 1 .. stored \subseteq 1 .. stored' /\ stored' \notin 1 .. stored
    BY <1>4 DEF MemoryInv, Named
  <2>2. j.id = stored' /\ j.text = t /\ stores' = stores \cup {j}
    BY <1>4
  <2> HIDE DEF j
  <2>3. /\ j.id \notin IdsOf(entries) /\ j.id \notin IdsOf(merging)
        /\ \A i \in embeds : i.id # j.id
        /\ \A i \in stores : i.id # j.id
    BY <2>1, <2>2 DEF MemoryInv, Named
  <2>4. \A i \in stores :
          /\ i.id \in 1 .. stored'
          /\ i.id \notin IdsOf(entries') /\ i.id \notin IdsOf(merging')
          /\ \A e \in embeds' : e.id # i.id
          /\ \A e \in stores' : e.id = i.id => e = i
    BY <1>1, <2>1, <2>2, <2>3 DEF MemoryInv, Named
  <2>5. Named'
    BY <1>1, <2>1, <2>2, <2>3, <2>4 DEF MemoryInv, Named
  <2>6. Once'
    BY <1>1, <1>4, <2>2 DEF MemoryInv, Once
  <2>7. QED
    BY <1>2, <2>5, <2>6 DEF Consistent
<1>5. QED
  BY <1>3, <1>4 DEF StoreBegin

LEMMA ForgetAllKeeps ==
  ASSUME MemoryInv, NEW ids, ForgetAll(ids)
  PROVE  Consistent'
<1> DEFINE r == Keep(entries, IdsOf(entries) \ ids)
<1>1. /\ entries' = r /\ vectors' = Without(vectors, ids)
      /\ UNCHANGED <<stores, embeds, merging, file, stored, raced, edited, revived, crossed, savedEarly>>
  BY DEF ForgetAll, history
<1>2. /\ IdsOf(r) = IdsOf(entries) \ ids
      /\ \A i \in DOMAIN r : \E k \in DOMAIN entries : r[i] = entries[k]
      /\ OneEach(r) /\ (Unlike(entries) => Unlike(r))
  <2>1. IsList(entries) /\ OneEach(entries)
    BY DEF MemoryInv, Lists, Named
  <2>2. QED
    BY <2>1, DroppedParts, Zenon
<1>3. DOMAIN vectors' = DOMAIN vectors \ ids /\ \A i \in DOMAIN vectors \ ids : vectors'[i] = vectors[i]
  BY <1>1, WithoutParts
<1> HIDE DEF r
<1>4. Named'
  BY <1>1, <1>2 DEF MemoryInv, Named
<1>5. Indexed'
  <2>1. ASSUME NEW i \in DOMAIN r
        PROVE  /\ r[i].id \in DOMAIN vectors \ ids
               /\ \E k \in DOMAIN entries : r[i] = entries[k]
    BY <1>2 DEF IdsOf, MemoryInv, Indexed
  <2>2. ~crossed /\ ~savedEarly => \A i \in DOMAIN r : Found(vectors', embeds, merging, r[i])
    BY <1>3, <2>1 DEF MemoryInv, Indexed, Found
  <2>3. ~crossed => \A i \in DOMAIN r : Waits(merging, r[i].id) \/ Alone(embeds, merging, r[i])
    BY <2>1 DEF MemoryInv, Indexed
  <2>4. IdsOf(r) \subseteq DOMAIN vectors' /\ (~revived => DOMAIN vectors' \subseteq IdsOf(r))
    BY <1>2, <1>3 DEF MemoryInv, Indexed
  <2>5. QED
    BY <1>1, <2>2, <2>3, <2>4 DEF Indexed
<1>6. Filed'
  BY <1>1, FileStays DEF MemoryInv
<1>7. Once'
  BY <1>1, <1>2 DEF MemoryInv, Once
<1>8. QED
  BY <1>4, <1>5, <1>6, <1>7 DEF Consistent

LEMMA StoreEndKeeps == ASSUME MemoryInv, NEW j \in stores, StoreEnd(j) PROVE Consistent'
<1> DEFINE new == [id |-> j.id, text |-> Cut(j.text)]
           es  == Append(entries, new)
           vs  == With(vectors, j.id, j.text)
<1>1. PICK dropped : Prune(es, vs, dropped)
  BY DEF StoreEnd
<1>0. new.id = j.id /\ new.text = Cut(j.text)
  OBVIOUS
<1> DEFINE r == Keep(es, IdsOf(es) \ dropped)
<1>2. /\ entries' = r /\ vectors' = Without(vs, dropped) /\ stores' = stores \ {j}
      /\ (merging' = merging \/ merging' = Append(merging, new))
      /\ UNCHANGED <<embeds, file, stored, raced, edited, revived, crossed, savedEarly>>
  BY <1>1 DEF StoreEnd, Prune, history
<1>3. /\ IsList(es)
      /\ IdsOf(es) = IdsOf(entries) \cup {j.id}
      /\ \A k \in DOMAIN es : es[k] = new \/ \E l \in DOMAIN entries : es[k] = entries[l]
      /\ OneEach(es)
      /\ Unlike(entries)
           /\ (\A k \in DOMAIN entries : new.text = entries[k].text => Len(new.text) = MaxText)
           => Unlike(es)
  <2> HIDE DEF new
  <2>1. IsList(entries) /\ OneEach(entries) /\ new.id \notin IdsOf(entries)
    BY <1>0 DEF MemoryInv, Lists, Named
  <2>2. QED
    BY <1>0, <2>1, PushedParts
<1>4. DOMAIN vs = DOMAIN vectors \cup {j.id} /\ vs[j.id] = j.text
      /\ \A i \in DOMAIN vectors : i # j.id => vs[i] = vectors[i]
  BY DEF With
<1> HIDE DEF es, vs, new
<1>5. /\ IdsOf(r) = IdsOf(es) \ dropped
      /\ \A i \in DOMAIN r : \E k \in DOMAIN es : r[i] = es[k]
      /\ OneEach(r) /\ (Unlike(es) => Unlike(r))
  BY <1>3, DroppedParts, Zenon
<1>6. DOMAIN vectors' = DOMAIN vs \ dropped /\ \A i \in DOMAIN vs \ dropped : vectors'[i] = vs[i]
  BY <1>2, WithoutParts
<1> HIDE DEF r
<1>7. /\ \A id : Waits(merging, id) => Waits(merging', id)
      /\ \A e : Awaited(embeds, merging, e) => Awaited(embeds, merging', e)
      /\ \A e : e.id # j.id /\ Alone(embeds, merging, e) => Alone(embeds, merging', e)
      /\ Alone(embeds, merging', new)
      /\ IdsOf(merging') \subseteq IdsOf(merging) \cup {j.id}
  <2>1. (\A i \in embeds : i.id # j.id) /\ j.id \notin IdsOf(merging) /\ IsList(merging)
    BY DEF MemoryInv, Lists, Named
  <2>2. CASE merging' = merging
    BY <1>0, <2>1, <2>2 DEF Alone, IdsOf
  <2>3. CASE merging' = Append(merging, new)
    BY <1>0, <2>1, <2>3, LongerLoop, PushedParts
  <2>4. QED
    BY <1>2, <2>2, <2>3
<1>8. ASSUME NEW i \in DOMAIN r
      PROVE  /\ r[i].id \in DOMAIN vs \ dropped
             /\ \/ r[i] = new
                \/ \E k \in DOMAIN entries : r[i] = entries[k] /\ r[i].id # j.id
  <2>1. r[i].id \in IdsOf(es) \ dropped
    BY <1>5 DEF IdsOf
  <2>2. r[i].id \in DOMAIN vs
    BY <1>3, <1>4, <2>1 DEF MemoryInv, Indexed
  <2>3. r[i] = new \/ \E k \in DOMAIN entries : r[i] = entries[k]
    BY <1>3, <1>5
  <2>4. \A k \in DOMAIN entries : entries[k].id # j.id
    BY DEF IdsOf, MemoryInv, Named
  <2>5. QED
    BY <2>1, <2>2, <2>3, <2>4
<1>9. Named'
  <2>1. IdsOf(r) \cup IdsOf(merging') \subseteq 1 .. stored
    BY <1>3, <1>5, <1>7 DEF MemoryInv, Named
  <2>2. \A i \in stores' : i \in stores /\ i.id # j.id
    BY <1>2 DEF MemoryInv, Named
  <2>3. \A i \in stores' : i.id \notin IdsOf(r) /\ i.id \notin IdsOf(merging')
    BY <1>3, <1>5, <1>7, <2>2 DEF MemoryInv, Named
  <2>4. QED
    BY <1>2, <1>5, <2>1, <2>2, <2>3 DEF MemoryInv, Named
<1>10. Indexed'
  <2>1. ASSUME ~crossed, ~savedEarly, NEW i \in DOMAIN r PROVE Found(vectors', embeds, merging', r[i])
    <3>1. CASE r[i] = new
      BY <1>0, <1>4, <1>6, <1>8, <3>1 DEF Found
    <3>2. CASE r[i] # new
      <4>1. PICK k \in DOMAIN entries : r[i] = entries[k] /\ r[i].id # j.id
        BY <1>8, <3>2
      <4>2. Found(vectors, embeds, merging, r[i])
        BY <2>1, <4>1 DEF MemoryInv, Indexed
      <4>3. vectors'[r[i].id] = vectors[r[i].id]
        BY <1>4, <1>6, <1>8, <4>1
      <4>4. QED
        BY <1>7, <4>2, <4>3 DEF Found
    <3>3. QED
      BY <3>1, <3>2
  <2>2. ASSUME ~crossed, NEW i \in DOMAIN r
        PROVE  Waits(merging', r[i].id) \/ Alone(embeds, merging', r[i])
    BY <1>7, <1>8, <2>2 DEF MemoryInv, Indexed
  <2>3. IdsOf(r) \subseteq DOMAIN vectors' /\ (~revived => DOMAIN vectors' \subseteq IdsOf(r))
    BY <1>3, <1>4, <1>5, <1>6 DEF MemoryInv, Indexed
  <2>4. QED
    BY <1>2, <2>1, <2>2, <2>3 DEF Indexed
<1>11. Filed'
  BY <1>2, FileStays DEF MemoryInv
<1>12. Once'
  <2>1. ASSUME ~raced, ~edited
        PROVE  /\ Unlike(r) /\ Unlike(file.entries)
               /\ \A i, k \in stores' : i.text = k.text => i = k
               /\ \A i \in stores' : \A k \in DOMAIN r : i.text = r[k].text => Len(i.text) = MaxText
    <3>1. new.text = j.text \/ Len(new.text) = MaxText
      BY <1>0, CutParts
    <3>2. \A k \in DOMAIN entries : new.text = entries[k].text => Len(new.text) = MaxText
      BY <2>1, <3>1 DEF MemoryInv, Once
    <3>3. Unlike(r)
      BY <1>3, <1>5, <2>1, <3>2 DEF MemoryInv, Once
    <3>4. \A i \in stores' : i \in stores /\ (i.text = new.text => Len(i.text) = MaxText)
      BY <1>2, <2>1, <3>1 DEF MemoryInv, Once
    <3>5. QED
      BY <1>8, <2>1, <3>3, <3>4 DEF MemoryInv, Once
  <2>2. QED
    BY <1>2, <2>1 DEF Once
<1>13. QED
  BY <1>9, <1>10, <1>11, <1>12 DEF Consistent

LEMMA UpdateMemoryKeeps ==
  ASSUME MemoryInv, NEW id \in Ids, NEW t \in Said, UpdateMemory(id, t)
  PROVE  Consistent'
<1> DEFINE es == [k \in DOMAIN entries |->
                    IF entries[k].id = id THEN [id |-> id, text |-> Cut(t)] ELSE entries[k]]
           new == [n |-> edits', id |-> id, text |-> Cut(t)]
<1>1. /\ id \in IdsOf(entries) /\ entries' = es /\ embeds' = embeds \cup {new} /\ edited'
      /\ (crossed => crossed') /\ (~crossed' => Embedding(id) \ {Cut(t)} = {})
      /\ UNCHANGED <<vectors, merging, stores, file, stored, revived, savedEarly>>
  BY DEF UpdateMemory
<1>2. /\ DOMAIN es = DOMAIN entries
      /\ \A k \in DOMAIN entries :
           /\ es[k].id = entries[k].id
           /\ entries[k].id = id => es[k].text = Cut(t)
           /\ entries[k].id # id => es[k] = entries[k]
  OBVIOUS
<1>3. new.id = id /\ new.text = Cut(t)
  OBVIOUS
<1> HIDE DEF es, new
<1>4. IdsOf(es) = IdsOf(entries) /\ OneEach(es)
  BY <1>2 DEF IdsOf, MemoryInv, Named, OneEach
<1>5. Named'
  <2>1. \A j \in embeds' : j \in embeds \/ j.id = id
    BY <1>1, <1>3
  <2>2. \A i \in stores : i.id # id
    BY <1>1 DEF MemoryInv, Named
  <2>3. id \in 1 .. stored
    BY <1>1 DEF MemoryInv, Named
  <2>4. QED
    BY <1>1, <1>4, <2>1, <2>2, <2>3 DEF MemoryInv, Named
<1>6. ASSUME ~crossed', ~savedEarly, NEW k \in DOMAIN es PROVE Found(vectors, embeds', merging, es[k])
  <2>1. CASE entries[k].id = id
    BY <1>1, <1>2, <1>3, <2>1 DEF Found, Awaited
  <2>2. CASE entries[k].id # id
    <3>1. Found(vectors, embeds, merging, es[k])
      BY <1>1, <1>2, <1>6, <2>2 DEF MemoryInv, Indexed
    <3>2. QED
      BY <1>1, <3>1 DEF Found, Awaited
  <2>3. QED
    BY <2>1, <2>2
<1>7. ASSUME ~crossed', NEW k \in DOMAIN es
      PROVE  Waits(merging, es[k].id) \/ Alone(embeds', merging, es[k])
  <2>1. CASE entries[k].id = id
    <3>1. \A j \in embeds : j.id = id => j.text = Cut(t)
      <4>1. \A j \in embeds : j.id = id => j.text \in Embedding(id)
        BY DEF Embedding
      <4>2. QED
        BY <1>1, <1>7, <4>1
    <3>2. merging # <<>> /\ merging[1].id = id => merging[1].text = Cut(t)
      <4>1. merging # <<>> /\ merging[1].id = id => merging[1].text \in Embedding(id)
        BY DEF Embedding
      <4>2. QED
        BY <1>1, <1>7, <4>1
    <3>3. QED
      BY <1>1, <1>2, <1>3, <2>1, <3>1, <3>2 DEF Alone
  <2>2. CASE entries[k].id # id
    <3>1. Waits(merging, es[k].id) \/ Alone(embeds, merging, es[k])
      BY <1>1, <1>2, <1>7, <2>2 DEF MemoryInv, Indexed
    <3>2. QED
      BY <1>1, <1>2, <1>3, <2>2, <3>1 DEF Alone
  <2>3. QED
    BY <2>1, <2>2
<1>8. Indexed'
  BY <1>1, <1>4, <1>6, <1>7 DEF MemoryInv, Indexed
<1>9. Filed' /\ Once'
  BY <1>1, FileStays DEF MemoryInv, Once
<1>10. QED
  BY <1>5, <1>8, <1>9 DEF Consistent

LEMMA UpdateEndKeeps == ASSUME MemoryInv, NEW j \in embeds, UpdateEnd(j) PROVE Consistent'
<1>1. /\ embeds' = embeds \ {j} /\ vectors' = With(vectors, j.id, j.text)
      /\ (revived => revived') /\ (~revived' => j.id \in IdsOf(entries))
      /\ UNCHANGED <<entries, merging, stores, file, stored, raced, edited, crossed, savedEarly>>
  BY DEF UpdateEnd
<1>2. /\ DOMAIN vectors' = DOMAIN vectors \cup {j.id} /\ vectors'[j.id] = j.text
      /\ \A i \in DOMAIN vectors : i # j.id => vectors'[i] = vectors[i]
  BY <1>1 DEF With
<1>3. Named'
  BY <1>1 DEF MemoryInv, Named
<1>4. ASSUME ~crossed, NEW k \in DOMAIN entries
      PROVE  Waits(merging, entries[k].id) \/ Alone(embeds', merging, entries[k])
  BY <1>1, <1>4 DEF MemoryInv, Indexed, Alone
<1>5. ASSUME ~crossed, ~savedEarly, NEW k \in DOMAIN entries
      PROVE  Found(vectors', embeds', merging, entries[k])
  <2>1. /\ Found(vectors, embeds, merging, entries[k])
        /\ Waits(merging, entries[k].id) \/ Alone(embeds, merging, entries[k])
        /\ entries[k].id \in DOMAIN vectors
    BY <1>5 DEF MemoryInv, Indexed, IdsOf
  <2>2. CASE entries[k].id = j.id
    BY <1>2, <2>1, <2>2 DEF Found, Alone, MemoryInv, Short, Fits
  <2>3. CASE entries[k].id # j.id
    BY <1>1, <1>2, <2>1, <2>3 DEF Found, Awaited
  <2>4. QED
    BY <2>2, <2>3
<1>6. IdsOf(entries) \subseteq DOMAIN vectors' /\ (~revived' => DOMAIN vectors' \subseteq IdsOf(entries))
  BY <1>1, <1>2 DEF MemoryInv, Indexed
<1>7. Indexed'
  BY <1>1, <1>4, <1>5, <1>6 DEF Indexed
<1>8. Filed' /\ Once'
  BY <1>1, FileStays DEF MemoryInv, Once
<1>9. QED
  BY <1>3, <1>7, <1>8 DEF Consistent

\* The loop begins with the entries themselves.
LEMMA LoopStarts ==
  ASSUME NEW es, IsList(es), OneEach(es), \E same : MergeNext(es, es, same)
  PROVE  /\ IsList(merging') /\ (crossed => crossed')
         /\ es = <<>> => merging' = <<>>
         /\ es # <<>> =>
              /\ Len(merging') = Len(es) /\ merging' # <<>>
              /\ \A n \in 2 .. Len(es) : merging'[n] = es[n]
              /\ \A k \in DOMAIN es : es[k].id = es[1].id => merging'[1] = es[k]
              /\ ~crossed' => \A j \in embeds : j.id = es[1].id => j.text = merging'[1].text
<1>1. PICK same : MergeNext(es, es, same)
  OBVIOUS
<1>2. \A left : left = es => IsList(left) /\ MergeNext(es, left, same)
  BY <1>1
<1>3. \A left : left = es =>
        /\ IsList(merging') /\ (crossed => crossed')
        /\ left = <<>> => merging' = <<>>
        /\ left # <<>> =>
             /\ Len(merging') = Len(left) /\ merging' # <<>>
             /\ \A n \in 2 .. Len(left) : merging'[n] = left[n]
             /\ \A k \in DOMAIN es : es[k].id = left[1].id => merging'[1] = es[k]
             /\ ~crossed' => \A j \in embeds : j.id = left[1].id => j.text = merging'[1].text
  BY <1>2, LoopGoesOn
<1>4. QED
  BY <1>3

LEMMA ConsolidateKeeps == ASSUME MemoryInv, NEW ids \in SUBSET Ids, Consolidate(ids) PROVE Consistent'
<1> DEFINE similar == Keep(entries, ids)
           first   == similar[1].id
           text    == Cut(FlattenSeq([k \in DOMAIN similar |-> similar[k].text]))
           others  == (IdsOf(entries) \ ids) \cup {first}
           kept    == Keep(entries, others)
           merged  == [k \in DOMAIN kept |->
                         IF kept[k].id = first THEN [id |-> first, text |-> text] ELSE kept[k]]
<1>1. /\ entries' = merged /\ vectors' = Without(vectors, ids \ {first})
      /\ MergeNext(merged, merged, TRUE) /\ edited'
      /\ UNCHANGED <<stores, embeds, file, stored, revived, savedEarly>>
  BY DEF Consolidate
<1>2. IsList(entries) /\ OneEach(entries)
  BY DEF MemoryInv, Lists, Named
<1>3. IsList(kept) /\ IdsOf(kept) = IdsOf(entries) \cap others /\ OneEach(kept)
  <2> HIDE DEF others
  <2>1. QED
    BY <1>2, KeepParts
<1>4. merged = [k \in DOMAIN kept |-> merged[k]] /\ DOMAIN merged = DOMAIN kept
      /\ \A k \in DOMAIN kept : merged[k].id = kept[k].id
  OBVIOUS
<1>5. PICK es : es = merged /\ \E same : MergeNext(es, es, same)
  BY <1>1
<1> HIDE DEF merged, kept
<1>6. IsList(es)
  <2>1. es = [k \in DOMAIN kept |-> es[k]]
    BY <1>4, <1>5
  <2>2. QED
    BY <1>3, <2>1, Mapped, Zenon
<1>7. OneEach(es) /\ IdsOf(es) = IdsOf(kept)
  BY <1>3, <1>4, <1>5 DEF OneEach, IdsOf
<1>8. Len(es) \in Nat /\ DOMAIN es = 1 .. Len(es) /\ (es = <<>> <=> Len(es) = 0)
  BY <1>6, ListParts
<1>9. /\ IsList(merging') /\ (crossed => crossed')
      /\ es = <<>> => merging' = <<>>
      /\ es # <<>> =>
           /\ Len(merging') = Len(es) /\ merging' # <<>>
           /\ \A n \in 2 .. Len(es) : merging'[n] = es[n]
           /\ \A k \in DOMAIN es : es[k].id = es[1].id => merging'[1] = es[k]
           /\ ~crossed' => \A j \in embeds : j.id = es[1].id => j.text = merging'[1].text
  <2>1. IsList(es) /\ OneEach(es) /\ \E same : MergeNext(es, es, same)
    BY <1>5, <1>6, <1>7
  <2> HIDE DEF first, text, similar, others
  <2>2. QED
    BY <2>1, LoopStarts
<1>10. ASSUME NEW k \in DOMAIN es
      PROVE  /\ es # <<>>
             /\ k = 1 => merging'[1] = es[k]
             /\ k # 1 => k \in 2 .. Len(merging') /\ merging'[k] = es[k]
  BY <1>8, <1>9
<1>11. IdsOf(merging') \subseteq IdsOf(es)
  <2>1. CASE es = <<>>
    BY <1>9, <2>1, EmptyList DEF IdsOf
  <2>2. CASE es # <<>>
    <3>1. DOMAIN merging' = DOMAIN es
      BY <1>8, <1>9, <2>2, ListParts
    <3>2. \A n \in DOMAIN merging' : merging'[n] = es[n]
      BY <1>10, <3>1
    <3>3. QED
      BY <3>1, <3>2 DEF IdsOf
  <2>3. QED
    BY <2>1, <2>2
<1>12. Named'
  <2>1. IdsOf(es) \subseteq IdsOf(entries)
    BY <1>3, <1>7
  <2>2. QED
    BY <1>1, <1>7, <1>11, <1>5, <2>1 DEF MemoryInv, Named
<1>13. Indexed'
  <2>1. DOMAIN vectors' = DOMAIN vectors \ (ids \ {first})
    BY <1>1 DEF Without
  <2>2. IdsOf(es) \subseteq DOMAIN vectors' /\ (~revived => DOMAIN vectors' \subseteq IdsOf(es))
    <3> HIDE DEF first
    <3>1. QED
      BY <1>3, <1>7, <2>1 DEF MemoryInv, Indexed
  <2>3. \A k \in DOMAIN es : Found(vectors', embeds, merging', es[k])
    BY <1>9, <1>10 DEF Found, Awaited, Waits
  <2>4. ~crossed' => \A k \in DOMAIN es : Waits(merging', es[k].id) \/ Alone(embeds, merging', es[k])
    <3>1. ASSUME ~crossed', NEW k \in DOMAIN es, k = 1 PROVE Alone(embeds, merging', es[k])
      BY <1>9, <1>10, <3>1 DEF Alone
    <3>2. ASSUME NEW k \in DOMAIN es, k # 1 PROVE Waits(merging', es[k].id)
      BY <1>10, <3>2 DEF Waits
    <3>3. QED
      BY <3>1, <3>2
  <2>5. QED
    BY <1>1, <1>5, <2>2, <2>3, <2>4 DEF Indexed
<1>14. Filed' /\ Once'
  BY <1>1, <1>9, FileStays DEF MemoryInv, Once
<1>15. QED
  BY <1>12, <1>13, <1>14 DEF Consistent

\* Of what waits for the loop, one is next.
LEMMA OneIsNext ==
  ASSUME NEW mg, IsList(mg), mg # <<>>, NEW nx, IsList(nx),
         Tail(mg) = <<>> => nx = <<>>,
         Tail(mg) # <<>> =>
           /\ Len(nx) = Len(Tail(mg)) /\ nx # <<>>
           /\ nx[1].id = Tail(mg)[1].id
           /\ \A n \in 2 .. Len(Tail(mg)) : nx[n] = Tail(mg)[n]
  PROVE  /\ IdsOf(nx) \subseteq IdsOf(mg)
         /\ \A id : Waits(mg, id) => Waits(nx, id) \/ (nx # <<>> /\ nx[1].id = id)
<1> DEFINE left == Tail(mg)
<1>1. /\ IsList(left) /\ Len(left) = Len(mg) - 1
      /\ \A i \in 1 .. Len(mg) - 1 : left[i] = mg[i + 1]
  BY Shifted
<1>2. /\ Len(mg) \in Nat /\ DOMAIN mg = 1 .. Len(mg) /\ DOMAIN nx = 1 .. Len(nx)
      /\ (left = <<>> <=> Len(left) = 0) /\ Len(left) \in Nat /\ DOMAIN left = 1 .. Len(left)
  BY <1>1, ListParts
<1>3. /\ left = <<>> => nx = <<>>
      /\ left # <<>> =>
           /\ Len(nx) = Len(left) /\ nx # <<>>
           /\ nx[1].id = left[1].id
           /\ \A n \in 2 .. Len(left) : nx[n] = left[n]
  OBVIOUS
<1> HIDE DEF left
<1>4. \A i \in DOMAIN left : i + 1 \in DOMAIN mg /\ left[i] = mg[i + 1]
  BY <1>1, <1>2
<1>5. \A i \in DOMAIN nx : i \in DOMAIN left /\ nx[i].id = left[i].id
  <2>1. CASE left = <<>>
    BY <1>3, <2>1, EmptyList
  <2>2. CASE left # <<>>
    <3>1. DOMAIN nx = DOMAIN left /\ nx[1].id = left[1].id
      BY <1>2, <1>3, <2>2
    <3>2. \A i \in DOMAIN left : i = 1 \/ i \in 2 .. Len(left)
      <4>1. \A n \in Nat : \A i \in 1 .. n : i = 1 \/ i \in 2 .. n
        OBVIOUS
      <4>2. QED
        BY <1>2, <4>1, Zenon
    <3>3. QED
      BY <1>3, <2>2, <3>1, <3>2
  <2>3. QED
    BY <2>1, <2>2
<1>6. IdsOf(nx) \subseteq IdsOf(mg)
  BY <1>4, <1>5 DEF IdsOf
<1>7. ASSUME NEW id, Waits(mg, id) PROVE Waits(nx, id) \/ (nx # <<>> /\ nx[1].id = id)
  <2>1. PICK n \in 2 .. Len(mg) : mg[n].id = id
    BY <1>7 DEF Waits
  <2>2. /\ n - 1 \in 1 .. Len(left) /\ n - 1 \in 1 .. Len(mg) - 1 /\ (n - 1) + 1 = n
        /\ n - 1 # 1 => n - 1 \in 2 .. Len(left)
    BY <1>1, <1>2, <2>1
  <2>3. left[n - 1].id = id /\ left # <<>>
    BY <1>1, <1>2, <2>1, <2>2
  <2>4. CASE n - 1 = 1
    BY <1>3, <2>3, <2>4
  <2>5. CASE n - 1 # 1
    BY <1>3, <2>2, <2>3, <2>5 DEF Waits
  <2>6. QED
    BY <2>4, <2>5
<1>8. QED
  BY <1>6, <1>7

LEMMA MergeStepKeeps == ASSUME MemoryInv, MergeStep PROVE Consistent'
<1> DEFINE m == merging[1]
           left == Tail(merging)
<1>1. /\ merging # <<>> /\ vectors' = With(vectors, m.id, m.text)
      /\ (revived => revived') /\ (~revived' => m.id \in IdsOf(entries))
      /\ MergeNext(entries, left, shared)
      /\ UNCHANGED <<entries, embeds, stores, file, stored, raced, edited, savedEarly>>
  BY DEF MergeStep
<1>2. IsList(entries) /\ IsList(merging) /\ OneEach(entries) /\ IsList(left)
  BY <1>1, Shifted DEF MemoryInv, Lists, Named
<1>3. /\ IsList(merging') /\ (crossed => crossed')
      /\ left = <<>> => merging' = <<>>
      /\ left # <<>> =>
           /\ Len(merging') = Len(left) /\ merging' # <<>>
           /\ merging'[1].id = left[1].id
           /\ \A n \in 2 .. Len(left) : merging'[n] = left[n]
           /\ OneEach(entries) =>
                \A k \in DOMAIN entries : entries[k].id = left[1].id => merging'[1] = entries[k]
           /\ ~crossed' => \A j \in embeds : j.id = left[1].id => j.text = merging'[1].text
  <2> HIDE DEF left
  <2>1. QED
    BY <1>1, <1>2, LoopGoesOn, Zenon
<1>4. /\ IdsOf(merging') \subseteq IdsOf(merging)
      /\ \A id : Waits(merging, id) => Waits(merging', id) \/ (merging' # <<>> /\ merging'[1].id = id)
  BY <1>1, <1>2, <1>3, OneIsNext
<1>5. merging' # <<>> =>
        /\ \A k \in DOMAIN entries : entries[k].id = merging'[1].id => merging'[1] = entries[k]
        /\ ~crossed' => \A j \in embeds : j.id = merging'[1].id => j.text = merging'[1].text
  BY <1>2, <1>3
<1>6. /\ DOMAIN vectors' = DOMAIN vectors \cup {m.id} /\ vectors'[m.id] = m.text
      /\ \A i \in DOMAIN vectors : i # m.id => vectors'[i] = vectors[i]
  BY <1>1 DEF With
<1> HIDE DEF m, left
<1>7. Named'
  BY <1>1, <1>4 DEF MemoryInv, Named
<1>8. ASSUME ~crossed', ~savedEarly, NEW k \in DOMAIN entries
      PROVE  Found(vectors', embeds, merging', entries[k])
  <2> DEFINE e == entries[k]
  <2>1. /\ Found(vectors, embeds, merging, e)
        /\ Waits(merging, e.id) \/ Alone(embeds, merging, e)
        /\ e.id \in DOMAIN vectors
    BY <1>3, <1>8 DEF MemoryInv, Indexed, IdsOf
  <2>2. CASE Waits(merging, e.id)
    BY <1>4, <1>5, <2>2 DEF Found, Awaited
  <2>3. CASE ~Waits(merging, e.id) /\ e.id = m.id
    <3>1. m.text = e.text
      BY <1>1, <2>1, <2>3 DEF Alone, m
    <3>2. QED
      BY <1>6, <2>3, <3>1 DEF Found, MemoryInv, Short, Fits
  <2>4. CASE ~Waits(merging, e.id) /\ e.id # m.id
    <3>1. Cut(vectors[e.id]) = e.text \/ \E j \in embeds : j.id = e.id /\ j.text = e.text
      BY <2>1, <2>4 DEF Found, Awaited, m
    <3>2. QED
      BY <1>6, <2>1, <2>4, <3>1 DEF Found, Awaited
  <2>5. QED
    BY <2>2, <2>3, <2>4
<1>9. ASSUME ~crossed', NEW k \in DOMAIN entries
      PROVE  Waits(merging', entries[k].id) \/ Alone(embeds, merging', entries[k])
  <2> DEFINE e == entries[k]
  <2>1. CASE Waits(merging, e.id)
    <3>1. CASE merging' # <<>> /\ merging'[1].id = e.id
      BY <1>5, <1>9, <3>1 DEF Alone
    <3>2. QED
      BY <1>4, <2>1, <3>1
  <2>2. CASE ~Waits(merging, e.id)
    <3>1. Alone(embeds, merging, e)
      BY <1>3, <1>9, <2>2 DEF MemoryInv, Indexed
    <3>2. QED
      BY <1>5, <3>1 DEF Alone
  <2>3. QED
    BY <2>1, <2>2
<1>10. IdsOf(entries) \subseteq DOMAIN vectors' /\ (~revived' => DOMAIN vectors' \subseteq IdsOf(entries))
  BY <1>1, <1>6 DEF MemoryInv, Indexed
<1>11. Indexed'
  BY <1>1, <1>8, <1>9, <1>10 DEF Indexed
<1>12. Filed' /\ Once'
  BY <1>1, <1>3, FileStays DEF MemoryInv, Once
<1>13. QED
  BY <1>7, <1>11, <1>12 DEF Consistent

\* The file may be written, or lost.
Written ==
  \/ file' = Memory /\ savedEarly' = (savedEarly \/ embeds # {} \/ merging # <<>>)
  \/ file' \in {file, Empty} /\ (savedEarly => savedEarly')

\* What is in the file is sound.
FileSound ==
  /\ Filed /\ OneEach(file.entries) /\ IdsOf(file.entries) \subseteq 1 .. stored
  /\ ~raced /\ ~edited => Unlike(file.entries)

LEMMA WrittenKeeps ==
  ASSUME MemoryInv, Written, UNCHANGED <<stored, raced, edited, revived, crossed>>
  PROVE  FileSound'
<1>1. FileSound
  BY DEF MemoryInv, Named, Once, FileSound
<1>2. CASE file' = Memory /\ savedEarly' = (savedEarly \/ embeds # {} \/ merging # <<>>)
  <2>1. file'.entries = entries /\ file'.vectors = vectors
    BY <1>2 DEF Memory
  <2>2. ASSUME ~crossed, ~savedEarly', NEW k \in DOMAIN entries
        PROVE  Cut(vectors[entries[k].id]) = entries[k].text
    <3>1. embeds = {} /\ merging = <<>> /\ ~savedEarly
      BY <1>2, <2>2
    <3>2. Found(vectors, embeds, merging, entries[k])
      BY <2>2, <3>1 DEF MemoryInv, Indexed
    <3>3. ~Waits(merging, entries[k].id)
      <4>1. Len(merging) = 0 /\ 2 .. 0 = {}
        BY <3>1, EmptyList
      <4>2. QED
        BY <4>1 DEF Waits
    <3>4. QED
      BY <3>1, <3>2, <3>3 DEF Found, Awaited
  <2>3. Filed'
    BY <2>1, <2>2 DEF MemoryInv, Indexed, Filed
  <2>4. OneEach(entries) /\ IdsOf(entries) \subseteq 1 .. stored /\ (~raced /\ ~edited => Unlike(entries))
    BY DEF MemoryInv, Named, Once
  <2>5. QED
    BY <2>1, <2>3, <2>4 DEF FileSound
<1>3. CASE file' = file /\ (savedEarly => savedEarly')
  BY <1>1, <1>3 DEF FileSound, Filed
<1>4. CASE file' = Empty
  <2>1. file'.entries = <<>> /\ file'.vectors = <<>>
    BY <1>4 DEF Empty
  <2>2. QED
    BY <2>1, EmptyList DEF FileSound, Filed, OneEach, Unlike, IdsOf
<1>5. QED
  BY <1>2, <1>3, <1>4 DEF Written

\* A write changes nothing else.
LEMMA WriteIsConsistent ==
  ASSUME MemoryInv, FileSound',
         UNCHANGED <<entries, vectors, stores, embeds, merging, stored, raced, edited, revived, crossed>>,
         savedEarly => savedEarly'
  PROVE  Consistent'
<1>1. Named'
  BY DEF MemoryInv, Named, FileSound
<1>2. Indexed'
  BY DEF MemoryInv, Indexed
<1>3. Once'
  BY DEF MemoryInv, Once, FileSound
<1>4. QED
  BY <1>1, <1>2, <1>3 DEF FileSound, Consistent

LEMMA GoneIsConsistent ==
  ASSUME MemoryInv, Gone, FileSound', stored' \in Nat
  PROVE  Consistent'
<1>1. entries' = <<>> /\ vectors' = <<>> /\ stores' = {} /\ embeds' = {} /\ merging' = <<>>
  BY DEF Gone
<1>2. IdsOf(<<>>) = {} /\ OneEach(<<>>) /\ Unlike(<<>>) /\ DOMAIN <<>> = {}
  BY EmptyList DEF IdsOf, OneEach, Unlike
<1>3. Named'
  BY <1>1, <1>2 DEF Named, FileSound
<1>4. Indexed'
  BY <1>1, <1>2 DEF Indexed
<1>5. Once'
  BY <1>1, <1>2 DEF Once, FileSound
<1>6. QED
  BY <1>3, <1>4, <1>5 DEF FileSound, Consistent

LEMMA MemoryRemembers == ASSUME MemoryInv, MemoryStep PROVE Consistent'
<1>1. ASSUME NEW f \in Facts, ForgetUserFact(f) \/ ForgetMatching(f) PROVE Consistent'
  BY <1>1, ForgetAllKeeps DEF ForgetUserFact, ForgetMatching
<1>0. ASSUME NEW t \in Said, StoreBegin(t) PROVE Consistent'
  BY <1>0, StoreBeginKeeps
<1>2. ASSUME NEW j \in stores, StoreEnd(j) PROVE Consistent'
  BY <1>2, StoreEndKeeps
<1>3. ASSUME NEW id \in Ids, Forget(id) \/ \E t \in Said : UpdateMemory(id, t) PROVE Consistent'
  BY <1>3, ForgetAllKeeps, UpdateMemoryKeeps DEF Forget
<1>4. ASSUME NEW j \in embeds, UpdateEnd(j) PROVE Consistent'
  BY <1>4, UpdateEndKeeps
<1>5. ASSUME NEW ids \in SUBSET Ids, Consolidate(ids) PROVE Consistent'
  BY <1>5, ConsolidateKeeps
<1>6. CASE MergeStep
  BY <1>6, MergeStepKeeps
<1>7. CASE Touch
  BY <1>7 DEF Touch, history, MemoryInv, Consistent, Named, Indexed, Filed, Once
<1>8. CASE SaveTimerFires
  <2>1. /\ UNCHANGED <<entries, vectors, stores, embeds, merging, stored, raced, edited, revived, crossed>>
        /\ Written /\ (savedEarly => savedEarly')
    BY <1>8 DEF SaveTimerFires, Persist, Written
  <2>2. QED
    BY <2>1, WrittenKeeps, WriteIsConsistent
<1>9. QED
  BY <1>0, <1>1, <1>2, <1>3, <1>4, <1>5, <1>6, <1>7, <1>8 DEF MemoryStep

LEMMA MemoryStarts == Init => MemoryInv
<1>1. ASSUME Init PROVE MemoryInv
  <2>1. Lists /\ Short
    BY <1>1, ListsStart, ShortStarts
  <2>2. /\ entries = <<>> /\ vectors = <<>> /\ stores = {} /\ embeds = {} /\ merging = <<>> /\ stored \in Nat
    BY <1>1 DEF Init, MInit
  <2>3. IdsOf(<<>>) = {} /\ OneEach(<<>>) /\ Unlike(<<>>) /\ DOMAIN <<>> = {}
    BY EmptyList DEF IdsOf, OneEach, Unlike
  <2>4. FileSound
    <3>1. CASE file = Empty
      BY <2>3, <3>1 DEF FileSound, Filed, Empty
    <3>2. CASE file # Empty
      <4>1. PICK t \in Said :
              /\ file = [entries |-> <<[id |-> 1, text |-> Cut(t)]>>, vectors |-> [i \in {1} |-> t],
                         identity |-> TRUE]
              /\ stored = 1
        BY <1>1, <3>2 DEF Init, MInit
      <4> DEFINE e == [id |-> 1, text |-> Cut(t)]
      <4>2. /\ file.entries = <<e>> /\ DOMAIN file.vectors = {1} /\ file.vectors[1] = t
            /\ e.id = 1 /\ e.text = Cut(t)
        BY <4>1
      <4> HIDE DEF e
      <4>3. DOMAIN <<e>> = {1} /\ <<e>>[1] = e /\ 1 \in 1 .. stored
        BY <4>1
      <4>4. QED
        BY <4>2, <4>3 DEF FileSound, Filed, OneEach, Unlike, IdsOf
    <3>3. QED
      BY <3>1, <3>2
  <2>5. Named
    BY <2>2, <2>3, <2>4 DEF Named, FileSound
  <2>6. Indexed /\ Once /\ Asleep
    BY <2>2, <2>3, <2>4 DEF Indexed, Once, Asleep, FileSound
  <2>7. QED
    BY <2>1, <2>4, <2>5, <2>6 DEF MemoryInv, FileSound
<1>2. QED
  BY <1>1

LEMMA MemoryKeeps == ASSUME MemoryInv, [Next]_vars PROVE MemoryInv'
<1>0. Lists' /\ Short' /\ stored \in Nat
  BY ListsKeep, ShortKeeps DEF MemoryInv, Named
<1> SUFFICES Consistent' /\ Asleep'
  BY <1>0 DEF MemoryInv, Consistent
<1>1. CASE Boot
  <2>1. /\ entries' = file.entries /\ vectors' = file.vectors /\ running'
        /\ stores' = {} /\ embeds' = {} /\ merging' = <<>>
        /\ UNCHANGED <<file, stored, raced, edited, revived, crossed, savedEarly>>
    BY <1>1 DEF Boot, Load, history, MemoryInv, Asleep
  <2>2. IdsOf(<<>>) = {}
    BY EmptyList DEF IdsOf
  <2>3. Named'
    BY <2>1, <2>2 DEF MemoryInv, Named
  <2>4. Indexed'
    BY <2>1 DEF MemoryInv, Filed, Indexed, Found, Alone
  <2>5. Filed' /\ Once'
    BY <2>1 DEF MemoryInv, Filed, Once
  <2>6. QED
    BY <2>1, <2>3, <2>4, <2>5 DEF Consistent, Asleep
<1>2. CASE Remembers
  BY <1>2, MemoryRemembers DEF Remembers, quit, Asleep
<1>3. CASE Signal
  BY <1>3 DEF Signal, mvars, volatile, history, MemoryInv, Consistent, Named, Indexed, Filed, Once, Asleep
<1>4. ASSUME Gone, ~running', Written, UNCHANGED <<stored, raced, edited, revived, crossed>>
      PROVE  Consistent' /\ Asleep'
  <2>1. Consistent'
    BY <1>0, <1>4, WrittenKeeps, GoneIsConsistent
  <2>2. Asleep'
    BY <1>4 DEF Gone, Asleep
  <2>3. QED
    BY <2>1, <2>2
<1>5. CASE WillQuit
  <2>1. CASE servicesShutdown
    <3>1. Gone /\ ~running' /\ UNCHANGED <<file, savedEarly, stored, raced, edited, revived, crossed>>
      BY <1>5, <2>1 DEF WillQuit, Exit, history
    <3>2. QED
      BY <1>4, <3>1 DEF Written
  <2>2. CASE ~servicesShutdown
    <3>1. UNCHANGED <<entries, vectors, stores, embeds, merging, file, stored, running, raced,
                      edited, revived, crossed, savedEarly>>
      BY <1>5, <2>2 DEF WillQuit, volatile, history
    <3>2. Named' /\ Indexed'
      BY <3>1 DEF MemoryInv, Named, Indexed
    <3>3. Filed' /\ Once' /\ Asleep'
      BY <3>1 DEF MemoryInv, Filed, Once, Asleep
    <3>4. QED
      BY <3>2, <3>3 DEF Consistent
  <2>3. QED
    BY <2>1, <2>2
<1>6. CASE TeardownEnds
  <2>1. /\ Written /\ (savedEarly => savedEarly')
        /\ UNCHANGED <<stored, raced, edited, revived, crossed>>
    BY <1>6 DEF TeardownEnds, Written
  <2>2. CASE shutdownStarted
    <3>1. Gone /\ ~running'
      BY <1>6, <2>2 DEF TeardownEnds, Exit
    <3>2. QED
      BY <1>4, <2>1, <3>1
  <2>3. CASE ~shutdownStarted
    <3>1. UNCHANGED <<entries, vectors, stores, embeds, merging, running>>
      BY <1>6, <2>3 DEF TeardownEnds
    <3>2. Consistent'
      BY <2>1, <3>1, WrittenKeeps, WriteIsConsistent
    <3>3. QED
      BY <3>1, <3>2 DEF MemoryInv, Asleep
  <2>4. QED
    BY <2>2, <2>3
<1>7. CASE TimeLimit
  <2>1. Gone /\ ~running' /\ UNCHANGED <<file, savedEarly, stored, raced, edited, revived, crossed>>
    BY <1>7 DEF TimeLimit, Exit, history
  <2>2. QED
    BY <1>4, <2>1 DEF Written
<1>8. CASE Crash
  <2>1. /\ Gone /\ ~running' /\ UNCHANGED <<savedEarly, stored, raced, edited, revived, crossed>>
        /\ file' = file \/ file' = Empty
    BY <1>8 DEF Crash, history
  <2>2. QED
    BY <1>4, <2>1 DEF Written
<1>9. CASE UNCHANGED vars
  BY <1>9 DEF vars, mvars, volatile, history, quit, MemoryInv, Consistent, Named, Indexed, Filed, Once, Asleep
<1>10. QED
  BY <1>1, <1>2, <1>3, <1>5, <1>6, <1>7, <1>8, <1>9 DEF Next

\* Every memory has a vector, of its text or of the longer one it is the beginning of, or one
\* of its text under way, whatever stores, corrections, merges, forgetting, crashes and
\* restarts come between its embeddings, with the exceptions that the property names; and a
\* text that is shorter than an entry may be is remembered once (memory_engine.ts, store,
\* updateMemory, forget, consolidate), for any longest text.
THEOREM MemoriesAreFound == Spec => []MemoryIsConsistent
<1>1. ASSUME MemoryInv PROVE MemoryIsConsistent
  <2>1. ASSUME ~crossed, ~savedEarly, NEW k \in DOMAIN entries
        PROVE  LET id == entries[k].id IN
                 \/ Cut(vectors[id]) = entries[k].text
                 \/ entries[k].text \in Embedding(id)
                 \/ \E n \in 2 .. Len(merging) : merging[n].id = id
    <3>1. Found(vectors, embeds, merging, entries[k])
      BY <1>1, <2>1 DEF MemoryInv, Indexed
    <3>2. Awaited(embeds, merging, entries[k]) => entries[k].text \in Embedding(entries[k].id)
      BY DEF Awaited, Embedding
    <3>3. QED
      BY <3>1, <3>2 DEF Found, Waits
  <2>2. IdsOf(entries) \subseteq DOMAIN vectors /\ (~revived => DOMAIN vectors = IdsOf(entries))
    BY <1>1 DEF MemoryInv, Indexed
  <2>3. IndexMatches
    BY <2>1, <2>2 DEF IndexMatches
  <2>4. RememberedOnce
    BY <1>1 DEF MemoryInv, Once, Unlike, RememberedOnce
  <2>5. QED
    BY <2>3, <2>4 DEF MemoryIsConsistent
<1>2. MemoryInv /\ [Next]_vars => MemoryInv'
  BY MemoryKeeps
<1>3. QED
  BY <1>1, <1>2, MemoryStarts, PTL DEF Spec

=============================================================================
