-------------------------- MODULE ToolBuilderProofs --------------------------
(***************************************************************************)
(* Theorems about the tool registry and the builds over it, for every      *)
(* value of the constants of MCToolBuilder.                                *)
(*                                                                         *)
(* The registry and both files hold well-formed maps of tools; what was    *)
(* written without an error is in the file that is open (RegistryInv).  A  *)
(* build that waits for an approval is the only one under way (QueueInv),  *)
(* and an execution is counted when it begins and once more, in the        *)
(* record of its tool, when it ends (RunsInv).                             *)
(***************************************************************************)
EXTENDS MCToolBuilder, FiniteSetTheorems, WellFoundedInduction, TLAPS

-----------------------------------------------------------------------------
(* Maps of tools                                                           *)

PastVersion == [version : Nat, src : Sources, hash : Sources]
SomeTool ==
  [name : Names, intent : Intents \cup {None}, kind : {"builtin", "python", "sandboxed"},
   tech : TechIds \cup {None}, version : Nat, src : Sources, hash : Sources, versions : Seq(PastVersion),
   enabled : BOOLEAN, status : {"active", "pending"}, runs : Nat]

Past(t) == <<[version |-> t.version, src |-> t.src, hash |-> t.hash]>> \o t.versions

\* What VersionsGoBack says of a tool.
GoesBack(t) ==
  /\ \A k \in 1 .. Len(Past(t)) : Past(t)[k].hash = Past(t)[k].src
  /\ \A k \in 1 .. Len(Past(t)) - 1 : Past(t)[k + 1].version < Past(t)[k].version
  /\ Len(t.versions) <= MaxVersions

\* A tool that may be registered under id: only generate_tool has the built-in's id.
IsTool(id, t) == t \in SomeTool /\ GoesBack(t) /\ (id = BuiltinTool => t.name = BuiltinName)

Maps == [tools : UNION {[D -> SomeTool] : D \in SUBSET Ids}, order : Seq(Ids)]

\* The order lists every tool once.
Lists(r) ==
  /\ \A k \in 1 .. Len(r.order) : r.order[k] \in DOMAIN r.tools
  /\ \A i \in DOMAIN r.tools : \E k \in 1 .. Len(r.order) : r.order[k] = i
  /\ \A j, k \in 1 .. Len(r.order) : r.order[j] = r.order[k] => j = k

IsMap(r) == r \in Maps /\ Lists(r) /\ \A i \in DOMAIN r.tools : IsTool(i, r.tools[i])

\* Two maps agree on a tool.
Agree(r, q, id) == (Has(r, id) <=> Has(q, id)) /\ (Has(r, id) => r.tools[id] = q.tools[id])

-----------------------------------------------------------------------------
(* The inductive invariant                                                 *)

\* A JSON file is saved as a whole, a table row by row.
IsSaved(id) == IF store = "json" THEN unsaved = {} ELSE id \notin unsaved

RegistryInv ==
  /\ IsMap(reg)
  /\ disk \in [Stores -> Maps] /\ \A s \in Stores : IsMap(disk[s])
  /\ dirs \in [TechIds -> Design \cup {None}]
  /\ store \in Stores /\ unsaved \subseteq Ids
  /\ faults \in Nat /\ boots \in Nat
  /\ \A id \in Ids : IsSaved(id) => Agree(reg, disk[store], id)

InExecution(id) == {s \in Slots : running[s] # Free /\ running[s].id = id}

RunsInv ==
  /\ running \in [Slots -> Run \cup {Free}]
  /\ started \in [Ids -> Nat]
  /\ \A s \in Slots : running[s] # Free => started[running[s].id] > 0
  /\ RunsAreCountedOnce

IsActive(b) == builds[b].pc \notin {"none", "queued"} \cup Settled

\* Where a build may be while it is executed, and after.
Executes == {"reusing", "executing"} \cup Settled

QueueInv ==
  /\ builds \in [Builds -> Build]
  /\ approval \in Builds \cup {None} /\ click \in Builds \cup {None}
  /\ \A b, c \in Builds : IsActive(b) /\ c < b => builds[c].pc \in Settled
  /\ \A s \in Slots : running[s] # Free /\ running[s].for # Caller =>
       running[s].for \in Builds /\ builds[running[s].for].pc \in Executes
  /\ approval # None => builds[approval].pc = "approving"
  /\ \A b \in Builds :
       /\ builds[b].expired => builds[b].pc \in Settled
       /\ builds[b].consent # 0 => builds[b].pc \in {"validating", "executing"} \cup Settled
  /\ click # None => builds[click].expired \/ approval = click
  /\ ConsentIsMeant

ToolsInv == RegistryInv /\ RunsInv /\ QueueInv /\ DeclarationsFollow

-----------------------------------------------------------------------------
(* Putting in and taking out                                               *)

LEMMA RemovedAt ==
  ASSUME NEW S, NEW s \in Seq(S), NEW k \in 1 .. Len(s)
  PROVE  /\ Seqs!RemoveAt(s, k) \in Seq(S)
         /\ Len(Seqs!RemoveAt(s, k)) = Len(s) - 1
         /\ \A j \in 1 .. Len(s) - 1 :
              Seqs!RemoveAt(s, k)[j] = IF j < k THEN s[j] ELSE s[j + 1]
<1> DEFINE before == SubSeq(s, 1, k - 1)
           after == SubSeq(s, k + 1, Len(s))
<1>1. /\ before \in Seq(S) /\ Len(before) = k - 1
      /\ \A j \in 1 .. k - 1 : before[j] = s[j]
  OBVIOUS
<1>2. /\ after \in Seq(S) /\ Len(after) = Len(s) - k
      /\ \A j \in 1 .. Len(s) - k : after[j] = s[j + k]
  OBVIOUS
<1> HIDE DEF before, after
<1>3. before \o after \in Seq(S) /\ Len(before \o after) = Len(s) - 1
  BY <1>1, <1>2
<1>4. ASSUME NEW j \in 1 .. Len(s) - 1
      PROVE  (before \o after)[j] = IF j < k THEN s[j] ELSE s[j + 1]
  <2>1. CASE j < k
    BY <2>1, <1>1, <1>2
  <2>2. CASE ~(j < k)
    <3>1. (before \o after)[j] = after[j - (k - 1)]
      BY <2>2, <1>1, <1>2
    <3>2. j - (k - 1) \in 1 .. Len(s) - k /\ (j - (k - 1)) + k = j + 1
      BY <2>2
    <3>3. QED
      BY <3>1, <3>2, <1>2, <2>2
  <2>3. QED
    BY <2>1, <2>2
<1>5. Seqs!RemoveAt(s, k) = before \o after
  BY DEF Seqs!RemoveAt, before, after
<1>6. QED
  BY <1>3, <1>4, <1>5

LEMMA Joined ==
  ASSUME NEW S, NEW a \in Seq(S), NEW b \in Seq(S)
  PROVE  /\ a \o b \in Seq(S) /\ Len(a \o b) = Len(a) + Len(b)
         /\ \A k \in 1 .. Len(a) : (a \o b)[k] = a[k]
         /\ \A k \in 1 .. Len(b) : (a \o b)[Len(a) + k] = b[k]
OBVIOUS

LEMMA MapParts ==
  ASSUME NEW r, IsMap(r)
  PROVE  /\ DOMAIN r.tools \subseteq Ids /\ r.order \in Seq(Ids)
         /\ \A i \in DOMAIN r.tools : r.tools[i] \in SomeTool /\ IsTool(i, r.tools[i])
BY DEF IsMap, Maps, IsTool

LEMMA PutMap ==
  ASSUME NEW r, IsMap(r), NEW id \in Ids, NEW t, IsTool(id, t)
  PROVE  /\ IsMap(Put(r, id, t))
         /\ DOMAIN Put(r, id, t).tools = DOMAIN r.tools \cup {id}
         /\ Put(r, id, t).tools[id] = t
         /\ \A i \in Ids \ {id} : Agree(Put(r, id, t), r, i)
<1> DEFINE q == Put(r, id, t)
           tools == [i \in DOMAIN r.tools \cup {id} |-> IF i = id THEN t ELSE r.tools[i]]
           order == IF Has(r, id) THEN r.order ELSE Append(r.order, id)
<1>1. q.tools = tools /\ q.order = order /\ q = [tools |-> tools, order |-> order]
  BY DEF Put
<1>2. /\ DOMAIN r.tools \subseteq Ids /\ r.order \in Seq(Ids)
      /\ \A i \in DOMAIN r.tools : r.tools[i] \in SomeTool /\ IsTool(i, r.tools[i])
  BY MapParts
<1>3. tools \in [DOMAIN r.tools \cup {id} -> SomeTool]
  BY <1>2 DEF IsTool
<1>4. order \in Seq(Ids)
  BY <1>2
<1>5. q \in Maps
  <2>1. DOMAIN r.tools \cup {id} \in SUBSET Ids
    BY <1>2
  <2>2. tools \in UNION {[D -> SomeTool] : D \in SUBSET Ids}
    BY <1>3, <2>1
  <2>3. QED
    BY <1>1, <2>2, <1>4 DEF Maps
<1>6. \A i \in DOMAIN q.tools : IsTool(i, q.tools[i])
  BY <1>1, <1>2
<1>7. Lists(q)
  <2>0. Lists(r)
    BY DEF IsMap
  <2>1. CASE Has(r, id)
    BY <2>0, <2>1, <1>1 DEF Lists, Has
  <2>2. CASE ~Has(r, id)
    <3>1. /\ order = Append(r.order, id) /\ Len(order) = Len(r.order) + 1
          /\ \A k \in 1 .. Len(r.order) : order[k] = r.order[k]
          /\ order[Len(r.order) + 1] = id
      BY <2>2, <1>2
    <3>2. \A k \in 1 .. Len(r.order) : r.order[k] # id
      BY <2>0, <2>2 DEF Lists, Has
    <3>3. Len(r.order) \in Nat
      BY <1>2
    <3> HIDE DEF order
    <3>4. \A k \in 1 .. Len(order) : k \in 1 .. Len(r.order) \/ k = Len(r.order) + 1
      BY <3>1, <3>3
    <3>5. \A k \in 1 .. Len(order) : order[k] \in DOMAIN tools
      BY <3>1, <3>4, <2>0 DEF Lists
    <3>6. \A i \in DOMAIN tools : \E k \in 1 .. Len(order) : order[k] = i
      <4>1. TAKE i \in DOMAIN tools
      <4>2. CASE i = id
        <5>1. Len(r.order) + 1 \in 1 .. Len(order)
          BY <3>1, <3>3
        <5>2. QED
          BY <4>2, <5>1, <3>1
      <4>3. CASE i # id
        <5>1. PICK k \in 1 .. Len(r.order) : r.order[k] = i
          BY <4>3, <2>0 DEF Lists
        <5>2. k \in 1 .. Len(order)
          BY <5>1, <3>1, <3>3
        <5>3. QED
          BY <5>1, <5>2, <3>1
      <4>4. QED
        BY <4>2, <4>3
    <3>7. \A j, k \in 1 .. Len(order) : order[j] = order[k] => j = k
      <4>1. TAKE j, k \in 1 .. Len(order)
      <4>2. CASE j \in 1 .. Len(r.order) /\ k \in 1 .. Len(r.order)
        BY <4>2, <3>1, <2>0 DEF Lists
      <4>3. CASE j = Len(r.order) + 1 /\ k \in 1 .. Len(r.order)
        BY <4>3, <3>1, <3>2
      <4>4. CASE k = Len(r.order) + 1 /\ j \in 1 .. Len(r.order)
        BY <4>4, <3>1, <3>2
      <4>5. QED
        BY <4>2, <4>3, <4>4, <3>4
    <3>8. QED
      BY <3>5, <3>6, <3>7, <1>1 DEF Lists
  <2>3. QED
    BY <2>1, <2>2
<1>8. \A i \in Ids \ {id} : Agree(q, r, i)
  BY <1>1 DEF Agree, Has
<1>9. QED
  BY <1>1, <1>5, <1>6, <1>7, <1>8 DEF IsMap

LEMMA DropMap ==
  ASSUME NEW r, IsMap(r), NEW id \in Ids
  PROVE  /\ IsMap(Drop(r, id))
         /\ DOMAIN Drop(r, id).tools = DOMAIN r.tools \ {id}
         /\ \A i \in Ids \ {id} : Agree(Drop(r, id), r, i)
<1> DEFINE q == Drop(r, id)
           tools == [i \in DOMAIN r.tools \ {id} |-> r.tools[i]]
           at == CHOOSE k \in DOMAIN r.order : r.order[k] = id
           order == IF Has(r, id) THEN Seqs!RemoveAt(r.order, at) ELSE r.order
<1>1. q.tools = tools /\ q.order = order /\ q = [tools |-> tools, order |-> order]
  BY DEF Drop
<1>2. /\ DOMAIN r.tools \subseteq Ids /\ r.order \in Seq(Ids)
      /\ \A i \in DOMAIN r.tools : r.tools[i] \in SomeTool /\ IsTool(i, r.tools[i])
  BY MapParts
<1>3. DOMAIN r.order = 1 .. Len(r.order) /\ Len(r.order) \in Nat
  BY <1>2
<1>4. Lists(r)
  BY DEF IsMap
<1>5. order \in Seq(Ids) /\ Lists(q)
  <2>1. CASE ~Has(r, id)
    <3>1. DOMAIN tools = DOMAIN r.tools /\ order = r.order
      BY <2>1 DEF Has
    <3>2. QED
      BY <3>1, <1>1, <1>2, <1>4 DEF Lists
  <2>2. CASE Has(r, id)
    <3>1. at \in 1 .. Len(r.order) /\ r.order[at] = id
      BY <2>2, <1>3, <1>4 DEF Lists, Has
    <3> HIDE DEF at
    <3>2. /\ order \in Seq(Ids) /\ Len(order) = Len(r.order) - 1
          /\ \A j \in 1 .. Len(r.order) - 1 :
               order[j] = IF j < at THEN r.order[j] ELSE r.order[j + 1]
      BY <2>2, <3>1, <1>2, RemovedAt
    <3> HIDE DEF order
    <3> DEFINE old(j) == IF j < at THEN j ELSE j + 1
    <3>3. \A j \in 1 .. Len(order) : /\ old(j) \in 1 .. Len(r.order) /\ old(j) # at
                                     /\ order[j] = r.order[old(j)]
      BY <3>1, <3>2, <1>3
    <3>4. \A j, k \in 1 .. Len(order) : old(j) = old(k) => j = k
      BY <3>1, <3>2, <1>3
    <3>5. \A k \in 1 .. Len(r.order) : k # at => \E j \in 1 .. Len(order) : old(j) = k
      <4>1. TAKE k \in 1 .. Len(r.order)
      <4>2. HAVE k # at
      <4> DEFINE j == IF k < at THEN k ELSE k - 1
      <4>3. j \in 1 .. Len(order) /\ old(j) = k
        BY <4>2, <3>1, <3>2, <1>3
      <4>4. QED
        BY <4>3
    <3> HIDE DEF old
    <3>6. \A j \in 1 .. Len(order) : order[j] \in DOMAIN tools
      BY <3>1, <3>3, <1>4 DEF Lists
    <3>7. \A i \in DOMAIN tools : \E j \in 1 .. Len(order) : order[j] = i
      <4>1. TAKE i \in DOMAIN tools
      <4>2. PICK k \in 1 .. Len(r.order) : r.order[k] = i
        BY <1>4 DEF Lists
      <4>3. k # at
        BY <4>2, <3>1
      <4>4. PICK j \in 1 .. Len(order) : old(j) = k
        BY <4>3, <3>5
      <4>5. QED
        BY <4>2, <4>4, <3>3
    <3>8. \A j, k \in 1 .. Len(order) : order[j] = order[k] => j = k
      BY <3>3, <3>4, <1>4 DEF Lists
    <3>9. QED
      BY <3>2, <3>6, <3>7, <3>8, <1>1 DEF Lists
  <2>3. QED
    BY <2>1, <2>2
<1>6. q \in Maps
  <2>1. tools \in [DOMAIN r.tools \ {id} -> SomeTool] /\ DOMAIN r.tools \ {id} \in SUBSET Ids
    BY <1>2
  <2>2. tools \in UNION {[D -> SomeTool] : D \in SUBSET Ids}
    BY <2>1
  <2>3. QED
    BY <1>1, <2>2, <1>5 DEF Maps
<1>7. \A i \in DOMAIN q.tools : IsTool(i, q.tools[i])
  BY <1>1, <1>2
<1>8. \A i \in Ids \ {id} : Agree(q, r, i)
  BY <1>1 DEF Agree, Has
<1>9. QED
  BY <1>1, <1>5, <1>6, <1>7, <1>8 DEF IsMap

-----------------------------------------------------------------------------
(* Tools and their versions                                                *)

LEMMA PastIs ==
  ASSUME NEW t \in SomeTool
  PROVE  /\ Past(t) \in Seq(PastVersion) /\ Len(Past(t)) = Len(t.versions) + 1
         /\ Past(t)[1] = [version |-> t.version, src |-> t.src, hash |-> t.hash]
         /\ \A k \in 1 .. Len(t.versions) : Past(t)[k + 1] = t.versions[k]
<1> DEFINE now == [version |-> t.version, src |-> t.src, hash |-> t.hash]
<1>1. now \in PastVersion /\ t.versions \in Seq(PastVersion)
  BY DEF SomeTool, PastVersion
<1>2. Past(t) = <<now>> \o t.versions
  BY DEF Past
<1> HIDE DEF now
<1>3. QED
  BY <1>1, <1>2 DEF now

\* What a tool keeps, without the sequence of its past.
LEMMA GoesBackMeans ==
  ASSUME NEW t \in SomeTool
  PROVE  GoesBack(t) <=>
           /\ t.hash = t.src
           /\ \A k \in 1 .. Len(t.versions) : t.versions[k].hash = t.versions[k].src
           /\ t.versions # << >> => t.versions[1].version < t.version
           /\ \A k \in 1 .. Len(t.versions) - 1 : t.versions[k + 1].version < t.versions[k].version
           /\ Len(t.versions) <= MaxVersions
<1> DEFINE n == Len(t.versions)
           P == Past(t)
           V == t.versions
<1>1. /\ V \in Seq(PastVersion) /\ n \in Nat
      /\ Len(P) = n + 1 /\ \A k \in 1 .. n : P[k + 1] = V[k]
      /\ P[1].version = t.version /\ P[1].src = t.src /\ P[1].hash = t.hash
  <2>1. V \in Seq(PastVersion) /\ n \in Nat
    BY DEF SomeTool
  <2>2. P[1] = [version |-> t.version, src |-> t.src, hash |-> t.hash]
    BY PastIs
  <2>3. P[1].version = t.version /\ P[1].src = t.src /\ P[1].hash = t.hash
    BY <2>2
  <2>4. QED
    BY <2>1, <2>3, PastIs
<1>2. V # << >> <=> n >= 1
  BY <1>1
<1> HIDE DEF n, P, V
<1>3. (\A k \in 1 .. Len(P) : P[k].hash = P[k].src) <=>
        t.hash = t.src /\ \A k \in 1 .. n : V[k].hash = V[k].src
  <2>1. \A k \in 1 .. n + 1 : k = 1 \/ (k - 1 \in 1 .. n /\ P[k] = V[k - 1])
    <3>1. TAKE k \in 1 .. n + 1
    <3>2. CASE k # 1
      <4>1. k - 1 \in 1 .. n /\ (k - 1) + 1 = k
        BY <3>2, <1>1
      <4>2. QED
        BY <4>1, <1>1
    <3>3. QED
      BY <3>2
  <2>2. 1 \in 1 .. n + 1 /\ \A k \in 1 .. n : k + 1 \in 1 .. n + 1
    BY <1>1
  <2>3. ASSUME \A k \in 1 .. Len(P) : P[k].hash = P[k].src
        PROVE  t.hash = t.src /\ \A k \in 1 .. n : V[k].hash = V[k].src
    <3>1. 1 \in 1 .. Len(P) /\ \A k \in 1 .. n : k + 1 \in 1 .. Len(P)
      BY <1>1, <2>2
    <3>2. P[1].hash = P[1].src /\ \A k \in 1 .. n : P[k + 1].hash = P[k + 1].src
      BY <3>1, <2>3
    <3>3. QED
      BY <3>2, <1>1
  <2>4. ASSUME t.hash = t.src, \A k \in 1 .. n : V[k].hash = V[k].src,
               NEW k \in 1 .. Len(P)
        PROVE  P[k].hash = P[k].src
    <3>1. k \in 1 .. n + 1
      BY <1>1
    <3>2. k = 1 \/ (k - 1 \in 1 .. n /\ P[k] = V[k - 1])
      BY <3>1, <2>1
    <3>3. CASE k = 1
      BY <3>3, <2>4, <1>1
    <3>4. CASE k - 1 \in 1 .. n /\ P[k] = V[k - 1]
      BY <3>4, <2>4
    <3>5. QED
      BY <3>2, <3>3, <3>4
  <2>5. QED
    BY <2>3, <2>4
<1>4. (\A k \in 1 .. Len(P) - 1 : P[k + 1].version < P[k].version) <=>
        /\ n >= 1 => V[1].version < t.version
        /\ \A k \in 1 .. n - 1 : V[k + 1].version < V[k].version
  <2>1. ASSUME \A k \in 1 .. Len(P) - 1 : P[k + 1].version < P[k].version
        PROVE  /\ n >= 1 => V[1].version < t.version
               /\ \A k \in 1 .. n - 1 : V[k + 1].version < V[k].version
    <3>1. n >= 1 => V[1].version < t.version
      <4>1. HAVE n >= 1
      <4>2. 1 \in 1 .. Len(P) - 1 /\ 1 \in 1 .. n
        BY <4>1, <1>1
      <4>3. P[1 + 1] = V[1] /\ P[1 + 1].version < P[1].version
        BY <4>2, <1>1, <2>1
      <4>4. QED
        BY <4>3, <1>1
    <3>2. ASSUME NEW k \in 1 .. n - 1 PROVE V[k + 1].version < V[k].version
      <4>1. /\ k + 1 \in 1 .. Len(P) - 1 /\ k \in 1 .. n /\ k + 1 \in 1 .. n
        BY <1>1
      <4>2. P[k + 1] = V[k] /\ P[(k + 1) + 1] = V[k + 1]
        BY <4>1, <1>1
      <4>3. P[(k + 1) + 1].version < P[k + 1].version
        BY <4>1, <2>1
      <4>4. QED
        BY <4>2, <4>3
    <3>3. QED
      BY <3>1, <3>2
  <2>2. ASSUME n >= 1 => V[1].version < t.version,
               \A k \in 1 .. n - 1 : V[k + 1].version < V[k].version,
               NEW k \in 1 .. Len(P) - 1
        PROVE  P[k + 1].version < P[k].version
    <3>1. k \in 1 .. n /\ n >= 1
      BY <1>1
    <3>2. P[k + 1] = V[k]
      BY <3>1, <1>1
    <3>3. CASE k = 1
      BY <3>1, <3>2, <3>3, <1>1, <2>2
    <3>4. CASE k # 1
      <4>1. k - 1 \in 1 .. n - 1 /\ k - 1 \in 1 .. n /\ (k - 1) + 1 = k
        BY <3>1, <3>4, <1>1
      <4>2. V[(k - 1) + 1].version < V[k - 1].version
        BY <4>1, <2>2
      <4>3. P[(k - 1) + 1] = V[k - 1]
        BY <4>1, <1>1
      <4>4. QED
        BY <4>1, <4>2, <4>3, <3>2
    <3>5. QED
      BY <3>3, <3>4
  <2>3. QED
    BY <2>1, <2>2
<1>5. QED
  BY <1>2, <1>3, <1>4 DEF GoesBack, P, V, n

\* A new tool has no past.
LEMMA FreshIsTool ==
  ASSUME RegistryAssumption, NEW id \in Ids, NEW name \in Names, NEW intent \in Intents \cup {None},
         NEW kind \in {"builtin", "python", "sandboxed"}, NEW tech \in TechIds \cup {None},
         NEW src \in Sources, NEW status \in {"active", "pending"},
         id = BuiltinTool => name = BuiltinName
  PROVE  /\ IsTool(id, Fresh(name, intent, kind, tech, src, status))
         /\ Fresh(name, intent, kind, tech, src, status).runs = 0
         /\ Fresh(name, intent, kind, tech, src, status).tech = tech
<1> DEFINE t == Fresh(name, intent, kind, tech, src, status)
<1>1. /\ t \in SomeTool /\ t.versions = << >> /\ t.hash = t.src /\ t.name = name
      /\ t.runs = 0 /\ t.tech = tech
  BY DEF Fresh, SomeTool
<1>2. MaxVersions \in Nat
  BY DEF RegistryAssumption
<1> HIDE DEF t
<1>3. GoesBack(t)
  <2>1. Len(t.versions) = 0
    BY <1>1
  <2>2. QED
    BY <1>1, <1>2, <2>1, GoesBackMeans
<1>4. QED
  BY <1>1, <1>3 DEF IsTool, t

LEMMA PublishedIsTool ==
  ASSUME RegistryAssumption, NEW id \in Ids, NEW t, IsTool(id, t), NEW src \in Sources
  PROVE  /\ IsTool(id, Published(t, src)) /\ Published(t, src).runs = t.runs
         /\ Published(t, src).name = t.name
<1> DEFINE p == Published(t, src)
           m == IF Len(Past(t)) > MaxVersions THEN MaxVersions ELSE Len(Past(t))
           V == t.versions
           W == SubSeq(Past(t), 1, m)
<1>1. t \in SomeTool /\ GoesBack(t) /\ (id = BuiltinTool => t.name = BuiltinName)
  BY DEF IsTool
<1>2. /\ Past(t) \in Seq(PastVersion) /\ Len(Past(t)) = Len(V) + 1
      /\ Past(t)[1].version = t.version
      /\ V \in Seq(PastVersion) /\ Len(V) \in Nat /\ MaxVersions \in Nat
  <2>1. V \in Seq(PastVersion) /\ Len(V) \in Nat
    BY <1>1 DEF SomeTool
  <2>2. Past(t)[1] = [version |-> t.version, src |-> t.src, hash |-> t.hash]
    BY <1>1, PastIs
  <2>3. Past(t)[1].version = t.version
    BY <2>2
  <2>4. MaxVersions \in Nat
    BY DEF RegistryAssumption
  <2>5. QED
    BY <1>1, <2>1, <2>3, <2>4, PastIs
<1>3. m \in Nat /\ m <= Len(Past(t)) /\ m <= MaxVersions
  BY <1>2
<1>4. p = [t EXCEPT !.versions = W, !.version = t.version + 1, !.src = src, !.hash = src]
  BY DEF Published, Past
<1> HIDE DEF m
<1>5. W \in Seq(PastVersion) /\ Len(W) = m /\ \A k \in 1 .. m : W[k] = Past(t)[k]
  BY <1>2, <1>3
<1> HIDE DEF W
<1>6. /\ p \in SomeTool /\ p.versions = W /\ p.version = t.version + 1
      /\ p.src = src /\ p.hash = src /\ p.name = t.name /\ p.runs = t.runs
  <2> DEFINE v == t.version + 1
  <2>1. v \in Nat
    BY <1>1 DEF SomeTool
  <2>2. p = [t EXCEPT !.versions = W, !.version = v, !.src = src, !.hash = src]
    BY <1>4
  <2> HIDE DEF v, p
  <2>3. /\ p \in SomeTool /\ p.versions = W /\ p.version = v
        /\ p.src = src /\ p.hash = src /\ p.name = t.name /\ p.runs = t.runs
    BY <1>1, <2>1, <2>2, <1>5 DEF SomeTool
  <2>4. QED
    BY <2>3 DEF v
<1> HIDE DEF p
<1>7. GoesBack(p)
  <2>1. \A k \in 1 .. m : W[k].hash = W[k].src
    <3>1. TAKE k \in 1 .. m
    <3>2. k \in 1 .. Len(Past(t))
      BY <1>2, <1>3
    <3>3. W[k] = Past(t)[k]
      BY <1>5
    <3>4. Past(t)[k].hash = Past(t)[k].src
      BY <3>2, <1>1 DEF GoesBack
    <3>5. QED
      BY <3>3, <3>4
  <2>2. W # << >> => W[1].version < p.version
    <3>1. HAVE W # << >>
    <3>2. 1 \in 1 .. m
      <4>1. Len(W) # 0
        BY <3>1, <1>5
      <4>2. QED
        BY <4>1, <1>3, <1>5
    <3>3. W[1] = Past(t)[1]
      BY <3>2, <1>5
    <3>4. t.version \in Nat
      BY <1>1 DEF SomeTool
    <3>5. QED
      BY <3>3, <3>4, <1>2, <1>6
  <2>3. \A k \in 1 .. m - 1 : W[k + 1].version < W[k].version
    <3>1. TAKE k \in 1 .. m - 1
    <3>0. Len(Past(t)) \in Nat
      BY <1>2
    <3>2. k \in 1 .. m /\ k + 1 \in 1 .. m /\ k \in 1 .. Len(Past(t)) - 1
      BY <1>3, <3>0
    <3>3. Past(t)[k + 1].version < Past(t)[k].version
      BY <3>2, <1>1 DEF GoesBack
    <3>4. QED
      BY <3>2, <3>3, <1>5
  <2>4. QED
    BY <2>1, <2>2, <2>3, <1>3, <1>5, <1>6, GoesBackMeans
<1>8. QED
  BY <1>1, <1>6, <1>7 DEF IsTool, p

LEMMA RolledBackIsTool ==
  ASSUME RegistryAssumption, NEW id \in Ids, NEW t, IsTool(id, t), t.versions # << >>
  PROVE  /\ IsTool(id, RolledBack(t)) /\ RolledBack(t).runs = t.runs
         /\ RolledBack(t).name = t.name
<1> DEFINE p == RolledBack(t)
           V == t.versions
           W == Tail(t.versions)
<1>1. t \in SomeTool /\ GoesBack(t) /\ (id = BuiltinTool => t.name = BuiltinName)
  BY DEF IsTool
<1>2. V \in Seq(PastVersion) /\ Len(V) \in Nat /\ Len(V) >= 1
  BY <1>1 DEF SomeTool
<1>3. /\ \A k \in 1 .. Len(V) : V[k].hash = V[k].src
      /\ \A k \in 1 .. Len(V) - 1 : V[k + 1].version < V[k].version
      /\ Len(V) <= MaxVersions
  BY <1>1, GoesBackMeans
<1>4. W \in Seq(PastVersion) /\ Len(W) = Len(V) - 1 /\ \A k \in 1 .. Len(V) - 1 : W[k] = V[k + 1]
  BY <1>2
<1>5. Head(V) = V[1] /\ V[1] \in PastVersion
  BY <1>2
<1>6. p = [t EXCEPT !.versions = W, !.status = "active", !.version = V[1].version,
                    !.src = V[1].src, !.hash = V[1].hash]
  BY <1>5 DEF RolledBack
<1> HIDE DEF V, W
<1>7. /\ p \in SomeTool /\ p.versions = W /\ p.version = V[1].version
      /\ p.src = V[1].src /\ p.hash = V[1].hash /\ p.name = t.name /\ p.runs = t.runs
  BY <1>1, <1>4, <1>5, <1>6 DEF SomeTool, PastVersion
<1> HIDE DEF p
<1>8. GoesBack(p)
  <2>1. p.hash = p.src
    BY <1>2, <1>3, <1>7
  <2>2. \A k \in 1 .. Len(W) : W[k].hash = W[k].src
    <3>1. TAKE k \in 1 .. Len(W)
    <3>2. k \in 1 .. Len(V) - 1 /\ k + 1 \in 1 .. Len(V)
      BY <1>2, <1>4
    <3>3. QED
      BY <3>2, <1>3, <1>4
  <2>3. W # << >> => W[1].version < V[1].version
    <3>1. HAVE W # << >>
    <3>2. Len(W) >= 1
      BY <3>1, <1>4
    <3>3. 1 \in 1 .. Len(V) - 1
      BY <3>2, <1>2, <1>4
    <3>4. QED
      BY <3>3, <1>3, <1>4
  <2>4. \A k \in 1 .. Len(W) - 1 : W[k + 1].version < W[k].version
    <3>1. TAKE k \in 1 .. Len(W) - 1
    <3>2. /\ k \in 1 .. Len(V) - 1 /\ k + 1 \in 1 .. Len(V) - 1
      BY <1>2, <1>4
    <3>3. V[(k + 1) + 1].version < V[k + 1].version
      BY <3>2, <1>3
    <3>4. QED
      BY <3>2, <3>3, <1>4
  <2>5. Len(W) <= MaxVersions
    <3>1. MaxVersions \in Nat
      BY DEF RegistryAssumption
    <3>2. QED
      BY <3>1, <1>2, <1>3, <1>4
  <2>6. QED
    BY <2>1, <2>2, <2>3, <2>4, <2>5, <1>7, GoesBackMeans
<1>9. QED
  BY <1>1, <1>7, <1>8 DEF IsTool, p

LEMMA ToggledIsTool ==
  ASSUME NEW id \in Ids, NEW t, IsTool(id, t), NEW enabled \in BOOLEAN
  PROVE  /\ IsTool(id, Toggled(t, enabled)) /\ Toggled(t, enabled).runs = t.runs
         /\ Toggled(t, enabled).name = t.name
<1> DEFINE p == Toggled(t, enabled)
<1>1. t \in SomeTool
  BY DEF IsTool
<1>2. /\ p \in SomeTool /\ p.versions = t.versions /\ p.version = t.version
      /\ p.src = t.src /\ p.hash = t.hash /\ p.name = t.name /\ p.runs = t.runs
  BY <1>1 DEF Toggled, SomeTool
<1>3. Past(p) = Past(t)
  BY <1>2 DEF Past
<1>4. QED
  BY <1>2, <1>3 DEF IsTool, GoesBack

LEMMA CountedIsTool ==
  ASSUME NEW id \in Ids, NEW t, IsTool(id, t)
  PROVE  /\ IsTool(id, [t EXCEPT !.runs = @ + 1])
         /\ [t EXCEPT !.runs = @ + 1].runs = t.runs + 1
         /\ [t EXCEPT !.runs = @ + 1].enabled = t.enabled
         /\ [t EXCEPT !.runs = @ + 1].name = t.name
<1> DEFINE p == [t EXCEPT !.runs = @ + 1]
<1>1. t \in SomeTool
  BY DEF IsTool
<1>2. /\ p \in SomeTool /\ p.versions = t.versions /\ p.version = t.version
      /\ p.src = t.src /\ p.hash = t.hash /\ p.name = t.name /\ p.runs = t.runs + 1
      /\ p.enabled = t.enabled
  BY <1>1 DEF SomeTool
<1>3. Past(p) = Past(t)
  BY <1>2 DEF Past
<1>4. QED
  BY <1>2, <1>3 DEF IsTool, GoesBack

-----------------------------------------------------------------------------
(* Looking up a name, and starting                                         *)

LEMMA Least == ASSUME NEW Nums \in SUBSET Nat, Nums # {} PROVE \E n \in Nums : \A m \in Nums : n <= m
<1>1. PICK n \in Nums : \A m \in Nums : ~(<<m, n>> \in OpToRel(<, Nat))
  BY NatLessThanWellFounded, WFMin
<1>2. \A m \in Nums : ~(m < n)
  BY <1>1 DEF OpToRel
<1>3. QED
  BY <1>2

\* getByName finds a tool of that name when there is one.
LEMMA FoundByName ==
  ASSUME RegistryAssumption, NEW r, IsMap(r), NEW name
  PROVE  /\ GetByName(r, name) # None =>
              Has(r, GetByName(r, name)) /\ r.tools[GetByName(r, name)].name = name
         /\ (\E i \in DOMAIN r.tools : r.tools[i].name = name) => GetByName(r, name) # None
<1> DEFINE found == {k \in DOMAIN r.order : r.tools[r.order[k]].name = name}
           first == CHOOSE k \in found : \A j \in found : k <= j
<1>1. /\ DOMAIN r.tools \subseteq Ids /\ r.order \in Seq(Ids)
      /\ DOMAIN r.order = 1 .. Len(r.order) /\ Len(r.order) \in Nat
      /\ Lists(r) /\ None \notin Ids
  BY MapParts DEF IsMap, RegistryAssumption
<1>2. GetByName(r, name) = IF found = {} THEN None ELSE r.order[first]
  BY DEF GetByName
<1>3. ASSUME found # {} PROVE r.order[first] \in DOMAIN r.tools /\ r.tools[r.order[first]].name = name
  <2>1. found \in SUBSET Nat
    BY <1>1
  <2> HIDE DEF found
  <2>2. \E k \in found : \A j \in found : k <= j
    BY <1>3, <2>1, Least
  <2>3. first \in found
    BY <2>2
  <2> HIDE DEF first
  <2>4. QED
    BY <2>3, <1>1 DEF found, Lists
<1>4. ASSUME NEW i \in DOMAIN r.tools, r.tools[i].name = name PROVE found # {}
  <2>1. PICK k \in 1 .. Len(r.order) : r.order[k] = i
    BY <1>1 DEF Lists
  <2>2. k \in found
    BY <2>1, <1>1, <1>4
  <2>3. QED
    BY <2>2
<1> HIDE DEF found, first
<1>5. QED
  BY <1>1, <1>2, <1>3, <1>4 DEF Has

LEMMA EmptyIsMap == IsMap(Empty) /\ DOMAIN Empty.tools = {}
<1>1. Empty.tools = << >> /\ Empty.order = << >> /\ Empty = [tools |-> << >>, order |-> << >>]
  BY DEF Empty
<1>2. DOMAIN << >> = {} /\ << >> \in [{} -> SomeTool]
  OBVIOUS
<1>3. << >> \in UNION {[D -> SomeTool] : D \in SUBSET Ids}
  BY <1>2
<1>4. << >> \in Seq(Ids) /\ Len(<< >>) = 0
  OBVIOUS
<1>5. Empty \in Maps
  BY <1>1, <1>3, <1>4 DEF Maps
<1>6. Lists(Empty)
  BY <1>1, <1>2, <1>4 DEF Lists
<1>7. QED
  BY <1>1, <1>2, <1>5, <1>6 DEF IsMap

\* Starting adds the legacy tool where it is missing,
LEMMA MigratedIsMap ==
  ASSUME RegistryAssumption, NEW r, IsMap(r)
  PROVE  /\ IsMap(Migrated(r))
         /\ \A i \in DOMAIN r.tools : Has(Migrated(r), i) /\ Migrated(r).tools[i] = r.tools[i]
         /\ DOMAIN Migrated(r).tools \subseteq DOMAIN r.tools \cup {LegacyTool}
<1> DEFINE legacy == Fresh(LegacyName, None, "sandboxed", None, AnySource, "pending")
<1>1. /\ LegacyTool \in Ids /\ BuiltinTool # LegacyTool
      /\ AnySource \in Sources /\ LegacyName \in Names
  BY DEF RegistryAssumption
<1>2. IsTool(LegacyTool, legacy)
  BY <1>1, FreshIsTool
<1>3. Migrated(r) = IF Has(r, LegacyTool) THEN r ELSE Put(r, LegacyTool, legacy)
  BY DEF Migrated
<1> HIDE DEF legacy
<1>4. CASE Has(r, LegacyTool)
  BY <1>3, <1>4 DEF Has
<1>5. CASE ~Has(r, LegacyTool)
  <2>1. /\ IsMap(Migrated(r)) /\ DOMAIN Migrated(r).tools = DOMAIN r.tools \cup {LegacyTool}
        /\ \A i \in Ids \ {LegacyTool} : Agree(Migrated(r), r, i)
    BY <1>1, <1>2, <1>3, <1>5, PutMap
  <2>2. DOMAIN r.tools \subseteq Ids
    BY MapParts
  <2>3. QED
    BY <2>1, <2>2, <1>5 DEF Agree, Has
<1>6. QED
  BY <1>4, <1>5

\* and generate_tool where nothing has its name.
LEMMA BuiltinsIsMap ==
  ASSUME RegistryAssumption, NEW r, IsMap(r)
  PROVE  /\ IsMap(WithBuiltins(r))
         /\ \A i \in DOMAIN r.tools : Has(WithBuiltins(r), i) /\ WithBuiltins(r).tools[i] = r.tools[i]
         /\ DOMAIN WithBuiltins(r).tools \subseteq DOMAIN r.tools \cup {BuiltinTool}
<1> DEFINE builtin == Fresh(BuiltinName, BuiltinIntent, "builtin", None, AnySource, "active")
<1>1. /\ BuiltinTool \in Ids /\ AnySource \in Sources
      /\ BuiltinIntent \in Intents /\ BuiltinName \in Names
  BY DEF RegistryAssumption
<1>2. IsTool(BuiltinTool, builtin)
  BY <1>1, FreshIsTool
<1>3. WithBuiltins(r) = IF GetByName(r, BuiltinName) # None THEN r ELSE Put(r, BuiltinTool, builtin)
  BY DEF WithBuiltins
<1> HIDE DEF builtin
<1>4. CASE GetByName(r, BuiltinName) # None
  BY <1>3, <1>4 DEF Has
<1>5. CASE GetByName(r, BuiltinName) = None
  <2>1. ~Has(r, BuiltinTool)
    <3>1. SUFFICES ASSUME Has(r, BuiltinTool) PROVE FALSE
      OBVIOUS
    <3>2. r.tools[BuiltinTool].name = BuiltinName
      BY <3>1 DEF Has, IsMap, IsTool
    <3>3. QED
      BY <3>1, <3>2, <1>5, FoundByName DEF Has
  <2>2. /\ IsMap(WithBuiltins(r)) /\ DOMAIN WithBuiltins(r).tools = DOMAIN r.tools \cup {BuiltinTool}
        /\ \A i \in Ids \ {BuiltinTool} : Agree(WithBuiltins(r), r, i)
    BY <1>1, <1>2, <1>3, <1>5, PutMap
  <2>3. DOMAIN r.tools \subseteq Ids
    BY MapParts
  <2>4. QED
    BY <2>1, <2>2, <2>3 DEF Agree, Has
<1>6. QED
  BY <1>4, <1>5

\* A tool made of a directory.
LEMMA ManifestIsTool ==
  ASSUME RegistryAssumption, RegistryInv, NEW id \in Ids, id # BuiltinTool,
         NEW t \in TechIds, dirs[t] # None
  PROVE  /\ IsTool(id, FromManifest(t)) /\ FromManifest(t).runs = 0
         /\ FromManifest(t).tech = t
<1>1. dirs[t] \in Design
  BY DEF RegistryInv
<1>2. dirs[t].name \in Names /\ dirs[t].intent \in Intents \cup {None} /\ AnySource \in Sources
  BY <1>1 DEF Design, RegistryAssumption
<1>3. QED
  BY <1>2, FreshIsTool DEF FromManifest

\* Hydration adds the tools of from under new ids.
LEMMA HydratedIsMap ==
  ASSUME RegistryAssumption, RegistryInv, NEW r, IsMap(r), NEW ids \in SUBSET (Ids \ {BuiltinTool}),
         ids \cap DOMAIN r.tools = {}, NEW from \in [ids -> TechIds],
         \A i \in ids : dirs[from[i]] # None, NEW order \in Orders(ids)
  PROVE  /\ IsMap(Hydrated(r, from, order))
         /\ DOMAIN Hydrated(r, from, order).tools = DOMAIN r.tools \cup ids
         /\ \A i \in DOMAIN r.tools : Hydrated(r, from, order).tools[i] = r.tools[i]
         /\ \A i \in ids : Hydrated(r, from, order).tools[i].tech = from[i]
<1> DEFINE q == Hydrated(r, from, order)
           tools == [i \in DOMAIN r.tools \cup ids |-> IF i \in ids THEN FromManifest(from[i]) ELSE r.tools[i]]
           old == r.order
           all == old \o order
<1>1. DOMAIN from = ids
  OBVIOUS
<1>2. q.tools = tools /\ q.order = all /\ q = [tools |-> tools, order |-> all]
  BY <1>1 DEF Hydrated
<1>3. /\ DOMAIN r.tools \subseteq Ids /\ old \in Seq(Ids)
      /\ \A i \in DOMAIN r.tools : r.tools[i] \in SomeTool /\ IsTool(i, r.tools[i])
  BY MapParts
<1>4. \A i \in ids : IsTool(i, FromManifest(from[i])) /\ FromManifest(from[i]).tech = from[i]
  BY ManifestIsTool
<1>5. PICK n \in Nat : order \in Seqs!Bijection(1 .. n, ids)
  BY DEF Orders
<1>6. /\ order \in [1 .. n -> ids]
      /\ \A j, k \in 1 .. n : order[j] = order[k] => j = k
      /\ \A i \in ids : \E k \in 1 .. n : order[k] = i
  BY <1>5 DEF Seqs!Bijection, Seqs!Injection, Seqs!Surjection, Seqs!IsInjective
<1>7. order \in Seq(Ids) /\ Len(order) = n /\ Len(old) \in Nat
  <2>1. order \in Seq(ids) /\ Len(order) = n
    BY <1>6
  <2>2. QED
    BY <2>1, <1>3
<1> DEFINE m == Len(old)
<1>8. /\ all \in Seq(Ids) /\ Len(all) = m + n
      /\ \A k \in 1 .. m : all[k] = old[k]
      /\ \A k \in 1 .. n : all[m + k] = order[k]
  <2>1. old \in Seq(Ids) /\ order \in Seq(Ids) /\ Len(order) = n
    BY <1>3, <1>7
  <2>2. \A a, b \in Seq(Ids) :
           /\ a \o b \in Seq(Ids) /\ Len(a \o b) = Len(a) + Len(b)
           /\ \A k \in 1 .. Len(a) : (a \o b)[k] = a[k]
           /\ \A k \in 1 .. Len(b) : (a \o b)[Len(a) + k] = b[k]
    BY Joined
  <2>3. /\ all \in Seq(Ids) /\ Len(all) = m + Len(order)
        /\ \A k \in 1 .. m : all[k] = old[k]
        /\ \A k \in 1 .. Len(order) : all[m + k] = order[k]
    BY <2>1, <2>2, ZenonT(30)
  <2>4. QED
    BY <2>1, <2>3
<1>9. m \in Nat /\ n \in Nat
  BY <1>7
<1> HIDE DEF all, m
<1>10. \A k \in 1 .. m + n : k \in 1 .. m \/ (k - m \in 1 .. n /\ k = m + (k - m))
  BY <1>9
<1>11. Lists(q)
  <2>0. /\ \A k \in 1 .. m : old[k] \in DOMAIN r.tools
        /\ \A i \in DOMAIN r.tools : \E k \in 1 .. m : old[k] = i
        /\ \A j, k \in 1 .. m : old[j] = old[k] => j = k
    BY DEF IsMap, Lists, m
  <2>1. ASSUME NEW k \in 1 .. m + n PROVE all[k] \in DOMAIN r.tools \cup ids
    <3>1. CASE k \in 1 .. m
      BY <3>1, <2>0, <1>8
    <3>2. CASE k - m \in 1 .. n /\ k = m + (k - m)
      <4>1. all[k] = order[k - m]
        BY <3>2, <1>8
      <4>2. QED
        BY <4>1, <3>2, <1>6
    <3>3. QED
      BY <3>1, <3>2, <1>10
  <2>2. ASSUME NEW i \in DOMAIN r.tools \cup ids PROVE \E k \in 1 .. m + n : all[k] = i
    <3>1. CASE i \in DOMAIN r.tools
      <4>1. PICK k \in 1 .. m : old[k] = i
        BY <3>1, <2>0
      <4>2. k \in 1 .. m + n
        BY <1>9
      <4>3. QED
        BY <4>1, <4>2, <1>8
    <3>2. CASE i \in ids
      <4>1. PICK k \in 1 .. n : order[k] = i
        BY <3>2, <1>6
      <4>2. m + k \in 1 .. m + n
        BY <1>9
      <4>3. QED
        BY <4>1, <4>2, <1>8
    <3>3. QED
      BY <3>1, <3>2
  <2>3. ASSUME NEW j \in 1 .. m + n, NEW k \in 1 .. m + n, all[j] = all[k] PROVE j = k
    <3>1. CASE j \in 1 .. m /\ k \in 1 .. m
      BY <3>1, <2>3, <2>0, <1>8
    <3>2. CASE /\ j - m \in 1 .. n /\ j = m + (j - m)
               /\ k - m \in 1 .. n /\ k = m + (k - m)
      <4>1. all[j] = order[j - m] /\ all[k] = order[k - m]
        BY <3>2, <1>8
      <4>2. j - m = k - m
        BY <4>1, <3>2, <2>3, <1>6
      <4>3. QED
        BY <4>2, <3>2
    <3>3. CASE j \in 1 .. m /\ k - m \in 1 .. n /\ k = m + (k - m)
      <4>1. all[j] = old[j] /\ all[k] = order[k - m]
        BY <3>3, <1>8
      <4>2. all[j] \in DOMAIN r.tools /\ all[k] \in ids
        BY <4>1, <3>3, <2>0, <1>6
      <4>3. QED
        BY <4>2, <2>3
    <3>4. CASE k \in 1 .. m /\ j - m \in 1 .. n /\ j = m + (j - m)
      <4>1. all[k] = old[k] /\ all[j] = order[j - m]
        BY <3>4, <1>8
      <4>2. all[k] \in DOMAIN r.tools /\ all[j] \in ids
        BY <4>1, <3>4, <2>0, <1>6
      <4>3. QED
        BY <4>2, <2>3
    <3>5. QED
      BY <3>1, <3>2, <3>3, <3>4, <1>10
  <2>4. DOMAIN q.tools = DOMAIN r.tools \cup ids /\ q.order = all /\ Len(all) = m + n
    BY <1>2, <1>8
  <2> HIDE DEF q
  <2>5. QED
    BY <2>1, <2>2, <2>3, <2>4 DEF Lists
<1>12. q \in Maps
  <2>1. tools \in [DOMAIN r.tools \cup ids -> SomeTool] /\ DOMAIN r.tools \cup ids \in SUBSET Ids
    BY <1>3, <1>4 DEF IsTool
  <2>2. tools \in UNION {[D -> SomeTool] : D \in SUBSET Ids}
    BY <2>1
  <2>3. QED
    BY <1>2, <2>2, <1>8 DEF Maps
<1>13. \A i \in DOMAIN q.tools : IsTool(i, q.tools[i])
  BY <1>2, <1>3, <1>4
<1>14. QED
  BY <1>2, <1>4, <1>11, <1>12, <1>13 DEF IsMap

\* What a start makes of a file: its tools as they were, and one of each directory that
\* has none.
LEMMA Boots ==
  ASSUME RegistryAssumption, RegistryInv, NEW r, IsMap(r),
         NEW ids \in SUBSET (Ids \ {BuiltinTool, LegacyTool}), ids \cap DOMAIN r.tools = {},
         NEW from \in Seqs!Bijection(ids, Missing(Migrated(r))), NEW order \in Orders(ids),
         NEW q, q = WithBuiltins(Hydrated(Migrated(r), from, order))
  PROVE  /\ IsMap(q)
         /\ \A i \in DOMAIN r.tools : Has(q, i) /\ q.tools[i] = r.tools[i]
         /\ DOMAIN q.tools \subseteq DOMAIN r.tools \cup ids \cup {BuiltinTool, LegacyTool}
         /\ \A i \in ids : q.tools[i].tech \in Missing(Migrated(r))
         /\ \A i, j \in ids : q.tools[i].tech = q.tools[j].tech => i = j
         /\ \A t \in TechIds : dirs[t] # None => \E i \in DOMAIN q.tools : q.tools[i].tech = t
<1> DEFINE l == Migrated(r)
           h == Hydrated(l, from, order)
<1>1. /\ IsMap(l) /\ \A i \in DOMAIN r.tools : Has(l, i) /\ l.tools[i] = r.tools[i]
      /\ DOMAIN l.tools \subseteq DOMAIN r.tools \cup {LegacyTool}
  BY MigratedIsMap
<1>2. /\ from \in [ids -> Missing(l)]
      /\ \A i, j \in ids : from[i] = from[j] => i = j
      /\ \A t \in Missing(l) : \E i \in ids : from[i] = t
  BY DEF Seqs!Bijection, Seqs!Injection, Seqs!Surjection, Seqs!IsInjective
<1> HIDE DEF l
<1>3. from \in [ids -> TechIds] /\ \A i \in ids : dirs[from[i]] # None
  BY <1>2 DEF Missing
<1>4. ids \cap DOMAIN l.tools = {} /\ ids \in SUBSET (Ids \ {BuiltinTool})
  BY <1>1
<1>5. /\ IsMap(h) /\ DOMAIN h.tools = DOMAIN l.tools \cup ids
      /\ \A i \in DOMAIN l.tools : h.tools[i] = l.tools[i]
      /\ \A i \in ids : h.tools[i].tech = from[i]
  BY <1>1, <1>3, <1>4, HydratedIsMap
<1> HIDE DEF h
<1>6. /\ IsMap(q) /\ \A i \in DOMAIN h.tools : Has(q, i) /\ q.tools[i] = h.tools[i]
      /\ DOMAIN q.tools \subseteq DOMAIN h.tools \cup {BuiltinTool}
  BY <1>5, BuiltinsIsMap DEF h, l
<1>7. \A i \in DOMAIN r.tools : Has(q, i) /\ q.tools[i] = r.tools[i]
  BY <1>1, <1>5, <1>6 DEF Has
<1>8. \A i \in ids : Has(q, i) /\ q.tools[i].tech = from[i]
  BY <1>5, <1>6
<1>9. ASSUME NEW t \in TechIds, dirs[t] # None PROVE \E i \in DOMAIN q.tools : q.tools[i].tech = t
  <2>1. CASE t \in Missing(l)
    <3>1. PICK i \in ids : from[i] = t
      BY <2>1, <1>2
    <3>2. QED
      BY <3>1, <1>8 DEF Has
  <2>2. CASE t \notin Missing(l)
    <3>1. PICK i \in DOMAIN l.tools : l.tools[i].tech = t
      BY <2>2, <1>9 DEF Missing
    <3>2. Has(q, i) /\ q.tools[i] = l.tools[i]
      BY <3>1, <1>5, <1>6
    <3>3. QED
      BY <3>1, <3>2 DEF Has
  <2>3. QED
    BY <2>1, <2>2
<1>10. QED
  BY <1>1, <1>2, <1>5, <1>6, <1>7, <1>8, <1>9 DEF l

-----------------------------------------------------------------------------
(* Saving                                                                  *)

\* What a table holds after a row was written: the tool as the registry has it.
LEMMA WrittenRow ==
  ASSUME RegistryAssumption, RegistryInv, NEW r, IsMap(r), NEW id \in Ids, store = "sqlite"
  PROVE  /\ IsMap(Written(r, id))
         /\ Agree(r, Written(r, id), id)
         /\ \A i \in Ids \ {id} : Agree(Written(r, id), disk.sqlite, i)
<1> DEFINE old == disk.sqlite
           rest == Drop(old, id)
<1>1. IsMap(old)
  BY DEF RegistryInv, Stores
<1> HIDE DEF old
<1>2. /\ IsMap(rest) /\ DOMAIN rest.tools = DOMAIN old.tools \ {id}
      /\ \A i \in Ids \ {id} : Agree(rest, old, i)
  BY <1>1, DropMap
<1>3. Written(r, id) = IF Has(r, id) THEN Put(rest, id, r.tools[id]) ELSE rest
  BY DEF Written, old
<1> HIDE DEF rest
<1>4. CASE Has(r, id)
  <2>1. IsTool(id, r.tools[id])
    BY <1>4 DEF IsMap, Has
  <2>2. /\ IsMap(Written(r, id)) /\ DOMAIN Written(r, id).tools = DOMAIN rest.tools \cup {id}
        /\ Written(r, id).tools[id] = r.tools[id]
        /\ \A i \in Ids \ {id} : Agree(Written(r, id), rest, i)
    BY <1>2, <1>3, <1>4, <2>1, PutMap
  <2>3. QED
    BY <2>2, <1>2, <1>4 DEF Agree, Has, old
<1>5. CASE ~Has(r, id)
  BY <1>2, <1>3, <1>5 DEF Agree, Has, old
<1>6. QED
  BY <1>4, <1>5

LEMMA SaveKeeps ==
  ASSUME RegistryAssumption, RegistryInv, NEW r, IsMap(r), NEW id \in Ids,
         \A i \in Ids \ {id} : Agree(r, reg, i),
         NEW ok \in BOOLEAN, NEW failed \in Nat, SaveAfter(r, id, ok, failed)
  PROVE  /\ RegistryInv'
         /\ reg' = r /\ faults' = faults + failed
         /\ UNCHANGED <<store, dirs, torn, boots>>
<1>1. /\ reg' = r /\ faults' = faults + failed /\ UNCHANGED <<store, dirs, torn, boots>>
      /\ ok => /\ disk' = [disk EXCEPT ![store] = Written(r, id)]
               /\ unsaved' = IF store = "json" THEN {} ELSE unsaved \ {id}
      /\ ~ok => /\ unsaved' = unsaved \cup {id}
                /\ \/ disk' = disk
                   \/ store = "json" /\ disk' = [disk EXCEPT !.json = Empty]
  BY DEF SaveAfter
<1>2. /\ IsMap(reg) /\ disk \in [Stores -> Maps] /\ \A s \in Stores : IsMap(disk[s])
      /\ store \in {"sqlite", "json"} /\ Stores = {"sqlite", "json"} /\ unsaved \subseteq Ids
      /\ faults \in Nat /\ boots \in Nat
      /\ \A i \in Ids : IsSaved(i) => Agree(reg, disk[store], i)
  BY DEF RegistryInv, Stores
<1>3. faults' \in Nat
  BY <1>1, <1>2
<1>4. CASE store = "json"
  <2>1. CASE ok
    <3>1. Written(r, id) = r
      BY <1>4 DEF Written
    <3>2. disk' = [disk EXCEPT !.json = r] /\ unsaved' = {}
      BY <1>1, <1>4, <2>1, <3>1
    <3>3. r \in Maps
      BY DEF IsMap
    <3>4. disk' \in [Stores -> Maps] /\ disk'["json"] = r /\ \A s \in Stores : IsMap(disk'[s])
      BY <3>2, <3>3, <1>2
    <3>5. \A i \in Ids : Agree(r, disk'["json"], i)
      BY <3>4 DEF Agree
    <3>6. QED
      BY <3>2, <3>4, <3>5, <1>1, <1>2, <1>3, <1>4 DEF RegistryInv
  <2>2. CASE ~ok
    <3>1. Empty \in Maps /\ IsMap(Empty)
      BY EmptyIsMap DEF IsMap
    <3>2. disk' \in [Stores -> Maps] /\ \A s \in Stores : IsMap(disk'[s])
      BY <3>1, <1>1, <1>2, <2>2
    <3>3. unsaved' \subseteq Ids /\ unsaved' # {}
      BY <1>1, <1>2, <2>2
    <3>4. \A i \in Ids : ~IsSaved(i)'
      BY <3>3, <1>1, <1>4 DEF IsSaved
    <3>5. QED
      BY <3>2, <3>3, <3>4, <1>1, <1>2, <1>3 DEF RegistryInv
  <2>3. QED
    BY <2>1, <2>2
<1>5. CASE store = "sqlite"
  <2>1. CASE ok
    <3> DEFINE W == Written(r, id)
    <3>1. /\ IsMap(W) /\ Agree(r, W, id)
          /\ \A i \in Ids \ {id} : Agree(W, disk.sqlite, i)
      BY <1>5, WrittenRow
    <3> HIDE DEF W
    <3>2. disk' = [disk EXCEPT !.sqlite = W] /\ unsaved' = unsaved \ {id}
      BY <1>1, <1>5, <2>1 DEF W
    <3>3. W \in Maps
      BY <3>1 DEF IsMap
    <3>4. disk' \in [Stores -> Maps] /\ disk'["sqlite"] = W /\ \A s \in Stores : IsMap(disk'[s])
      BY <3>1, <3>2, <3>3, <1>2
    <3>5. ASSUME NEW i \in Ids, i \notin unsaved' PROVE Agree(r, W, i)
      <4>1. CASE i = id
        BY <4>1, <3>1
      <4>2. CASE i # id
        <5>1. i \notin unsaved
          BY <4>2, <3>2, <3>5
        <5>2. Agree(reg, disk.sqlite, i)
          BY <5>1, <1>2, <1>5 DEF IsSaved
        <5>3. Agree(W, disk.sqlite, i) /\ Agree(r, reg, i)
          BY <4>2, <3>1
        <5>4. QED
          BY <5>2, <5>3 DEF Agree
      <4>3. QED
        BY <4>1, <4>2
    <3>6. \A i \in Ids : IsSaved(i)' => Agree(r, disk'["sqlite"], i)
      BY <3>4, <3>5, <1>1, <1>5 DEF IsSaved
    <3>7. QED
      BY <3>2, <3>4, <3>6, <1>1, <1>2, <1>3, <1>5 DEF RegistryInv
  <2>2. CASE ~ok
    <3>1. disk' = disk /\ unsaved' = unsaved \cup {id}
      BY <1>1, <1>5, <2>2
    <3>2. ASSUME NEW i \in Ids, i \notin unsaved' PROVE Agree(r, disk.sqlite, i)
      <4>1. i \notin unsaved /\ i # id
        BY <3>1, <3>2
      <4>2. Agree(reg, disk.sqlite, i) /\ Agree(r, reg, i)
        BY <4>1, <1>2, <1>5 DEF IsSaved
      <4>3. QED
        BY <4>2 DEF Agree
    <3>3. \A i \in Ids : IsSaved(i)' => Agree(r, disk'["sqlite"], i)
      BY <3>1, <3>2, <1>1, <1>5 DEF IsSaved
    <3>4. QED
      BY <3>1, <3>3, <1>1, <1>2, <1>3, <1>5 DEF RegistryInv
  <2>3. QED
    BY <2>1, <2>2
<1>6. QED
  BY <1>1, <1>2, <1>4, <1>5

LEMMA RegistryStarts == ASSUME RegistryAssumption, RegInit PROVE RegistryInv
<1>1. IsMap(reg) /\ IsMap(Empty)
  BY EmptyIsMap, MigratedIsMap, BuiltinsIsMap DEF RegInit
<1>2. reg \in Maps /\ Empty \in Maps
  BY <1>1 DEF IsMap
<1>3. /\ store \in Stores /\ disk = [s \in Stores |-> IF s = store THEN reg ELSE Empty]
      /\ unsaved = {} /\ faults = 0 /\ boots = 0 /\ dirs = [t \in TechIds |-> None]
  BY DEF RegInit
<1>4. disk \in [Stores -> Maps] /\ disk[store] = reg /\ \A s \in Stores : IsMap(disk[s])
  BY <1>1, <1>2, <1>3
<1>5. dirs \in [TechIds -> Design \cup {None}]
  BY <1>3
<1>6. QED
  BY <1>1, <1>3, <1>4, <1>5 DEF RegistryInv, Agree

\* Ids that no file uses.
FreeIds(free) ==
  /\ free \subseteq Ids \ {BuiltinTool, LegacyTool}
  /\ \A s \in Stores : free \cap DOMAIN disk[s].tools = {}

\* Tools with these ids were added to those that were loaded, for directories without one.
Added(loaded, ids) ==
  /\ DOMAIN reg'.tools \subseteq DOMAIN loaded.tools \cup ids \cup {BuiltinTool, LegacyTool}
  /\ \A i \in ids : reg'.tools[i].tech \in Missing(Migrated(loaded))
  /\ \A i, j \in ids : reg'.tools[i].tech = reg'.tools[j].tech => i = j

\* A restart, with what it read and what it added.
LEMMA Restarts ==
  ASSUME RegistryAssumption, RegistryInv, NEW opened \in Stores, NEW cut \in BOOLEAN,
         NEW free, FreeIds(free), Restart(opened, cut, free),
         NEW loaded, loaded = IF cut THEN Empty ELSE disk[opened]
  PROVE  /\ IsMap(loaded) /\ IsMap(reg')
         /\ \A i \in DOMAIN loaded.tools : Has(reg', i) /\ reg'.tools[i] = loaded.tools[i]
         /\ \A t \in TechIds : dirs[t] # None => \E i \in DOMAIN reg'.tools : reg'.tools[i].tech = t
         /\ \E ids \in SUBSET Ids : Added(loaded, ids)
<1>1. IsMap(loaded) /\ free \cap DOMAIN loaded.tools = {}
  BY EmptyIsMap DEF RegistryInv, FreeIds
<1>2. PICK ids \in SUBSET free :
        \E from \in Seqs!Bijection(ids, Missing(Migrated(loaded))), order \in Orders(ids) :
          reg' = WithBuiltins(Hydrated(Migrated(loaded), from, order))
  BY DEF Restart
<1>3. PICK from \in Seqs!Bijection(ids, Missing(Migrated(loaded))), order \in Orders(ids) :
        reg' = WithBuiltins(Hydrated(Migrated(loaded), from, order))
  BY <1>2
<1>4. ids \in SUBSET (Ids \ {BuiltinTool, LegacyTool}) /\ ids \cap DOMAIN loaded.tools = {}
  BY <1>1 DEF FreeIds
<1> DEFINE q == WithBuiltins(Hydrated(Migrated(loaded), from, order))
<1>5. /\ IsMap(q)
      /\ \A i \in DOMAIN loaded.tools : Has(q, i) /\ q.tools[i] = loaded.tools[i]
      /\ DOMAIN q.tools \subseteq DOMAIN loaded.tools \cup ids \cup {BuiltinTool, LegacyTool}
      /\ \A i \in ids : q.tools[i].tech \in Missing(Migrated(loaded))
      /\ \A i, j \in ids : q.tools[i].tech = q.tools[j].tech => i = j
      /\ \A t \in TechIds : dirs[t] # None => \E i \in DOMAIN q.tools : q.tools[i].tech = t
  BY <1>1, <1>4, Boots
<1>6. reg' = q /\ ids \in SUBSET Ids
  BY <1>3, <1>4
<1> HIDE DEF q
<1>7. Added(loaded, ids)
  BY <1>5, <1>6 DEF Added
<1>8. QED
  BY <1>1, <1>5, <1>6, <1>7

LEMMA RestartKeepsTheRegistry ==
  ASSUME RegistryAssumption, RegistryInv, NEW opened \in Stores, NEW cut \in BOOLEAN,
         NEW free, FreeIds(free), Restart(opened, cut, free)
  PROVE  RegistryInv'
<1>1. /\ disk' = [disk EXCEPT ![opened] = reg'] /\ store' = opened
      /\ unsaved' = {} /\ boots' = boots + 1 /\ UNCHANGED <<dirs, faults>>
  BY DEF Restart
<1>2. IsMap(reg')
  BY Restarts
<1>3. reg' \in Maps
  BY <1>2 DEF IsMap
<1>4. disk' \in [Stores -> Maps] /\ disk'[opened] = reg' /\ \A s \in Stores : IsMap(disk'[s])
  BY <1>1, <1>2, <1>3 DEF RegistryInv
<1>5. boots' \in Nat /\ faults' \in Nat /\ dirs' \in [TechIds -> Design \cup {None}]
  BY <1>1 DEF RegistryInv
<1>6. QED
  BY <1>1, <1>2, <1>4, <1>5 DEF RegistryInv, Agree

-----------------------------------------------------------------------------
(* What the operations do to the registry                                  *)

\* Nothing but a tool's record changes, in the store that is open.
SameStart == UNCHANGED <<store, boots>> /\ faults' >= faults

LEMMA SavePasses ==
  ASSUME RegistryAssumption, RegistryInv, NEW r, IsMap(r), NEW id \in Ids,
         \A i \in Ids \ {id} : Agree(r, reg, i), NEW ok \in BOOLEAN, Save(r, id, ok)
  PROVE  RegistryInv' /\ reg' = r /\ SameStart /\ (ok \/ faults' > 0)
<1> DEFINE failed == IF ok THEN 0 ELSE 1
<1>1. failed \in Nat /\ SaveAfter(r, id, ok, failed)
  BY DEF Save
<1>2. /\ RegistryInv' /\ reg' = r /\ faults' = faults + failed
      /\ UNCHANGED <<store, dirs, torn, boots>>
  BY <1>1, SaveKeeps
<1>3. faults \in Nat
  BY DEF RegistryInv
<1>4. QED
  BY <1>2, <1>3 DEF SameStart

LEMMA ToolOfMap ==
  ASSUME NEW r, IsMap(r), NEW id, Has(r, id)
  PROVE  id \in Ids /\ IsTool(id, r.tools[id]) /\ r.tools[id] \in SomeTool
BY MapParts DEF Has

\* A new tool: nothing else changes.
LEMMA RegisterEffect ==
  ASSUME RegistryAssumption, RegistryInv, NEW id \in Ids, NEW t, IsTool(id, t), NEW ok \in BOOLEAN,
         Register(id, t, ok)
  PROVE  /\ RegistryInv' /\ SameStart
         /\ DOMAIN reg'.tools = DOMAIN reg.tools \cup {id} /\ reg'.tools[id] = t
         /\ \A i \in Ids \ {id} : Agree(reg', reg, i)
<1>1. IsMap(reg)
  BY DEF RegistryInv
<1>2. /\ IsMap(Put(reg, id, t))
      /\ DOMAIN Put(reg, id, t).tools = DOMAIN reg.tools \cup {id} /\ Put(reg, id, t).tools[id] = t
      /\ \A i \in Ids \ {id} : Agree(Put(reg, id, t), reg, i)
  BY <1>1, PutMap
<1>3. Save(Put(reg, id, t), id, ok)
  BY DEF Register, SaveAndTell, SaveQuietly
<1>4. RegistryInv' /\ reg' = Put(reg, id, t) /\ SameStart
  BY <1>2, <1>3, SavePasses
<1>5. QED
  BY <1>2, <1>4

\* The operations of an edit keep what the other tools are, and how often each ran.
EditOf(id, ok) ==
  \/ \E src \in Sources : PublishVersion(id, src, ok)
  \/ Rollback(id, ok)
  \/ \E enabled \in BOOLEAN : SetEnabled(id, enabled, ok)
  \/ Remove(id, ok)

RunsKept == \A i \in DOMAIN reg'.tools : Has(reg, i) /\ reg'.tools[i].runs = reg.tools[i].runs

LEMMA ReplacedRunsKept ==
  ASSUME RegistryAssumption, RegistryInv, NEW id, Has(reg, id), NEW t,
         id \in Ids => IsTool(id, t), t.runs = reg.tools[id].runs,
         NEW ok \in BOOLEAN, Save(Put(reg, id, t), id, ok)
  PROVE  RegistryInv' /\ SameStart /\ RunsKept
<1>1. IsMap(reg) /\ id \in Ids
  BY ToolOfMap DEF RegistryInv
<1>2. /\ IsMap(Put(reg, id, t))
      /\ DOMAIN Put(reg, id, t).tools = DOMAIN reg.tools \cup {id} /\ Put(reg, id, t).tools[id] = t
      /\ \A i \in Ids \ {id} : Agree(Put(reg, id, t), reg, i)
  BY <1>1, PutMap
<1>3. RegistryInv' /\ reg' = Put(reg, id, t) /\ SameStart
  BY <1>1, <1>2, SavePasses
<1>4. DOMAIN reg.tools \subseteq Ids
  BY <1>1, MapParts
<1>5. ASSUME NEW i \in DOMAIN reg'.tools PROVE Has(reg, i) /\ reg'.tools[i].runs = reg.tools[i].runs
  <2>1. CASE i = id
    BY <2>1, <1>2, <1>3
  <2>2. CASE i # id
    <3>1. i \in Ids \ {id} /\ Agree(reg', reg, i) /\ Has(reg', i)
      BY <2>2, <1>2, <1>3, <1>4 DEF Has
    <3>2. QED
      BY <3>1 DEF Agree
  <2>3. QED
    BY <2>1, <2>2
<1>6. QED
  BY <1>3, <1>5 DEF RunsKept

LEMMA EditEffect ==
  ASSUME RegistryAssumption, RegistryInv, NEW id \in Ids, NEW ok \in BOOLEAN, EditOf(id, ok)
  PROVE  RegistryInv' /\ SameStart /\ RunsKept
<1>1. IsMap(reg)
  BY DEF RegistryInv
<1>2. CASE \E src \in Sources : PublishVersion(id, src, ok)
  <2>1. PICK src \in Sources : PublishVersion(id, src, ok)
    BY <1>2
  <2>2. Has(reg, id) /\ Save(Put(reg, id, Published(reg.tools[id], src)), id, ok)
    BY <2>1 DEF PublishVersion, SaveAndTell, SaveQuietly
  <2>3. IsTool(id, reg.tools[id])
    BY <1>1, <2>2, ToolOfMap
  <2>4. /\ IsTool(id, Published(reg.tools[id], src))
        /\ Published(reg.tools[id], src).runs = reg.tools[id].runs
    BY <2>3, PublishedIsTool
  <2>5. QED
    BY <2>2, <2>4, ReplacedRunsKept
<1>3. CASE Rollback(id, ok)
  <2>1. /\ Has(reg, id) /\ reg.tools[id].versions # << >>
        /\ Save(Put(reg, id, RolledBack(reg.tools[id])), id, ok)
    BY <1>3 DEF Rollback, SaveAndTell, SaveQuietly
  <2>2. IsTool(id, reg.tools[id])
    BY <1>1, <2>1, ToolOfMap
  <2>3. /\ IsTool(id, RolledBack(reg.tools[id]))
        /\ RolledBack(reg.tools[id]).runs = reg.tools[id].runs
    BY <2>1, <2>2, RolledBackIsTool
  <2>4. QED
    BY <2>1, <2>3, ReplacedRunsKept
<1>4. CASE \E enabled \in BOOLEAN : SetEnabled(id, enabled, ok)
  <2>1. PICK enabled \in BOOLEAN : SetEnabled(id, enabled, ok)
    BY <1>4
  <2>2. Has(reg, id) /\ Save(Put(reg, id, Toggled(reg.tools[id], enabled)), id, ok)
    BY <2>1 DEF SetEnabled, SaveQuietly
  <2>3. IsTool(id, reg.tools[id])
    BY <1>1, <2>2, ToolOfMap
  <2>4. /\ IsTool(id, Toggled(reg.tools[id], enabled))
        /\ Toggled(reg.tools[id], enabled).runs = reg.tools[id].runs
    BY <2>3, ToggledIsTool
  <2>5. QED
    BY <2>2, <2>4, ReplacedRunsKept
<1>5. CASE Remove(id, ok)
  <2>1. Has(reg, id) /\ Save(Drop(reg, id), id, ok)
    BY <1>5 DEF Remove, SaveQuietly
  <2>2. /\ IsMap(Drop(reg, id)) /\ DOMAIN Drop(reg, id).tools = DOMAIN reg.tools \ {id}
        /\ \A i \in Ids \ {id} : Agree(Drop(reg, id), reg, i)
    BY <1>1, DropMap
  <2>3. RegistryInv' /\ reg' = Drop(reg, id) /\ SameStart
    BY <2>1, <2>2, SavePasses
  <2>4. DOMAIN reg.tools \subseteq Ids
    BY <1>1, MapParts
  <2>5. RunsKept
    BY <2>2, <2>3, <2>4 DEF RunsKept, Agree, Has
  <2>6. QED
    BY <2>3, <2>5
<1>6. QED
  BY <1>2, <1>3, <1>4, <1>5 DEF EditOf

\* An execution is recorded once, or twice when a write threw.
Times(id, n) ==
  /\ DOMAIN reg'.tools = DOMAIN reg.tools
  /\ \A i \in DOMAIN reg.tools :
       /\ reg'.tools[i].runs = reg.tools[i].runs + (IF i = id THEN n ELSE 0)
       /\ reg'.tools[i].enabled = reg.tools[i].enabled
       /\ reg'.tools[i].name = reg.tools[i].name

LEMMA RecordedMap ==
  ASSUME NEW r, IsMap(r), NEW id, Has(r, id)
  PROVE  /\ id \in Ids /\ IsMap(Recorded(r, id))
         /\ DOMAIN Recorded(r, id).tools = DOMAIN r.tools
         /\ \A i \in Ids \ {id} : Agree(Recorded(r, id), r, i)
         /\ \A i \in DOMAIN r.tools :
              /\ Recorded(r, id).tools[i].runs = r.tools[i].runs + (IF i = id THEN 1 ELSE 0)
              /\ Recorded(r, id).tools[i].enabled = r.tools[i].enabled
              /\ Recorded(r, id).tools[i].name = r.tools[i].name
<1> DEFINE t == [r.tools[id] EXCEPT !.runs = @ + 1]
           q == Recorded(r, id)
<1>1. id \in Ids /\ IsTool(id, r.tools[id])
  BY ToolOfMap
<1>2. /\ IsTool(id, t) /\ t.runs = r.tools[id].runs + 1
      /\ t.enabled = r.tools[id].enabled /\ t.name = r.tools[id].name
  BY <1>1, CountedIsTool
<1>3. q = Put(r, id, t)
  BY DEF Recorded
<1> HIDE DEF t, q
<1>4. /\ IsMap(q) /\ DOMAIN q.tools = DOMAIN r.tools \cup {id} /\ q.tools[id] = t
      /\ \A i \in Ids \ {id} : Agree(q, r, i)
  BY <1>1, <1>2, <1>3, PutMap
<1>5. DOMAIN q.tools = DOMAIN r.tools /\ DOMAIN r.tools \subseteq Ids
  BY <1>4, MapParts DEF Has
<1>6. ASSUME NEW i \in DOMAIN r.tools
      PROVE  /\ q.tools[i].runs = r.tools[i].runs + (IF i = id THEN 1 ELSE 0)
             /\ q.tools[i].enabled = r.tools[i].enabled
             /\ q.tools[i].name = r.tools[i].name
  <2>1. CASE i = id
    BY <2>1, <1>2, <1>4
  <2>2. CASE i # id
    <3>1. q.tools[i] = r.tools[i]
      BY <2>2, <1>4, <1>5 DEF Agree, Has
    <3>2. r.tools[i].runs \in Nat
      BY MapParts DEF SomeTool
    <3>3. QED
      BY <2>2, <3>1, <3>2
  <2>3. QED
    BY <2>1, <2>2
<1>7. QED
  BY <1>1, <1>4, <1>5, <1>6 DEF q

LEMMA RecordEffect ==
  ASSUME RegistryAssumption, RegistryInv, NEW id, NEW good \in BOOLEAN,
         NEW ok \in BOOLEAN, NEW okAgain \in BOOLEAN, RecordRun(id, good, ok, okAgain)
  PROVE  /\ RegistryInv' /\ SameStart
         /\ Times(id, 1) \/ (Times(id, 2) /\ store # "json" /\ faults' # 0)
<1>1. IsMap(reg) /\ faults \in Nat
  BY DEF RegistryInv
<1>2. CASE ~Has(reg, id)
  <2>1. UNCHANGED <<reg, disk, store, unsaved, dirs, torn, faults, boots>>
    BY <1>2 DEF RecordRun
  <2>2. RegistryInv'
    BY <2>1 DEF RegistryInv, IsSaved
  <2>3. \A i \in DOMAIN reg.tools : i # id /\ reg.tools[i].runs \in Nat
    BY <1>1, <1>2, MapParts DEF Has, SomeTool
  <2>4. Times(id, 1)
    BY <2>1, <2>3 DEF Times
  <2>5. QED
    BY <2>1, <2>2, <2>4, <1>1 DEF SameStart
<1>3. CASE Has(reg, id)
  <2> DEFINE once == Recorded(reg, id)
  <2>1. /\ id \in Ids /\ IsMap(once) /\ DOMAIN once.tools = DOMAIN reg.tools
        /\ \A i \in Ids \ {id} : Agree(once, reg, i)
        /\ \A i \in DOMAIN reg.tools :
             /\ once.tools[i].runs = reg.tools[i].runs + (IF i = id THEN 1 ELSE 0)
             /\ once.tools[i].enabled = reg.tools[i].enabled
             /\ once.tools[i].name = reg.tools[i].name
    BY <1>1, <1>3, RecordedMap
  <2>2. CASE ~(good /\ Throws(ok))
    <3>1. Save(once, id, ok)
      BY <1>3, <2>2 DEF RecordRun
    <3> HIDE DEF once
    <3>2. RegistryInv' /\ reg' = once /\ SameStart
      BY <2>1, <3>1, SavePasses
    <3>3. Times(id, 1)
      BY <2>1, <3>2 DEF Times
    <3>4. QED
      BY <3>2, <3>3
  <2>3. CASE good /\ Throws(ok)
    <3> DEFINE twice == Recorded(once, id)
               failed == IF okAgain THEN 1 ELSE 2
    <3>1. SaveAfter(twice, id, okAgain, failed) /\ failed \in Nat /\ failed > 0
      BY <1>3, <2>3 DEF RecordRun
    <3>2. Has(once, id)
      BY <1>3, <2>1 DEF Has
    <3> HIDE DEF once, failed
    <3>3. /\ IsMap(twice) /\ DOMAIN twice.tools = DOMAIN once.tools
          /\ \A i \in Ids \ {id} : Agree(twice, once, i)
          /\ \A i \in DOMAIN once.tools :
               /\ twice.tools[i].runs = once.tools[i].runs + (IF i = id THEN 1 ELSE 0)
               /\ twice.tools[i].enabled = once.tools[i].enabled
               /\ twice.tools[i].name = once.tools[i].name
      BY <2>1, <3>2, RecordedMap
    <3> HIDE DEF twice
    <3>4. \A i \in Ids \ {id} : Agree(twice, reg, i)
      BY <2>1, <3>3 DEF Agree
    <3>5. /\ RegistryInv' /\ reg' = twice /\ faults' = faults + failed
          /\ UNCHANGED <<store, dirs, torn, boots>>
      BY <2>1, <3>1, <3>3, <3>4, SaveKeeps
    <3>6. SameStart /\ faults' # 0
      BY <1>1, <3>1, <3>5 DEF SameStart
    <3>7. store # "json"
      BY <2>3 DEF Throws
    <3>8. \A i \in DOMAIN reg.tools : reg.tools[i].runs \in Nat
      BY <1>1, MapParts DEF SomeTool
    <3>9. \A i \in DOMAIN reg.tools :
            /\ twice.tools[i].runs = reg.tools[i].runs + (IF i = id THEN 2 ELSE 0)
            /\ twice.tools[i].enabled = reg.tools[i].enabled
            /\ twice.tools[i].name = reg.tools[i].name
      BY <2>1, <3>3, <3>8
    <3>10. Times(id, 2)
      BY <2>1, <3>3, <3>5, <3>9 DEF Times
    <3>11. QED
      BY <3>5, <3>6, <3>7, <3>10
  <2>4. QED
    BY <2>2, <2>3
<1>4. QED
  BY <1>2, <1>3

-----------------------------------------------------------------------------
(* Executions begin and end                                                *)

LEMMA CountIsNat ==
  ASSUME BuilderAssumption, NEW i
  PROVE  IsFiniteSet(InExecution(i)) /\ Cardinality(InExecution(i)) \in Nat
<1>1. IsFiniteSet(Slots) /\ InExecution(i) \in SUBSET Slots
  BY DEF BuilderAssumption, InExecution
<1>2. QED
  BY <1>1, FS_Subset, FS_CardinalityType

LEMMA RunIsNotFree == ASSUME BuilderAssumption, NEW r \in Run PROVE r # Free
BY DEF BuilderAssumption, Run, Builds, Caller, Free

\* An execution begins in a free slot and is counted.
LEMMA Begins ==
  ASSUME BuilderAssumption, RunsInv, NEW id \in Ids, NEW for \in Builds \cup {Caller},
         NEW awaits \in Builds \cup {0}, Occupy(id, for, awaits)
  PROVE  /\ running' \in [Slots -> Run \cup {Free}] /\ started' \in [Ids -> Nat]
         /\ \A s \in Slots : running'[s] # Free => started'[running'[s].id] > 0
         /\ \A s \in Slots : running'[s] = running[s] \/ running'[s].for = for
         /\ \A i \in Ids : i # id => started'[i] = started[i]
         /\ \A i \in Ids : \E d \in {0, 1} :
              /\ started'[i] = started[i] + d
              /\ Cardinality(InExecution(i)') = Cardinality(InExecution(i)) + d
<1> DEFINE s == CHOOSE t \in Slots : running[t] = Free
           run == [id |-> id, for |-> for, awaits |-> awaits]
<1>1. /\ s \in Slots /\ running[s] = Free
      /\ running' = [running EXCEPT ![s] = run]
      /\ started' = [started EXCEPT ![id] = @ + 1]
  BY DEF Occupy
<1> HIDE DEF s
<1>2. run \in Run /\ run.id = id /\ run.for = for
  BY DEF Run
<1>3. run # Free
  BY <1>2, RunIsNotFree
<1> HIDE DEF run
<1>4. /\ running \in [Slots -> Run \cup {Free}] /\ started \in [Ids -> Nat]
      /\ \A t \in Slots : running[t] # Free => started[running[t].id] > 0
  BY DEF RunsInv
<1>5. /\ running' \in [Slots -> Run \cup {Free}] /\ running'[s] = run
      /\ \A t \in Slots \ {s} : running'[t] = running[t]
  BY <1>1, <1>2, <1>4
<1>6. /\ started' \in [Ids -> Nat] /\ started'[id] = started[id] + 1
      /\ \A i \in Ids : i # id => started'[i] = started[i]
  BY <1>1, <1>4
<1>7. ASSUME NEW t \in Slots, running'[t] # Free PROVE started'[running'[t].id] > 0
  <2>1. CASE t = s
    BY <2>1, <1>2, <1>4, <1>5, <1>6
  <2>2. CASE t # s
    <3>1. running'[t] = running[t] /\ running[t] # Free
      BY <2>2, <1>5, <1>7
    <3>2. running[t].id \in Ids /\ started[running[t].id] > 0
      BY <3>1, <1>4 DEF Run
    <3>3. \A n \in Nat : n > 0 => n + 1 > 0
      OBVIOUS
    <3>4. QED
      BY <3>1, <3>2, <3>3, <1>4, <1>6
  <2>3. QED
    BY <2>1, <2>2
<1>8. ASSUME NEW i \in Ids
      PROVE  \E d \in {0, 1} : /\ started'[i] = started[i] + d
                               /\ Cardinality(InExecution(i)') = Cardinality(InExecution(i)) + d
  <2>1. IsFiniteSet(InExecution(i)) /\ Cardinality(InExecution(i)) \in Nat
    BY CountIsNat
  <2>2. CASE i = id
    <3>1. InExecution(i)' = InExecution(i) \cup {s} /\ s \notin InExecution(i)
      BY <2>2, <1>1, <1>2, <1>3, <1>5 DEF InExecution
    <3>2. Cardinality(InExecution(i)') = Cardinality(InExecution(i)) + 1
      BY <3>1, <2>1, FS_AddElement
    <3>3. QED
      BY <3>2, <2>2, <1>6
  <2>3. CASE i # id
    <3>1. InExecution(i)' = InExecution(i)
      BY <2>3, <1>1, <1>2, <1>5 DEF InExecution
    <3>2. started'[i] = started[i] + 0 /\ Cardinality(InExecution(i)) + 0 = Cardinality(InExecution(i))
      BY <2>1, <2>3, <1>4, <1>6
    <3>3. QED
      BY <3>1, <3>2
  <2>4. QED
    BY <2>2, <2>3
<1>9. QED
  BY <1>2, <1>5, <1>6, <1>7, <1>8

\* An execution ends.
LEMMA Ends ==
  ASSUME BuilderAssumption, RunsInv, NEW s \in Slots, running[s] # Free,
         running' = [running EXCEPT ![s] = Free]
  PROVE  /\ running' \in [Slots -> Run \cup {Free}]
         /\ \A t \in Slots : running'[t] # Free => running'[t] = running[t]
         /\ running[s] \in Run /\ running[s].id \in Ids
         /\ \A i \in Ids : Cardinality(InExecution(i)) =
              Cardinality(InExecution(i)') + (IF i = running[s].id THEN 1 ELSE 0)
<1>1. running \in [Slots -> Run \cup {Free}]
  BY DEF RunsInv
<1>2. /\ running' \in [Slots -> Run \cup {Free}] /\ running'[s] = Free
      /\ \A t \in Slots \ {s} : running'[t] = running[t]
  BY <1>1
<1>3. running[s] \in Run /\ running[s].id \in Ids
  BY <1>1 DEF Run
<1>4. ASSUME NEW i \in Ids
      PROVE  Cardinality(InExecution(i)) =
               Cardinality(InExecution(i)') + (IF i = running[s].id THEN 1 ELSE 0)
  <2>1. IsFiniteSet(InExecution(i)) /\ Cardinality(InExecution(i)) \in Nat
    BY CountIsNat
  <2>2. CASE i = running[s].id
    <3>1. InExecution(i)' = InExecution(i) \ {s} /\ s \in InExecution(i)
      BY <2>2, <1>2 DEF InExecution
    <3>2. Cardinality(InExecution(i)') = Cardinality(InExecution(i)) - 1
      BY <3>1, <2>1, FS_RemoveElement
    <3>3. \A n \in Nat : n = (n - 1) + 1
      OBVIOUS
    <3>4. QED
      BY <3>2, <3>3, <2>1, <2>2
  <2>3. CASE i # running[s].id
    <3>1. InExecution(i)' = InExecution(i)
      BY <2>3, <1>2 DEF InExecution
    <3>2. QED
      BY <3>1, <2>1, <2>3
  <2>4. QED
    BY <2>2, <2>3
<1>5. QED
  BY <1>2, <1>3, <1>4

-----------------------------------------------------------------------------
(* The steps, as the registry and the counts see them                      *)

\* A start brings back what was saved, and a tool for every directory.
ComesBack ==
  boots' # boots =>
    LET added == DOMAIN reg'.tools \ (DOMAIN reg.tools \cup {BuiltinTool, LegacyTool})
    IN  /\ ~torn' /\ unsaved = {} /\ store' = store =>
             /\ \A i \in DOMAIN reg.tools : Has(reg', i) /\ reg'.tools[i] = reg.tools[i]
             /\ \A i \in added : \A j \in DOMAIN reg.tools : reg.tools[j].tech # reg'.tools[i].tech
             /\ \A i, j \in added : reg'.tools[i].tech = reg'.tools[j].tech => i = j
        /\ \A t \in TechIds : dirs[t] # None => \E i \in DOMAIN reg'.tools : reg'.tools[i].tech = t

Good == RegistryInv' /\ RunsInv' /\ ComesBack

Count(i) == started[i] = reg.tools[i].runs + Cardinality(InExecution(i))

LEMMA Counts ==
  ASSUME RunsInv, store = "json" \/ faults = 0, NEW i \in DOMAIN reg.tools
  PROVE  Count(i)
BY DEF RunsInv, RunsAreCountedOnce, Count, InExecution

LEMMA Recounted ==
  ASSUME store' = "json" \/ faults' = 0 => \A i \in DOMAIN reg'.tools : Count(i)'
  PROVE  RunsAreCountedOnce'
BY DEF RunsAreCountedOnce, Count, InExecution

LEMMA StillCounting ==
  ASSUME RegistryInv, SameStart, store' = "json" \/ faults' = 0
  PROVE  store = "json" \/ faults = 0
BY DEF RegistryInv, SameStart

\* No execution begins or ends.
LEMMA Unmoved ==
  ASSUME BuilderAssumption, RegistryInv, RunsInv, RegistryInv', SameStart, RunsKept,
         UNCHANGED <<running, started>>
  PROVE  Good
<1>1. RunsAreCountedOnce'
  <2>1. ASSUME store' = "json" \/ faults' = 0, NEW i \in DOMAIN reg'.tools PROVE Count(i)'
    <3>1. i \in DOMAIN reg.tools /\ reg'.tools[i].runs = reg.tools[i].runs
      BY <2>1 DEF RunsKept, Has
    <3>2. Count(i)
      BY <3>1, <2>1, StillCounting, Counts
    <3>3. QED
      BY <3>1, <3>2 DEF Count, InExecution
  <2>2. QED
    BY <2>1, Recounted
<1>2. RunsInv'
  BY <1>1 DEF RunsInv
<1>4. ComesBack
  BY DEF ComesBack, SameStart
<1>5. QED
  BY <1>2, <1>4 DEF Good

\* The registry does not change.
LEMMA RegistryUnchanged ==
  ASSUME RegistryInv, UNCHANGED <<reg, disk, store, unsaved, dirs, faults, boots>>
  PROVE  RegistryInv' /\ SameStart /\ RunsKept
<1>1. RegistryInv'
  BY DEF RegistryInv, IsSaved
<1>2. SameStart
  BY DEF SameStart, RegistryInv
<1>3. RunsKept
  BY DEF RunsKept, Has
<1>4. QED
  BY <1>1, <1>2, <1>3

LEMMA OnlyBuildsMove ==
  ASSUME BuilderAssumption, RegistryInv, RunsInv,
         UNCHANGED <<reg, disk, store, unsaved, dirs, faults, boots, running, started>>
  PROVE  Good
<1>1. RegistryInv' /\ SameStart /\ RunsKept
  BY RegistryUnchanged
<1>2. QED
  BY <1>1, Unmoved

\* An execution begins.
LEMMA BeginStep ==
  ASSUME BuilderAssumption, RegistryInv, RunsInv,
         UNCHANGED <<reg, disk, store, unsaved, dirs, faults, boots>>,
         NEW id, Has(reg, id),
         NEW for \in Builds \cup {Caller}, NEW awaits \in Builds \cup {0}, Occupy(id, for, awaits)
  PROVE  Good
<1>1. RegistryInv' /\ SameStart /\ RunsKept /\ id \in Ids
  BY RegistryUnchanged, ToolOfMap DEF RegistryInv
<1>2. /\ running' \in [Slots -> Run \cup {Free}] /\ started' \in [Ids -> Nat]
      /\ \A s \in Slots : running'[s] # Free => started'[running'[s].id] > 0
      /\ \A i \in Ids : i # id => started'[i] = started[i]
      /\ \A i \in Ids : \E d \in {0, 1} :
           /\ started'[i] = started[i] + d
           /\ Cardinality(InExecution(i)') = Cardinality(InExecution(i)) + d
  BY <1>1, Begins
<1>3. RunsAreCountedOnce'
  <2>1. ASSUME store' = "json" \/ faults' = 0, NEW i \in DOMAIN reg'.tools PROVE Count(i)'
    <3>1. i \in DOMAIN reg.tools /\ i \in Ids /\ reg.tools[i].runs \in Nat
      BY MapParts DEF RegistryInv, SomeTool
    <3>2. Count(i)
      BY <3>1, <2>1, <1>1, StillCounting, Counts
    <3>3. PICK d \in {0, 1} : /\ started'[i] = started[i] + d
                              /\ Cardinality(InExecution(i)') = Cardinality(InExecution(i)) + d
      BY <3>1, <1>2
    <3>4. Cardinality(InExecution(i)) \in Nat
      BY CountIsNat
    <3>5. \A r, c \in Nat : (r + c) + d = r + (c + d)
      OBVIOUS
    <3>6. started'[i] = reg.tools[i].runs + Cardinality(InExecution(i)')
      <4>1. started[i] = reg.tools[i].runs + Cardinality(InExecution(i))
        BY <3>2 DEF Count
      <4> DEFINE c == Cardinality(InExecution(i))
                 n == reg.tools[i].runs
      <4>2. started[i] = n + c /\ n \in Nat /\ c \in Nat
        BY <4>1, <3>1, <3>4
      <4>3. started'[i] = started[i] + d /\ Cardinality(InExecution(i)') = c + d
        BY <3>3
      <4> HIDE DEF c, n
      <4>4. started'[i] = n + Cardinality(InExecution(i)')
        BY <4>2, <4>3, <3>5
      <4>5. QED
        BY <4>4 DEF n
    <3>7. QED
      BY <3>6 DEF Count
  <2>2. QED
    BY <2>1, Recounted
<1>4. RunsInv'
  BY <1>2, <1>3 DEF RunsInv
<1>6. ComesBack
  BY DEF ComesBack
<1>7. QED
  BY <1>1, <1>4, <1>6 DEF Good

\* An execution ends and is recorded.
LEMMA EndStep ==
  ASSUME RegistryAssumption, BuilderAssumption, RegistryInv, RunsInv,
         NEW s \in Slots, running[s] # Free, running' = [running EXCEPT ![s] = Free],
         NEW good \in BOOLEAN, NEW ok \in BOOLEAN, NEW okAgain \in BOOLEAN,
         RecordRun(running[s].id, good, ok, okAgain), UNCHANGED started
  PROVE  Good
<1> DEFINE id == running[s].id
<1>1. /\ RegistryInv' /\ SameStart
      /\ Times(id, 1) \/ (Times(id, 2) /\ store # "json" /\ faults' # 0)
  BY RecordEffect
<1>2. /\ running' \in [Slots -> Run \cup {Free}]
      /\ \A t \in Slots : running'[t] # Free => running'[t] = running[t]
      /\ \A i \in Ids : Cardinality(InExecution(i)) =
           Cardinality(InExecution(i)') + (IF i = id THEN 1 ELSE 0)
  BY Ends
<1>3. RunsAreCountedOnce'
  <2>1. ASSUME store' = "json" \/ faults' = 0, NEW i \in DOMAIN reg'.tools PROVE Count(i)'
    <3>1. Times(id, 1)
      BY <2>1, <1>1 DEF SameStart
    <3>2. i \in DOMAIN reg.tools /\ i \in Ids /\ reg.tools[i].runs \in Nat
      BY <3>1, MapParts DEF RegistryInv, SomeTool, Times
    <3>3. Count(i)
      BY <3>2, <2>1, <1>1, StillCounting, Counts
    <3> DEFINE n == reg.tools[i].runs
               m == reg'.tools[i].runs
               c == Cardinality(InExecution(i))
               d == Cardinality(InExecution(i)')
               e == IF i = id THEN 1 ELSE 0
    <3>4. m = n + e
      BY <3>1, <3>2 DEF Times
    <3>5. c = d + e
      BY <3>2, <1>2
    <3>6. n \in Nat /\ c \in Nat /\ d \in Nat /\ e \in {0, 1}
      <4>1. c \in Nat
        BY CountIsNat
      <4>2. IsFiniteSet(InExecution(i)')
        BY FS_Subset DEF BuilderAssumption, InExecution
      <4>3. d \in Nat
        BY <4>2, FS_CardinalityType
      <4>4. QED
        BY <4>1, <4>3, <3>2
    <3>7. started[i] = n + c
      BY <3>3 DEF Count
    <3> HIDE DEF n, m, c, d, e
    <3>8. started[i] = m + d
      BY <3>4, <3>5, <3>6, <3>7
    <3>9. QED
      BY <3>8 DEF Count, m, d
  <2>2. QED
    BY <2>1, Recounted
<1>4. RunsInv'
  BY <1>2, <1>3 DEF RunsInv
<1>6. ComesBack
  BY <1>1 DEF ComesBack, SameStart
<1>7. QED
  BY <1>1, <1>4, <1>6 DEF Good

\* A tool whose permission is denied: it is counted and recorded at once.
LEMMA DeniedStep ==
  ASSUME RegistryAssumption, BuilderAssumption, RegistryInv, RunsInv,
         NEW id, Has(reg, id),
         NEW ok \in BOOLEAN, NEW okAgain \in BOOLEAN, RecordRun(id, FALSE, ok, okAgain),
         started' = [started EXCEPT ![id] = @ + 1], UNCHANGED running
  PROVE  Good
<1>1. /\ RegistryInv' /\ SameStart
      /\ Times(id, 1) \/ (Times(id, 2) /\ store # "json" /\ faults' # 0)
  BY RecordEffect
<1>2. id \in Ids /\ started \in [Ids -> Nat] /\ running \in [Slots -> Run \cup {Free}]
  BY ToolOfMap DEF RegistryInv, RunsInv
<1>3. /\ started' \in [Ids -> Nat]
      /\ \A i \in Ids : started'[i] = started[i] + (IF i = id THEN 1 ELSE 0)
  BY <1>2
<1>4. RunsAreCountedOnce'
  <2>1. ASSUME store' = "json" \/ faults' = 0, NEW i \in DOMAIN reg'.tools PROVE Count(i)'
    <3>1. Times(id, 1)
      BY <2>1, <1>1 DEF SameStart
    <3>2. i \in DOMAIN reg.tools /\ i \in Ids /\ reg.tools[i].runs \in Nat
      BY <3>1, MapParts DEF RegistryInv, SomeTool, Times
    <3>3. Count(i)
      BY <3>2, <2>1, <1>1, StillCounting, Counts
    <3> DEFINE n == reg.tools[i].runs
               m == reg'.tools[i].runs
               c == Cardinality(InExecution(i))
               e == IF i = id THEN 1 ELSE 0
    <3>4. m = n + e
      BY <3>1, <3>2 DEF Times
    <3>5. n \in Nat /\ c \in Nat /\ e \in {0, 1}
      BY <3>2, CountIsNat
    <3>6. started[i] = n + c /\ started'[i] = started[i] + e
      BY <3>2, <3>3, <1>3 DEF Count
    <3>7. Cardinality(InExecution(i)') = c
      BY DEF InExecution
    <3> HIDE DEF n, m, c, e
    <3>8. started'[i] = m + c
      BY <3>4, <3>5, <3>6
    <3>9. QED
      BY <3>7, <3>8 DEF Count, m
  <2>2. QED
    BY <2>1, Recounted
<1>5. ASSUME NEW s \in Slots, running'[s] # Free PROVE started'[running'[s].id] > 0
  <2>1. running[s].id \in Ids /\ started[running[s].id] > 0
    BY <1>2, <1>5 DEF RunsInv, Run
  <2>2. \A n \in Nat : n > 0 => n + 1 > 0 /\ n + 0 > 0
    OBVIOUS
  <2>3. QED
    BY <2>1, <2>2, <1>2, <1>3
<1>6. RunsInv'
  BY <1>2, <1>3, <1>4, <1>5 DEF RunsInv
<1>8. ComesBack
  BY <1>1 DEF ComesBack, SameStart
<1>9. QED
  BY <1>1, <1>6, <1>8 DEF Good

\* A tool is registered under an id that nothing has used; then it may be executed.
LEMMA NewToolStep ==
  ASSUME RegistryAssumption, BuilderAssumption, RegistryInv, RunsInv,
         NEW id \in Ids, NewTool(id), NEW t, IsTool(id, t), t.runs = 0,
         NEW ok \in BOOLEAN, Register(id, t, ok),
         \/ UNCHANGED <<running, started>>
         \/ \E for \in Builds \cup {Caller} : Occupy(id, for, 0)
  PROVE  Good
<1>1. started[id] = 0 /\ ~Has(reg, id)
  BY DEF NewTool, UnusedIds
<1>2. /\ RegistryInv' /\ SameStart
      /\ DOMAIN reg'.tools = DOMAIN reg.tools \cup {id} /\ reg'.tools[id] = t
      /\ \A i \in Ids \ {id} : Agree(reg', reg, i)
  BY RegisterEffect
<1>3. started \in [Ids -> Nat] /\ running \in [Slots -> Run \cup {Free}]
  BY DEF RunsInv
<1>4. Cardinality(InExecution(id)) = 0
  <2>1. \A s \in Slots : running[s] # Free => started[running[s].id] > 0
    BY DEF RunsInv
  <2>2. ~(0 > 0)
    OBVIOUS
  <2>3. InExecution(id) = {}
    BY <2>1, <2>2, <1>1 DEF InExecution
  <2>4. QED
    BY <2>3, FS_EmptySet
<1>5. /\ running' \in [Slots -> Run \cup {Free}] /\ started' \in [Ids -> Nat]
      /\ \A s \in Slots : running'[s] # Free => started'[running'[s].id] > 0
      /\ \A i \in Ids : i # id => started'[i] = started[i]
      /\ \A i \in Ids : \E d \in {0, 1} :
           /\ started'[i] = started[i] + d
           /\ Cardinality(InExecution(i)') = Cardinality(InExecution(i)) + d
  <2>1. CASE UNCHANGED <<running, started>>
    <3>1. \A i \in Ids : InExecution(i)' = InExecution(i)
      BY <2>1 DEF InExecution
    <3>2. \A i \in Ids : Cardinality(InExecution(i)) \in Nat /\ started[i] \in Nat
      BY <1>3, CountIsNat
    <3>3. \A n \in Nat : n + 0 = n
      OBVIOUS
    <3>4. \A i \in Ids : /\ started'[i] = started[i] + 0
                         /\ Cardinality(InExecution(i)') = Cardinality(InExecution(i)) + 0
      BY <2>1, <3>1, <3>2, <3>3
    <3>5. QED
      BY <2>1, <3>4, <1>3 DEF RunsInv
  <2>2. CASE \E for \in Builds \cup {Caller} : Occupy(id, for, 0)
    <3>1. PICK for \in Builds \cup {Caller} : Occupy(id, for, 0)
      BY <2>2
    <3>2. QED
      BY <3>1, Begins
  <2>3. QED
    BY <2>1, <2>2
<1>6. RunsAreCountedOnce'
  <2>1. ASSUME store' = "json" \/ faults' = 0, NEW i \in DOMAIN reg'.tools PROVE Count(i)'
    <3>1. i \in Ids
      BY <1>2, MapParts DEF RegistryInv
    <3>2. PICK d \in {0, 1} : /\ started'[i] = started[i] + d
                              /\ Cardinality(InExecution(i)') = Cardinality(InExecution(i)) + d
      BY <3>1, <1>5
    <3> DEFINE n == reg'.tools[i].runs
               c == Cardinality(InExecution(i))
    <3>3. started[i] = n + c /\ n \in Nat /\ c \in Nat
      <4>1. c \in Nat
        BY CountIsNat
      <4>2. CASE i = id
        BY <4>2, <1>1, <1>2, <1>4
      <4>3. CASE i # id
        <5>1. Has(reg, i) /\ reg'.tools[i] = reg.tools[i]
          BY <4>3, <3>1, <2>1, <1>2 DEF Agree, Has
        <5>2. i \in DOMAIN reg.tools /\ reg.tools[i].runs \in Nat
          BY <5>1, MapParts DEF Has, RegistryInv, SomeTool
        <5>3. Count(i)
          BY <5>2, <2>1, <1>2, StillCounting, Counts
        <5>4. QED
          BY <5>1, <5>2, <5>3, <4>1 DEF Count
      <4>4. QED
        BY <4>2, <4>3
    <3>4. Cardinality(InExecution(i)') = c + d
      BY <3>2
    <3> HIDE DEF n, c
    <3>5. started'[i] = n + (c + d)
      BY <3>2, <3>3
    <3>6. QED
      BY <3>4, <3>5 DEF Count, n
  <2>2. QED
    BY <2>1, Recounted
<1>7. RunsInv'
  BY <1>5, <1>6 DEF RunsInv
<1>9. ComesBack
  BY <1>2 DEF ComesBack, SameStart
<1>10. QED
  BY <1>2, <1>7, <1>9 DEF Good

\* The app ends and starts again.
LEMMA StartStep ==
  ASSUME RegistryAssumption, BuilderAssumption, RegistryInv, RunsInv,
         NEW opened \in Stores, NEW cut \in BOOLEAN, EndAndStart(opened, cut)
  PROVE  Good
<1>0. FreeIds(UnusedIds)
  BY DEF FreeIds, UnusedIds, Has
<1>1. /\ Restart(opened, cut, UnusedIds) /\ running' = [s \in Slots |-> Free]
      /\ started' = [i \in Ids |-> IF Has(reg', i) THEN reg'.tools[i].runs ELSE started[i]]
  BY DEF EndAndStart
<1>2. RegistryInv'
  BY <1>0, <1>1, RestartKeepsTheRegistry
<1>3. \A i \in DOMAIN reg'.tools : i \in Ids /\ reg'.tools[i].runs \in Nat
  BY <1>2, MapParts DEF RegistryInv, SomeTool
<1>4. \A s \in Slots : running'[s] = Free
  BY <1>1
<1>5. running' \in [Slots -> Run \cup {Free}] /\ started' \in [Ids -> Nat]
  BY <1>1, <1>3 DEF RunsInv, Has
<1>6. ASSUME NEW i \in DOMAIN reg'.tools PROVE Count(i)'
  <2>1. InExecution(i)' = {}
    BY <1>4 DEF InExecution
  <2>2. Cardinality(InExecution(i)') = 0
    BY <2>1, FS_EmptySet
  <2>3. started'[i] = reg'.tools[i].runs
    BY <1>1, <1>3 DEF Has
  <2>4. \A n \in Nat : n = n + 0
    OBVIOUS
  <2>5. started'[i] = reg'.tools[i].runs + 0
    BY <2>3, <2>4, <1>3
  <2>6. QED
    BY <2>2, <2>5 DEF Count
<1>7. RunsInv'
  BY <1>4, <1>5, <1>6, Recounted DEF RunsInv
<1>8. ComesBack
  <2> DEFINE loaded == IF cut THEN Empty ELSE disk[opened]
             added == DOMAIN reg'.tools \ (DOMAIN reg.tools \cup {BuiltinTool, LegacyTool})
  <2>1. \A t \in TechIds : dirs[t] # None => \E i \in DOMAIN reg'.tools : reg'.tools[i].tech = t
    BY <1>0, <1>1, Restarts
  <2>2. ASSUME ~torn', unsaved = {}, store' = store
        PROVE  /\ \A i \in DOMAIN reg.tools : Has(reg', i) /\ reg'.tools[i] = reg.tools[i]
               /\ \A i \in added : \A j \in DOMAIN reg.tools : reg.tools[j].tech # reg'.tools[i].tech
               /\ \A i, j \in added : reg'.tools[i].tech = reg'.tools[j].tech => i = j
    <3>1. torn' = cut /\ store' = opened
      BY <1>1 DEF Restart
    <3>2. loaded = disk[store] /\ loaded = IF cut THEN Empty ELSE disk[opened]
      BY <2>2, <3>1
    <3> HIDE DEF loaded
    <3>3. /\ IsMap(loaded)
          /\ \A i \in DOMAIN loaded.tools : Has(reg', i) /\ reg'.tools[i] = loaded.tools[i]
      BY <3>2, <1>0, <1>1, Restarts
    <3>4. PICK ids \in SUBSET Ids : Added(loaded, ids)
      BY <3>2, <1>0, <1>1, Restarts
    <3>5. \A i \in Ids : Agree(reg, loaded, i)
      BY <2>2, <3>2 DEF RegistryInv, IsSaved
    <3>6. DOMAIN reg.tools \subseteq Ids /\ DOMAIN loaded.tools \subseteq Ids
      BY <3>3, MapParts DEF RegistryInv
    <3>7. /\ DOMAIN reg.tools = DOMAIN loaded.tools
          /\ \A i \in DOMAIN reg.tools : reg.tools[i] = loaded.tools[i]
      BY <3>5, <3>6 DEF Agree, Has
    <3>8. added \subseteq ids
      BY <3>4, <3>7 DEF Added
    <3>9. ASSUME NEW i \in added, NEW j \in DOMAIN reg.tools PROVE reg.tools[j].tech # reg'.tools[i].tech
      <4>1. reg'.tools[i].tech \in Missing(Migrated(loaded))
        BY <3>4, <3>8 DEF Added
      <4>2. Has(Migrated(loaded), j) /\ Migrated(loaded).tools[j] = reg.tools[j]
        BY <3>3, <3>7, MigratedIsMap
      <4>3. QED
        BY <4>1, <4>2 DEF Missing, Has
    <3> HIDE DEF added
    <3>10. QED
      BY <3>3, <3>4, <3>7, <3>8, <3>9 DEF Added
  <2>3. QED
    BY <2>1, <2>2 DEF ComesBack
<1>9. QED
  BY <1>2, <1>7, <1>8 DEF Good

LEMMA CallStep ==
  ASSUME RegistryAssumption, BuilderAssumption, RegistryInv, RunsInv, NEW name, NEW intent, Call(name, intent)
  PROVE  Good
<1> DEFINE id == GetByName(reg, name)
<1>1. IsMap(reg)
  BY DEF RegistryInv
<1>2. id # None
  BY DEF Call
<1>3. Has(reg, id)
  BY <1>1, <1>2, FoundByName
<1>4. CASE Denied(id)
  <2>1. /\ started' = [started EXCEPT ![id] = @ + 1] /\ UNCHANGED running
        /\ \E ok, okAgain \in BOOLEAN : RecordRun(id, FALSE, ok, okAgain)
    BY <1>4 DEF Call
  <2> HIDE DEF id
  <2>2. QED
    BY <2>1, <1>2, <1>3, DeniedStep
<1>5. CASE ~Denied(id)
  <2>1. UNCHANGED <<reg, disk, store, unsaved, dirs, faults, boots>>
    BY <1>5 DEF Call, regVars
  <2>2. \/ \E b \in Builds : Occupy(id, Caller, b)
        \/ Occupy(id, Caller, 0)
    BY <1>5 DEF Call
  <2> HIDE DEF id
  <2>3. Caller \in Builds \cup {Caller} /\ 0 \in Builds \cup {0}
    OBVIOUS
  <2>4. QED
    BY <2>1, <2>2, <2>3, <1>2, <1>3, BeginStep
<1>6. QED
  BY <1>4, <1>5

LEMMA RunEndsStep ==
  ASSUME RegistryAssumption, BuilderAssumption, RegistryInv, RunsInv, NEW s \in Slots, RunEnds(s)
  PROVE  Good
<1>1. PICK good \in BOOLEAN, ok \in BOOLEAN, okAgain \in BOOLEAN :
        EndCall(s, good, ok, okAgain) \/ EndBuildRun(s, good, ok, okAgain)
  BY DEF RunEnds
<1>2. /\ running[s] # Free /\ running' = [running EXCEPT ![s] = Free]
      /\ RecordRun(running[s].id, good, ok, okAgain) /\ UNCHANGED started
  BY <1>1 DEF EndCall, EndBuildRun, MayEnd
<1>3. QED
  BY <1>2, EndStep

LEMMA BuildStepIsGood ==
  ASSUME RegistryAssumption, BuilderAssumption, RegistryInv, RunsInv, QueueInv,
         NEW b \in Builds, BuildStep(b)
  PROVE  Good
<1>1. builds[b].intent \in Intents \cup {None}
  BY DEF QueueInv, Build
<1>2. /\ AnySource \in Sources /\ WidgetName \in Names
      /\ b \in Builds \cup {Caller} /\ 0 \in Builds \cup {0}
  BY DEF RegistryAssumption, BuilderAssumption
<1>3. ASSUME NEW id \in Ids, Reuse(b, id) PROVE Good
  <2>1. /\ UNCHANGED <<reg, disk, store, unsaved, dirs, faults, boots>>
        /\ Has(reg, id) /\ Occupy(id, b, 0)
    BY <1>3 DEF Reuse, regVars, Capable, Has
  <2>2. QED
    BY <2>1, <1>2, BeginStep
<1>4. ASSUME NEW id \in Ids, NEW ok \in BOOLEAN, Forged(b, id, ok) PROVE Good
  <2>1. PICK f \in TechIds : dirs[f] # None /\ Register(id, FromManifest(f), ok)
    BY <1>4 DEF Forged
  <2> DEFINE t == FromManifest(f)
  <2>2. NewTool(id) /\ UNCHANGED <<running, started>>
    BY <1>4 DEF Forged
  <2>3. id # BuiltinTool
    BY <2>2 DEF NewTool, UnusedIds
  <2>4. IsTool(id, t) /\ t.runs = 0
    BY <2>1, <2>3, ManifestIsTool
  <2> HIDE DEF t
  <2>5. Register(id, t, ok)
    BY <2>1 DEF t
  <2>6. QED
    BY <2>2, <2>4, <2>5, NewToolStep
<1>5. ASSUME NEW id \in Ids, NEW ok \in BOOLEAN, Deploy(b, id, ok) PROVE Good
  <2> DEFINE t == Widget(b)
  <2>1. /\ NewTool(id) /\ Register(id, t, ok)
        /\ UNCHANGED <<running, started>> \/ Occupy(id, b, 0)
    BY <1>5 DEF Deploy
  <2>2. id # BuiltinTool
    BY <2>1 DEF NewTool, UnusedIds
  <2>3. IsTool(id, t) /\ t.runs = 0
    BY <2>2, <1>1, <1>2, FreshIsTool DEF Widget
  <2> HIDE DEF t
  <2>4. QED
    BY <2>1, <2>3, <1>2, NewToolStep
<1>6. ASSUME Synthesize(b) \/ ForgeFails(b) \/ (\E good \in BOOLEAN : ForgeReturns(b, good))
             \/ Generated(b) \/ ApprovalTimeout(b) \/ ValidationFails(b)
      PROVE  Good
  <2>1. UNCHANGED <<reg, disk, store, unsaved, dirs, faults, boots, running, started>>
    BY <1>6 DEF Synthesize, ForgeFails, ForgeReturns, Generated, ApprovalTimeout, ValidationFails, regVars
  <2>2. QED
    BY <2>1, OnlyBuildsMove
<1>7. QED
  BY <1>3, <1>4, <1>5, <1>6 DEF BuildStep

LEMMA EveryStepIsGood ==
  ASSUME RegistryAssumption, BuilderAssumption, RegistryInv, RunsInv, QueueInv, [Next]_vars
  PROVE  Good
<1>1. CASE UNCHANGED vars
  BY <1>1, OnlyBuildsMove DEF vars, regVars, buildVars
<1>2. ASSUME NEW b \in Builds, NEW intent \in Intents, NEW gated \in BOOLEAN,
             EnsureCapability(b, intent, gated)
      PROVE  Good
  BY <1>2, OnlyBuildsMove DEF EnsureCapability, regVars
<1>3. ASSUME NEW intent \in Intents \cup {None}, HandleToolCall(intent) \/ RunTool(intent) PROVE Good
  BY <1>3, CallStep DEF HandleToolCall, RunTool
<1>4. ASSUME NEW b \in Builds, BuildStep(b) PROVE Good
  BY <1>4, BuildStepIsGood
<1>4a. ASSUME NEW b \in Builds, NEW t \in TechIds, NEW n \in Names, WritesDesign(b, t, n) PROVE Good
  <2>1. /\ UNCHANGED <<reg, disk, store, unsaved, faults, boots, running, started>>
        /\ dirs' = [dirs EXCEPT ![t] = [name |-> n, intent |-> builds[b].intent]]
    BY <1>4a DEF WritesDesign, buildVars
  <2>2. [name |-> n, intent |-> builds[b].intent] \in Design
    BY DEF Design, QueueInv, Build
  <2>3. dirs' \in [TechIds -> Design \cup {None}]
    BY <2>1, <2>2 DEF RegistryInv
  <2>4. RegistryInv'
    BY <2>1, <2>3 DEF RegistryInv, IsSaved
  <2>5. SameStart /\ RunsKept
    BY <2>1 DEF SameStart, RunsKept, Has, RegistryInv
  <2>6. QED
    BY <2>1, <2>4, <2>5, Unmoved
<1>5. ASSUME NEW s \in Slots, RunEnds(s) PROVE Good
  BY <1>5, RunEndsStep
<1>6. ASSUME Click \/ \E approved \in BOOLEAN : ClickArrives(approved) PROVE Good
  BY <1>6, OnlyBuildsMove DEF Click, ClickArrives, regVars
<1>7. ASSUME NEW id \in Ids, NEW ok \in BOOLEAN, Edit(id, ok) PROVE Good
  <2>1. EditOf(id, ok) /\ UNCHANGED <<running, started>>
    BY <1>7 DEF Edit, EditOf
  <2>2. RegistryInv' /\ SameStart /\ RunsKept
    BY <2>1, EditEffect
  <2>3. QED
    BY <2>1, <2>2, Unmoved
<1>8. ASSUME NewSession PROVE Good
  BY <1>8, OnlyBuildsMove DEF NewSession, SessionSetup, buildVars
<1>9. ASSUME NEW ok \in BOOLEAN, SaveAgain(ok) PROVE Good
  <2>1. PICK id \in unsaved : Save(reg, id, ok)
    BY <1>9 DEF SaveAgain, Close
  <2>2. IsMap(reg) /\ id \in Ids /\ \A i \in Ids \ {id} : Agree(reg, reg, i)
    BY <2>1 DEF RegistryInv, Agree
  <2>3. RegistryInv' /\ reg' = reg /\ SameStart
    BY <2>1, <2>2, SavePasses
  <2>4. RunsKept
    BY <2>3 DEF RunsKept, Has
  <2>5. UNCHANGED <<running, started>>
    BY <1>9 DEF SaveAgain, buildVars
  <2>6. QED
    BY <2>3, <2>4, <2>5, Unmoved
<1>10. ASSUME NEW opened \in Stores, NEW cut \in BOOLEAN, EndAndStart(opened, cut) PROVE Good
  BY <1>10, StartStep
<1>11. QED
  BY <1>1, <1>2, <1>3, <1>4, <1>4a, <1>5, <1>6, <1>7, <1>8, <1>9, <1>10 DEF Next

-----------------------------------------------------------------------------
(* The declarations                                                        *)

\* The declarations are rebuilt,
LEMMA Rebuilt == ASSUME Rebuild(reg') PROVE DeclarationsFollow'
BY DEF Rebuild, DeclarationsFollow

\* or no tool is added, removed, renamed or switched,
LEMMA StillDeclared ==
  ASSUME DeclarationsFollow, UNCHANGED <<declared, untold>>, DOMAIN reg'.tools = DOMAIN reg.tools,
         \A i \in DOMAIN reg.tools : /\ reg'.tools[i].enabled = reg.tools[i].enabled
                                     /\ reg'.tools[i].name = reg.tools[i].name
  PROVE  DeclarationsFollow'
<1>1. Declarable(reg') = Declarable(reg)
  BY DEF Declarable
<1>2. QED
  BY <1>1 DEF DeclarationsFollow

\* or one is, and its name is noted.
LEMMA Quietly ==
  ASSUME RegistryAssumption, RegistryInv, DeclarationsFollow, NEW id \in Ids, NEW r, IsMap(r), NEW name,
         \A i \in Ids \ {id} : Agree(r, reg, i),
         Has(reg, id) => reg.tools[id].name = name, Has(r, id) => r.tools[id].name = name,
         reg' = r, declared' = declared, untold' = untold \cup {name}
  PROVE  DeclarationsFollow'
<1>1. DOMAIN reg.tools \subseteq Ids /\ DOMAIN r.tools \subseteq Ids
  BY MapParts DEF RegistryInv
<1>2. ASSUME NEW n \in Names \ untold', n \in Declarable(reg') PROVE n \in declared'
  <2>1. PICK i \in DOMAIN r.tools : r.tools[i].enabled /\ r.tools[i].name = n
    BY <1>2 DEF Declarable
  <2>2. i # id /\ n # name
    BY <1>2, <2>1 DEF Has
  <2>3. i \in DOMAIN reg.tools /\ reg.tools[i] = r.tools[i]
    BY <2>1, <2>2, <1>1 DEF Agree, Has
  <2>4. n \in Declarable(reg)
    BY <2>1, <2>3 DEF Declarable
  <2>5. QED
    BY <2>4, <1>2 DEF DeclarationsFollow
<1>3. ASSUME NEW n \in Names \ untold', n \in declared' PROVE n \in Declarable(reg')
  <2>1. n \in Declarable(reg)
    BY <1>3 DEF DeclarationsFollow
  <2>2. PICK i \in DOMAIN reg.tools : reg.tools[i].enabled /\ reg.tools[i].name = n
    BY <2>1 DEF Declarable
  <2>3. i # id /\ n # name
    BY <1>3, <2>2 DEF Has
  <2>4. i \in DOMAIN r.tools /\ r.tools[i] = reg.tools[i]
    BY <2>2, <2>3, <1>1 DEF Agree, Has
  <2>5. QED
    BY <2>2, <2>4 DEF Declarable
<1>4. QED
  BY <1>2, <1>3 DEF DeclarationsFollow

LEMMA Saved == ASSUME NEW r, NEW id, NEW ok, Save(r, id, ok) PROVE reg' = r
BY DEF Save, SaveAfter

\* A tool is put where its name was, or where nothing was, and announced if it was written.
LEMMA PutTold ==
  ASSUME RegistryAssumption, RegistryInv, DeclarationsFollow, NEW id \in Ids, NEW t, IsTool(id, t),
         Has(reg, id) => t.name = reg.tools[id].name, NEW ok \in BOOLEAN,
         \/ SaveAndTell(Put(reg, id, t), id, ok)
         \/ SaveQuietly(Put(reg, id, t), id, t.name, ok)
  PROVE  DeclarationsFollow'
<1> DEFINE r == Put(reg, id, t)
<1>1. /\ IsMap(r) /\ r.tools[id] = t /\ \A i \in Ids \ {id} : Agree(r, reg, i)
  BY PutMap DEF RegistryInv
<1> HIDE DEF r
<1>2. CASE SaveAndTell(r, id, ok) /\ ~Throws(ok)
  <2>1. reg' = r /\ Rebuild(r)
    BY <1>2, Saved DEF SaveAndTell
  <2>2. QED
    BY <2>1, Rebuilt
<1>3. CASE SaveQuietly(r, id, t.name, ok)
  <2>1. reg' = r /\ declared' = declared /\ untold' = untold \cup {t.name}
    BY <1>3, Saved DEF SaveQuietly
  <2>2. QED
    BY <1>1, <2>1, Quietly
<1>4. SaveAndTell(r, id, ok) /\ Throws(ok) => SaveQuietly(r, id, t.name, ok)
  BY <1>1 DEF SaveAndTell
<1>5. QED
  BY <1>2, <1>3, <1>4 DEF r

LEMMA EditTold ==
  ASSUME RegistryAssumption, RegistryInv, DeclarationsFollow, NEW id \in Ids, NEW ok \in BOOLEAN,
         EditOf(id, ok)
  PROVE  DeclarationsFollow'
<1>1. IsMap(reg)
  BY DEF RegistryInv
<1>2. Has(reg, id)
  BY DEF EditOf, PublishVersion, Rollback, SetEnabled, Remove
<1> DEFINE old == reg.tools[id]
<1>3. IsTool(id, old)
  BY <1>1, <1>2, ToolOfMap
<1>4. ASSUME NEW src \in Sources, PublishVersion(id, src, ok) PROVE DeclarationsFollow'
  <2>1. SaveAndTell(Put(reg, id, Published(old, src)), id, ok)
    BY <1>4 DEF PublishVersion
  <2>2. IsTool(id, Published(old, src)) /\ Published(old, src).name = old.name
    BY <1>3, PublishedIsTool
  <2>3. QED
    BY <2>1, <2>2, PutTold
<1>5. CASE Rollback(id, ok)
  <2>1. SaveAndTell(Put(reg, id, RolledBack(old)), id, ok) /\ old.versions # << >>
    BY <1>5 DEF Rollback
  <2>2. IsTool(id, RolledBack(old)) /\ RolledBack(old).name = old.name
    BY <1>3, <2>1, RolledBackIsTool
  <2>3. QED
    BY <2>1, <2>2, PutTold
<1>6. ASSUME NEW enabled \in BOOLEAN, SetEnabled(id, enabled, ok) PROVE DeclarationsFollow'
  <2>1. IsTool(id, Toggled(old, enabled)) /\ Toggled(old, enabled).name = old.name
    BY <1>3, ToggledIsTool
  <2>2. SaveQuietly(Put(reg, id, Toggled(old, enabled)), id, Toggled(old, enabled).name, ok)
    BY <1>6, <2>1 DEF SetEnabled
  <2>3. QED
    BY <2>1, <2>2, PutTold
<1>7. CASE Remove(id, ok)
  <2> DEFINE r == Drop(reg, id)
  <2>1. IsMap(r) /\ ~Has(r, id) /\ \A i \in Ids \ {id} : Agree(r, reg, i)
    BY <1>1, DropMap DEF Has
  <2>2. SaveQuietly(r, id, old.name, ok)
    BY <1>7 DEF Remove
  <2> HIDE DEF r
  <2>3. reg' = r /\ declared' = declared /\ untold' = untold \cup {old.name}
    BY <2>2, Saved DEF SaveQuietly
  <2>4. QED
    BY <2>1, <2>3, Quietly
<1>8. QED
  BY <1>4, <1>5, <1>6, <1>7 DEF EditOf

\* An execution is recorded without a word.
LEMMA RecordTold ==
  ASSUME RegistryAssumption, RegistryInv, DeclarationsFollow, NEW id, NEW good \in BOOLEAN,
         NEW ok \in BOOLEAN, NEW okAgain \in BOOLEAN, RecordRun(id, good, ok, okAgain),
         UNCHANGED <<declared, untold>>
  PROVE  DeclarationsFollow'
<1>1. Times(id, 1) \/ Times(id, 2)
  BY RecordEffect
<1>2. QED
  BY <1>1, StillDeclared DEF Times

LEMMA NewToolTold ==
  ASSUME RegistryAssumption, RegistryInv, DeclarationsFollow, NEW id \in Ids, NewTool(id),
         NEW t, IsTool(id, t), NEW ok \in BOOLEAN, Register(id, t, ok)
  PROVE  DeclarationsFollow'
<1>1. ~Has(reg, id)
  BY DEF NewTool, UnusedIds
<1>2. QED
  BY <1>1, PutTold DEF Register

LEMMA BuildStepTold ==
  ASSUME RegistryAssumption, BuilderAssumption, RegistryInv, QueueInv, DeclarationsFollow,
         NEW b \in Builds, BuildStep(b)
  PROVE  DeclarationsFollow'
<1>1. ASSUME NEW id \in Ids, NEW ok \in BOOLEAN, Forged(b, id, ok) PROVE DeclarationsFollow'
  <2>1. PICK f \in TechIds : dirs[f] # None /\ Register(id, FromManifest(f), ok)
    BY <1>1 DEF Forged
  <2>2. NewTool(id) /\ id # BuiltinTool
    BY <1>1 DEF Forged, NewTool, UnusedIds
  <2>3. IsTool(id, FromManifest(f))
    BY <2>1, <2>2, ManifestIsTool
  <2>4. QED
    BY <2>1, <2>2, <2>3, NewToolTold
<1>2. ASSUME NEW id \in Ids, NEW ok \in BOOLEAN, Deploy(b, id, ok) PROVE DeclarationsFollow'
  <2>1. NewTool(id) /\ id # BuiltinTool /\ Register(id, Widget(b), ok)
    BY <1>2 DEF Deploy, NewTool, UnusedIds
  <2>2. builds[b].intent \in Intents \cup {None} /\ AnySource \in Sources /\ WidgetName \in Names
    BY DEF QueueInv, Build, RegistryAssumption, BuilderAssumption
  <2>3. IsTool(id, Widget(b))
    BY <2>1, <2>2, FreshIsTool DEF Widget
  <2>4. QED
    BY <2>1, <2>3, NewToolTold
<1>3. ASSUME NEW good \in BOOLEAN, ForgeReturns(b, good) PROVE DeclarationsFollow'
  BY <1>3, Rebuilt DEF ForgeReturns
<1>4. ASSUME \/ \E id \in Ids : Reuse(b, id)
             \/ Synthesize(b) \/ ForgeFails(b) \/ Generated(b) \/ ApprovalTimeout(b) \/ ValidationFails(b)
      PROVE  DeclarationsFollow'
  <2>1. UNCHANGED <<reg, declared, untold>>
    BY <1>4 DEF Reuse, Synthesize, ForgeFails, Generated, ApprovalTimeout, ValidationFails, regVars, toldVars
  <2>2. QED
    BY <2>1, StillDeclared
<1>5. QED
  BY <1>1, <1>2, <1>3, <1>4 DEF BuildStep

LEMMA EveryStepKeepsDeclarations ==
  ASSUME RegistryAssumption, BuilderAssumption, RegistryInv, QueueInv, DeclarationsFollow, [Next]_vars
  PROVE  DeclarationsFollow'
<1>1. ASSUME NEW name, NEW intent, Call(name, intent) PROVE DeclarationsFollow'
  <2> DEFINE id == GetByName(reg, name)
  <2>1. CASE UNCHANGED regVars
    BY <2>1, StillDeclared DEF regVars, toldVars
  <2>2. CASE Denied(id)
    <3>1. /\ UNCHANGED <<declared, untold>>
          /\ \E ok, okAgain \in BOOLEAN : RecordRun(id, FALSE, ok, okAgain)
      BY <1>1, <2>2 DEF Call, toldVars
    <3> HIDE DEF id
    <3>2. QED
      BY <3>1, RecordTold
  <2>3. QED
    BY <1>1, <2>1, <2>2 DEF Call
<1>2. ASSUME NEW s \in Slots, RunEnds(s) PROVE DeclarationsFollow'
  <2>1. PICK good \in BOOLEAN, ok \in BOOLEAN, okAgain \in BOOLEAN :
          EndCall(s, good, ok, okAgain) \/ EndBuildRun(s, good, ok, okAgain)
    BY <1>2 DEF RunEnds
  <2>2. /\ RecordRun(running[s].id, good, ok, okAgain)
        /\ Rebuild(reg') \/ UNCHANGED <<declared, untold>>
    BY <2>1 DEF EndCall, EndBuildRun, toldVars
  <2>3. QED
    BY <2>2, RecordTold, Rebuilt
<1>3. ASSUME NEW id \in Ids, NEW ok \in BOOLEAN, Edit(id, ok) PROVE DeclarationsFollow'
  BY <1>3, EditTold DEF Edit, EditOf
<1>4. ASSUME NEW opened \in Stores, NEW cut \in BOOLEAN, EndAndStart(opened, cut)
      PROVE  DeclarationsFollow'
  BY <1>4, Rebuilt DEF EndAndStart, Restart
<1>5. ASSUME NEW ok \in BOOLEAN, SaveAgain(ok) PROVE DeclarationsFollow'
  <2>1. reg' = reg /\ UNCHANGED <<declared, untold>>
    BY <1>5, Saved DEF SaveAgain, Close, toldVars
  <2>2. QED
    BY <2>1, StillDeclared
<1>6. ASSUME \/ UNCHANGED vars
             \/ \E b \in Builds, intent \in Intents, gated \in BOOLEAN : EnsureCapability(b, intent, gated)
             \/ Click \/ \E approved \in BOOLEAN : ClickArrives(approved)
             \/ NewSession
             \/ \E b \in Builds, t \in TechIds, n \in Names : WritesDesign(b, t, n)
      PROVE  DeclarationsFollow'
  <2>1. UNCHANGED <<reg, declared, untold>>
    BY <1>6 DEF vars, EnsureCapability, Click, ClickArrives, NewSession, SessionSetup, WritesDesign,
                regVars, toldVars
  <2>2. QED
    BY <2>1, StillDeclared
<1>7. QED
  BY <1>1, <1>2, <1>3, <1>4, <1>5, <1>6, BuildStepTold DEF Next, HandleToolCall, RunTool

-----------------------------------------------------------------------------
(* The queue of builds                                                     *)

BuildTypes ==
  /\ builds \in [Builds -> Build]
  /\ approval \in Builds \cup {None} /\ click \in Builds \cup {None}

LEMMA QueueTypes == ASSUME QueueInv PROVE BuildTypes
BY DEF QueueInv, BuildTypes

\* One build moves, and nothing is pending for it.
LEMMA MoveKeeps ==
  ASSUME BuilderAssumption, QueueInv, NEW b \in Builds, NEW new \in Build,
         builds' = [builds EXCEPT ![b] = new], UNCHANGED <<approval, click>>,
         new.gated = builds[b].gated, new.consent = builds[b].consent,
         new.expired = builds[b].expired,
         builds[b].pc # "approving",
         new.pc \in Settled \/ \A c \in 1 .. b - 1 : builds[c].pc \in Settled,
         builds[b].pc \in Settled => new.pc \in Settled,
         builds[b].pc \in Executes => new.pc \in Executes,
         new.consent # 0 => new.pc \in {"validating", "executing"} \cup Settled,
         new.gated /\ new.pc \in {"validating", "executing"} => new.consent # 0,
         \A s \in Slots : running'[s] # Free /\ running'[s].for # Caller =>
           \/ running'[s] = running[s]
           \/ running'[s].for = b /\ new.pc \in Executes
  PROVE  QueueInv'
<1>1. /\ builds \in [Builds -> Build]
      /\ approval \in Builds \cup {None} /\ click \in Builds \cup {None}
  BY QueueTypes DEF BuildTypes
<1>2. /\ builds' \in [Builds -> Build] /\ builds'[b] = new
      /\ \A c \in Builds \ {b} : builds'[c] = builds[c]
  BY <1>1
<1>3. ASSUME NEW a \in Builds, NEW c \in Builds, IsActive(a)', c < a PROVE builds'[c].pc \in Settled
  <2>0. Builds = 1 .. MaxBuilds /\ MaxBuilds \in Nat
    BY DEF Builds, BuilderAssumption
  <2>1. CASE a = b
    <3>1. new.pc \notin Settled
      BY <2>1, <1>2, <1>3 DEF IsActive
    <3>2. c \in 1 .. b - 1 /\ c # b
      BY <2>0, <2>1, <1>3
    <3>3. QED
      BY <3>1, <3>2, <1>2
  <2>2. CASE a # b
    <3>1. IsActive(a)
      BY <2>2, <1>2, <1>3 DEF IsActive
    <3>2. builds[c].pc \in Settled
      BY <3>1, <1>3 DEF QueueInv
    <3>3. QED
      BY <3>2, <1>2
  <2>3. QED
    BY <2>1, <2>2
<1>4. ASSUME NEW s \in Slots, running'[s] # Free, running'[s].for # Caller
      PROVE  running'[s].for \in Builds /\ builds'[running'[s].for].pc \in Executes
  <2>1. CASE running'[s] = running[s]
    <3>1. running[s].for \in Builds /\ builds[running[s].for].pc \in Executes
      BY <2>1, <1>4 DEF QueueInv
    <3>2. CASE running[s].for = b
      BY <2>1, <3>1, <3>2, <1>2 DEF Executes
    <3>3. CASE running[s].for # b
      <4>1. builds'[running[s].for] = builds[running[s].for]
        BY <3>1, <3>3, <1>2
      <4>2. QED
        BY <4>1, <2>1, <3>1
    <3>4. QED
      BY <3>2, <3>3
  <2>2. CASE running'[s].for = b /\ new.pc \in Executes
    BY <2>2, <1>2 DEF Executes
  <2>3. QED
    BY <2>1, <2>2, <1>4
<1>5. approval # None => builds'[approval].pc = "approving"
  <2>1. HAVE approval # None
  <2>2. builds[approval].pc = "approving" /\ approval \in Builds
    BY <2>1, <1>1 DEF QueueInv
  <2>3. approval # b
    BY <2>2
  <2>4. QED
    BY <2>2, <2>3, <1>2
<1>6. ASSUME NEW c \in Builds
      PROVE  /\ builds'[c].expired => builds'[c].pc \in Settled
             /\ builds'[c].consent # 0 => builds'[c].pc \in {"validating", "executing"} \cup Settled
             /\ builds'[c].expired = builds[c].expired /\ builds'[c].consent = builds[c].consent
             /\ builds'[c].gated /\ builds'[c].pc \in {"validating", "executing"} => builds'[c].consent # 0
  <2>1. CASE c = b
    <3>1. builds[b].expired => builds[b].pc \in Settled
      BY DEF QueueInv
    <3>2. QED
      BY <2>1, <3>1, <1>2
  <2>2. CASE c # b
    BY <2>2, <1>2 DEF QueueInv, ConsentIsMeant
  <2>3. QED
    BY <2>1, <2>2
<1>7. click # None => builds'[click].expired \/ approval = click
  BY <1>1, <1>6 DEF QueueInv
<1>8. ConsentIsMeant'
  <2>1. ASSUME NEW c \in Builds, builds'[c].consent \notin {0, c}
        PROVE  builds'[builds'[c].consent].expired
    <3>1. builds[c].consent \notin {0, c} /\ builds'[c].consent = builds[c].consent
      BY <2>1, <1>6
    <3>2. builds[builds[c].consent].expired
      BY <3>1 DEF QueueInv, ConsentIsMeant
    <3>3. builds[c].consent \in Builds
      BY <3>1, <1>1 DEF Build
    <3>4. QED
      BY <3>1, <3>2, <3>3, <1>6
  <2>2. QED
    BY <2>1, <1>6 DEF ConsentIsMeant
<1>9. QED
  BY <1>1, <1>2, <1>3, <1>4, <1>5, <1>6, <1>7, <1>8 DEF QueueInv

\* A build is asked for, perhaps by an execution of generate_tool that nobody builds for.
LEMMA AskKeeps ==
  ASSUME BuilderAssumption, QueueInv, NEW b \in Builds, builds[b].pc = "none",
         NEW intent \in Intents, NEW gated \in BOOLEAN,
         builds' = Asked(b, intent, gated), UNCHANGED <<approval, click>>,
         \A s \in Slots : running'[s] = running[s] \/ running'[s].for = Caller
  PROVE  QueueInv'
<1> DEFINE new == [NoBuild EXCEPT !.pc = "queued", !.intent = intent, !.gated = gated]
<1>1. /\ builds \in [Builds -> Build]
      /\ approval \in Builds \cup {None} /\ click \in Builds \cup {None}
  BY QueueTypes DEF BuildTypes
<1>2. NoBuild \in Build /\ NoBuild.consent = 0 /\ NoBuild.expired = FALSE
  BY DEF NoBuild, Build, Pcs
<1>3. new \in Build /\ new.pc = "queued" /\ new.consent = 0 /\ new.expired = FALSE
  BY <1>2 DEF Build, Pcs
<1> HIDE DEF new
<1>4. builds' = [builds EXCEPT ![b] = new]
  BY DEF Asked, new
<1>5. /\ builds' \in [Builds -> Build] /\ builds'[b] = new
      /\ \A c \in Builds \ {b} : builds'[c] = builds[c]
  BY <1>1, <1>3, <1>4
<1>6. \A c \in Builds : builds[c].pc \in Settled \/ IsActive(c) => c # b
  BY DEF IsActive, Settled
<1>7. ASSUME NEW a \in Builds, NEW c \in Builds, IsActive(a)', c < a PROVE builds'[c].pc \in Settled
  <2>1. a # b
    BY <1>3, <1>5, <1>7 DEF IsActive
  <2>2. IsActive(a)
    BY <2>1, <1>5, <1>7 DEF IsActive
  <2>3. builds[c].pc \in Settled
    BY <2>2, <1>7 DEF QueueInv
  <2>4. QED
    BY <2>3, <1>5, <1>6
<1>8. ASSUME NEW s \in Slots, running'[s] # Free, running'[s].for # Caller
      PROVE  running'[s].for \in Builds /\ builds'[running'[s].for].pc \in Executes
  <2>1. running'[s] = running[s]
    BY <1>8
  <2>2. running[s].for \in Builds /\ builds[running[s].for].pc \in Executes
    BY <2>1, <1>8 DEF QueueInv
  <2>3. running[s].for # b
    BY <2>2 DEF Executes, Settled
  <2>4. builds'[running[s].for] = builds[running[s].for]
    BY <2>2, <2>3, <1>5
  <2>5. QED
    BY <2>1, <2>2, <2>4
<1>9. approval # None => builds'[approval].pc = "approving"
  <2>1. HAVE approval # None
  <2>2. builds[approval].pc = "approving" /\ approval \in Builds
    BY <2>1, <1>1 DEF QueueInv
  <2>3. QED
    BY <2>2, <1>5
<1>10. ~builds[b].expired
  BY DEF QueueInv, Settled
<1>11. ASSUME NEW c \in Builds
       PROVE  /\ builds'[c].expired => builds'[c].pc \in Settled
              /\ builds'[c].consent # 0 => builds'[c].pc \in {"validating", "executing"} \cup Settled
              /\ builds[c].expired => builds'[c].expired
              /\ builds'[c].consent # 0 => builds'[c].consent = builds[c].consent
              /\ builds'[c].gated /\ builds'[c].pc \in {"validating", "executing"} => builds'[c].consent # 0
  <2>1. CASE c = b
    BY <2>1, <1>3, <1>5, <1>10
  <2>2. CASE c # b
    BY <2>2, <1>5 DEF QueueInv, ConsentIsMeant
  <2>3. QED
    BY <2>1, <2>2
<1>12. click # None => builds'[click].expired \/ approval = click
  BY <1>1, <1>11 DEF QueueInv
<1>13. ConsentIsMeant'
  <2>1. ASSUME NEW c \in Builds, builds'[c].consent \notin {0, c}
        PROVE  builds'[builds'[c].consent].expired
    <3>1. builds[c].consent \notin {0, c} /\ builds'[c].consent = builds[c].consent
      BY <2>1, <1>11
    <3>2. builds[builds[c].consent].expired
      BY <3>1 DEF QueueInv, ConsentIsMeant
    <3>3. builds[c].consent \in Builds
      BY <3>1, <1>1 DEF Build
    <3>4. QED
      BY <3>1, <3>2, <3>3, <1>11
  <2>2. QED
    BY <2>1, <1>11 DEF ConsentIsMeant
<1>14. QED
  BY <1>1, <1>5, <1>7, <1>8, <1>9, <1>11, <1>12, <1>13 DEF QueueInv

\* One build at a time is under way.
LEMMA OneActive ==
  ASSUME QueueInv, BuilderAssumption, NEW b \in Builds, NEW c \in Builds, IsActive(b), IsActive(c)
  PROVE  b = c
<1>1. b \in Int /\ c \in Int
  BY DEF Builds, BuilderAssumption
<1>2. ~(c < b) /\ ~(b < c)
  BY DEF QueueInv, IsActive
<1>3. QED
  BY <1>1, <1>2

\* A gated build asks: nothing else is pending.
LEMMA AskApproval ==
  ASSUME BuilderAssumption, QueueInv, NEW b \in Builds, builds[b].pc = "generating",
         builds' = Move(b, "approving"), approval' = b, UNCHANGED <<click, running>>
  PROVE  QueueInv'
<1> DEFINE new == [builds[b] EXCEPT !.pc = "approving"]
<1>1. /\ builds \in [Builds -> Build]
      /\ approval \in Builds \cup {None} /\ click \in Builds \cup {None}
  BY QueueTypes DEF BuildTypes
<1>2. /\ new \in Build /\ new.pc = "approving" /\ new.gated = builds[b].gated
      /\ new.consent = builds[b].consent /\ new.expired = builds[b].expired
  BY <1>1 DEF Build, Pcs
<1>3. builds' = [builds EXCEPT ![b] = new]
  BY <1>1 DEF Move
<1> HIDE DEF new
<1>4. /\ builds' \in [Builds -> Build] /\ builds'[b] = new
      /\ \A c \in Builds \ {b} : builds'[c] = builds[c]
  BY <1>1, <1>2, <1>3
<1>5. IsActive(b) /\ ~builds[b].expired /\ builds[b].consent = 0
  BY DEF QueueInv, IsActive, Settled
<1>6. approval = None
  <2>1. SUFFICES ASSUME approval # None PROVE FALSE
    OBVIOUS
  <2>2. approval \in Builds /\ builds[approval].pc = "approving"
    BY <2>1, <1>1 DEF QueueInv
  <2>3. IsActive(approval)
    BY <2>2 DEF IsActive, Settled
  <2>4. approval = b
    BY <2>2, <2>3, <1>5, OneActive
  <2>5. QED
    BY <2>2, <2>4
<1>7. \A c \in Builds : IsActive(c)' <=> IsActive(c)
  BY <1>2, <1>4, <1>5 DEF IsActive, Settled
<1>8. \A c \in Builds : builds[c].pc \in Settled => builds'[c] = builds[c]
  BY <1>4 DEF Settled
<1>9. \A a, c \in Builds : IsActive(a)' /\ c < a => builds'[c].pc \in Settled
  BY <1>7, <1>8 DEF QueueInv
<1>10. ASSUME NEW s \in Slots, running'[s] # Free, running'[s].for # Caller
       PROVE  running'[s].for \in Builds /\ builds'[running'[s].for].pc \in Executes
  <2>1. running[s].for \in Builds /\ builds[running[s].for].pc \in Executes
    BY <1>10 DEF QueueInv
  <2>2. running[s].for # b
    BY <2>1 DEF Executes, Settled
  <2>3. builds'[running[s].for] = builds[running[s].for]
    BY <2>1, <2>2, <1>4
  <2>4. QED
    BY <2>1, <2>3
<1>11. \A c \in Builds :
         /\ builds'[c].expired => builds'[c].pc \in Settled
         /\ builds'[c].consent # 0 => builds'[c].pc \in {"validating", "executing"} \cup Settled
         /\ builds'[c].expired = builds[c].expired /\ builds'[c].consent = builds[c].consent
         /\ builds'[c].gated /\ builds'[c].pc \in {"validating", "executing"} => builds'[c].consent # 0
  <2>1. TAKE c \in Builds
  <2>2. CASE c = b
    BY <2>2, <1>2, <1>4, <1>5
  <2>3. CASE c # b
    BY <2>3, <1>4 DEF QueueInv, ConsentIsMeant
  <2>4. QED
    BY <2>2, <2>3
<1>12. click # None => builds'[click].expired \/ approval' = click
  BY <1>1, <1>6, <1>11 DEF QueueInv
<1>13. ConsentIsMeant'
  <2>1. ASSUME NEW c \in Builds, builds'[c].consent \notin {0, c}
        PROVE  builds'[builds'[c].consent].expired
    <3>1. builds[c].consent \notin {0, c} /\ builds'[c].consent = builds[c].consent
      BY <2>1, <1>11
    <3>2. builds[builds[c].consent].expired
      BY <3>1 DEF QueueInv, ConsentIsMeant
    <3>3. builds[c].consent \in Builds
      BY <3>1, <1>1 DEF Build
    <3>4. QED
      BY <3>1, <3>2, <3>3, <1>11
  <2>2. QED
    BY <2>1, <1>11 DEF ConsentIsMeant
<1>14. QED
  BY <1>1, <1>2, <1>4, <1>9, <1>10, <1>11, <1>12, <1>13 DEF QueueInv

\* The approval of b is settled: by its timer, or by a click that may have been meant
\* for another build, which has then expired.
LEMMA SettleKeeps ==
  ASSUME BuilderAssumption, QueueInv, NEW b \in Builds, approval = b,
         NEW approved \in BOOLEAN, NEW consent, NEW expired \in BOOLEAN,
         Settle(b, approved, consent, expired), UNCHANGED running,
         \/ ~approved /\ consent = 0 /\ expired /\ UNCHANGED click
         \/ consent = click /\ click \in Builds /\ ~expired /\ click' = None
  PROVE  QueueInv'
<1> DEFINE new == [builds[b] EXCEPT !.pc = IF approved THEN "validating" ELSE "failed",
                                    !.consent = consent, !.expired = expired]
<1>1. /\ builds \in [Builds -> Build]
      /\ approval \in Builds \cup {None} /\ click \in Builds \cup {None}
  BY QueueTypes DEF BuildTypes
<1>2. None \notin Builds /\ 0 \notin Builds
  BY DEF BuilderAssumption, Builds
<1>3. consent \in Builds \cup {0}
  OBVIOUS
<1>4. /\ new \in Build /\ new.pc = (IF approved THEN "validating" ELSE "failed")
      /\ new.gated = builds[b].gated /\ new.consent = consent /\ new.expired = expired
  BY <1>1, <1>3, ZenonT(30) DEF Build, Pcs, Settled
<1>5. builds' = [builds EXCEPT ![b] = new] /\ approval' = None
  BY <1>1 DEF Settle
<1> HIDE DEF new
<1>6. /\ builds' \in [Builds -> Build] /\ builds'[b] = new
      /\ \A c \in Builds \ {b} : builds'[c] = builds[c]
  BY <1>1, <1>4, <1>5
<1>7. builds[b].pc = "approving" /\ IsActive(b) /\ ~builds[b].expired
  BY <1>2 DEF QueueInv, IsActive, Settled
<1>8. \A c \in Builds : IsActive(c)' => IsActive(c)
  BY <1>6, <1>7
    DEF IsActive
<1>9. \A c \in Builds : builds[c].pc \in Settled => builds'[c] = builds[c]
  BY <1>6, <1>7 DEF Settled
<1>10. \A a, c \in Builds : IsActive(a)' /\ c < a => builds'[c].pc \in Settled
  BY <1>8, <1>9 DEF QueueInv
<1>11. ASSUME NEW s \in Slots, running'[s] # Free, running'[s].for # Caller
       PROVE  running'[s].for \in Builds /\ builds'[running'[s].for].pc \in Executes
  <2>1. running[s].for \in Builds /\ builds[running[s].for].pc \in Executes
    BY <1>11 DEF QueueInv
  <2>2. running[s].for # b
    BY <2>1, <1>7 DEF Executes, Settled
  <2>3. builds'[running[s].for] = builds[running[s].for]
    BY <2>1, <2>2, <1>6
  <2>4. QED
    BY <2>1, <2>3
<1>12. \A c \in Builds :
         /\ builds'[c].expired => builds'[c].pc \in Settled
         /\ builds'[c].consent # 0 => builds'[c].pc \in {"validating", "executing"} \cup Settled
         /\ builds[c].expired => builds'[c].expired
         /\ builds'[c].gated /\ builds'[c].pc \in {"validating", "executing"} => builds'[c].consent # 0
  <2>1. TAKE c \in Builds
  <2>2. CASE c = b
    BY <2>2, <1>2, <1>4, <1>6, <1>7 DEF Settled
  <2>3. CASE c # b
    BY <2>3, <1>6 DEF QueueInv, ConsentIsMeant
  <2>4. QED
    BY <2>2, <2>3
<1>13. click' # None => builds'[click'].expired \/ approval' = click'
  <2>1. HAVE click' # None
  <2>2. click' = click /\ expired /\ click \in Builds
    BY <2>1, <1>1
  <2>3. CASE click = b
    BY <2>2, <2>3, <1>4, <1>6
  <2>4. CASE click # b
    BY <2>1, <2>2, <2>4, <1>12 DEF QueueInv
  <2>5. QED
    BY <2>3, <2>4
<1>14. ConsentIsMeant'
  <2>1. ASSUME NEW c \in Builds, builds'[c].consent \notin {0, c}
        PROVE  builds'[builds'[c].consent].expired
    <3>1. CASE c = b
      <4>1. builds'[c].consent = click /\ click # b /\ click \in Builds
        BY <2>1, <3>1, <1>4, <1>6
      <4>2. builds[click].expired
        BY <4>1, <1>2 DEF QueueInv
      <4>3. QED
        BY <4>1, <4>2, <1>12
    <3>2. CASE c # b
      <4>1. builds[c].consent \notin {0, c} /\ builds'[c].consent = builds[c].consent
        BY <2>1, <3>2, <1>6
      <4>2. builds[builds[c].consent].expired
        BY <4>1 DEF QueueInv, ConsentIsMeant
      <4>3. builds[c].consent \in Builds
        BY <4>1, <1>1 DEF Build
      <4>4. QED
        BY <4>1, <4>2, <4>3, <1>12
    <3>3. QED
      BY <3>1, <3>2
  <2>2. QED
    BY <2>1, <1>12 DEF ConsentIsMeant
<1>15. click' \in Builds \cup {None}
  BY <1>1
<1>16. QED
  BY <1>5, <1>6, <1>10, <1>11, <1>12, <1>13, <1>14, <1>15 DEF QueueInv

\* Nothing of the queue changes, and no execution begins for a build.
LEMMA QueueStays ==
  ASSUME QueueInv, UNCHANGED <<builds, approval, click>>,
         \A s \in Slots : running'[s] # Free =>
           running'[s] = running[s] \/ running'[s].for = Caller
  PROVE  QueueInv'
<1>1. \A s \in Slots : running'[s] # Free /\ running'[s].for # Caller =>
        running'[s].for \in Builds /\ builds'[running'[s].for].pc \in Executes
  BY DEF QueueInv
<1>2. \A c \in Builds : IsActive(c)' <=> IsActive(c)
  BY DEF IsActive
<1>3. ConsentIsMeant'
  BY DEF ConsentIsMeant, QueueInv
<1>4. QED
  BY <1>1, <1>2, <1>3 DEF QueueInv

\* The app ends: what was under way fails.
LEMMA EndKeeps ==
  ASSUME BuilderAssumption, QueueInv,
         running' = [s \in Slots |-> Free],
         builds' = [b \in Builds |-> IF builds[b].pc \in {"none"} \cup Settled THEN builds[b]
                                     ELSE [builds[b] EXCEPT !.pc = "failed", !.expired = TRUE]],
         approval' = None, click' = None
  PROVE  QueueInv'
<1>1. builds \in [Builds -> Build]
  BY QueueTypes DEF BuildTypes
<1>2. ASSUME NEW c \in Builds
      PROVE  /\ builds'[c] \in Build /\ builds'[c].pc \in {"none"} \cup Settled
             /\ builds'[c].consent = builds[c].consent
             /\ builds'[c].expired => builds'[c].pc \in Settled
             /\ builds[c].expired => builds'[c].expired
             /\ builds'[c].consent # 0 => builds'[c].pc \in Settled
  <2>1. CASE builds[c].pc \in {"none"} \cup Settled
    <3>1. builds'[c] = builds[c]
      BY <2>1
    <3>2. QED
      BY <2>1, <3>1, <1>1 DEF QueueInv, Settled
  <2>2. CASE builds[c].pc \notin {"none"} \cup Settled
    <3> DEFINE new == [builds[c] EXCEPT !.pc = "failed", !.expired = TRUE]
    <3>1. /\ new \in Build /\ new.pc = "failed" /\ new.expired = TRUE
          /\ new.consent = builds[c].consent
      BY <1>1 DEF Build, Pcs, Settled
    <3>2. builds'[c] = new
      BY <2>2
    <3> HIDE DEF new
    <3>3. QED
      BY <3>1, <3>2 DEF Settled
  <2>3. QED
    BY <2>1, <2>2
<1>3. builds' \in [Builds -> Build]
  <2>1. DOMAIN builds' = Builds /\ builds' = [c \in Builds |-> builds'[c]]
    OBVIOUS
  <2>2. QED
    BY <2>1, <1>2
<1>4. \A c \in Builds : ~IsActive(c)'
  BY <1>2 DEF IsActive
<1>5. \A s \in Slots : running'[s] = Free
  OBVIOUS
<1>6. ConsentIsMeant'
  <2>1. ASSUME NEW c \in Builds, builds'[c].consent \notin {0, c}
        PROVE  builds'[builds'[c].consent].expired
    <3>1. builds[builds[c].consent].expired /\ builds[c].consent \in Builds
      BY <2>1, <1>1, <1>2 DEF QueueInv, ConsentIsMeant, Build
    <3>2. QED
      BY <3>1, <1>2
  <2>2. \A c \in Builds : builds'[c].pc \notin {"validating", "executing"}
    BY <1>2 DEF Settled
  <2>3. QED
    BY <2>1, <2>2 DEF ConsentIsMeant
<1>7. QED
  BY <1>2, <1>3, <1>4, <1>5, <1>6 DEF QueueInv

-----------------------------------------------------------------------------
(* The steps, as the queue sees them                                       *)

LEMMA Occupies ==
  ASSUME BuilderAssumption, RunsInv, NEW id, NEW for, NEW awaits, Occupy(id, for, awaits)
  PROVE  \A s \in Slots : running'[s] = running[s] \/ running'[s].for = for
<1> DEFINE t == CHOOSE u \in Slots : running[u] = Free
           run == [id |-> id, for |-> for, awaits |-> awaits]
<1>1. t \in Slots /\ running' = [running EXCEPT ![t] = run] /\ run.for = for
  BY DEF Occupy
<1>2. running \in [Slots -> Run \cup {Free}]
  BY DEF RunsInv
<1> HIDE DEF t, run
<1>3. QED
  BY <1>1, <1>2

LEMMA CallKeepsQueue ==
  ASSUME BuilderAssumption, RunsInv, QueueInv, NEW name, NEW intent \in Intents \cup {None},
         Call(name, intent)
  PROVE  QueueInv'
<1> DEFINE id == GetByName(reg, name)
<1>1. UNCHANGED <<approval, click>>
  BY DEF Call
<1>2. CASE Denied(id)
  <2>1. UNCHANGED <<running, builds>>
    BY <1>2 DEF Call
  <2>2. QED
    BY <1>1, <2>1, QueueStays
<1>3. CASE ~Denied(id)
  <2>1. \/ /\ intent # None
           /\ \E b \in Builds : /\ IsNext(b) /\ builds' = Asked(b, intent, FALSE)
                                /\ Occupy(id, Caller, b)
        \/ Occupy(id, Caller, 0) /\ UNCHANGED builds
    BY <1>3 DEF Call
  <2> HIDE DEF id
  <2>2. ASSUME intent # None, NEW b \in Builds, IsNext(b), builds' = Asked(b, intent, FALSE),
               Occupy(id, Caller, b)
        PROVE  QueueInv'
    <3>1. builds[b].pc = "none" /\ intent \in Intents
      BY <2>2 DEF IsNext, Unasked
    <3>2. \A s \in Slots : running'[s] = running[s] \/ running'[s].for = Caller
      BY <2>2, Occupies
    <3>3. QED
      BY <1>1, <2>2, <3>1, <3>2, AskKeeps
  <2>3. ASSUME Occupy(id, Caller, 0), UNCHANGED builds PROVE QueueInv'
    <3>1. \A s \in Slots : running'[s] = running[s] \/ running'[s].for = Caller
      BY <2>3, Occupies
    <3>2. QED
      BY <1>1, <2>3, <3>1, QueueStays
  <2>4. QED
    BY <2>1, <2>2, <2>3
<1>4. QED
  BY <1>2, <1>3

LEMMA RunEndsKeepsQueue ==
  ASSUME BuilderAssumption, RunsInv, QueueInv, NEW s \in Slots, RunEnds(s)
  PROVE  QueueInv'
<1>1. PICK good \in BOOLEAN, ok \in BOOLEAN, okAgain \in BOOLEAN :
        EndCall(s, good, ok, okAgain) \/ EndBuildRun(s, good, ok, okAgain)
  BY DEF RunEnds
<1>2. running[s] # Free /\ running' = [running EXCEPT ![s] = Free] /\ UNCHANGED <<approval, click>>
  BY <1>1 DEF EndCall, EndBuildRun, MayEnd
<1>3. \A t \in Slots : running'[t] # Free => running'[t] = running[t]
  BY <1>2, Ends
<1>4. CASE EndCall(s, good, ok, okAgain)
  <2>1. UNCHANGED builds
    BY <1>4 DEF EndCall
  <2>2. QED
    BY <2>1, <1>2, <1>3, QueueStays
<1>5. CASE EndBuildRun(s, good, ok, okAgain)
  <2> DEFINE b == running[s].for
             id == running[s].id
             pc == IF Rejects(id, good, ok, okAgain) THEN "failed" ELSE "done"
             new == [builds[b] EXCEPT !.pc = pc, !.ok = Reported(id, good, ok)]
  <2>1. b # Caller /\ builds' = [builds EXCEPT ![b].pc = pc, ![b].ok = Reported(id, good, ok)]
    BY <1>5 DEF EndBuildRun
  <2>2. b \in Builds /\ builds[b].pc \in Executes
    BY <1>2, <2>1 DEF QueueInv
  <2>3. builds \in [Builds -> Build]
    BY QueueTypes DEF BuildTypes
  <2>4. Reported(id, good, ok) \in BOOLEAN /\ pc \in Settled
    BY DEF Reported, Settled
  <2> HIDE DEF b, id, pc
  <2>5. builds' = [builds EXCEPT ![b] = new]
    BY <2>1, <2>2, <2>3
  <2>6. /\ new \in Build /\ new.pc = pc /\ new.gated = builds[b].gated
        /\ new.consent = builds[b].consent /\ new.expired = builds[b].expired
    BY <2>2, <2>3, <2>4 DEF Build, Pcs
  <2> HIDE DEF new
  <2>7. builds[b].pc # "approving" /\ pc \notin {"validating", "executing"} /\ pc \in Executes
    BY <2>2, <2>4 DEF Executes, Settled
  <2>8. QED
    BY <1>2, <1>3, <2>2, <2>4, <2>5, <2>6, <2>7, MoveKeeps
<1>6. QED
  BY <1>1, <1>4, <1>5

\* A build moves on.
LEMMA Moves ==
  ASSUME QueueInv, NEW b \in Builds, NEW pc \in Pcs
  PROVE  \E new \in Build :
           /\ Move(b, pc) = [builds EXCEPT ![b] = new] /\ new.pc = pc
           /\ new.gated = builds[b].gated /\ new.consent = builds[b].consent
           /\ new.expired = builds[b].expired
<1> DEFINE new == [builds[b] EXCEPT !.pc = pc]
<1>1. builds \in [Builds -> Build]
  BY QueueTypes DEF BuildTypes
<1>2. Move(b, pc) = [builds EXCEPT ![b] = new]
  BY <1>1 DEF Move
<1>3. /\ new \in Build /\ new.pc = pc /\ new.gated = builds[b].gated
      /\ new.consent = builds[b].consent /\ new.expired = builds[b].expired
  BY <1>1 DEF Build
<1>4. QED
  BY <1>2, <1>3

\* It is under way, nothing is pending for it and no execution runs for it.
LEMMA MovesOn ==
  ASSUME BuilderAssumption, QueueInv, NEW b \in Builds, NEW new \in Build,
         builds' = [builds EXCEPT ![b] = new], UNCHANGED <<approval, click>>,
         new.gated = builds[b].gated, new.consent = builds[b].consent,
         new.expired = builds[b].expired,
         builds[b].pc \in {"forging", "producing", "generating", "validating"},
         \/ UNCHANGED running
         \/ new.pc = "executing" /\ \A s \in Slots : running'[s] = running[s] \/ running'[s].for = b,
         \/ new.pc \in {"done", "failed"}
         \/ new.pc = "producing" /\ builds[b].pc = "forging"
         \/ new.pc = "validating" /\ builds[b].pc = "generating" /\ ~builds[b].gated
         \/ new.pc = "executing" /\ builds[b].pc = "validating"
  PROVE  QueueInv'
<1>1. IsActive(b) /\ builds[b].pc \notin Settled \cup Executes /\ builds[b].pc # "approving"
  BY DEF IsActive, Settled, Executes
<1>2. \A c \in 1 .. b - 1 : builds[c].pc \in Settled
  <2>1. TAKE c \in 1 .. b - 1
  <2>2. c \in Builds /\ c < b
    BY DEF Builds, BuilderAssumption
  <2>3. QED
    BY <2>2, <1>1 DEF QueueInv
<1>3. new.consent # 0 => new.pc \in {"validating", "executing"} \cup Settled
  <2>1. HAVE new.consent # 0
  <2>2. builds[b].pc = "validating"
    BY <2>1, <1>1 DEF QueueInv, Settled
  <2>3. QED
    BY <2>2 DEF Settled
<1>4. new.gated /\ new.pc \in {"validating", "executing"} => new.consent # 0
  BY DEF QueueInv, ConsentIsMeant
<1>5. \A s \in Slots : running'[s] # Free /\ running'[s].for # Caller =>
        \/ running'[s] = running[s]
        \/ running'[s].for = b /\ new.pc \in Executes
  BY DEF Executes
<1>6. QED
  BY <1>1, <1>2, <1>3, <1>4, <1>5, MoveKeeps

\* The first in the queue begins.
LEMMA BeginsInTurn ==
  ASSUME BuilderAssumption, QueueInv, NEW b \in Builds, NEW pc \in Pcs, MayBegin(b),
         builds' = Move(b, pc), UNCHANGED <<approval, click>>,
         \/ pc \in {"forging", "generating"} /\ UNCHANGED running
         \/ pc = "reusing" /\ \A s \in Slots : running'[s] = running[s] \/ running'[s].for = b
  PROVE  QueueInv'
<1>1. PICK new \in Build :
        /\ Move(b, pc) = [builds EXCEPT ![b] = new] /\ new.pc = pc
        /\ new.gated = builds[b].gated /\ new.consent = builds[b].consent
        /\ new.expired = builds[b].expired
  BY Moves
<1>2. builds[b].pc = "queued" /\ \A c \in 1 .. b - 1 : builds[c].pc \in Settled
  BY DEF MayBegin
<1>3. builds[b].pc \notin Settled \cup Executes /\ builds[b].consent = 0
  BY <1>2 DEF QueueInv, Settled, Executes
<1>4. new.pc \notin {"validating", "executing"} /\ new.consent = 0
  BY <1>1, <1>3
<1>5. \A s \in Slots : running'[s] # Free /\ running'[s].for # Caller =>
        \/ running'[s] = running[s]
        \/ running'[s].for = b /\ new.pc \in Executes
  BY <1>1 DEF Executes
<1>6. QED
  BY <1>1, <1>2, <1>3, <1>4, <1>5, MoveKeeps

LEMMA BuildStepKeepsQueue ==
  ASSUME BuilderAssumption, RunsInv, QueueInv, NEW b \in Builds, BuildStep(b)
  PROVE  QueueInv'
<1>0. {"reusing", "generating", "forging", "producing", "validating", "executing", "failed"} \subseteq Pcs
  BY DEF Pcs, Settled
<1>1. ASSUME NEW id \in Ids, Reuse(b, id) PROVE QueueInv'
  <2>1. /\ MayBegin(b) /\ builds' = Move(b, "reusing") /\ Occupy(id, b, 0)
        /\ UNCHANGED <<approval, click>>
    BY <1>1 DEF Reuse
  <2>2. \A s \in Slots : running'[s] = running[s] \/ running'[s].for = b
    BY <2>1, Occupies
  <2>3. QED
    BY <2>1, <2>2, <1>0, BeginsInTurn
<1>2. ASSUME Synthesize(b) PROVE QueueInv'
  <2>1. PICK pc \in {"generating", "forging"} : builds' = Move(b, pc)
    BY <1>2 DEF Synthesize
  <2>2. MayBegin(b) /\ UNCHANGED <<approval, click, running>>
    BY <1>2 DEF Synthesize
  <2>3. QED
    BY <2>1, <2>2, <1>0, BeginsInTurn
<1>3. ASSUME NEW pc \in Pcs, builds' = Move(b, pc), UNCHANGED <<approval, click>>,
             builds[b].pc \in {"forging", "producing", "generating", "validating"},
             \/ UNCHANGED running
             \/ pc = "executing" /\ \A s \in Slots : running'[s] = running[s] \/ running'[s].for = b,
             \/ pc = "failed"
             \/ pc = "producing" /\ builds[b].pc = "forging"
             \/ pc = "validating" /\ builds[b].pc = "generating" /\ ~builds[b].gated
             \/ pc = "executing" /\ builds[b].pc = "validating"
      PROVE  QueueInv'
  <2>1. PICK new \in Build :
          /\ Move(b, pc) = [builds EXCEPT ![b] = new] /\ new.pc = pc
          /\ new.gated = builds[b].gated /\ new.consent = builds[b].consent
          /\ new.expired = builds[b].expired
    BY Moves
  <2>2. QED
    BY <1>3, <2>1, MovesOn
<1>4. ASSUME NEW id \in Ids, NEW ok \in BOOLEAN, Forged(b, id, ok) PROVE QueueInv'
  <2>1. PICK pc \in {"failed", "producing"} : builds' = Move(b, pc)
    BY <1>4 DEF Forged
  <2>2. builds[b].pc = "forging" /\ UNCHANGED <<approval, click, running>>
    BY <1>4 DEF Forged
  <2>3. QED
    BY <2>1, <2>2, <1>0, <1>3
<1>5. ASSUME ForgeFails(b) \/ ValidationFails(b) PROVE QueueInv'
  <2>1. /\ builds' = Move(b, "failed") /\ UNCHANGED <<approval, click, running>>
        /\ builds[b].pc \in {"forging", "validating"}
    BY <1>5 DEF ForgeFails, ValidationFails
  <2>2. QED
    BY <2>1, <1>0, <1>3
<1>6. ASSUME NEW good \in BOOLEAN, ForgeReturns(b, good) PROVE QueueInv'
  <2> DEFINE new == [builds[b] EXCEPT !.pc = "done", !.ok = good]
  <2>1. /\ builds[b].pc = "producing" /\ UNCHANGED <<approval, click, running>>
        /\ builds' = [builds EXCEPT ![b].pc = "done", ![b].ok = good]
    BY <1>6 DEF ForgeReturns
  <2>2. builds \in [Builds -> Build]
    BY QueueTypes DEF BuildTypes
  <2>3. builds' = [builds EXCEPT ![b] = new]
    BY <2>1, <2>2
  <2>4. /\ new \in Build /\ new.pc = "done" /\ new.gated = builds[b].gated
        /\ new.consent = builds[b].consent /\ new.expired = builds[b].expired
    BY <2>2 DEF Build, Pcs, Settled
  <2> HIDE DEF new
  <2>5. QED
    BY <2>1, <2>3, <2>4, MovesOn
<1>7. ASSUME Generated(b) PROVE QueueInv'
  <2>1. builds[b].pc = "generating" /\ UNCHANGED <<click, running>>
    BY <1>7 DEF Generated
  <2>2. CASE builds[b].gated
    <3>1. builds' = Move(b, "approving") /\ approval' = b
      BY <1>7, <2>2 DEF Generated
    <3>2. QED
      BY <2>1, <3>1, AskApproval
  <2>3. CASE ~builds[b].gated
    <3>1. builds' = Move(b, "validating") /\ UNCHANGED approval
      BY <1>7, <2>3 DEF Generated
    <3>2. QED
      BY <2>1, <2>3, <3>1, <1>0, <1>3
  <2>4. QED
    BY <2>2, <2>3
<1>8. ASSUME ApprovalTimeout(b) PROVE QueueInv'
  <2>1. approval = b /\ Settle(b, FALSE, 0, TRUE) /\ UNCHANGED <<running, click>>
    BY <1>8 DEF ApprovalTimeout
  <2>2. QED
    BY <2>1, SettleKeeps
<1>9. ASSUME NEW id \in Ids, NEW ok \in BOOLEAN, Deploy(b, id, ok) PROVE QueueInv'
  <2>1. builds[b].pc = "validating" /\ UNCHANGED <<approval, click>>
    BY <1>9 DEF Deploy
  <2>2. CASE Throws(ok)
    <3>1. builds' = Move(b, "failed") /\ UNCHANGED running
      BY <1>9, <2>2 DEF Deploy
    <3>2. QED
      BY <2>1, <3>1, <1>0, <1>3
  <2>3. CASE ~Throws(ok)
    <3>1. builds' = Move(b, "executing") /\ Occupy(id, b, 0)
      BY <1>9, <2>3 DEF Deploy
    <3>2. \A s \in Slots : running'[s] = running[s] \/ running'[s].for = b
      BY <3>1, Occupies
    <3>3. QED
      BY <2>1, <3>1, <3>2, <1>0, <1>3
  <2>4. QED
    BY <2>2, <2>3
<1>10. QED
  BY <1>1, <1>2, <1>4, <1>5, <1>6, <1>7, <1>8, <1>9 DEF BuildStep

LEMMA EveryStepKeepsQueue ==
  ASSUME BuilderAssumption, RunsInv, QueueInv, [Next]_vars
  PROVE  QueueInv'
<1>1. CASE UNCHANGED <<builds, approval, click, running>>
  BY <1>1, QueueStays
<1>2. ASSUME NEW b \in Builds, NEW intent \in Intents, NEW gated \in BOOLEAN,
             EnsureCapability(b, intent, gated)
      PROVE  QueueInv'
  <2>1. /\ builds[b].pc = "none" /\ builds' = Asked(b, intent, gated)
        /\ UNCHANGED <<approval, click, running>>
    BY <1>2 DEF EnsureCapability, IsNext, Unasked
  <2>2. QED
    BY <2>1, AskKeeps
<1>3. ASSUME NEW intent \in Intents \cup {None}, HandleToolCall(intent) \/ RunTool(intent)
      PROVE  QueueInv'
  BY <1>3, CallKeepsQueue DEF HandleToolCall, RunTool
<1>4. ASSUME NEW b \in Builds, BuildStep(b) PROVE QueueInv'
  BY <1>4, BuildStepKeepsQueue
<1>5. ASSUME NEW s \in Slots, RunEnds(s) PROVE QueueInv'
  BY <1>5, RunEndsKeepsQueue
<1>6. ASSUME Click PROVE QueueInv'
  <2>1. /\ click' = approval /\ approval # None
        /\ UNCHANGED <<running, builds, approval>>
    BY <1>6 DEF Click
  <2>2. \A c \in Builds : IsActive(c)' <=> IsActive(c)
    BY <2>1 DEF IsActive
  <2>3. ConsentIsMeant'
    BY <2>1 DEF ConsentIsMeant, QueueInv
  <2>4. QED
    BY <2>1, <2>2, <2>3 DEF QueueInv
<1>7. ASSUME NEW approved \in BOOLEAN, ClickArrives(approved) PROVE QueueInv'
  <2>1. click # None /\ click' = None /\ UNCHANGED running
    BY <1>7 DEF ClickArrives
  <2>2. approval \in Builds \cup {None} /\ click \in Builds
    BY <2>1, QueueTypes DEF BuildTypes
  <2>3. CASE approval = None
    <3>1. UNCHANGED <<builds, approval>>
      BY <1>7, <2>3 DEF ClickArrives
    <3>2. \A c \in Builds : IsActive(c)' <=> IsActive(c)
      BY <3>1 DEF IsActive
    <3>3. ConsentIsMeant'
      BY <3>1 DEF ConsentIsMeant, QueueInv
    <3>4. QED
      BY <2>1, <3>1, <3>2, <3>3 DEF QueueInv
  <2>4. CASE approval # None
    <3>1. Settle(approval, approved, click, FALSE) /\ approval \in Builds
      BY <1>7, <2>2, <2>4 DEF ClickArrives
    <3>2. QED
      BY <2>1, <2>2, <3>1, SettleKeeps
  <2>5. QED
    BY <2>3, <2>4
<1>8. ASSUME NEW opened \in Stores, NEW cut \in BOOLEAN, EndAndStart(opened, cut) PROVE QueueInv'
  BY <1>8, EndKeeps DEF EndAndStart
<1>9. ASSUME \/ \E id \in Ids, ok \in BOOLEAN : Edit(id, ok)
             \/ NewSession
             \/ \E ok \in BOOLEAN : SaveAgain(ok)
             \/ \E b \in Builds, t \in TechIds, n \in Names : WritesDesign(b, t, n)
             \/ UNCHANGED vars
      PROVE  QueueInv'
  <2>1. UNCHANGED <<builds, approval, click, running>>
    BY <1>9 DEF Edit, NewSession, SaveAgain, WritesDesign, vars, buildVars
  <2>2. QED
    BY <2>1, <1>1
<1>10. QED
  BY <1>2, <1>3, <1>4, <1>5, <1>6, <1>7, <1>8, <1>9 DEF Next

-----------------------------------------------------------------------------
(* The theorems                                                            *)

LEMMA ToolsStart == ASSUME RegistryAssumption, BuilderAssumption, Init PROVE ToolsInv
<1>1. RegistryInv
  BY RegistryStarts DEF Init
<1>2. /\ running = [s \in Slots |-> Free] /\ builds = [b \in Builds |-> NoBuild]
      /\ approval = None /\ click = None /\ started = [i \in Ids |-> 0]
  BY DEF Init, BuilderInit
<1>3. \A s \in Slots : running[s] = Free
  BY <1>2
<1>4. ASSUME NEW i \in DOMAIN reg.tools PROVE reg.tools[i].runs = 0
  <2> DEFINE legacy == Fresh(LegacyName, None, "sandboxed", None, AnySource, "pending")
             builtin == Fresh(BuiltinName, BuiltinIntent, "builtin", None, AnySource, "active")
             migrated == Put(Empty, LegacyTool, legacy)
  <2>1. legacy.runs = 0 /\ builtin.runs = 0
    BY DEF Fresh
  <2> HIDE DEF legacy, builtin
  <2>2. DOMAIN Empty.tools = {}
    BY EmptyIsMap
  <2>3. Migrated(Empty) = migrated
    BY <2>2 DEF Migrated, Has, legacy
  <2>4. reg = migrated \/ reg = Put(migrated, BuiltinTool, builtin)
    BY <2>3 DEF Init, RegInit, WithBuiltins, builtin
  <2>5. \A j \in DOMAIN migrated.tools : migrated.tools[j].runs = 0
    BY <2>1, <2>2 DEF Put
  <2> HIDE DEF migrated
  <2>6. QED
    BY <2>1, <2>4, <2>5 DEF Put
<1>5. RunsAreCountedOnce
  <2>1. ASSUME NEW i \in DOMAIN reg.tools
        PROVE  started[i] = reg.tools[i].runs
                 + Cardinality({s \in Slots : running[s] # Free /\ running[s].id = i})
    <3>1. {s \in Slots : running[s] # Free /\ running[s].id = i} = {}
      BY <1>3
    <3>2. Cardinality({s \in Slots : running[s] # Free /\ running[s].id = i}) = 0
      BY <3>1, FS_EmptySet
    <3>3. i \in Ids
      BY <1>1, MapParts DEF RegistryInv
    <3>4. started[i] = 0
      BY <3>3, <1>2
    <3>5. QED
      BY <3>2, <3>4, <1>4
  <2>2. QED
    BY <2>1 DEF RunsAreCountedOnce
<1>6. RunsInv
  BY <1>2, <1>3, <1>5 DEF RunsInv
<1>7. NoBuild \in Build /\ NoBuild.pc = "none" /\ NoBuild.consent = 0 /\ NoBuild.expired = FALSE
  BY DEF NoBuild, Build, Pcs
<1>8. \A b \in Builds : builds[b] = NoBuild
  BY <1>2
<1>9. QueueInv
  BY <1>2, <1>3, <1>7, <1>8 DEF QueueInv, IsActive, ConsentIsMeant
<1>10. DeclarationsFollow
  BY DEF Init, RegInit, DeclarationsFollow
<1>11. QED
  BY <1>1, <1>6, <1>9, <1>10 DEF ToolsInv

LEMMA ToolsKeep ==
  ASSUME RegistryAssumption, BuilderAssumption, ToolsInv, [Next]_vars
  PROVE  ToolsInv' /\ ComesBack
<1>1. Good
  BY EveryStepIsGood DEF ToolsInv
<1>2. QueueInv'
  BY EveryStepKeepsQueue DEF ToolsInv
<1>3. DeclarationsFollow'
  BY EveryStepKeepsDeclarations DEF ToolsInv
<1>4. QED
  BY <1>1, <1>2, <1>3 DEF Good, ToolsInv

LEMMA ToolsAlways == Spec => []ToolsInv
<1>1. Init => ToolsInv
  BY ToolsStart, RegistryAssumption, BuilderAssumption
<1>2. ToolsInv /\ [Next]_vars => ToolsInv'
  BY ToolsKeep, RegistryAssumption, BuilderAssumption
<1>3. QED
  BY <1>1, <1>2, PTL DEF Spec

\* What the registry says of a tool is exact (tool_registry.ts, publishVersion, rollback and
\* recordExecution; tool_executor.ts, executeDefinition): versions go back in time and name
\* their own sources, whatever is published, rolled back, toggled, removed and restarted, and
\* every execution is counted once, by whomever it was asked for and however it ends.
THEOREM RecordsStayExact == Spec => []RecordsAreExact
<1>1. ToolsInv => RecordsAreExact
  <2>1. SUFFICES ASSUME ToolsInv PROVE RecordsAreExact
    OBVIOUS
  <2>2. VersionsGoBack
    <3>1. \A i \in DOMAIN reg.tools : GoesBack(reg.tools[i])
      BY <2>1 DEF ToolsInv, RegistryInv, IsMap, IsTool
    <3>2. QED
      BY <3>1 DEF GoesBack, Past, VersionsGoBack
  <2>3. QED
    BY <2>1, <2>2 DEF ToolsInv, RunsInv, RecordsAreExact
<1>2. QED
  BY <1>1, ToolsAlways, PTL

\* A gated build is deployed only after a click, and a click meant for another build counts
\* only when that one had expired (tool_builder.ts, requestApproval and settle).
THEOREM ConsentStaysMeant == Spec => []ConsentIsMeant
<1>1. ToolsInv => ConsentIsMeant
  BY DEF ToolsInv, QueueInv
<1>2. QED
  BY <1>1, ToolsAlways, PTL

\* A tool is declared exactly if it is registered and enabled, unless it was switched or
\* removed, or its write threw, since the last rebuild (agent_orchestrator.ts,
\* rebuildDeclarations and the listeners that call it).
THEOREM DeclarationsStayTrue == Spec => []DeclarationsFollow
<1>1. ToolsInv => DeclarationsFollow
  BY DEF ToolsInv
<1>2. QED
  BY <1>1, ToolsAlways, PTL

\* A start brings back what was saved, adds one tool for each directory that has none, and
\* leaves no directory without its tool (tool_store.ts, load and upsert;
\* autonomous_execution_engine.ts, hydrateToolsFromDisk).
THEOREM RestartsRestore == Spec => RestartRestores
<1>1. ToolsInv /\ [Next]_vars => [ComesBack]_regVars
  BY ToolsKeep, RegistryAssumption, BuilderAssumption
<1>2. QED
  BY <1>1, ToolsAlways, PTL DEF Spec, RestartRestores, ComesBack
=============================================================================
