---------------------------- MODULE NewBackendProofs ----------------------------
(***************************************************************************)
(* Theorems about the parts of the New Backend that MCNewBackend names,    *)
(* for every value of their constants.                                     *)
(*                                                                         *)
(* T, the turns: a request is executed once, what the caller was told is   *)
(* on disk, and maintenance pauses in typed turns, each with the           *)
(* exceptions that BackendTurns names.  U, the upgrades: what is tried was *)
(* validated, and a trial has the verdict that the file tells.             *)
(* S, maintenance: what is staged was tested.  The forge has no prefix:    *)
(* the library holds tested tools, one per name, and a capability is       *)
(* forged once.                                                            *)
(***************************************************************************)
EXTENDS MCNewBackend, WellFoundedInduction, FiniteSetTheorems, TLAPS

-----------------------------------------------------------------------------
(* The turns                                                               *)

\* The part of TypeOK that the proofs use.
TurnTypes ==
  /\ pc \in [T!Turns -> T!Awaits \cup {"free", "over"}]
  /\ request \in [T!Turns -> T!Ids \cup {None}]
  /\ answer \in [T!Turns -> T!Statuses \cup {"none", "closing", "duplicate", "rejected"}]
  /\ executions \in [T!Ids -> Nat]
  /\ disk \subseteq ledger
  /\ torn \in BOOLEAN

\* A typed turn's request is its own; a turn that has not begun left no traces.
TurnsHaveRequests ==
  \A t \in T!Turns :
    /\ request[t] \in T!Turns => request[t] = t
    /\ T!UnderWay(t) => request[t] \in T!Ids
    /\ pc[t] = "free" => request[t] = None /\ answer[t] = "none" /\ executions[t] = 0

\* One turn at a time works on a request r.
OneTurn(r) ==
  \A t, u \in T!Turns : T!UnderWay(t) /\ T!UnderWay(u) /\ request[t] = r /\ request[u] = r => t = u

\* An execution of r is in the ledger, or is under way; a turn that still plans
\* is the first.
Accounted(r) ==
  /\ executions[r] = 0 \/ T!IsExecuted(r) \/ \E t \in T!Turns : pc[t] = "acting" /\ request[t] = r
  /\ \A t \in T!Turns : pc[t] = "planning" /\ request[t] = r => executions[r] = 0

LedgerIsTrue ==
  \A r \in T!Ids :
    r \notin repeated \cup unsaved => OneTurn(r) /\ Accounted(r) /\ executions[r] <= 1

TurnsInv ==
  /\ TurnTypes /\ TurnsHaveRequests
  /\ LedgerIsTrue /\ T!AnswersAreRecorded /\ T!PausedInTurns

-----------------------------------------------------------------------------

LEMMA TurnsInit == ASSUME T!TurnAssumption, T!Init PROVE TurnsInv
<1> USE DEF T!Init
<1>1. \A t \in T!Turns : pc[t] = "free" /\ request[t] = None /\ answer[t] = "none" /\ ~T!UnderWay(t)
  BY DEF T!UnderWay, T!Awaits
<1>2. T!Turns \subseteq T!Ids /\ None \notin T!Ids
  BY DEF T!TurnAssumption, T!Turns, T!Ids
<1>3. \A r \in T!Ids : executions[r] = 0
  OBVIOUS
<1>4. TurnTypes
  BY <1>2 DEF TurnTypes
<1>5. TurnsHaveRequests
  BY <1>1, <1>2, <1>3 DEF TurnsHaveRequests, T!Ids
<1>6. LedgerIsTrue
  BY <1>1, <1>3 DEF LedgerIsTrue, OneTurn, Accounted
<1>7. T!AnswersAreRecorded
  BY <1>1 DEF T!AnswersAreRecorded, T!Statuses
<1>8. T!PausedInTurns
  BY <1>1 DEF T!PausedInTurns, T!TypedUnderWay
<1>9. QED
  BY <1>4, <1>5, <1>6, <1>7, <1>8 DEF TurnsInv

-----------------------------------------------------------------------------
(* The beginning of a turn.                                                *)

\* A request that is answered at once changes nothing but its own answer.
LEMMA AnswerStep ==
  ASSUME T!TurnAssumption, TurnsInv, NEW t \in T!Turns, NEW r \in T!Ids, r \in T!Turns => r = t,
         NEW a \in {"closing", "duplicate"}, T!AnswerAtOnce(t, r, a)
  PROVE  TurnsInv'
<1> USE DEF TurnsInv
<1>1. /\ pc[t] = "free" /\ pc' = [pc EXCEPT ![t] = "over"]
      /\ request' = [request EXCEPT ![t] = r] /\ answer' = [answer EXCEPT ![t] = a]
      /\ UNCHANGED <<ledger, disk, executions, repeated, unsaved, torn>>
  BY DEF T!AnswerAtOnce, T!Accept, T!Return, T!books
<1>2. /\ ~T!UnderWay(t) /\ ~T!UnderWay(t)'
      /\ \A u \in T!Turns : u # t => /\ pc'[u] = pc[u] /\ request'[u] = request[u]
                                     /\ answer'[u] = answer[u]
                                     /\ T!UnderWay(u)' = T!UnderWay(u)
  BY <1>1 DEF T!UnderWay, T!Awaits, TurnTypes
<1>3. pc'[t] = "over" /\ request'[t] = r /\ answer'[t] = a
  BY <1>1 DEF TurnTypes
<1>4. TurnTypes'
  BY <1>1 DEF TurnTypes
<1>5. TurnsHaveRequests'
  BY <1>1, <1>2, <1>3 DEF TurnsHaveRequests
<1>6. LedgerIsTrue'
  <2>1. ASSUME NEW q \in T!Ids, q \notin repeated \cup unsaved
        PROVE  OneTurn(q)' /\ Accounted(q)' /\ executions'[q] <= 1
    <3>1. OneTurn(q) /\ Accounted(q) /\ executions[q] <= 1
      BY <2>1 DEF LedgerIsTrue
    <3>2. OneTurn(q)'
      BY <3>1, <1>2 DEF OneTurn
    <3>3. Accounted(q)'
      BY <3>1, <1>1, <1>2, <1>3 DEF Accounted, T!IsExecuted
    <3>4. QED
      BY <3>1, <3>2, <3>3, <1>1
  <2>2. QED
    BY <2>1, <1>1 DEF LedgerIsTrue
<1>7. T!AnswersAreRecorded'
  BY <1>1, <1>2, <1>3 DEF T!AnswersAreRecorded, T!Statuses
<1>8. T!PausedInTurns'
  <2>1. CASE r # t
    <3>1. UNCHANGED <<suppressed, overlapped>>
      BY <2>1 DEF T!AnswerAtOnce, T!Return
    <3>2. T!TypedUnderWay' = T!TypedUnderWay
      BY <1>2 DEF T!TypedUnderWay, T!Typed
    <3>3. QED
      BY <1>1, <3>1, <3>2 DEF T!PausedInTurns
  <2>2. CASE r = t
    <3>1. /\ suppressed' = FALSE
          /\ overlapped' = (overlapped \/ \E u \in T!Turns \ {t} : T!UnderWay(u) /\ T!Typed(u))
      BY <2>2 DEF T!AnswerAtOnce, T!Return, T!Resumed
    <3>2. ~overlapped' => ~T!TypedUnderWay'
      BY <1>2, <3>1 DEF T!TypedUnderWay, T!Typed
    <3>3. QED
      BY <3>1, <3>2 DEF T!PausedInTurns
  <2>3. QED
    BY <2>1, <2>2
<1>9. QED
  BY <1>4, <1>5, <1>6, <1>7, <1>8

\* A turn begins with a request that is typed, or that the ledger does not know.
LEMMA BeginStep ==
  ASSUME T!TurnAssumption, TurnsInv, NEW t \in T!Turns, NEW r \in T!Ids, T!Begin(t, r),
         \/ r = t /\ suppressed' = TRUE
         \/ r \notin T!Turns /\ ~T!IsExecuted(r) /\ UNCHANGED suppressed
  PROVE  TurnsInv'
<1> USE DEF TurnsInv
<1>1. /\ pc[t] = "free" /\ pc' = [pc EXCEPT ![t] = "planning"]
      /\ request' = [request EXCEPT ![t] = r]
      /\ UNCHANGED <<answer, ledger, disk, executions, unsaved, overlapped, torn>>
      /\ repeated' = IF \E u \in T!Turns : T!UnderWay(u) /\ request[u] = r
                    THEN repeated \cup {r} ELSE repeated
  BY DEF T!Begin, T!Accept, T!books
<1>2. /\ ~T!UnderWay(t) /\ T!UnderWay(t)'
      /\ \A u \in T!Turns : u # t => /\ pc'[u] = pc[u] /\ request'[u] = request[u]
                                     /\ T!UnderWay(u)' = T!UnderWay(u)
  BY <1>1 DEF T!UnderWay, T!Awaits, TurnTypes
<1>3. pc'[t] = "planning" /\ request'[t] = r
  BY <1>1 DEF TurnTypes
<1>4. TurnTypes'
  BY <1>1 DEF TurnTypes, T!Awaits
<1>5. TurnsHaveRequests'
  BY <1>1, <1>2, <1>3 DEF TurnsHaveRequests
<1>6. LedgerIsTrue'
  <2>1. ASSUME NEW q \in T!Ids, q \notin repeated' \cup unsaved, q = r
        PROVE  OneTurn(q)' /\ Accounted(q)' /\ executions'[q] <= 1
    <3>1. /\ OneTurn(q) /\ Accounted(q) /\ executions[q] <= 1
          /\ \A u \in T!Turns : ~(T!UnderWay(u) /\ request[u] = q)
      BY <2>1, <1>1 DEF LedgerIsTrue
    <3>2. OneTurn(q)'
      BY <3>1, <1>2 DEF OneTurn
    <3>3. executions[q] = 0
      BY <2>1, <3>1, <1>1 DEF Accounted, TurnsHaveRequests, T!UnderWay, T!Awaits
    <3>4. Accounted(q)'
      BY <3>3, <1>1 DEF Accounted
    <3>5. QED
      BY <3>1, <3>2, <3>4, <1>1
  <2>2. ASSUME NEW q \in T!Ids, q \notin repeated' \cup unsaved, q # r
        PROVE  OneTurn(q)' /\ Accounted(q)' /\ executions'[q] <= 1
    <3>1. OneTurn(q) /\ Accounted(q) /\ executions[q] <= 1
      BY <2>2, <1>1 DEF LedgerIsTrue
    <3>2. OneTurn(q)'
      BY <2>2, <3>1, <1>2, <1>3 DEF OneTurn
    <3>3. Accounted(q)'
      BY <2>2, <3>1, <1>1, <1>2, <1>3 DEF Accounted, T!IsExecuted
    <3>4. QED
      BY <3>1, <3>2, <3>3, <1>1
  <2>3. QED
    BY <2>1, <2>2, <1>1 DEF LedgerIsTrue
<1>7. T!AnswersAreRecorded'
  BY <1>1, <1>2 DEF T!AnswersAreRecorded, TurnsHaveRequests, T!Statuses
<1>8. T!PausedInTurns'
  <2>1. CASE r = t /\ suppressed' = TRUE
    BY <2>1, <1>2, <1>3 DEF T!PausedInTurns, T!TypedUnderWay, T!Typed
  <2>2. CASE r \notin T!Turns /\ UNCHANGED suppressed
    <3>1. T!TypedUnderWay' = T!TypedUnderWay
      BY <2>2, <1>2, <1>3 DEF T!TypedUnderWay, T!Typed
    <3>2. QED
      BY <2>2, <1>1, <3>1 DEF T!PausedInTurns
  <2>3. QED
    BY <2>1, <2>2
<1>9. QED
  BY <1>4, <1>5, <1>6, <1>7, <1>8

-----------------------------------------------------------------------------
(* The steps of a plan.                                                    *)

\* A step of a turn that goes on changes nothing that the invariant speaks of.
LEMMA GoesStep ==
  ASSUME TurnsInv, NEW t \in T!Turns, T!Goes(t), UNCHANGED <<pc, executions>>
  PROVE  TurnsInv'
<1> USE DEF TurnsInv
<1>1. UNCHANGED <<request, answer, ledger, disk, suppressed, overlapped, torn, repeated,
                     unsaved>>
  BY DEF T!Goes, T!books, T!pause
<1>2. TurnTypes' /\ TurnsHaveRequests'
  BY <1>1 DEF TurnTypes, TurnsHaveRequests, T!UnderWay
<1>3. LedgerIsTrue'
  BY <1>1 DEF LedgerIsTrue, OneTurn, Accounted,
                T!IsExecuted, T!UnderWay
<1>4. T!AnswersAreRecorded' /\ T!PausedInTurns'
  BY <1>1 DEF T!AnswersAreRecorded, T!PausedInTurns, T!TypedUnderWay, T!UnderWay, T!Typed
<1>5. QED
  BY <1>2, <1>3, <1>4

\* The plan is ready: the request's execution is counted.
LEMMA PlanReadyStep ==
  ASSUME TurnsInv, NEW t \in T!Turns, NEW n \in 1 .. MaxSteps, T!PlanReady(t, n)
  PROVE  TurnsInv'
<1> USE DEF TurnsInv
<1> DEFINE r == request[t]
<1>1. /\ pc[t] = "planning" /\ pc' = [pc EXCEPT ![t] = "acting"]
      /\ executions' = [executions EXCEPT ![r] = @ + 1]
      /\ UNCHANGED <<request, answer, ledger, disk, suppressed, overlapped, torn, repeated,
                     unsaved>>
  BY DEF T!PlanReady, T!Goes, T!books, T!pause
<1>2. r \in T!Ids /\ (r \in T!Turns => r = t)
  BY <1>1 DEF TurnsHaveRequests, T!UnderWay, T!Awaits
<1>3. /\ T!UnderWay(t) /\ pc'[t] = "acting"
      /\ \A u \in T!Turns : T!UnderWay(u)' = T!UnderWay(u) /\ (u # t => pc'[u] = pc[u])
  BY <1>1 DEF T!UnderWay, T!Awaits, TurnTypes
<1>4. /\ executions'[r] = executions[r] + 1
      /\ \A q \in T!Ids : q # r => executions'[q] = executions[q]
  BY <1>1, <1>2 DEF TurnTypes
<1>5. TurnTypes'
  BY <1>1, <1>2 DEF TurnTypes, T!Awaits
<1>6. TurnsHaveRequests'
  <2>1. ASSUME NEW u \in T!Turns, pc'[u] = "free" PROVE executions'[u] = 0
    BY <2>1, <1>2, <1>3, <1>4 DEF TurnsHaveRequests, T!Ids
  <2>2. QED
    BY <2>1, <1>1, <1>3 DEF TurnsHaveRequests
<1>7. LedgerIsTrue'
  <2>1. ASSUME NEW q \in T!Ids, q \notin repeated \cup unsaved
        PROVE  OneTurn(q)' /\ Accounted(q)' /\ executions'[q] <= 1
    <3>1. OneTurn(q) /\ Accounted(q) /\ executions[q] <= 1
      BY <2>1 DEF LedgerIsTrue
    <3>2. OneTurn(q)'
      BY <3>1, <1>1, <1>3 DEF OneTurn
    <3>3. CASE q = r
      <4>1. executions[r] = 0
        BY <3>1, <3>3, <1>1 DEF Accounted
      <4>2. \A u \in T!Turns : ~(pc'[u] = "planning" /\ request[u] = r)
        BY <3>1, <3>3, <1>3 DEF OneTurn, T!UnderWay, T!Awaits
      <4>3. Accounted(q)'
        BY <3>3, <4>2, <1>1, <1>3 DEF Accounted
      <4>4. QED
        BY <3>2, <3>3, <4>1, <4>3, <1>4
    <3>4. CASE q # r
      <4>1. Accounted(q)'
        BY <3>1, <3>4, <1>1, <1>3, <1>4 DEF Accounted, T!IsExecuted
      <4>2. QED
        BY <3>1, <3>2, <3>4, <4>1, <1>4
    <3>5. QED
      BY <3>3, <3>4
  <2>2. QED
    BY <2>1, <1>1 DEF LedgerIsTrue
<1>8. T!AnswersAreRecorded' /\ T!PausedInTurns'
  BY <1>1, <1>3 DEF T!AnswersAreRecorded, T!PausedInTurns, T!TypedUnderWay, T!Typed
<1>9. QED
  BY <1>5, <1>6, <1>7, <1>8

-----------------------------------------------------------------------------
(* The end of a turn.                                                      *)

\* Whichever write throws, the entry is in the ledger, or the request is unsaved; the
\* answer is a status only if the entry is in the file.
LEMMA FinishEffect ==
  ASSUME TurnsInv, NEW t \in T!Turns, NEW s \in T!Statuses, T!Finish(t, s)
  PROVE  /\ ledger \subseteq ledger' /\ disk \subseteq disk' /\ disk' \subseteq ledger'
         /\ unsaved \subseteq unsaved'
         /\ <<request[t], s>> \in ledger' \/ request[t] \in unsaved'
         /\ \E a \in T!Statuses \cup {"rejected"} :
              /\ answer' = [answer EXCEPT ![t] = a]
              /\ a \in T!Statuses => <<request[t], a>> \in disk'
         /\ \/ T!Typed(t) /\ torn'
            \/ ~T!Typed(t) /\ UNCHANGED T!pause
            \/ /\ T!Typed(t) /\ suppressed' = FALSE /\ UNCHANGED torn
               /\ overlapped' = (overlapped \/ \E u \in T!Turns \ {t} : T!UnderWay(u) /\ T!Typed(u))
         /\ torn' \in BOOLEAN
<1> DEFINE r == request[t]
<1> DEFINE Answers(a) == /\ answer' = [answer EXCEPT ![t] = a]
                         /\ (a \in T!Statuses => <<r, a>> \in disk')
<1>1. disk \subseteq ledger /\ torn \in BOOLEAN
  BY DEF TurnsInv, TurnTypes
<1>2. ASSUME T!Reject(t)
      PROVE  /\ Answers("rejected") /\ torn' \in BOOLEAN
             /\ (T!Typed(t) /\ torn') \/ (~T!Typed(t) /\ UNCHANGED T!pause)
  <2>1. Answers("rejected")
    BY <1>2 DEF T!Reject, T!Statuses
  <2>2. torn' = (torn \/ T!Typed(t)) /\ UNCHANGED <<suppressed, overlapped>>
    BY <1>2 DEF T!Reject
  <2>3. CASE T!Typed(t)
    <3>1. torn' = TRUE
      BY <1>1, <2>2, <2>3 DEF T!Typed
    <3>2. QED
      BY <2>1, <2>3, <3>1
  <2>4. CASE ~T!Typed(t)
    BY <1>1, <2>1, <2>2, <2>4 DEF T!pause
  <2>5. QED
    BY <2>3, <2>4
<1>3. ASSUME NEW a, T!Return(t, r, a), (a = s /\ <<r, s>> \in disk') \/ a = "rejected"
      PROVE  /\ Answers(a) /\ a \in T!Statuses \cup {"rejected"} /\ torn' \in BOOLEAN
             /\ \/ ~T!Typed(t) /\ UNCHANGED T!pause
                \/ /\ T!Typed(t) /\ suppressed' = FALSE /\ UNCHANGED torn
                   /\ overlapped' = (overlapped \/ \E u \in T!Turns \ {t} : T!UnderWay(u) /\ T!Typed(u))
  BY <1>1, <1>3 DEF T!Return, T!Resumed, T!Typed, T!pause, T!Statuses
<1>4. CASE /\ T!Save(r, s) /\ UNCHANGED unsaved
           /\ T!Return(t, r, T!Told(t, s)) \/ T!Return(t, r, "rejected") \/ T!Reject(t)
  <2>1. ledger' = ledger \cup {<<r, s>>} /\ disk' = ledger'
    BY <1>4 DEF T!Save
  <2>2. T!Return(t, r, s) \/ T!Return(t, r, "rejected") \/ T!Reject(t)
    BY <1>4 DEF T!Told
  <2>3. QED
    BY <1>1, <1>2, <1>3, <1>4, <2>1, <2>2
<1>5. CASE T!SaveThrows(r, s) /\ T!Reject(t) /\ UNCHANGED unsaved
  BY <1>1, <1>2, <1>5 DEF T!SaveThrows
<1>6. CASE unsaved' = unsaved \cup {r} /\ UNCHANGED <<ledger, disk>> /\ T!Reject(t)
  BY <1>1, <1>2, <1>6
<1>7. QED
  BY <1>4, <1>5, <1>6 DEF T!Finish

LEMMA FinishStep ==
  ASSUME TurnsInv, NEW t \in T!Turns, T!UnderWay(t), NEW s \in T!Statuses, T!Finish(t, s),
         UNCHANGED executions
  PROVE  TurnsInv'
<1> USE DEF TurnsInv
<1> DEFINE r == request[t]
<1>1. pc' = [pc EXCEPT ![t] = "over"] /\ UNCHANGED <<request, repeated>>
  BY DEF T!Finish
<1>2. /\ pc'[t] = "over" /\ ~T!UnderWay(t)'
      /\ \A u \in T!Turns : u # t => pc'[u] = pc[u] /\ T!UnderWay(u)' = T!UnderWay(u)
  BY <1>1 DEF T!UnderWay, T!Awaits, TurnTypes
<1>3. PICK a \in T!Statuses \cup {"rejected"} :
        answer' = [answer EXCEPT ![t] = a] /\ (a \in T!Statuses => <<r, a>> \in disk')
  BY FinishEffect
<1>4. answer'[t] = a /\ \A u \in T!Turns : u # t => answer'[u] = answer[u]
  BY <1>3 DEF TurnTypes
<1>5. TurnTypes'
  BY <1>1, <1>3, FinishEffect DEF TurnTypes
<1>6. TurnsHaveRequests'
  BY <1>1, <1>2, <1>4 DEF TurnsHaveRequests
<1>7. LedgerIsTrue'
  <2>1. ASSUME NEW q \in T!Ids, q \notin repeated \cup unsaved'
        PROVE  OneTurn(q)' /\ Accounted(q)' /\ executions'[q] <= 1
    <3>1. OneTurn(q) /\ Accounted(q) /\ executions[q] <= 1
      BY <2>1, FinishEffect DEF LedgerIsTrue
    <3>2. OneTurn(q)'
      BY <3>1, <1>1, <1>2 DEF OneTurn
    <3>3. (q = r \/ T!IsExecuted(q)) => T!IsExecuted(q)'
      BY <2>1, FinishEffect DEF T!IsExecuted
    <3>4. Accounted(q)'
      BY <3>1, <3>3, <1>1, <1>2 DEF Accounted
    <3>5. QED
      BY <3>1, <3>2, <3>4
  <2>2. QED
    BY <2>1, <1>1 DEF LedgerIsTrue
<1>8. T!AnswersAreRecorded'
  BY <1>1, <1>3, <1>4, FinishEffect DEF T!AnswersAreRecorded
<1>9. T!PausedInTurns'
  <2>1. CASE T!Typed(t) /\ torn'
    BY <2>1 DEF T!PausedInTurns
  <2>2. CASE ~T!Typed(t) /\ UNCHANGED T!pause
    BY <2>2, <1>1, <1>2 DEF T!PausedInTurns, T!pause, T!TypedUnderWay, T!Typed
  <2>3. CASE /\ T!Typed(t) /\ suppressed' = FALSE /\ UNCHANGED torn
             /\ overlapped' = (overlapped \/ \E u \in T!Turns \ {t} : T!UnderWay(u) /\ T!Typed(u))
    <3>1. ~overlapped' => ~T!TypedUnderWay'
      BY <2>3, <1>1, <1>2 DEF T!TypedUnderWay, T!Typed
    <3>2. QED
      BY <2>3, <3>1 DEF T!PausedInTurns
  <2>4. QED
    BY <2>1, <2>2, <2>3, FinishEffect
<1>10. QED
  BY <1>5, <1>6, <1>7, <1>8, <1>9

-----------------------------------------------------------------------------
(* The process.                                                            *)

\* The turns under way are over, and what the file does not tell of is unsaved.
LEMMA RestartStep == ASSUME TurnsInv, T!Restart PROVE TurnsInv'
<1> USE DEF TurnsInv
<1>1. /\ ledger' = disk
      /\ suppressed' = FALSE /\ torn' = FALSE
      /\ UNCHANGED <<request, answer, disk, executions, repeated>>
  BY DEF T!Restart
<1>2. \A t \in T!Turns : ~T!UnderWay(t)' /\ pc'[t] = IF T!UnderWay(t) THEN "over" ELSE pc[t]
  BY DEF T!Restart, T!UnderWay, T!Awaits
<1>3. \A r \in T!Ids : r \notin unsaved' =>
        /\ r \notin unsaved
        /\ \A s \in T!Statuses : <<r, s>> \notin ledger \ disk
        /\ \A t \in T!Turns : ~(T!UnderWay(t) /\ request[t] = r)
  BY DEF T!Restart
<1>4. TurnTypes'
  <2>1. pc' \in [T!Turns -> T!Awaits \cup {"free", "over"}]
    BY DEF T!Restart, TurnTypes
  <2>2. QED
    BY <1>1, <2>1 DEF TurnTypes
<1>5. TurnsHaveRequests'
  BY <1>1, <1>2 DEF TurnsHaveRequests
<1>6. LedgerIsTrue'
  <2>1. ASSUME NEW r \in T!Ids, r \notin repeated \cup unsaved'
        PROVE  OneTurn(r)' /\ Accounted(r)' /\ executions'[r] <= 1
    <3>1. Accounted(r) /\ executions[r] <= 1
      BY <2>1, <1>3 DEF LedgerIsTrue
    <3>2. OneTurn(r)'
      BY <1>2 DEF OneTurn
    <3>3. T!IsExecuted(r) => T!IsExecuted(r)'
      BY <2>1, <1>1, <1>3 DEF T!IsExecuted
    <3>4. \A t \in T!Turns : pc'[t] \notin {"acting", "planning"}
      BY <1>2 DEF T!UnderWay, T!Awaits
    <3>5. \A t \in T!Turns : ~(pc[t] = "acting" /\ request[t] = r)
      BY <2>1, <1>3 DEF T!UnderWay, T!Awaits
    <3>6. Accounted(r)'
      BY <3>1, <3>3, <3>4, <3>5, <1>1 DEF Accounted
    <3>7. QED
      BY <3>1, <3>2, <3>6, <1>1
  <2>2. QED
    BY <2>1, <1>1 DEF LedgerIsTrue
<1>7. T!AnswersAreRecorded' /\ T!PausedInTurns'
  BY <1>1, <1>2 DEF T!AnswersAreRecorded, T!PausedInTurns, T!TypedUnderWay
<1>8. QED
  BY <1>4, <1>5, <1>6, <1>7

LEMMA ShutdownStep == ASSUME TurnsInv, T!Shutdown PROVE TurnsInv'
<1> USE DEF TurnsInv
<1>1. /\ UNCHANGED <<pc, request, answer, ledger, suppressed, overlapped, torn, executions,
                     repeated, unsaved>>
      /\ disk \subseteq disk' /\ disk' \subseteq ledger'
  BY DEF T!Shutdown, T!turn, T!pause, TurnTypes
<1>2. TurnTypes' /\ TurnsHaveRequests'
  BY <1>1 DEF TurnTypes, TurnsHaveRequests, T!UnderWay
<1>3. LedgerIsTrue'
  BY <1>1 DEF LedgerIsTrue, OneTurn, Accounted,
                T!IsExecuted, T!UnderWay
<1>4. T!AnswersAreRecorded' /\ T!PausedInTurns'
  BY <1>1 DEF T!AnswersAreRecorded, T!PausedInTurns, T!TypedUnderWay, T!UnderWay, T!Typed
<1>5. QED
  BY <1>2, <1>3, <1>4

LEMMA TurnsStep == ASSUME T!TurnAssumption PROVE TurnsInv /\ [T!Next]_(T!vars) => TurnsInv'
<1> SUFFICES ASSUME TurnsInv, [T!Next]_(T!vars) PROVE TurnsInv'
  OBVIOUS
<1>0. T!Turns \subseteq T!Ids /\ Requests \subseteq T!Ids /\ Requests \cap T!Turns = {}
  BY DEF T!TurnAssumption, T!Turns, T!Ids
<1>1. ASSUME NEW t \in T!Turns, T!HandleRequest(t) PROVE TurnsInv'
  BY <1>0, <1>1, AnswerStep, BeginStep DEF T!HandleRequest
<1>2. ASSUME NEW t \in T!Turns, NEW r \in Requests, T!HandleEnvelope(t, r) PROVE TurnsInv'
  BY <1>0, <1>2, AnswerStep, BeginStep DEF T!HandleEnvelope
<1>3. ASSUME NEW t \in T!Turns, NEW n \in 1 .. MaxSteps, T!PlanReady(t, n) PROVE TurnsInv'
  BY <1>3, PlanReadyStep
<1>4. ASSUME NEW t \in T!Turns, T!PlanFails(t) PROVE TurnsInv'
  BY <1>4, FinishStep DEF T!PlanFails, T!UnderWay, T!Awaits, T!Statuses
<1>5. ASSUME NEW t \in T!Turns, T!StepSucceeds(t) PROVE TurnsInv'
  <2>1. CASE left[t] > 1
    BY <1>5, <2>1, GoesStep DEF T!StepSucceeds
  <2>2. CASE ~(left[t] > 1)
    BY <1>5, <2>2, FinishStep DEF T!StepSucceeds, T!UnderWay, T!Awaits, T!Statuses
  <2>3. QED
    BY <2>1, <2>2
<1>6. ASSUME NEW t \in T!Turns, T!AttemptFails(t) PROVE TurnsInv'
  <2>1. CASE T!NextAttempt(t) <= MaxAttempts
    BY <1>6, <2>1, GoesStep DEF T!AttemptFails
  <2>2. CASE ~(T!NextAttempt(t) <= MaxAttempts)
    BY <1>6, <2>2, FinishStep DEF T!AttemptFails, T!StatusAfterFailure, T!UnderWay,
                                     T!Awaits, T!Statuses
  <2>3. QED
    BY <2>1, <2>2
<1>7. CASE UNCHANGED T!vars
  <2>1. UNCHANGED <<pc, request, answer, ledger, disk, suppressed, overlapped, torn, executions,
                    repeated, unsaved>>
    BY <1>7 DEF T!vars, T!turn, T!books, T!pause
  <2>2. QED
    BY <2>1, SMTT(30) DEF TurnsInv, TurnTypes, TurnsHaveRequests, LedgerIsTrue, OneTurn, Accounted,
                T!IsExecuted,
                T!AnswersAreRecorded, T!PausedInTurns, T!TypedUnderWay, T!UnderWay, T!Typed
<1>8. QED
  BY <1>1, <1>2, <1>3, <1>4, <1>5, <1>6, <1>7, ShutdownStep, RestartStep DEF T!Next, T!Progress

-----------------------------------------------------------------------------

\* A repeated request is executed once, whichever turn, write or restart comes between
\* (execution_ledger.ts:5), unless its turns cross or its execution was never saved.
THEOREM ExecutedOnce == ASSUME T!TurnAssumption PROVE T!Spec => []ExecutedOnceInOrder
<1>1. TurnsInv => ExecutedOnceInOrder
  BY DEF TurnsInv, LedgerIsTrue, ExecutedOnceInOrder, T!ExecutedOnceInOrder
<1>2. T!Init => TurnsInv
  BY TurnsInit
<1>3. TurnsInv /\ [T!Next]_(T!vars) => TurnsInv'
  BY TurnsStep
<1>4. QED
  BY <1>1, <1>2, <1>3, PTL DEF T!Spec

\* The outcome a caller was told is in the ledger's file for good.
THEOREM AnswersRecorded == ASSUME T!TurnAssumption PROVE T!Spec => []AnswersAreRecorded
<1>1. TurnsInv => AnswersAreRecorded
  BY DEF TurnsInv, AnswersAreRecorded
<1>2. T!Init => TurnsInv
  BY TurnsInit
<1>3. TurnsInv /\ [T!Next]_(T!vars) => TurnsInv'
  BY TurnsStep
<1>4. QED
  BY <1>1, <1>2, <1>3, PTL DEF T!Spec

\* Maintenance is paused exactly in typed turns, unless they overlap or one is rejected.
THEOREM Paused == ASSUME T!TurnAssumption PROVE T!Spec => []PausedInTurns
<1>1. TurnsInv => PausedInTurns
  BY DEF TurnsInv, PausedInTurns
<1>2. T!Init => TurnsInv
  BY TurnsInit
<1>3. TurnsInv /\ [T!Next]_(T!vars) => TurnsInv'
  BY TurnsStep
<1>4. QED
  BY <1>1, <1>2, <1>3, PTL DEF T!Spec

-----------------------------------------------------------------------------
(* The upgrades and their trials                                           *)

\* The host learns of a proposal when it is ready, and a trial is of one it learned of.
KnownWasValidated == listed \subseteq validated /\ current \in validated \cup {None}

\* A trial that is on was counted.
TrialIsCounted == state = "trial" => trial \in 1 .. MaxTrials

\* A verdict is of a proposal, unless it came after the trial was broken off.
VerdictIsOfOne == ~outrun /\ state # "idle" => current # None

TrialsHold == KnownWasValidated /\ VerdictIsOfOne /\ U!TriedWasValidated /\ U!VerdictsAgree

TrialsInv == U!TypeOK /\ TrialIsCounted /\ TrialsHold

-----------------------------------------------------------------------------

LEMMA TrialsInit == ASSUME U!TrialAssumption, U!Init PROVE TrialsInv
<1> USE DEF U!Init, U!TrialAssumption
<1>1. U!TypeOK /\ TrialIsCounted
  <2>1. /\ status \in [Proposals -> U!Statuses]
        /\ state \in {"idle", "trial", "accepted", "rolled_back"}
    BY DEF U!Statuses
  <2>2. /\ waiting \in [1 .. MaxTrials -> 0 .. MaxChecks]
        /\ trial \in 0 .. MaxTrials /\ appBoots \in 0 .. MaxAppBoots
    OBVIOUS
  <2>3. QED
    BY <2>1, <2>2 DEF U!TypeOK, TrialIsCounted
<1>2. TrialsHold
  BY DEF TrialsHold, KnownWasValidated, VerdictIsOfOne, U!TriedWasValidated,
                      U!VerdictsAgree
<1>3. QED
  BY <1>1, <1>2 DEF TrialsInv

\* What a proposal's new status has to satisfy.
LEMMA SetStatusTypes ==
  ASSUME U!TypeOK, NEW p \in Proposals, NEW s \in U!Statuses, U!SetStatus(p, s)
  PROVE  /\ status' \in [Proposals -> U!Statuses]
         /\ status'[p] = s /\ \A q \in Proposals : q # p => status'[q] = status[q]
<1>1. status \in [Proposals -> U!Statuses]
  BY DEF U!TypeOK
<1>2. QED
  BY <1>1 DEF U!SetStatus

\* The first two conjuncts of SetStatusTypes, for the current proposal if there is one.
LEMMA RollbackTypes ==
  ASSUME U!TrialAssumption, U!TypeOK, U!RollbackCurrent
  PROVE  /\ status' \in [Proposals -> U!Statuses]
         /\ \A q \in Proposals : status'[q] = IF q = current THEN "rolled_back" ELSE status[q]
<1>1. CASE current = None /\ UNCHANGED status
  BY <1>1 DEF U!TrialAssumption, U!TypeOK
<1>2. CASE current # None /\ U!SetStatus(current, "rolled_back")
  <2>1. current \in Proposals
    BY <1>2 DEF U!TypeOK
  <2>2. QED
    BY <1>2, <2>1, SetStatusTypes DEF U!Statuses
<1>3. QED
  BY <1>1, <1>2 DEF U!RollbackCurrent, U!Rollback

LEMMA FreshTypes ==
  ASSUME U!TrialAssumption, U!Fresh
  PROVE  /\ listed' = {} /\ state' = "idle" /\ current' = None /\ late' = FALSE
         /\ waiting' \in [1 .. MaxTrials -> 0 .. MaxChecks]
BY DEF U!TrialAssumption, U!Fresh

-----------------------------------------------------------------------------
(* Types.                                                                  *)

LEMMA TrialTypesStep ==
  ASSUME U!TrialAssumption, U!TypeOK, TrialIsCounted, [U!Next]_(U!vars)
  PROVE  U!TypeOK' /\ TrialIsCounted'
<1> USE DEF U!TrialAssumption
<1>1. ASSUME NEW p \in Proposals, U!Propose(p) \/ U!Build(p) PROVE U!TypeOK' /\ TrialIsCounted'
  <2>1. status' \in [Proposals -> U!Statuses]
    BY <1>1, SetStatusTypes DEF U!Propose, U!Build, U!Statuses
  <2>2. QED
    BY <1>1, <2>1 DEF U!Propose, U!Build, U!TypeOK, TrialIsCounted, U!manager, U!history
<1>2. ASSUME NEW p \in Proposals, NEW ok \in BOOLEAN, U!BuildEnds(p, ok)
      PROVE  U!TypeOK' /\ TrialIsCounted'
  <2>1. status' \in [Proposals -> U!Statuses]
    BY <1>2, SetStatusTypes DEF U!BuildEnds, U!AfterBuild, U!Statuses
  <2>2. validated' \subseteq Proposals
    BY <1>2 DEF U!BuildEnds, U!TypeOK
  <2>3. QED
    BY <1>2, <2>1, <2>2 DEF U!BuildEnds, U!TypeOK, TrialIsCounted, U!manager
<1>3. CASE U!ReadyUpgrades
  BY <1>3 DEF U!ReadyUpgrades, U!TypeOK, TrialIsCounted, U!manager, U!history
<1>4. ASSUME NEW p \in Proposals, U!StartTrial(p) PROVE U!TypeOK' /\ TrialIsCounted'
  <2>1. status' \in [Proposals -> U!Statuses]
    BY <1>4, SetStatusTypes DEF U!StartTrial, U!Statuses, U!TypeOK
  <2>2. trial' \in 1 .. MaxTrials /\ trial' \in 0 .. MaxTrials
    BY <1>4 DEF U!StartTrial, U!TypeOK
  <2>3. state' = "trial" /\ current' \in Proposals /\ untimely' \in BOOLEAN
    BY <1>4 DEF U!StartTrial, U!TypeOK
  <2>4. U!TypeOK'
    BY <1>4, <2>1, <2>2, <2>3 DEF U!StartTrial, U!TypeOK
  <2>5. QED
    BY <2>2, <2>4 DEF TrialIsCounted
<1>5. CASE U!UserAccepts \/ U!CheckExpires
  <2>1. status' \in [Proposals -> U!Statuses]
    BY <1>5, SetStatusTypes DEF U!UserAccepts, U!CheckExpires, U!Accept, U!Statuses, U!TypeOK
  <2>2. QED
    BY <1>5, <2>1 DEF U!UserAccepts, U!CheckExpires, U!Accept, U!TypeOK, TrialIsCounted, U!history
<1>6. CASE U!KeepCurrent
  BY <1>6 DEF U!KeepCurrent, U!TypeOK, TrialIsCounted
<1>7. CASE U!TimePasses
  BY <1>7 DEF U!TimePasses, U!TypeOK, TrialIsCounted, U!history
<1>8. CASE U!CheckBegins
  <2>1. waiting' \in [1 .. MaxTrials -> 0 .. MaxChecks]
    BY <1>8 DEF U!CheckBegins, U!TypeOK, TrialIsCounted
  <2>2. QED
    BY <1>8, <2>1 DEF U!CheckBegins, U!TypeOK, TrialIsCounted, U!history
<1>9. ASSUME NEW n \in 1 .. MaxTrials, NEW degraded \in BOOLEAN, U!CheckAnswers(n, degraded)
      PROVE  U!TypeOK' /\ TrialIsCounted'
  <2>1. waiting' \in [1 .. MaxTrials -> 0 .. MaxChecks]
    BY <1>9 DEF U!CheckAnswers, U!TypeOK
  <2>2. status' \in [Proposals -> U!Statuses] /\ (state' = state \/ state' = "rolled_back")
    BY <1>9, RollbackTypes DEF U!CheckAnswers, U!TypeOK
  <2>3. outrun' \in BOOLEAN
    BY <1>9 DEF U!CheckAnswers, U!TypeOK
  <2>4. QED
    BY <1>9, <2>1, <2>2, <2>3 DEF U!CheckAnswers, U!TypeOK, TrialIsCounted
<1>10. CASE U!Shutdown
  <2>1. status' \in [Proposals -> U!Statuses]
    BY <1>10, RollbackTypes DEF U!Shutdown, U!TypeOK
  <2>2. QED
    BY <1>10, <2>1, FreshTypes DEF U!Shutdown, U!TypeOK, TrialIsCounted, U!history
<1>11. CASE U!Crash
  <2>1. kept' \subseteq Proposals
    BY <1>11 DEF U!Crash, U!TypeOK
  <2>2. QED
    BY <1>11, <2>1, FreshTypes DEF U!Crash, U!TypeOK, TrialIsCounted
<1>12. CASE UNCHANGED U!vars
  BY <1>12 DEF U!vars, U!manager, U!history, U!TypeOK, TrialIsCounted
<1>13. QED
  BY <1>1, <1>2, <1>3, <1>4, <1>5, <1>6, <1>7, <1>8, <1>9, <1>10, <1>11, <1>12 DEF U!Next

-----------------------------------------------------------------------------
(* Trials and their verdicts.                                              *)

LEMMA TrialsHoldStep ==
  ASSUME U!TrialAssumption, U!TypeOK, TrialsHold, [U!Next]_(U!vars)
  PROVE  TrialsHold'
<1> USE DEF TrialsHold
\* A proposal that is not yet ready is not the one of the verdict.
<1>0. ASSUME NEW p \in Proposals, status[p] \in {"none", "proposed", "building"},
             ~untimely /\ ~outrun, state # "idle"
      PROVE  current # p /\ current \in Proposals
  BY <1>0 DEF U!VerdictsAgree, VerdictIsOfOne, U!TypeOK
<1>1. ASSUME NEW p \in Proposals, U!Propose(p) \/ U!Build(p) PROVE TrialsHold'
  <2>1. PICK s \in {"proposed", "building"} : U!SetStatus(p, s)
    BY <1>1 DEF U!Propose, U!Build
  <2>2. /\ status[p] \in {"none", "proposed"}
        /\ UNCHANGED <<listed, state, current, validated, kept, untimely, outrun>>
    BY <1>1 DEF U!Propose, U!Build, U!manager, U!history
  <2>3. status'[p] = s /\ \A q \in Proposals : q # p => status'[q] = status[q]
    BY <2>1, SetStatusTypes DEF U!Statuses
  <2>4. KnownWasValidated' /\ VerdictIsOfOne' /\ U!TriedWasValidated'
    BY <2>2, <2>3 DEF KnownWasValidated, VerdictIsOfOne, U!TriedWasValidated
  <2>5. U!VerdictsAgree'
    BY <1>0, <2>2, <2>3 DEF U!VerdictsAgree
  <2>6. QED
    BY <2>4, <2>5
<1>2. ASSUME NEW p \in Proposals, NEW ok \in BOOLEAN, U!BuildEnds(p, ok) PROVE TrialsHold'
  <2>1. /\ status[p] = "building" /\ U!SetStatus(p, IF ok THEN "ready" ELSE "rejected")
        /\ validated' = IF ok THEN validated \cup {p} ELSE validated
        /\ UNCHANGED <<listed, state, current, kept, untimely, outrun>>
    BY <1>2 DEF U!BuildEnds, U!AfterBuild, U!manager
  <2>2. /\ status'[p] = IF ok THEN "ready" ELSE "rejected"
        /\ \A q \in Proposals : q # p => status'[q] = status[q]
    BY <2>1, SetStatusTypes DEF U!Statuses
  <2>3. KnownWasValidated' /\ VerdictIsOfOne' /\ U!TriedWasValidated'
    BY <2>1, <2>2 DEF KnownWasValidated, VerdictIsOfOne, U!TriedWasValidated
  <2>4. U!VerdictsAgree'
    BY <1>0, <2>1, <2>2 DEF U!VerdictsAgree
  <2>5. QED
    BY <2>3, <2>4
<1>3. CASE U!ReadyUpgrades
  <2>1. /\ UNCHANGED <<status, state, current, validated, kept, untimely, outrun>>
        /\ listed' = listed \cup {p \in Proposals : status[p] = "ready"}
    BY <1>3 DEF U!ReadyUpgrades, U!manager, U!history
  <2>2. KnownWasValidated'
    BY <2>1 DEF KnownWasValidated, U!TriedWasValidated
  <2>3. QED
    BY <2>1, <2>2 DEF VerdictIsOfOne, U!TriedWasValidated,
                      U!VerdictsAgree
<1>4. ASSUME NEW p \in Proposals, U!StartTrial(p) PROVE TrialsHold'
  <2>1. /\ p \in listed /\ state # "trial" /\ state' = "trial" /\ current' = p
        /\ untimely' = (untimely \/ status[p] # "ready")
        /\ UNCHANGED <<listed, validated, kept, outrun>>
    BY <1>4 DEF U!StartTrial
  <2>2. KnownWasValidated' /\ VerdictIsOfOne'
    BY <2>1 DEF KnownWasValidated, VerdictIsOfOne, U!TrialAssumption
  <2>3. CASE status[p] = "ready"
    <3>1. U!SetStatus(p, "trial")
      BY <1>4, <2>3 DEF U!StartTrial
    <3>2. status'[p] = "trial" /\ \A q \in Proposals : q # p => status'[q] = status[q]
      BY <3>1, SetStatusTypes DEF U!Statuses
    <3>3. U!TriedWasValidated' /\ U!VerdictsAgree'
      BY <2>1, <2>3, <3>2 DEF KnownWasValidated, U!TriedWasValidated, U!VerdictsAgree, U!TypeOK
    <3>4. QED
      BY <2>2, <3>3
  <2>4. CASE status[p] # "ready"
    <3>1. UNCHANGED status
      BY <1>4, <2>4 DEF U!StartTrial
    <3>2. U!TriedWasValidated' /\ U!VerdictsAgree'
      BY <2>1, <2>4, <3>1 DEF U!TriedWasValidated, U!VerdictsAgree
    <3>3. QED
      BY <2>2, <3>2
  <2>5. QED
    BY <2>3, <2>4
<1>5. CASE U!UserAccepts \/ U!CheckExpires
  <2>1. /\ state = "trial" /\ state' = "accepted" /\ current \in Proposals
        /\ U!SetStatus(current, "accepted")
        /\ UNCHANGED <<listed, current, validated, kept, untimely, outrun>>
    BY <1>5 DEF U!UserAccepts, U!CheckExpires, U!Accept, U!history, U!TypeOK
  <2>2. /\ status'[current] = "accepted"
        /\ \A q \in Proposals : q # current => status'[q] = status[q]
    BY <2>1, SetStatusTypes DEF U!Statuses
  <2>3. KnownWasValidated' /\ VerdictIsOfOne' /\ U!TriedWasValidated'
    BY <2>1, <2>2 DEF KnownWasValidated, VerdictIsOfOne, U!TriedWasValidated, U!TypeOK,
                        U!TrialAssumption
  <2>4. U!VerdictsAgree'
    BY <2>1, <2>2 DEF U!VerdictsAgree
  <2>5. QED
    BY <2>3, <2>4
<1>6. CASE U!KeepCurrent
  BY <1>6 DEF U!KeepCurrent, KnownWasValidated, VerdictIsOfOne, U!TriedWasValidated,
                      U!VerdictsAgree
<1>7. CASE U!TimePasses \/ U!CheckBegins \/ UNCHANGED U!vars
  <2>1. UNCHANGED <<status, listed, state, current, validated, kept, untimely, outrun>>
    BY <1>7 DEF U!TimePasses, U!CheckBegins, U!vars, U!manager, U!history
  <2>2. QED
    BY <2>1 DEF KnownWasValidated, VerdictIsOfOne, U!TriedWasValidated,
                      U!VerdictsAgree
<1>8. ASSUME NEW n \in 1 .. MaxTrials, NEW degraded \in BOOLEAN, U!CheckAnswers(n, degraded)
      PROVE  TrialsHold'
  <2>1. /\ outrun' = (outrun \/ (degraded /\ ~(n = trial /\ state = "trial")))
        /\ UNCHANGED <<listed, current, validated, kept, untimely>>
    BY <1>8 DEF U!CheckAnswers
  <2>2. CASE degraded
    <3>1. U!RollbackCurrent /\ state' = "rolled_back"
      BY <1>8, <2>2 DEF U!CheckAnswers
    <3>2. \A q \in Proposals : status'[q] = IF q = current THEN "rolled_back" ELSE status[q]
      BY <3>1, RollbackTypes
    <3>3. KnownWasValidated' /\ U!TriedWasValidated'
      BY <2>1, <3>2 DEF KnownWasValidated, U!TriedWasValidated, U!TrialAssumption
    <3>4. ~outrun' => ~outrun /\ state = "trial" /\ current \in Proposals
      BY <2>1, <2>2 DEF U!TypeOK
    <3>5. VerdictIsOfOne' /\ U!VerdictsAgree'
      BY <2>1, <3>1, <3>2, <3>4 DEF VerdictIsOfOne, U!VerdictsAgree, U!TypeOK
    <3>6. QED
      BY <3>3, <3>5
  <2>3. CASE ~degraded
    <3>1. UNCHANGED <<status, state>>
      BY <1>8, <2>3 DEF U!CheckAnswers
    <3>2. outrun => outrun'
      BY <2>1
    <3>3. QED
      BY <2>1, <3>1, <3>2 DEF KnownWasValidated, VerdictIsOfOne, U!TriedWasValidated,
                      U!VerdictsAgree
  <2>4. QED
    BY <2>2, <2>3
<1>9. CASE U!Shutdown
  <2>1. /\ listed' = {} /\ state' = "idle" /\ current' = None
        /\ UNCHANGED <<validated, kept, untimely, outrun>>
    BY <1>9, FreshTypes DEF U!Shutdown, U!history
  <2>2. CASE state = "trial"
    <3>1. \A q \in Proposals : status'[q] = IF q = current THEN "rolled_back" ELSE status[q]
      BY <1>9, <2>2, RollbackTypes DEF U!Shutdown
    <3>2. QED
      BY <2>1, <2>2, <3>1 DEF KnownWasValidated, VerdictIsOfOne, U!TriedWasValidated,
                      U!VerdictsAgree,
                                  U!TrialAssumption
  <2>3. CASE state # "trial"
    <3>1. UNCHANGED status
      BY <1>9, <2>3 DEF U!Shutdown
    <3>2. QED
      BY <2>1, <2>3, <3>1 DEF KnownWasValidated, VerdictIsOfOne, U!TriedWasValidated,
                      U!VerdictsAgree
  <2>4. QED
    BY <2>2, <2>3
<1>10. CASE U!Crash
  <2>1. /\ listed' = {} /\ state' = "idle" /\ current' = None
        /\ kept' = IF state = "trial" THEN kept \cup {current} ELSE kept
        /\ UNCHANGED <<status, validated, untimely, outrun>>
    BY <1>10, FreshTypes DEF U!Crash
  <2>2. QED
    BY <2>1 DEF KnownWasValidated, VerdictIsOfOne, U!TriedWasValidated,
                      U!VerdictsAgree
<1>11. QED
  BY <1>1, <1>2, <1>3, <1>4, <1>5, <1>6, <1>7, <1>8, <1>9, <1>10 DEF U!Next

LEMMA TrialsStep == ASSUME U!TrialAssumption PROVE TrialsInv /\ [U!Next]_(U!vars) => TrialsInv'
BY TrialTypesStep, TrialsHoldStep DEF TrialsInv

-----------------------------------------------------------------------------

\* The values have their types in every state: what the file and the manager hold is one
\* of the statuses of the code, and no check is counted that did not begin.
THEOREM TrialTypesCorrect == ASSUME U!TrialAssumption PROVE U!Spec => []U!TypeOK
<1>1. TrialsInv => U!TypeOK
  BY DEF TrialsInv
<1>2. U!Init => TrialsInv
  BY TrialsInit
<1>3. TrialsInv /\ [U!Next]_(U!vars) => TrialsInv'
  BY TrialsStep
<1>4. QED
  BY <1>1, <1>2, <1>3, PTL DEF U!Spec

\* "It NEVER silently replaces production" (UpgradeEngine.ts:6): what is or was on trial
\* passed its validation, and the verdict in the file is the manager's.
THEOREM Trials == ASSUME U!TrialAssumption PROVE U!Spec => []TrialsAreSound
<1>1. TrialsInv => TrialsAreSound
  BY DEF TrialsInv, TrialsHold, TrialsAreSound, U!TrialsAreSound
<1>2. U!Init => TrialsInv
  BY TrialsInit
<1>3. TrialsInv /\ [U!Next]_(U!vars) => TrialsInv'
  BY TrialsStep
<1>4. QED
  BY <1>1, <1>2, <1>3, PTL DEF U!Spec

-----------------------------------------------------------------------------
(* The maintenance                                                         *)

Repairs == Tools \X S!Broken
Candidates == S!Sources \cup {None}
RepairRecords ==
  [at : {"none", "generate", "validate", "test"}, attempt : 0 .. MaxRetries - 1, source : Candidates]

\* A tool has at most one repair under way, which is in flight and has announced nothing
\* yet; the directory of a tool whose repair is tested holds the candidate of that repair.
UpkeepInv ==
  /\ repair \in [Repairs -> RepairRecords] /\ restarts \in 0 .. MaxRestarts
  /\ staging \in [Tools -> Candidates] /\ passed \in [Tools -> Candidates]
  /\ outcome \in [Tools -> Candidates]
  /\ \A r \in Repairs : repair[r].at # "none" => r[1] \in inFlight /\ outcome[r[1]] = None
  /\ \A q, r \in Repairs :
       repair[q].at # "none" /\ repair[r].at # "none" /\ q[1] = r[1] => q = r
  /\ \A r \in Repairs : repair[r].at = "test" => staging[r[1]] = repair[r].source
  /\ S!StagedIsTested

LEMMA NoRepairType == ASSUME S!MaintenanceAssumption PROVE S!NoRepair \in RepairRecords
  BY DEF S!MaintenanceAssumption, S!NoRepair, RepairRecords, Candidates

LEMMA UpkeepInit == ASSUME S!MaintenanceAssumption PROVE S!Init => UpkeepInv
<1> SUFFICES ASSUME S!Init PROVE UpkeepInv
  OBVIOUS
<1>1. repair \in [Repairs -> RepairRecords] /\ \A r \in Repairs : repair[r].at = "none"
  BY NoRepairType DEF S!Init, Repairs, S!NoRepair
<1>2. restarts \in 0 .. MaxRestarts
  BY DEF S!Init, S!MaintenanceAssumption
<1>3. \A t \in Tools : outcome[t] = None
  BY DEF S!Init
<1>4. QED
  BY <1>1, <1>2, <1>3 DEF S!Init, S!StagedIsTested, UpkeepInv, Candidates

\* The repair that a step is about is the only one of its tool.
LEMMA RepairAlone ==
  ASSUME UpkeepInv, NEW r \in Repairs, repair[r].at # "none"
  PROVE  /\ r[1] \in Tools /\ outcome[r[1]] = None /\ r[1] \in inFlight
         /\ \A q \in Repairs : q # r /\ repair[q].at # "none" => q[1] # r[1]
  BY DEF UpkeepInv, Repairs

\* A repair goes on to another stage, its tool's directory being changed or not.
LEMMA RepairGoesOn ==
  ASSUME UpkeepInv, NEW r \in Repairs, repair[r].at # "none", NEW next \in RepairRecords,
         repair' = [repair EXCEPT ![r] = next],
         NEW held \in Candidates, staging' = [staging EXCEPT ![r[1]] = held],
         next.at = "test" => next.source = held,
         UNCHANGED <<inFlight, passed, outcome, restarts>>
  PROVE  UpkeepInv'
<1>1. /\ r[1] \in Tools /\ outcome[r[1]] = None /\ r[1] \in inFlight
      /\ \A q \in Repairs : q # r /\ repair[q].at # "none" => q[1] # r[1]
  BY RepairAlone
<1>2. /\ repair' \in [Repairs -> RepairRecords] /\ staging' \in [Tools -> Candidates]
      /\ repair'[r] = next /\ \A q \in Repairs : q # r => repair'[q] = repair[q]
      /\ staging'[r[1]] = held /\ \A t \in Tools : t # r[1] => staging'[t] = staging[t]
  BY <1>1 DEF UpkeepInv
<1>3. \A q \in Repairs : q[1] \in Tools
  BY DEF Repairs
<1>4. \A q \in Repairs : repair'[q].at # "none" => repair[q].at # "none"
  BY <1>2
<1>5. \A q \in Repairs : repair'[q].at # "none" => q[1] \in inFlight' /\ outcome'[q[1]] = None
  BY <1>4 DEF UpkeepInv
<1>6. \A p, q \in Repairs :
        repair'[p].at # "none" /\ repair'[q].at # "none" /\ p[1] = q[1] => p = q
  BY <1>4 DEF UpkeepInv
<1>7. \A q \in Repairs : repair'[q].at = "test" => staging'[q[1]] = repair'[q].source
  <2> SUFFICES ASSUME NEW q \in Repairs, repair'[q].at = "test"
               PROVE  staging'[q[1]] = repair'[q].source
    OBVIOUS
  <2>1. CASE q = r
    BY <1>2, <2>1
  <2>2. CASE q # r
    <3>1. q[1] # r[1] /\ q[1] \in Tools /\ repair[q].at = "test" /\ repair'[q] = repair[q]
      BY <1>1, <1>2, <1>3, <1>4, <2>2
    <3>2. QED
      BY <1>2, <3>1 DEF UpkeepInv
  <2>3. QED
    BY <2>1, <2>2
<1>8. S!StagedIsTested'
  BY <1>1, <1>2 DEF UpkeepInv, S!StagedIsTested
<1>9. QED
  BY <1>2, <1>5, <1>6, <1>7, <1>8 DEF UpkeepInv

\* A repair ends, with a candidate that passed its test or without one.
LEMMA RepairEnds ==
  ASSUME UpkeepInv, S!MaintenanceAssumption, NEW r \in Repairs, repair[r].at # "none", S!Over(r),
         NEW held \in Candidates, staging' = [staging EXCEPT ![r[1]] = held],
         UNCHANGED restarts,
         \/ UNCHANGED <<passed, outcome>>
         \/ /\ held = staging[r[1]] /\ repair[r].at = "test"
            /\ passed' = [passed EXCEPT ![r[1]] = staging[r[1]]]
            /\ outcome' = [outcome EXCEPT ![r[1]] = repair[r].source]
  PROVE  UpkeepInv'
<1>1. /\ r[1] \in Tools /\ outcome[r[1]] = None /\ r[1] \in inFlight
      /\ \A q \in Repairs : q # r /\ repair[q].at # "none" => q[1] # r[1]
  BY RepairAlone
<1>2. /\ repair' \in [Repairs -> RepairRecords] /\ staging' \in [Tools -> Candidates]
      /\ repair'[r].at = "none" /\ \A q \in Repairs : q # r => repair'[q] = repair[q]
      /\ staging'[r[1]] = held /\ \A t \in Tools : t # r[1] => staging'[t] = staging[t]
      /\ inFlight' = inFlight \ {r[1]}
  BY <1>1, NoRepairType DEF UpkeepInv, S!Over, S!NoRepair
<1>3. \A q \in Repairs : q[1] \in Tools
  BY DEF Repairs
<1>4. \A q \in Repairs : repair'[q].at # "none" =>
        repair[q].at # "none" /\ repair'[q] = repair[q] /\ q[1] # r[1]
  BY <1>1, <1>2
<1>5. repair[r].source \in Candidates /\ staging[r[1]] \in Candidates
  BY <1>1 DEF UpkeepInv, RepairRecords
<1>6. /\ passed' \in [Tools -> Candidates] /\ outcome' \in [Tools -> Candidates]
      /\ \A t \in Tools : t # r[1] => passed'[t] = passed[t] /\ outcome'[t] = outcome[t]
  BY <1>1, <1>5 DEF UpkeepInv
<1>7. \A q \in Repairs : repair'[q].at # "none" => q[1] \in inFlight' /\ outcome'[q[1]] = None
  BY <1>2, <1>3, <1>4, <1>6 DEF UpkeepInv
<1>8. \A p, q \in Repairs :
        repair'[p].at # "none" /\ repair'[q].at # "none" /\ p[1] = q[1] => p = q
  BY <1>4 DEF UpkeepInv
<1>9. \A q \in Repairs : repair'[q].at = "test" => staging'[q[1]] = repair'[q].source
  BY <1>2, <1>3, <1>4 DEF UpkeepInv
<1>10. S!StagedIsTested'
  <2>1. ASSUME NEW t \in Tools, outcome'[t] # None
        PROVE  outcome'[t] = staging'[t] /\ staging'[t] = passed'[t]
    <3>1. CASE t # r[1]
      BY <1>2, <1>6, <2>1, <3>1 DEF UpkeepInv, S!StagedIsTested
    <3>2. CASE t = r[1]
      <4>1. /\ held = staging[r[1]] /\ repair[r].at = "test"
            /\ passed'[t] = staging[r[1]] /\ outcome'[t] = repair[r].source
        BY <1>1, <2>1, <3>2 DEF UpkeepInv
      <4>2. QED
        BY <1>2, <3>2, <4>1 DEF UpkeepInv
    <3>3. QED
      BY <3>1, <3>2
  <2>2. QED
    BY <2>1 DEF S!StagedIsTested
<1>11. QED
  BY <1>2, <1>6, <1>7, <1>8, <1>9, <1>10 DEF UpkeepInv

\* A scan starts one repair of a tool, the one for its health, and none of a tool in flight.
LEMMA ScanStep ==
  ASSUME UpkeepInv, S!MaintenanceAssumption, NEW python \in BOOLEAN, NEW provider \in BOOLEAN,
         S!Scan(python, provider)
  PROVE  UpkeepInv'
<1> DEFINE new == S!Batch(python, provider) \ findings
           begun == S!Started(new, provider)
           those == {r[1] : r \in begun}
<1>1. /\ repair' = [r \in Tools \X S!Broken |->
                      IF r \in begun THEN [S!NoRepair EXCEPT !.at = "generate"] ELSE repair[r]]
      /\ inFlight' = inFlight \cup those
      /\ outcome' = [t \in Tools |-> IF t \in those THEN None ELSE outcome[t]]
      /\ UNCHANGED <<staging, passed, restarts>>
  BY DEF S!Scan
<1>2. \A r \in begun : r \in Repairs /\ r[1] \notin inFlight /\ r[2] = S!Health(r[1])
  <2> SUFFICES ASSUME NEW r \in begun
               PROVE  r \in Repairs /\ r[1] \notin inFlight /\ r[2] = S!Health(r[1])
    OBVIOUS
  <2>1. r \in Repairs /\ r[1] \notin inFlight /\ <<"tool", r[1], r[2]>> \in S!Batch(python, provider)
    BY DEF S!Started, S!Free, Repairs
  <2>2. <<"tool", r[1], r[2]>> \notin S!Subsystems(python, provider)
    BY DEF S!Subsystems
  <2>3. \A n : <<"tool", r[1], r[2]>> # <<"errors", n>>
    OBVIOUS
  <2>4. PICK t \in S!BrokenTools : <<"tool", r[1], r[2]>> = <<"tool", t, S!Health(t)>>
    BY <2>1, <2>2, <2>3 DEF S!Batch
  <2>5. QED
    BY <2>1, <2>4
<1>3. \A q, r \in begun : q[1] = r[1] => q = r
  BY <1>2 DEF Repairs
<1> HIDE DEF new, begun
<1>4. [S!NoRepair EXCEPT !.at = "generate"] \in RepairRecords
  BY NoRepairType DEF RepairRecords
<1>5. /\ repair' \in [Repairs -> RepairRecords] /\ outcome' \in [Tools -> Candidates]
      /\ \A r \in begun : repair'[r].at = "generate" /\ outcome'[r[1]] = None
      /\ \A r \in Repairs \ begun : repair'[r] = repair[r]
  <2>1. \A r \in begun : r[1] \in those /\ r[1] \in Tools
    BY <1>2 DEF Repairs
  <2>2. repair' \in [Repairs -> RepairRecords]
    BY <1>1, <1>4 DEF UpkeepInv, Repairs
  <2>3. None \in Candidates
    BY DEF Candidates
  <2>4. outcome' \in [Tools -> Candidates]
    BY <1>1, <2>3 DEF UpkeepInv
  <2>5. \A r \in begun : repair'[r].at = "generate"
    BY <1>1, <1>2 DEF Repairs, S!NoRepair
  <2>6. \A r \in begun : outcome'[r[1]] = None
    BY <1>1, <2>1
  <2>7. \A r \in Repairs \ begun : repair'[r] = repair[r]
    BY <1>1 DEF Repairs
  <2>8. QED
    BY <2>2, <2>4, <2>5, <2>6, <2>7
<1>6. \A t \in Tools : outcome'[t] = None \/ outcome'[t] = outcome[t]
  BY <1>1
<1>7. \A r \in Repairs : r[1] \in Tools
  BY DEF Repairs
<1>8. \A r \in Repairs : repair'[r].at # "none" => r[1] \in inFlight' /\ outcome'[r[1]] = None
  BY <1>1, <1>5, <1>6, <1>7 DEF UpkeepInv
<1>9. \A q, r \in Repairs :
        repair'[q].at # "none" /\ repair'[r].at # "none" /\ q[1] = r[1] => q = r
  <2> SUFFICES ASSUME NEW q \in Repairs, NEW r \in Repairs, q[1] = r[1],
                      repair'[q].at # "none", repair'[r].at # "none"
               PROVE  q = r
    OBVIOUS
  <2>0. \A p \in Repairs \ begun : repair'[p].at # "none" => repair[p].at # "none" /\ p[1] \in inFlight
    <3> SUFFICES ASSUME NEW p \in Repairs \ begun, repair'[p].at # "none"
                 PROVE  repair[p].at # "none" /\ p[1] \in inFlight
      OBVIOUS
    <3>1. repair[p].at # "none"
      BY <1>5
    <3>2. QED
      BY <3>1 DEF UpkeepInv
  <2>1. CASE q \in begun /\ r \in begun
    BY <1>3, <2>1
  <2>2. CASE q \notin begun /\ r \notin begun
    BY <2>0, <2>2 DEF UpkeepInv
  <2>3. CASE q \in begun /\ r \notin begun
    BY <1>2, <2>0, <2>3
  <2>4. CASE q \notin begun /\ r \in begun
    BY <1>2, <2>0, <2>4
  <2>5. QED
    BY <2>1, <2>2, <2>3, <2>4
<1>10. \A r \in Repairs : repair'[r].at = "test" => staging'[r[1]] = repair'[r].source
  BY <1>1, <1>5 DEF UpkeepInv
<1>11. S!StagedIsTested'
  BY <1>1, <1>6 DEF UpkeepInv, S!StagedIsTested
<1>12. QED
  BY <1>1, <1>5, <1>8, <1>9, <1>10, <1>11 DEF UpkeepInv

\* A candidate that a provider answers with
LEMMA CandidateType ==
  ASSUME UpkeepInv, NEW r \in Repairs
  PROVE  <<r[1], r[2], repair[r].attempt, restarts>> \in Candidates
<1>1. r[1] \in Tools /\ r[2] \in S!Broken
  BY DEF Repairs
<1>2. repair[r].attempt \in 0 .. MaxRetries - 1 /\ restarts \in 0 .. MaxRestarts
  BY DEF UpkeepInv, RepairRecords
<1>3. QED
  BY <1>1, <1>2 DEF Candidates, S!Sources

LEMMA RetryStep ==
  ASSUME UpkeepInv, S!MaintenanceAssumption, NEW r \in Repairs, repair[r].at # "none", S!Retry(r),
         NEW held \in Candidates, staging' = [staging EXCEPT ![r[1]] = held],
         UNCHANGED <<passed, outcome, restarts>>
  PROVE  UpkeepInv'
<1>1. CASE S!Over(r)
  BY <1>1, RepairEnds
<1>2. CASE /\ repair[r].attempt + 1 < MaxRetries
           /\ repair' = [repair EXCEPT ![r] = [S!NoRepair EXCEPT !.at = "generate",
                                                   !.attempt = repair[r].attempt + 1]]
           /\ UNCHANGED inFlight
  <2> DEFINE next == [S!NoRepair EXCEPT !.at = "generate", !.attempt = repair[r].attempt + 1]
  <2>1. repair[r].attempt \in 0 .. MaxRetries - 1 /\ MaxRetries \in Nat
    BY DEF UpkeepInv, RepairRecords, S!MaintenanceAssumption
  <2>2. repair[r].attempt + 1 \in 0 .. MaxRetries - 1
    BY <1>2, <2>1
  <2>3. next \in RepairRecords /\ next.at = "generate"
    BY <2>2, NoRepairType DEF RepairRecords, S!NoRepair
  <2>4. repair' = [repair EXCEPT ![r] = next]
    BY <1>2
  <2> HIDE DEF next
  <2>5. QED
    BY <1>2, <2>3, <2>4, RepairGoesOn
<1>3. QED
  BY <1>1, <1>2 DEF S!Retry

LEMMA RepairStepStep ==
  ASSUME UpkeepInv, S!MaintenanceAssumption, NEW r \in Repairs, S!RepairStep(r)
  PROVE  UpkeepInv'
<1>0. repair[r] \in RepairRecords /\ r[1] \in Tools /\ staging[r[1]] \in Candidates
  BY DEF UpkeepInv, Repairs
<1>1. staging = [staging EXCEPT ![r[1]] = staging[r[1]]]
  BY DEF UpkeepInv
<1>2. S!unstaged' = S!unstaged => UNCHANGED <<passed, outcome, restarts>>
  BY DEF S!unstaged
<1>3. CASE S!Generated(r)
  <2>1. repair[r].at = "generate" /\ UNCHANGED <<passed, outcome, restarts, staging>>
    BY <1>2, <1>3 DEF S!Generated
  <2>2. CASE S!Retry(r)
    BY <1>0, <1>1, <2>1, <2>2, RetryStep
  <2>3. CASE /\ repair' = [repair EXCEPT ![r].at = "validate",
                             ![r].source = <<r[1], r[2], repair[r].attempt, restarts>>]
             /\ UNCHANGED inFlight
    <3> DEFINE next == [repair[r] EXCEPT !.at = "validate",
                          !.source = <<r[1], r[2], repair[r].attempt, restarts>>]
    <3>1. next \in RepairRecords /\ next.at = "validate"
      BY <1>0, CandidateType DEF RepairRecords
    <3>2. repair' = [repair EXCEPT ![r] = next]
      BY <2>3 DEF UpkeepInv
    <3> HIDE DEF next
    <3>3. QED
      BY <1>0, <1>1, <2>1, <2>3, <3>1, <3>2, RepairGoesOn
  <2>4. QED
    BY <1>3, <2>2, <2>3 DEF S!Generated
<1>4. CASE S!GenerateThrows(r)
  <2>1. repair[r].at = "generate" /\ S!Over(r) /\ UNCHANGED <<passed, outcome, restarts, staging>>
    BY <1>2, <1>4 DEF S!GenerateThrows
  <2>2. QED
    BY <1>0, <1>1, <2>1, RepairEnds
<1>5. CASE S!Refused(r)
  <2>1. repair[r].at = "validate" /\ S!Retry(r) /\ UNCHANGED <<passed, outcome, restarts, staging>>
    BY <1>2, <1>5 DEF S!Refused
  <2>2. QED
    BY <1>0, <1>1, <2>1, RetryStep
<1>6. CASE S!Stage(r)
  <2> DEFINE next == [repair[r] EXCEPT !.at = "test"]
  <2>1. /\ repair[r].at = "validate" /\ UNCHANGED <<passed, outcome, restarts, inFlight>>
        /\ staging' = [staging EXCEPT ![r[1]] = repair[r].source]
        /\ repair' = [repair EXCEPT ![r].at = "test"]
    BY <1>2, <1>6 DEF S!Stage
  <2>2. next \in RepairRecords /\ next.source = repair[r].source /\ repair[r].source \in Candidates
    BY <1>0 DEF RepairRecords
  <2>3. repair' = [repair EXCEPT ![r] = next]
    BY <2>1 DEF UpkeepInv
  <2> HIDE DEF next
  <2>4. QED
    BY <2>1, <2>2, <2>3, RepairGoesOn
<1>7. CASE S!HalfStaged(r)
  <2>1. /\ repair[r].at = "validate" /\ S!Retry(r) /\ UNCHANGED <<passed, outcome, restarts>>
        /\ staging' = [staging EXCEPT ![r[1]] = repair[r].source]
    BY <1>2, <1>7 DEF S!HalfStaged
  <2>2. repair[r].source \in Candidates
    BY <1>0 DEF RepairRecords
  <2>3. QED
    BY <2>1, <2>2, RetryStep
<1>8. CASE S!TestPasses(r)
  <2>1. /\ repair[r].at = "test" /\ S!Over(r) /\ UNCHANGED <<restarts, staging>>
        /\ passed' = [passed EXCEPT ![r[1]] = staging[r[1]]]
        /\ outcome' = [outcome EXCEPT ![r[1]] = repair[r].source]
    BY <1>8 DEF S!TestPasses
  <2>2. QED
    BY <1>0, <1>1, <2>1, RepairEnds
<1>9. CASE S!TestFails(r)
  <2>1. repair[r].at = "test" /\ S!Retry(r) /\ UNCHANGED <<passed, outcome, restarts, staging>>
    BY <1>2, <1>9 DEF S!TestFails
  <2>2. QED
    BY <1>0, <1>1, <2>1, RetryStep
<1>10. QED
  BY <1>3, <1>4, <1>5, <1>6, <1>7, <1>8, <1>9 DEF S!RepairStep

LEMMA UpkeepStep ==
  ASSUME S!MaintenanceAssumption PROVE UpkeepInv /\ [S!Next]_(S!vars) => UpkeepInv'
<1> SUFFICES ASSUME UpkeepInv, [S!Next]_(S!vars) PROVE UpkeepInv'
  OBVIOUS
<1>1. CASE UNCHANGED <<repair, inFlight, staging, passed, outcome, restarts>>
  BY <1>1 DEF UpkeepInv, S!StagedIsTested
<1>2. ASSUME NEW orderly \in BOOLEAN, S!Restart(orderly) PROVE UpkeepInv'
  <2>1. /\ restarts < MaxRestarts /\ restarts' = restarts + 1 /\ inFlight' = {}
        /\ repair' = [r \in Tools \X S!Broken |-> S!NoRepair]
        /\ outcome' = [t \in Tools |-> None] /\ UNCHANGED <<staging, passed>>
    BY <1>2 DEF S!Restart
  <2>2. restarts' \in 0 .. MaxRestarts
    <3>1. restarts \in 0 .. MaxRestarts /\ MaxRestarts \in Nat
      BY DEF UpkeepInv, S!MaintenanceAssumption
    <3>2. QED
      BY <2>1, <3>1
  <2>3. repair' \in [Repairs -> RepairRecords] /\ \A r \in Repairs : repair'[r].at = "none"
    BY <2>1, NoRepairType DEF Repairs, S!NoRepair
  <2>4. None \in Candidates /\ \A t \in Tools : outcome'[t] = None
    BY <2>1 DEF Candidates
  <2>5. QED
    BY <2>1, <2>2, <2>3, <2>4 DEF UpkeepInv, S!StagedIsTested
<1>3. CASE \E r \in Tools \X S!Broken : S!RepairStep(r)
  BY <1>3, RepairStepStep DEF Repairs
<1>4. CASE \E python, provider \in BOOLEAN : S!Scan(python, provider)
  BY <1>4, ScanStep
<1>5. CASE S!Request \/ S!Capture \/ S!Forgotten \/ \E t \in Tools, ok \in BOOLEAN : S!Execute(t, ok)
  BY <1>1, <1>5 DEF S!Request, S!Capture, S!Forgotten, S!Execute, S!others
<1>6. CASE UNCHANGED S!vars
  BY <1>1, <1>6 DEF S!vars
<1>7. QED
  BY <1>2, <1>3, <1>4, <1>5, <1>6 DEF S!Next

\* "promotes it to a STAGED candidate" (SelfMaintenanceCoordinator.ts): what was announced
\* for a tool is what its directory holds, and what passed its test there.
THEOREM StagedWasTested ==
  ASSUME S!MaintenanceAssumption PROVE S!Spec => []StagedIsTested
<1>1. UpkeepInv => StagedIsTested
  BY DEF UpkeepInv, StagedIsTested
<1>2. S!Init => UpkeepInv
  BY UpkeepInit
<1>3. UpkeepInv /\ [S!Next]_(S!vars) => UpkeepInv'
  BY UpkeepStep
<1>4. QED
  BY <1>1, <1>2, <1>3, PTL DEF S!Spec

-----------------------------------------------------------------------------
(* The forge                                                               *)

ForgedTools == [id : Seq(Nat), cap : Caps, says : BOOLEAN, src : Sources]
Entries == [tool : Sources, manifest : Sources \cup {None}, cap : Caps, says : BOOLEAN]
JobRecords ==
  [at : Forging \cup {"idle", "running"}, cap : Caps \cup {None}, tries : Nat, repairs : Nat,
   tool : ForgedTools \cup {None}, id : Seq(Nat) \cup {None}, src : Sources, says : BOOLEAN,
   copy : Sources \cup {None}]

\* The job works on files in the tools directory.
OnFiles(r) == r.at \in {"auditing", "testing"}

ForgeTypes ==
  /\ job \in [Jobs -> JobRecords]
  /\ \A j \in Jobs : /\ Working(j) => job[j].cap \in Caps
                     /\ OnFiles(job[j]) => job[j].id \in Seq(Nat)
  /\ library \subseteq ForgedTools /\ IsFiniteSet(library) /\ saved \subseteq library
  /\ dirs \in [DOMAIN dirs -> Entries] /\ DOMAIN dirs \subseteq Seq(Nat)
  /\ IsFiniteSet(DOMAIN dirs)
  /\ cache \in [Caps -> ForgedTools \cup {None}]
  /\ designs \in 0 .. MaxSources
  /\ forged \in [Caps -> Nat]

\* What job record r works on is what is in its directory, unless two use it.
HasItsFiles(r) ==
  OnFiles(r) => /\ r.id \in DOMAIN dirs
                /\ r.id \notin crossed => /\ dirs[r.id].tool = r.src /\ r.copy \in {None, r.src}
                                          /\ r.at = "testing" => r.src \in audited

FilesAreTheJobs ==
  /\ \A j \in Jobs : HasItsFiles(job[j])
  /\ \A j, k \in Jobs : OnFiles(job[j]) /\ OnFiles(job[k]) /\ job[j].id = job[k].id /\ j # k =>
       job[j].id \in crossed

\* A directory start-up would take for a tool is tested, or some forging is at it.
DirectoriesAreTested ==
  \A i \in DOMAIN dirs \ (crossed \cup abandoned) :
    dirs[i].tool \in audited \cap tested \/ \E j \in Jobs : i \in LeftBy(j)

\* A capability that is being forged has not been, and what was forged is found again.
FirstForging(c) ==
  /\ (\E j \in Jobs : job[j].at \in Forging /\ job[j].cap = c) => forged[c] = 0
  /\ forged[c] > 0 => cache[c] # None
  /\ forged[c] <= 1

ForgeInv ==
  /\ ForgeTypes /\ FilesAreTheJobs /\ DirectoriesAreTested
  /\ LibraryIsSound
  /\ \A c \in Caps \ rivals : FirstForging(c)

-----------------------------------------------------------------------------

LEMMA Least == ASSUME NEW Nums \in SUBSET Nat, Nums # {} PROVE \E n \in Nums : \A m \in Nums : n <= m
<1>1. PICK n \in Nums : \A m \in Nums : ~(<<m, n>> \in OpToRel(<, Nat))
  BY NatLessThanWellFounded, WFMin
<1>2. \A m \in Nums : ~(m < n)
  BY <1>1 DEF OpToRel
<1>3. QED
  BY <1>2

LEMMA Numbered ==
  ASSUME NEW s \in Seq(Nat), NEW m \in Nat, NEW n \in Nat
  PROVE  Append(s, n) \in Seq(Nat) /\ (Append(s, m) = Append(s, n) => m = n)
<1>1. Append(s, m)[Len(s) + 1] = m /\ Append(s, n)[Len(s) + 1] = n
  OBVIOUS
<1>2. QED
  BY <1>1

\* The id that ensureUniqueTechnical returns is free: one of the first Cardinality(library) + 1
\* numbered ones is.
LEMMA UniqueIsFree ==
  ASSUME ForgeTypes, NEW i \in Seq(Nat)
  PROVE  Unique(i) \in Seq(Nat) /\ Unique(i) \notin {r.id : r \in library}
<1> DEFINE Known == {r.id : r \in library}
           Free(n) == Append(i, n) \notin Known
           N == Cardinality(library)
           First(n) == Free(n) /\ \A m \in 2 .. n - 1 : ~Free(m)
<1>1. CASE i \notin Known
  BY <1>1 DEF Unique
<1>2. CASE i \in Known
  <2>1. IsFiniteSet(library) /\ N \in Nat
    BY FS_CardinalityType DEF ForgeTypes
  <2>2. \E n \in 2 .. N + 2 : Free(n)
    <3>1. SUFFICES ASSUME \A n \in 2 .. N + 2 : ~Free(n) PROVE FALSE
      OBVIOUS
    <3> DEFINE f == [n \in 2 .. N + 2 |-> CHOOSE r \in library : r.id = Append(i, n)]
    <3>2. \A n \in 2 .. N + 2 : f[n] \in library /\ f[n].id = Append(i, n)
      BY <3>1
    <3>3. f \in [2 .. N + 2 -> library]
      BY <3>2
    <3> HIDE DEF f, N
    <3>4. IsFiniteSet(2 .. N + 2) /\ Cardinality(2 .. N + 2) = N + 1
      <4>1. ASSUME NEW a \in Int, NEW b \in Int, ~(a > b)
            PROVE  IsFiniteSet(a .. b) /\ Cardinality(a .. b) = b - a + 1
        BY <4>1, FS_Interval
      <4>2. 2 \in Int /\ N + 2 \in Int /\ ~(2 > N + 2) /\ (N + 2) - 2 + 1 = N + 1
        BY <2>1
      <4>3. IsFiniteSet(2 .. N + 2) /\ Cardinality(2 .. N + 2) = (N + 2) - 2 + 1
        BY <4>1, <4>2, Zenon
      <4>4. QED
        BY <4>2, <4>3
    <3> USE DEF N
    <3>5. N < Cardinality(2 .. N + 2)
      BY <2>1, <3>4
    <3>6. PICK m, n \in 2 .. N + 2 : m # n /\ f[m] = f[n]
      BY <2>1, <3>3, <3>4, <3>5, FS_PigeonHole
    <3>7. Append(i, m) = Append(i, n)
      BY <3>2, <3>6
    <3>8. m \in Nat /\ n \in Nat
      BY <2>1
    <3>9. QED
      BY <3>6, <3>7, <3>8, Numbered
  <2> HIDE DEF N
  <2>3. \E n \in 2 .. N + 2 : First(n)
    <3> HIDE DEF Free
    <3> DEFINE Nums == {n \in 2 .. N + 2 : Free(n)}
    <3>1. Nums \in SUBSET Nat /\ Nums # {}
      BY <2>1, <2>2
    <3>2. PICK n \in Nums : \A m \in Nums : n <= m
      BY <3>1, Least
    <3>3. \A m \in 2 .. n - 1 : m \in 2 .. N + 2 /\ ~(n <= m)
      BY <2>1
    <3>4. QED
      BY <3>2, <3>3
  <2> DEFINE n == CHOOSE n \in 2 .. N + 2 : First(n)
  <2>4. n \in 2 .. N + 2 /\ Free(n)
    BY <2>3
  <2>5. n \in Nat
    BY <2>1, <2>4
  <2>6. Unique(i) = Append(i, n)
    BY <1>2 DEF Unique, N
  <2> HIDE DEF n
  <2>7. QED
    BY <2>4, <2>5, <2>6, Numbered
<1>3. QED
  BY <1>1, <1>2

LEMMA ForgeBegins == ASSUME Init PROVE ForgeInv
<1> USE ForgeAssumption DEF Init
<1>1. Idle \in JobRecords /\ Idle.at = "idle" /\ 0 \in 0 .. MaxSources
  BY DEF Idle, JobRecords, Sources
<1>2. ForgeTypes
  <2>1. job \in [Jobs -> JobRecords] /\ \A j \in Jobs : ~Working(j) /\ ~OnFiles(job[j])
    BY <1>1 DEF Working, OnFiles
  <2>2. DOMAIN dirs = {} /\ dirs \in [DOMAIN dirs -> Entries] /\ IsFiniteSet({})
    BY FS_EmptySet
  <2>3. cache \in [Caps -> ForgedTools \cup {None}] /\ forged \in [Caps -> Nat]
    OBVIOUS
  <2>4. QED
    BY <1>1, <2>1, <2>2, <2>3 DEF ForgeTypes
<1>3. FilesAreTheJobs /\ DirectoriesAreTested
  BY <1>1 DEF FilesAreTheJobs, DirectoriesAreTested, HasItsFiles, OnFiles
<1>4. LibraryIsSound
  BY DEF LibraryIsSound, ToolsAreTested, OneToolPerName
<1>5. \A c \in Caps \ rivals : FirstForging(c)
  BY <1>1 DEF FirstForging, Forging
<1>6. QED
  BY <1>2, <1>3, <1>4, <1>5 DEF ForgeInv

\* A job goes on with record r, and no file changes.  If it leaves its directory, the
\* directory is abandoned.
LEMMA JobMoves ==
  ASSUME ForgeInv, NEW j \in Jobs, NEW r \in JobRecords,
         job' = [job EXCEPT ![j] = r],
         UNCHANGED <<library, saved, dirs, cache, designs, crossed, forged, rivals>>,
         abandoned \subseteq abandoned', audited \subseteq audited', tested \subseteq tested',
         r.at # "idle" => r.cap \in Caps,
         r.at \in Forging => r.cap \in rivals \/ forged[r.cap] = 0,
         LeftBy(j) \subseteq abandoned' \/ (r.at \in Forging /\ r.id = job[j].id),
         OnFiles(r) => /\ OnFiles(job[j]) /\ r.id = job[j].id /\ r.src = job[j].src
                       /\ r.id \notin crossed => /\ r.copy \in {None, r.src}
                                                 /\ r.at = "testing" => r.src \in audited'
  PROVE  ForgeInv'
<1>1. /\ job'[j] = r /\ \A k \in Jobs \ {j} : job'[k] = job[k]
      /\ job' \in [Jobs -> JobRecords]
  BY DEF ForgeInv, ForgeTypes
<1>2. ForgeTypes'
  <2>1. \A k \in Jobs : /\ Working(k)' => job'[k].cap \in Caps
                        /\ OnFiles(job[k])' => job'[k].id \in Seq(Nat)
    BY <1>1 DEF ForgeInv, ForgeTypes, Working, OnFiles
  <2>2. QED
    BY <1>1, <2>1 DEF ForgeInv, ForgeTypes
<1>3. FilesAreTheJobs'
  <2>1. \A k \in Jobs \ {j} : HasItsFiles(job[k])'
    BY <1>1 DEF ForgeInv, FilesAreTheJobs, HasItsFiles
  <2>2. HasItsFiles(job[j])'
    BY <1>1 DEF ForgeInv, FilesAreTheJobs, HasItsFiles, OnFiles
  <2>3. \A k \in Jobs : OnFiles(job'[k]) => OnFiles(job[k]) /\ job'[k].id = job[k].id
    BY <1>1
  <2>4. QED
    BY <2>1, <2>2, <2>3 DEF ForgeInv, FilesAreTheJobs, OnFiles
<1>4. DirectoriesAreTested'
  <2>1. SUFFICES ASSUME NEW i \in DOMAIN dirs, i \notin crossed, i \notin abandoned',
                        ~(dirs[i].tool \in audited' \cap tested')
                 PROVE  \E k \in Jobs : i \in LeftBy(k)'
    BY DEF DirectoriesAreTested
  <2>2. PICK k \in Jobs : i \in LeftBy(k)
    BY <2>1 DEF ForgeInv, DirectoriesAreTested
  <2>3. CASE k # j
    BY <1>1, <2>2, <2>3 DEF LeftBy
  <2>4. CASE k = j
    BY <1>1, <2>1, <2>2, <2>4 DEF LeftBy
  <2>5. QED
    BY <2>3, <2>4
<1>5. LibraryIsSound'
  BY DEF ForgeInv, LibraryIsSound, ToolsAreTested, OneToolPerName
<1>6. \A c \in Caps \ rivals' : FirstForging(c)'
  BY <1>1 DEF ForgeInv, FirstForging
<1>7. QED
  BY <1>2, <1>3, <1>4, <1>5, <1>6 DEF ForgeInv

\* A design is written into a directory that no tool of the library has.
LEMMA WriteStep ==
  ASSUME ForgeInv, NEW j \in Jobs, NEW rec \in JobRecords, rec.cap \in Caps, NEW p \in Proposed,
         NEW src \in Sources, NEW says \in BOOLEAN, NEW gone, abandoned \subseteq gone,
         LeftBy(j) \subseteq gone, rec.cap \in rivals \/ forged[rec.cap] = 0,
         WriteArtifacts(j, rec, p, src, says, gone), designs' \in 0 .. MaxSources, Rest
  PROVE  ForgeInv'
<1> DEFINE i == Unique(p)
           r == [rec EXCEPT !.at = "auditing", !.id = i, !.src = src, !.says = says, !.copy = None]
           entry == [tool |-> src, manifest |-> src, cap |-> rec.cap, says |-> says]
<1>1. i \in Seq(Nat) /\ i \notin {s.id : s \in library}
  BY ForgeAssumption, UniqueIsFree DEF ForgeInv
<1>2. /\ job' = [job EXCEPT ![j] = r]
      /\ dirs' = [x \in DOMAIN dirs \cup {i} |-> IF x = i THEN entry ELSE dirs[x]]
      /\ crossed' = (crossed \ {i}) \cup (Held(j) \cap {i})
      /\ abandoned' = gone \ {i}
      /\ UNCHANGED <<library, saved, cache, audited, tested, forged, rivals>>
  BY DEF WriteArtifacts, Rest
<1> HIDE DEF i
<1>3. /\ r \in JobRecords /\ r.at = "auditing" /\ r.id = i /\ r.src = src /\ r.copy = None
      /\ r.cap = rec.cap
  BY <1>1 DEF JobRecords, Forging
<1>4. entry \in Entries /\ entry.tool = src
  BY DEF Entries
<1> HIDE DEF r, entry
<1>5. /\ job'[j] = r /\ \A k \in Jobs \ {j} : job'[k] = job[k]
      /\ job' \in [Jobs -> JobRecords]
  BY <1>2, <1>3 DEF ForgeInv, ForgeTypes
<1>6. /\ DOMAIN dirs' = DOMAIN dirs \cup {i} /\ dirs'[i] = entry
      /\ \A x \in DOMAIN dirs \ {i} : dirs'[x] = dirs[x]
  BY <1>2
<1>7. ForgeTypes'
  <2>1. \A k \in Jobs : /\ Working(k)' => job'[k].cap \in Caps
                        /\ OnFiles(job[k])' => job'[k].id \in Seq(Nat)
    BY <1>1, <1>3, <1>5 DEF ForgeInv, ForgeTypes, Working, OnFiles
  <2>2. dirs' \in [DOMAIN dirs' -> Entries] /\ DOMAIN dirs' \subseteq Seq(Nat)
    BY <1>1, <1>2, <1>4, <1>6 DEF ForgeInv, ForgeTypes
  <2>3. IsFiniteSet(DOMAIN dirs')
    <3>1. IsFiniteSet(DOMAIN dirs)
      BY DEF ForgeInv, ForgeTypes
    <3>2. IsFiniteSet(DOMAIN dirs \cup {i})
      BY <3>1, FS_AddElement
    <3>3. QED
      BY <1>6, <3>2
  <2>4. QED
    BY <1>2, <1>5, <2>1, <2>2, <2>3 DEF ForgeInv, ForgeTypes
<1>8. \A k \in Jobs \ {j} : OnFiles(job[k]) /\ job[k].id = i => i \in crossed'
  BY <1>2 DEF Held, OnFiles
<1>9. \A x : x # i => (x \in crossed' <=> x \in crossed) /\ (x \in abandoned' <=> x \in gone)
  BY <1>2
<1>10. FilesAreTheJobs'
  <2>1. HasItsFiles(job[j])'
    BY <1>3, <1>4, <1>5, <1>6 DEF HasItsFiles
  <2>2. \A k \in Jobs \ {j} : HasItsFiles(job[k])'
    <3>1. SUFFICES ASSUME NEW k \in Jobs \ {j} PROVE HasItsFiles(job[k])'
      OBVIOUS
    <3>2. HasItsFiles(job[k])
      BY DEF ForgeInv, FilesAreTheJobs
    <3>3. CASE job[k].id = i
      BY <1>2, <1>5, <1>6, <1>8, <3>2, <3>3 DEF HasItsFiles, OnFiles
    <3>4. CASE job[k].id # i
      BY <1>2, <1>5, <1>6, <1>9, <3>2, <3>4 DEF HasItsFiles, OnFiles
    <3>5. QED
      BY <3>3, <3>4
  <2>3. ASSUME NEW k \in Jobs, NEW l \in Jobs, OnFiles(job'[k]), OnFiles(job'[l]),
               job'[k].id = job'[l].id, k # l
        PROVE  job'[k].id \in crossed'
    <3>1. CASE k = j
      BY <1>3, <1>5, <1>8, <2>3, <3>1
    <3>2. CASE l = j
      BY <1>3, <1>5, <1>8, <2>3, <3>2
    <3>3. CASE k # j /\ l # j
      <4>1. job'[k] = job[k] /\ job'[l] = job[l]
        BY <1>5, <3>3
      <4>2. job[k].id \in crossed
        BY <2>3, <4>1 DEF ForgeInv, FilesAreTheJobs
      <4>3. QED
        BY <1>8, <1>9, <2>3, <3>3, <4>1, <4>2
    <3>4. QED
      BY <3>1, <3>2, <3>3
  <2>4. QED
    BY <2>1, <2>2, <2>3 DEF FilesAreTheJobs, OnFiles
<1>11. DirectoriesAreTested'
  <2>1. SUFFICES ASSUME NEW x \in DOMAIN dirs', x \notin crossed', x \notin abandoned',
                        ~(dirs'[x].tool \in audited' \cap tested')
                 PROVE  \E k \in Jobs : x \in LeftBy(k)'
    BY DEF DirectoriesAreTested
  <2>2. CASE x = i
    <3>1. i # None
      BY <1>1, ForgeAssumption
    <3>2. i \in LeftBy(j)'
      BY <1>3, <1>5, <3>1 DEF LeftBy, Forging
    <3>3. QED
      BY <2>2, <3>2
  <2>3. CASE x # i
    <3>1. x \in DOMAIN dirs /\ x \notin crossed /\ x \notin gone /\ dirs'[x] = dirs[x]
      BY <1>6, <1>9, <2>1, <2>3
    <3>2. PICK k \in Jobs : x \in LeftBy(k)
      BY <1>2, <2>1, <3>1 DEF ForgeInv, DirectoriesAreTested
    <3>3. k # j
      BY <3>1, <3>2
    <3>4. QED
      BY <1>5, <3>2, <3>3 DEF LeftBy
  <2>4. QED
    BY <2>2, <2>3
<1>12. LibraryIsSound'
  <2>1. \A s \in library : s.id # i
    BY <1>1
  <2>2. ToolsAreTested'
    BY <1>2, <1>6, <1>9, <2>1 DEF ForgeInv, LibraryIsSound, ToolsAreTested
  <2>3. QED
    BY <1>2, <2>2 DEF ForgeInv, LibraryIsSound, OneToolPerName
<1>13. \A c \in Caps \ rivals' : FirstForging(c)'
  BY <1>2, <1>3, <1>5 DEF ForgeInv, FirstForging
<1>14. QED
  BY <1>7, <1>10, <1>11, <1>12, <1>13 DEF ForgeInv

\* The tool that is put into the library is the one that was tested.
LEMMA RegisterStep ==
  ASSUME ForgeInv, NEW j \in Jobs, job[j].at = "testing", job[j].copy # None,
         tested' = tested \cup {job[j].copy}, Register(j)
  PROVE  ForgeInv'
<1> DEFINE old == job[j]
           i == RegisteredId(old.id)
           c == old.cap
           tool == [id |-> i, cap |-> c, says |-> old.says,
                    src |-> IF i \in DOMAIN dirs THEN dirs[i].tool ELSE old.src]
           r == [Idle EXCEPT !.at = "running", !.cap = c, !.tries = old.tries, !.tool = tool]
<1>1. /\ old \in JobRecords /\ OnFiles(old) /\ old.id \in Seq(Nat) /\ c \in Caps
      /\ HasItsFiles(old)
  BY DEF ForgeInv, ForgeTypes, FilesAreTheJobs, OnFiles, Working
<1>2. i \in Seq(Nat) /\ i \notin {s.id : s \in library}
  BY <1>1, UniqueIsFree DEF ForgeInv, RegisteredId
<1>3. /\ library' = library \cup {tool}
      /\ cache' = [cache EXCEPT ![c] = tool]
      /\ job' = [job EXCEPT ![j] = r]
      /\ forged' = [forged EXCEPT ![c] = @ + 1]
      /\ rivals' = IF \E k \in Jobs \ {j} : job[k].at \in Forging /\ job[k].cap = c
                   THEN rivals \cup {c} ELSE rivals
      /\ crossed' = IF i = old.id THEN crossed ELSE crossed \cup {i}
      /\ UNCHANGED <<saved, dirs, designs, ends, audited, abandoned>>
  BY DEF Register
<1> HIDE DEF i
<1>4. tool \in ForgedTools /\ tool.id = i
  BY <1>1, <1>2 DEF ForgeInv, ForgeTypes, ForgedTools, Entries, JobRecords
<1>5. tool # None
  BY <1>4, ForgeAssumption DEF ForgedTools, Sources
<1> HIDE DEF tool
<1>6. r \in JobRecords /\ r.at = "running" /\ r.cap = c
  <2>1. Idle \in JobRecords
    BY ForgeAssumption DEF Idle, JobRecords, Sources
  <2>2. old.tries \in Nat /\ c \in Caps \cup {None} /\ tool \in ForgedTools \cup {None}
    BY <1>1, <1>4 DEF JobRecords
  <2>3. QED
    BY <2>1, <2>2 DEF JobRecords
<1> HIDE DEF r
<1>7. /\ job'[j] = r /\ \A k \in Jobs \ {j} : job'[k] = job[k]
      /\ job' \in [Jobs -> JobRecords]
  BY <1>3, <1>6 DEF ForgeInv, ForgeTypes
<1>8. ~OnFiles(r) /\ r.at \notin Forging
  BY <1>6 DEF OnFiles, Forging
<1>9. ForgeTypes'
  <2>1. \A k \in Jobs : /\ Working(k)' => job'[k].cap \in Caps
                        /\ OnFiles(job[k])' => job'[k].id \in Seq(Nat)
    BY <1>1, <1>6, <1>7, <1>8 DEF ForgeInv, ForgeTypes, Working, OnFiles
  <2>2. library' \subseteq ForgedTools /\ saved' \subseteq library'
    BY <1>3, <1>4 DEF ForgeInv, ForgeTypes
  <2>3. IsFiniteSet(library')
    BY <1>3, FS_AddElement DEF ForgeInv, ForgeTypes
  <2>4. cache' \in [Caps -> ForgedTools \cup {None}] /\ forged' \in [Caps -> Nat]
    <3>1. cache \in [Caps -> ForgedTools \cup {None}] /\ forged \in [Caps -> Nat]
      BY DEF ForgeInv, ForgeTypes
    <3>2. forged[c] + 1 \in Nat
      BY <1>1, <3>1
    <3>3. QED
      BY <1>1, <1>3, <1>4, <3>1, <3>2
  <2>5. QED
    BY <1>3, <1>7, <2>1, <2>2, <2>3, <2>4 DEF ForgeInv, ForgeTypes
<1>10. crossed \subseteq crossed' /\ tested \subseteq tested'
  BY <1>3
<1>11. FilesAreTheJobs'
  <2>1. \A k \in Jobs \ {j} : HasItsFiles(job[k])'
    BY <1>3, <1>7, <1>10 DEF ForgeInv, FilesAreTheJobs, HasItsFiles
  <2>2. HasItsFiles(job[j])'
    BY <1>7, <1>8 DEF HasItsFiles, OnFiles
  <2>3. \A k \in Jobs : OnFiles(job'[k]) => k # j /\ job'[k] = job[k]
    BY <1>7, <1>8
  <2>4. QED
    BY <1>10, <2>1, <2>2, <2>3 DEF ForgeInv, FilesAreTheJobs, OnFiles
<1>12. old.id \notin crossed =>
         old.id \in DOMAIN dirs /\ dirs[old.id].tool \in audited' \cap tested'
  BY <1>1, <1>3 DEF HasItsFiles, OnFiles
<1>13. DirectoriesAreTested'
  <2>1. SUFFICES ASSUME NEW x \in DOMAIN dirs, x \notin crossed', x \notin abandoned,
                        ~(dirs[x].tool \in audited' \cap tested')
                 PROVE  \E k \in Jobs : x \in LeftBy(k)'
    BY <1>3 DEF DirectoriesAreTested
  <2>2. PICK k \in Jobs : x \in LeftBy(k)
    BY <1>3, <1>10, <2>1 DEF ForgeInv, DirectoriesAreTested
  <2>3. k # j
    BY <1>10, <1>12, <2>1, <2>2 DEF LeftBy
  <2>4. QED
    BY <1>7, <2>2, <2>3 DEF LeftBy
<1>14. LibraryIsSound'
  <2>1. ToolsAreTested'
    <3>1. SUFFICES ASSUME NEW s \in library', s.id \notin crossed', s.id \notin abandoned
                   PROVE  s.id \in DOMAIN dirs /\ dirs[s.id].tool \in audited' \cap tested'
      BY <1>3 DEF ToolsAreTested
    <3>2. CASE s \in library
      BY <1>3, <1>10, <3>1, <3>2 DEF ForgeInv, LibraryIsSound, ToolsAreTested
    <3>3. CASE s = tool
      <4>1. i = old.id
        BY <1>3, <1>4, <3>1, <3>3
      <4>2. QED
        BY <1>4, <1>10, <1>12, <3>1, <3>3, <4>1
    <3>4. QED
      BY <1>3, <3>2, <3>3
  <2>2. OneToolPerName'
    BY <1>2, <1>3, <1>4 DEF ForgeInv, LibraryIsSound, OneToolPerName
  <2>3. QED
    BY <2>1, <2>2 DEF LibraryIsSound
<1>15. \A d \in Caps \ rivals' : FirstForging(d)'
  <2>1. SUFFICES ASSUME NEW d \in Caps, d \notin rivals' PROVE FirstForging(d)'
    OBVIOUS
  <2>2. d \notin rivals
    BY <1>3, <2>1
  <2>3. FirstForging(d)
    BY <2>2 DEF ForgeInv
  <2>4. CASE d # c
    <3>1. forged'[d] = forged[d] /\ cache'[d] = cache[d]
      BY <1>3, <2>4 DEF ForgeInv, ForgeTypes
    <3>2. \A k \in Jobs : job'[k].at \in Forging => job'[k] = job[k]
      BY <1>7, <1>8
    <3>3. QED
      BY <2>3, <3>1, <3>2 DEF FirstForging
  <2>5. CASE d = c
    <3>1. \A k \in Jobs \ {j} : ~(job[k].at \in Forging /\ job[k].cap = c)
      BY <1>3, <2>1, <2>5
    <3>2. \A k \in Jobs : ~(job'[k].at \in Forging /\ job'[k].cap = c)
      BY <1>7, <1>8, <3>1
    <3>3. forged[c] = 0
      BY <2>3, <2>5 DEF FirstForging, Forging
    <3>4. forged'[c] = 1 /\ cache'[c] = tool
      BY <1>1, <1>3, <3>3 DEF ForgeInv, ForgeTypes
    <3>5. QED
      BY <1>5, <2>5, <3>2, <3>4 DEF FirstForging
  <2>6. QED
    BY <2>4, <2>5
<1>16. QED
  BY <1>9, <1>11, <1>13, <1>14, <1>15 DEF ForgeInv

\* After a restart every directory that a forging was at is one that was abandoned.
LEMMA RestartKeeps ==
  ASSUME ForgeInv, NEW base, NEW files, NEW cutOff, base \in {library, saved},
         files \in [DOMAIN files -> Entries], DOMAIN files \subseteq Seq(Nat),
         IsFiniteSet(DOMAIN files), DOMAIN dirs \subseteq DOMAIN files,
         \A i \in DOMAIN files \ cutOff : i \in DOMAIN dirs /\ files[i] = dirs[i],
         designs' \in 0 .. MaxSources, Restart(base, files, cutOff)
  PROVE  ForgeInv'
<1> DEFINE Unknown == {i \in DOMAIN files \ {r.id : r \in base} : files[i].manifest # None}
           ToolOf(i) == [id |-> i, cap |-> files[i].cap, says |-> files[i].says,
                         src |-> files[i].tool]
<1>1. /\ saved' = base /\ dirs' = files
      /\ library' = base \cup {ToolOf(i) : i \in Unknown}
      /\ job' = [j \in Jobs |-> Idle]
      /\ cache' = [c \in Caps |-> None] /\ forged' = [c \in Caps |-> 0] /\ rivals' = {}
      /\ abandoned' = abandoned \cup cutOff \cup UNION {LeftBy(j) : j \in Jobs}
      /\ UNCHANGED <<audited, tested, crossed>>
  BY DEF Restart, Hydrated
<1>2. base \subseteq library /\ base \subseteq ForgedTools /\ IsFiniteSet(base)
  <2>1. saved \subseteq library /\ library \subseteq ForgedTools /\ IsFiniteSet(library)
    BY DEF ForgeInv, ForgeTypes
  <2>2. QED
    BY <2>1, FS_Subset
<1>3. \A i \in Unknown : /\ i \in DOMAIN files /\ i \notin {r.id : r \in base}
                         /\ ToolOf(i) \in ForgedTools /\ ToolOf(i).id = i
                         /\ ToolOf(i).src = files[i].tool
  BY DEF ForgedTools, Entries
<1>4. IsFiniteSet({ToolOf(i) : i \in Unknown})
  <2> DEFINE f == [i \in Unknown |-> ToolOf(i)]
             Added == {ToolOf(i) : i \in Unknown}
  <2>1. IsFiniteSet(Unknown)
    BY FS_Subset
  <2>2. f \in [Unknown -> Added] /\ \A t \in Added : \E i \in Unknown : f[i] = t
    OBVIOUS
  <2> HIDE DEF f, Added, Unknown, ToolOf
  <2>3. f \in Surjection(Unknown, Added)
    BY <2>2 DEF Surjection
  <2>4. IsFiniteSet(Added)
    BY <2>1, <2>3, FS_Surjection
  <2>5. QED
    BY <2>4 DEF Added
<1> HIDE DEF Unknown, ToolOf
<1>5. Idle \in JobRecords /\ Idle.at = "idle" /\ ~OnFiles(Idle)
  BY ForgeAssumption DEF Idle, JobRecords, Sources, OnFiles
<1>6. \A j \in Jobs : job'[j] = Idle
  BY <1>1
<1>7. ForgeTypes'
  <2>1. job' \in [Jobs -> JobRecords] /\ \A j \in Jobs : ~Working(j)' /\ ~OnFiles(job[j])'
    BY <1>1, <1>5 DEF Working, OnFiles
  <2>2. library' \subseteq ForgedTools /\ saved' \subseteq library'
    BY <1>1, <1>2, <1>3
  <2>3. IsFiniteSet(library')
    BY <1>1, <1>2, <1>4, FS_Union
  <2>4. cache' \in [Caps -> ForgedTools \cup {None}] /\ forged' \in [Caps -> Nat]
    BY <1>1
  <2>5. dirs' \in [DOMAIN dirs' -> Entries] /\ DOMAIN dirs' \subseteq Seq(Nat)
        /\ IsFiniteSet(DOMAIN dirs')
    BY <1>1
  <2>6. QED
    BY <2>1, <2>2, <2>3, <2>4, <2>5 DEF ForgeTypes, Working, OnFiles
<1>8. FilesAreTheJobs'
  BY <1>5, <1>6 DEF FilesAreTheJobs, HasItsFiles
<1>9. \A i \in DOMAIN files : i \notin crossed /\ i \notin abandoned' =>
        i \in DOMAIN dirs /\ files[i] = dirs[i] /\ dirs[i].tool \in audited \cap tested
  <2>1. SUFFICES ASSUME NEW i \in DOMAIN files, i \notin crossed, i \notin abandoned'
                 PROVE  i \in DOMAIN dirs /\ files[i] = dirs[i] /\ dirs[i].tool \in audited \cap tested
    OBVIOUS
  <2>2. i \notin cutOff /\ i \notin abandoned /\ \A j \in Jobs : i \notin LeftBy(j)
    BY <1>1, <2>1
  <2>3. QED
    BY <2>1, <2>2 DEF ForgeInv, DirectoriesAreTested
<1>10. DirectoriesAreTested'
  BY <1>1, <1>9 DEF DirectoriesAreTested
<1>11. ToolsAreTested'
  <2>1. SUFFICES ASSUME NEW r \in library', r.id \notin crossed, r.id \notin abandoned'
                 PROVE  r.id \in DOMAIN files /\ files[r.id].tool \in audited \cap tested
    BY <1>1 DEF ToolsAreTested
  <2>2. r.id \in DOMAIN files
    <3>1. CASE r \in base
      <4>1. r.id \notin abandoned
        BY <1>1, <2>1
      <4>2. r.id \in DOMAIN dirs
        BY <1>2, <2>1, <3>1, <4>1 DEF ForgeInv, LibraryIsSound, ToolsAreTested
      <4>3. QED
        BY <4>2
    <3>2. CASE r \in {ToolOf(i) : i \in Unknown}
      BY <1>3, <3>2
    <3>3. QED
      BY <1>1, <3>1, <3>2
  <2>3. QED
    BY <1>9, <2>1, <2>2
<1>12. OneToolPerName'
  <2>1. SUFFICES ASSUME NEW r \in library', NEW s \in library', r.id = s.id PROVE r = s
    BY DEF OneToolPerName
  <2>2. CASE r \in base /\ s \in base
    BY <1>2, <2>1, <2>2 DEF ForgeInv, LibraryIsSound, OneToolPerName
  <2>3. CASE r \in base /\ s \in {ToolOf(i) : i \in Unknown}
    BY <1>3, <2>1, <2>3
  <2>4. CASE r \in {ToolOf(i) : i \in Unknown} /\ s \in base
    BY <1>3, <2>1, <2>4
  <2>5. CASE r \in {ToolOf(i) : i \in Unknown} /\ s \in {ToolOf(i) : i \in Unknown}
    BY <1>3, <2>1, <2>5
  <2>6. QED
    BY <1>1, <2>2, <2>3, <2>4, <2>5
<1>13. \A c \in Caps \ rivals' : FirstForging(c)'
  BY <1>1, <1>5, <1>6 DEF FirstForging, Forging
<1>14. QED
  BY <1>7, <1>8, <1>10, <1>11, <1>12, <1>13 DEF ForgeInv, LibraryIsSound

LEMMA IdleType == Idle \in JobRecords /\ Idle.at = "idle" /\ ~OnFiles(Idle)
BY ForgeAssumption DEF Idle, JobRecords, Sources, OnFiles

\* A tool that is found is one; if none is, the capability was not forged yet.
LEMMA FoundTools ==
  ASSUME ForgeInv, NEW c \in Caps, NEW named \in ForgedTools \cup {None}
  PROVE  /\ Found(c, named) \subseteq ForgedTools
         /\ Found(c, named) = {} => c \in rivals \/ forged[c] = 0
<1>1. /\ library \subseteq ForgedTools /\ cache[c] \in ForgedTools \cup {None} /\ forged[c] \in Nat
  BY DEF ForgeInv, ForgeTypes
<1>2. Found(c, named) \subseteq ForgedTools
  BY <1>1 DEF Found, Matching, Cached
<1>3. Found(c, named) = {} => cache[c] = None
  BY DEF Found, Cached
<1>4. c \notin rivals => (forged[c] > 0 => cache[c] # None)
  BY DEF ForgeInv, FirstForging
<1>5. forged[c] > 0 \/ forged[c] = 0
  BY <1>1
<1>6. QED
  BY <1>2, <1>3, <1>4, <1>5

LEMMA AttemptStep ==
  ASSUME ForgeInv, NEW j \in Jobs, NEW rec \in JobRecords, rec.at = "idle", rec.cap \in Caps,
         NEW named \in ForgedTools \cup {None}, NEW gone, abandoned \subseteq gone,
         LeftBy(j) \subseteq gone, Attempt(j, rec, named, gone), Rest
  PROVE  ForgeInv'
<1> DEFINE Runs(r) == [rec EXCEPT !.at = "running", !.tool = r]
           designing == [rec EXCEPT !.at = "designing"]
<1>1. UNCHANGED <<library, saved, cache, forged, rivals, audited, tested>>
  BY DEF Rest
<1>2. /\ Found(rec.cap, named) \subseteq ForgedTools
      /\ Found(rec.cap, named) = {} => rec.cap \in rivals \/ forged[rec.cap] = 0
  BY FoundTools
<1>3. CASE \E r \in Found(rec.cap, named) : job' = [job EXCEPT ![j] = Runs(r)] /\ NoFiles(gone)
  <2>1. PICK r \in Found(rec.cap, named) : job' = [job EXCEPT ![j] = Runs(r)] /\ NoFiles(gone)
    BY <1>3
  <2>2. /\ Runs(r) \in JobRecords /\ Runs(r).at = "running" /\ Runs(r).cap = rec.cap
    BY <1>2 DEF JobRecords, Forging
  <2>3. ~OnFiles(Runs(r)) /\ Runs(r).at \notin Forging
    BY <2>2 DEF OnFiles, Forging
  <2>4. abandoned' = gone /\ UNCHANGED <<dirs, crossed, designs>>
    BY <2>1 DEF NoFiles
  <2> HIDE DEF Runs
  <2>5. QED
    BY <1>1, <2>1, <2>2, <2>3, <2>4, JobMoves
<1>4. CASE /\ Found(rec.cap, named) = {} /\ rec.cap \in Templates
           /\ \E i \in Proposed : WriteArtifacts(j, rec, i, 0, TRUE, gone)
           /\ UNCHANGED designs
  <2>1. 0 \in Sources /\ designs' \in 0 .. MaxSources
    BY <1>4, ForgeAssumption DEF Sources, ForgeInv, ForgeTypes
  <2>2. QED
    BY <1>2, <1>4, <2>1, WriteStep
<1>5. CASE /\ Found(rec.cap, named) = {}
           /\ job' = [job EXCEPT ![j] = designing] \/ job' = [job EXCEPT ![j] = Idle]
           /\ NoFiles(gone)
  <2>1. abandoned' = gone /\ UNCHANGED <<dirs, crossed, designs>>
    BY <1>5 DEF NoFiles
  <2>2. designing \in JobRecords /\ designing.at = "designing" /\ designing.cap = rec.cap
    BY DEF JobRecords, Forging
  <2>3. ~OnFiles(designing)
    BY <2>2 DEF OnFiles
  <2> HIDE DEF designing
  <2>4. CASE job' = [job EXCEPT ![j] = designing]
    BY <1>1, <1>2, <1>5, <2>1, <2>2, <2>3, <2>4, JobMoves
  <2>5. CASE job' = [job EXCEPT ![j] = Idle]
    <3>1. Idle.at \notin Forging
      BY IdleType DEF Forging
    <3>2. QED
      BY <1>1, <2>1, <2>5, <3>1, IdleType, JobMoves
  <2>6. QED
    BY <1>5, <2>4, <2>5
<1>6. QED
  BY <1>3, <1>4, <1>5 DEF Attempt

LEMMA FailsStep == ASSUME ForgeInv, NEW j \in Jobs, Working(j), Fails(j), Rest PROVE ForgeInv'
<1> DEFINE gone == abandoned \cup LeftBy(j)
           rec == [Idle EXCEPT !.cap = job[j].cap, !.tries = job[j].tries + 1]
<1>1. job[j] \in JobRecords /\ job[j].cap \in Caps
  BY DEF ForgeInv, ForgeTypes
<1>2. job[j].tool \in ForgedTools \cup {None} /\ job[j].tries + 1 \in Nat
  BY <1>1 DEF JobRecords
<1>3. rec \in JobRecords /\ rec.at = "idle" /\ rec.cap = job[j].cap
  BY <1>1, <1>2, IdleType DEF JobRecords
<1>4. CASE job' = [job EXCEPT ![j] = Idle] /\ NoFiles(gone)
  <2>1. /\ abandoned' = gone
        /\ UNCHANGED <<library, saved, dirs, cache, designs, crossed, forged, rivals, audited, tested>>
    BY <1>4 DEF NoFiles, Rest
  <2>2. Idle.at \notin Forging
    BY IdleType DEF Forging
  <2>3. QED
    BY <1>4, <2>1, <2>2, IdleType, JobMoves
<1>5. CASE \E named \in {job[j].tool, None} : Attempt(j, rec, named, gone)
  <2>1. PICK named \in {job[j].tool, None} : Attempt(j, rec, named, gone)
    BY <1>5
  <2>2. named \in ForgedTools \cup {None}
    BY <1>2
  <2>3. abandoned \subseteq gone /\ LeftBy(j) \subseteq gone /\ rec.cap \in Caps
    BY <1>1, <1>3
  <2> HIDE DEF gone, rec
  <2>4. QED
    BY <1>3, <2>1, <2>2, <2>3, AttemptStep
<1>6. QED
  BY <1>4, <1>5 DEF Fails

LEMMA BeginKeeps ==
  ASSUME ForgeInv, NEW j \in Jobs, NEW c \in Caps,
         NEW named \in {r \in library : r.cap = c} \cup {None}, Begin(j, c, named)
  PROVE  ForgeInv'
<1> DEFINE rec == [Idle EXCEPT !.cap = c, !.tries = 1]
<1>1. rec \in JobRecords /\ rec.at = "idle" /\ rec.cap = c
  BY IdleType DEF JobRecords
<1>2. LeftBy(j) = {}
  BY DEF Begin, Working, LeftBy, Forging
<1>3. named \in ForgedTools \cup {None}
  BY DEF ForgeInv, ForgeTypes
<1>4. Attempt(j, rec, named, abandoned) /\ Rest
  BY DEF Begin
<1> HIDE DEF rec
<1>5. QED
  BY <1>1, <1>2, <1>3, <1>4, AttemptStep

LEMMA DesignedKeeps ==
  ASSUME ForgeInv, NEW j \in Jobs, NEW p \in Proposed, NEW says \in BOOLEAN, Designed(j, p, says)
  PROVE  ForgeInv'
<1> DEFINE gone == abandoned \cup LeftBy(j)
<1>1. /\ job[j].at = "designing" /\ designs < MaxSources /\ designs' = designs + 1
      /\ WriteArtifacts(j, job[j], p, designs + 1, says, gone) /\ Rest
  BY DEF Designed
<1>2. job[j] \in JobRecords /\ job[j].cap \in Caps
  BY <1>1 DEF ForgeInv, ForgeTypes, Working
<1>3. designs + 1 \in Sources /\ designs' \in 0 .. MaxSources
  BY <1>1, ForgeAssumption DEF ForgeInv, ForgeTypes, Sources
<1>4. job[j].cap \in rivals \/ forged[job[j].cap] = 0
  BY <1>1, <1>2 DEF ForgeInv, FirstForging, Forging
<1>5. abandoned \subseteq gone /\ LeftBy(j) \subseteq gone
  OBVIOUS
<1> HIDE DEF gone
<1>6. QED
  BY <1>1, <1>2, <1>3, <1>4, <1>5, WriteStep

LEMMA AuditedKeeps == ASSUME ForgeInv, NEW j \in Jobs, Audited(j) PROVE ForgeInv'
<1> DEFINE r == [job[j] EXCEPT !.at = "testing"]
<1>1. /\ job[j].at = "auditing" /\ job' = [job EXCEPT ![j] = r]
      /\ audited' = audited \cup {job[j].src}
      /\ UNCHANGED <<library, saved, dirs, cache, designs, tested, crossed, abandoned, forged, rivals>>
  BY DEF Audited, store
<1>2. /\ job[j] \in JobRecords /\ job[j].cap \in Caps /\ OnFiles(job[j]) /\ HasItsFiles(job[j])
  BY <1>1 DEF ForgeInv, ForgeTypes, FilesAreTheJobs, OnFiles, Working
<1>3. /\ r \in JobRecords /\ r.at = "testing" /\ r.id = job[j].id /\ r.src = job[j].src
      /\ r.cap = job[j].cap /\ r.copy = job[j].copy
  BY <1>2 DEF JobRecords, Forging
<1> HIDE DEF r
<1>4. r.id \notin crossed => r.copy \in {None, r.src} /\ r.src \in audited'
  BY <1>1, <1>2, <1>3 DEF HasItsFiles, OnFiles
<1>5. r.cap \in rivals \/ forged[r.cap] = 0
  BY <1>1, <1>2, <1>3 DEF ForgeInv, FirstForging, Forging
<1>6. r.at \in Forging
  BY <1>3 DEF Forging
<1>7. QED
  BY <1>1, <1>2, <1>3, <1>4, <1>5, <1>6, JobMoves

LEMMA TestLoadsKeeps == ASSUME ForgeInv, NEW j \in Jobs, TestLoads(j) PROVE ForgeInv'
<1> DEFINE r == [job[j] EXCEPT !.copy = dirs[job[j].id].tool]
<1>1. /\ job[j].at = "testing" /\ job' = [job EXCEPT ![j] = r]
      /\ UNCHANGED <<library, saved, dirs, cache, designs, audited, tested, crossed, abandoned,
                     forged, rivals>>
  BY DEF TestLoads, store, history
<1>2. /\ job[j] \in JobRecords /\ job[j].cap \in Caps /\ OnFiles(job[j]) /\ HasItsFiles(job[j])
  BY <1>1 DEF ForgeInv, ForgeTypes, FilesAreTheJobs, OnFiles, Working
<1>3. dirs[job[j].id].tool \in Sources
  BY <1>2 DEF HasItsFiles, ForgeInv, ForgeTypes, Entries
<1>4. /\ r \in JobRecords /\ r.at = "testing" /\ r.id = job[j].id /\ r.src = job[j].src
      /\ r.cap = job[j].cap /\ r.copy = dirs[job[j].id].tool
  BY <1>1, <1>2, <1>3 DEF JobRecords
<1> HIDE DEF r
<1>5. r.id \notin crossed => r.copy \in {None, r.src} /\ r.src \in audited
  BY <1>1, <1>2, <1>4 DEF HasItsFiles, OnFiles
<1>6. r.cap \in rivals \/ forged[r.cap] = 0
  BY <1>1, <1>2, <1>4 DEF ForgeInv, FirstForging, Forging
<1>7. r.at \in Forging
  BY <1>4 DEF Forging
<1>8. QED
  BY <1>1, <1>2, <1>4, <1>5, <1>6, <1>7, JobMoves

LEMMA TestEndsKeeps ==
  ASSUME ForgeInv, NEW j \in Jobs, NEW success \in BOOLEAN, TestEnds(j, success) PROVE ForgeInv'
<1>1. /\ job[j].at = "testing" /\ job[j].copy # None
      /\ tested' = IF success THEN tested \cup {job[j].copy} ELSE tested
  BY DEF TestEnds
<1>2. CASE success
  BY <1>1, <1>2, RegisterStep DEF TestEnds, LoopEnds
<1>3. CASE ~success
  <2> DEFINE r == [job[j] EXCEPT !.at = "designing", !.copy = None, !.repairs = job[j].repairs + 1]
  <2>1. UNCHANGED <<library, saved, cache, ends, audited, tested, forged, rivals>>
    BY <1>1, <1>3 DEF TestEnds, LoopEnds
  <2>2. job[j] \in JobRecords /\ job[j].cap \in Caps /\ Working(j)
    BY <1>1 DEF ForgeInv, ForgeTypes, Working
  <2>3. CASE Fails(j)
    BY <2>1, <2>2, <2>3, FailsStep DEF Rest
  <2>4. CASE job' = [job EXCEPT ![j] = r] /\ NoFiles(abandoned)
    <3>1. job[j].repairs + 1 \in Nat
      BY <2>2 DEF JobRecords
    <3>2. /\ r \in JobRecords /\ r.at = "designing" /\ r.id = job[j].id /\ r.cap = job[j].cap
      BY <2>2, <3>1 DEF JobRecords, Forging
    <3> HIDE DEF r
    <3>3. abandoned' = abandoned /\ UNCHANGED <<dirs, crossed, designs>>
      BY <2>4 DEF NoFiles
    <3>4. r.cap \in rivals \/ forged[r.cap] = 0
      BY <1>1, <2>2, <3>2 DEF ForgeInv, FirstForging, Forging
    <3>5. r.at \in Forging /\ ~OnFiles(r)
      BY <3>2 DEF Forging, OnFiles
    <3>6. QED
      BY <2>1, <2>2, <2>4, <3>2, <3>3, <3>4, <3>5, JobMoves
  <2>5. (job' = [job EXCEPT ![j] = r] /\ NoFiles(abandoned)) \/ Fails(j)
    BY <1>3 DEF TestEnds, LoopEnds
  <2>6. QED
    BY <2>3, <2>4, <2>5
<1>4. QED
  BY <1>2, <1>3

LEMMA RunSucceedsKeeps == ASSUME ForgeInv, NEW j \in Jobs, RunSucceeds(j) PROVE ForgeInv'
<1>1. /\ job[j].at = "running" /\ job' = [job EXCEPT ![j] = Idle]
      /\ UNCHANGED <<library, saved, dirs, cache, designs, audited, tested, crossed, abandoned,
                     forged, rivals>>
  BY DEF RunSucceeds, store, history
<1>2. LeftBy(j) = {} /\ Idle.at \notin Forging
  BY <1>1, IdleType DEF LeftBy, Forging
<1>3. QED
  BY <1>1, <1>2, IdleType, JobMoves

LEMMA DieWritingKeeps ==
  ASSUME ForgeInv, NEW j \in Jobs, NEW p \in Proposed, DieWriting(j, p) PROVE ForgeInv'
<1> DEFINE i == Unique(p)
           torn1 == [tool |-> designs + 1, manifest |-> None, cap |-> job[j].cap, says |-> FALSE]
           over == [dirs[i] EXCEPT !.tool = designs + 1]
           files == [x \in DOMAIN dirs \cup {i} |->
                       IF x # i THEN dirs[x] ELSE IF i \in DOMAIN dirs THEN over ELSE torn1]
<1>1. /\ job[j].at = "designing" /\ designs < MaxSources /\ designs' = designs + 1
      /\ Restart(saved, files, {i})
  BY DEF DieWriting
<1>2. i \in Seq(Nat)
  BY ForgeAssumption, UniqueIsFree DEF ForgeInv
<1> HIDE DEF i
<1>3. job[j].cap \in Caps
  BY <1>1 DEF ForgeInv, ForgeTypes, Working
<1>4. designs + 1 \in Sources /\ designs' \in 0 .. MaxSources
  BY <1>1, ForgeAssumption DEF ForgeInv, ForgeTypes, Sources
<1>5. torn1 \in Entries
  BY <1>3, <1>4 DEF Entries
<1>6. i \in DOMAIN dirs => over \in Entries
  <2>1. i \in DOMAIN dirs => dirs[i] \in Entries
    BY DEF ForgeInv, ForgeTypes
  <2>2. QED
    BY <1>4, <2>1 DEF Entries
<1> HIDE DEF torn1, over
<1>7. /\ DOMAIN files = DOMAIN dirs \cup {i} /\ files \in [DOMAIN files -> Entries]
      /\ DOMAIN files \subseteq Seq(Nat) /\ DOMAIN dirs \subseteq DOMAIN files
      /\ \A x \in DOMAIN files \ {i} : x \in DOMAIN dirs /\ files[x] = dirs[x]
  BY <1>2, <1>5, <1>6 DEF ForgeInv, ForgeTypes
<1>8. IsFiniteSet(DOMAIN files)
  <2>1. IsFiniteSet(DOMAIN dirs)
    BY DEF ForgeInv, ForgeTypes
  <2>2. IsFiniteSet(DOMAIN dirs \cup {i})
    BY <2>1, FS_AddElement
  <2>3. QED
    BY <1>7, <2>2
<1> HIDE DEF files
<1>9. QED
  BY <1>1, <1>4, <1>7, <1>8, RestartKeeps

LEMMA ForgeStep == ForgeInv /\ [Next]_vars => ForgeInv'
<1> SUFFICES ASSUME ForgeInv, [Next]_vars PROVE ForgeInv'
  OBVIOUS
<1>1. CASE UNCHANGED vars
  <2>1. UNCHANGED <<job, library, saved, dirs, cache, designs, audited, tested, crossed, abandoned,
                    forged, rivals>>
    BY <1>1 DEF vars, store, history
  <2>2. QED
    BY <2>1 DEF ForgeInv, ForgeTypes, FilesAreTheJobs, HasItsFiles, OnFiles, DirectoriesAreTested,
             LeftBy, LibraryIsSound, ToolsAreTested, OneToolPerName, FirstForging, Working
<1>2. CASE EndAndStart \/ CrashAndStart
  <2>1. /\ DOMAIN dirs \subseteq Seq(Nat) /\ dirs \in [DOMAIN dirs -> Entries]
        /\ IsFiniteSet(DOMAIN dirs) /\ designs' \in 0 .. MaxSources
    BY <1>2 DEF ForgeInv, ForgeTypes, EndAndStart, CrashAndStart
  <2>2. Restart(library, dirs, {}) \/ Restart(saved, dirs, {})
    BY <1>2 DEF EndAndStart, CrashAndStart
  <2>3. QED
    BY <2>1, <2>2, RestartKeeps
<1>3. ASSUME NEW j \in Jobs, Step(j) PROVE ForgeInv'
  <2>1. CASE DesignFails(j) \/ AuditBlocks(j) \/ TestBreaks(j) \/ RunFails(j)
    <3>1. Fails(j) /\ Rest /\ Working(j)
      BY <2>1 DEF DesignFails, AuditBlocks, TestBreaks, RunFails, Working
    <3>2. QED
      BY <3>1, FailsStep
  <2>2. QED
    BY <1>3, <2>1, BeginKeeps, DesignedKeeps, AuditedKeeps, TestLoadsKeeps, TestEndsKeeps,
       RunSucceedsKeeps, DieWritingKeeps DEF Step
<1>4. QED
  BY <1>1, <1>2, <1>3 DEF Next

\* What the library holds under a name is one tool, and it passed the audit and the test,
\* unless two forgings shared its directory or its forging did not come to its end, in
\* whatever order jobs overlap and wherever the process ends.
THEOREM TheLibrary == Spec => []LibraryIsSound
<1>1. Init => ForgeInv
  BY ForgeBegins
<1>2. ForgeInv => LibraryIsSound
  BY DEF ForgeInv
<1>3. QED
  BY <1>1, <1>2, ForgeStep, PTL DEF Spec

\* A capability is forged once in a process, whatever fails and whatever words its tool
\* was given, unless two forgings of it overlapped.
THEOREM ForgedOnceOnly == Spec => []ForgedOnce
<1>1. Init => ForgeInv
  BY ForgeBegins
<1>2. ForgeInv => ForgedOnce
  BY DEF ForgeInv, FirstForging, ForgedOnce
<1>3. QED
  BY <1>1, <1>2, ForgeStep, PTL DEF Spec
=================================================================================
