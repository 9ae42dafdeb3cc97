----------------------------- MODULE AuditLogger -----------------------------
(***************************************************************************)
(* The audit trail: class AuditLogger of                                   *)
(* src/src/main/services/audit_logger.ts, and the sink that                *)
(* bootstrapAudit of main.ts gives the logger.                             *)
(*                                                                         *)
(* Events wait in a queue that is written when it is full, when its timer  *)
(* fires, when the trail is read and when it is closed.  A batch that      *)
(* cannot be written is dropped.                                           *)
(***************************************************************************)
EXTENDS Integers, Sequences

CONSTANTS
  BatchSize,  \* events that fill the queue; 20 in the code
  MaxEvents   \* bound: events recorded in one behaviour

AuditAssumption == BatchSize \in Nat \ {0} /\ MaxEvents \in Nat

VARIABLES
  recorded,    \* events recorded so far; each is the number of its record
  queue,       \* this.queue
  flushTimer,  \* this.flushTimer is armed
  store,       \* where a batch goes: "db", "jsonl" or "none"
  written,     \* the events in the store
  dropped      \* history: the events of the batches that were not written

vars == <<recorded, queue, flushTimer, store, written, dropped>>

Events == 1 .. MaxEvents

TypeOK ==
  /\ recorded \in 0 .. MaxEvents
  /\ queue \in Seq(Events)
  /\ flushTimer \in BOOLEAN
  /\ store \in {"db", "jsonl", "none"}
  /\ written \in Seq(Events)
  /\ dropped \subseteq Events

\* The store is what the constructor was given; main gives it neither.
Init ==
  /\ recorded = 0
  /\ queue = <<>>
  /\ flushTimer = FALSE
  /\ store \in {"db", "jsonl", "none"}
  /\ written = <<>>
  /\ dropped = {}

-----------------------------------------------------------------------------

InBatch(batch) == {batch[k] : k \in DOMAIN batch}

\* A bug: a batch that was not written waits for the next flush, as if the
\* timer were still to come.
QueueKeeps(batch, ok) == IF ok THEN <<>> ELSE batch

\* The queue is emptied before the batch is written.
QueueAfter(batch, ok) == <<>>

\* flush of a batch: one transaction, or one append.
Flush(batch) ==
  \E ok \in BOOLEAN :
    /\ ok => store # "none"
    /\ queue' = QueueAfter(batch, ok)
    /\ written' = IF ok THEN written \o batch ELSE written
    /\ dropped' = IF ok THEN dropped ELSE dropped \cup InBatch(batch)

Record ==
  /\ recorded < MaxEvents
  /\ recorded' = recorded + 1
  /\ LET full == Append(queue, recorded + 1)
     IN IF Len(full) >= BatchSize
          THEN Flush(full) /\ UNCHANGED flushTimer
          ELSE /\ queue' = full
               /\ flushTimer' = TRUE
               /\ UNCHANGED <<written, dropped>>
  /\ UNCHANGED store

TimerFires ==
  /\ flushTimer
  /\ flushTimer' = FALSE
  /\ Flush(queue)
  /\ UNCHANGED <<recorded, store>>

\* recent: the queue is written, its timer stays.
Recent ==
  /\ Flush(queue)
  /\ UNCHANGED <<recorded, flushTimer, store>>

\* close: later events find no database.
Close ==
  /\ Flush(queue)
  /\ flushTimer' = FALSE
  /\ store' = IF store = "db" THEN "none" ELSE store
  /\ UNCHANGED recorded

Next == Record \/ TimerFires \/ Recent \/ Close

SafeSpec == Init /\ [][Next]_vars

-----------------------------------------------------------------------------

\* The trail holds events in the order they were recorded in, each once; an event
\* that is not in it waits in the queue, for a timer that is armed, or was in a
\* batch that could not be written.
TrailIsSound ==
  /\ \A j, k \in DOMAIN written : j < k => written[j] < written[k]
  /\ \A e \in InBatch(queue) : e \notin InBatch(written) \cup dropped
  /\ InBatch(written) \cup dropped \cup InBatch(queue) = 1 .. recorded
  /\ InBatch(written) \cap dropped = {}
  /\ queue # <<>> => flushTimer /\ Len(queue) < BatchSize
=============================================================================
