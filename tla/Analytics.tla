------------------------------ MODULE Analytics ------------------------------
(***************************************************************************)
(* Analytics ingestion: a BullMQ worker pushes OrderPlaced events into an  *)
(* in-memory buffer, and the batcher inserts the buffer into Postgres'     *)
(* analytics_events every interval or every batchMaxSize events.           *)
(***************************************************************************)
EXTENDS Integers, Sequences, FiniteSets, SequencesExt

CONSTANTS Events,        \* OrderPlaced events, one per order
          NoJob,         \* a worker that has no job
          Flushes,       \* names for flush() calls that might run at once
          ANALYTICS_BATCH_MAX_SIZE,
          MaxFailures,   \* bound on inserts that fail
          MaxUnheard,    \* bound on inserts that succeed and are not heard of
          MaxRestarts    \* bound on crashes and exits

ASSUME EventAssumption == NoJob \notin Events /\ IsFiniteSet(Events)

ASSUME BoundAssumption ==
  /\ ANALYTICS_BATCH_MAX_SIZE \in Nat \ {0}
  /\ {MaxFailures, MaxUnheard, MaxRestarts} \subseteq Nat
  /\ Flushes # {} /\ IsFiniteSet(Flushes)

VARIABLES
  published,  \* history: events the order service has added to the queue
  queue,      \* AnalyticsQueue, oldest first
  active,     \* the job the worker holds, or NoJob
  handled,    \* has the job's processor returned?
  buffer,     \* `buffer`
  inFlight,   \* the batcher's guard against overlapping flushes
  batch,      \* `batch` of a flush that awaits bulkInsert, else empty
  rows,       \* analytics_events, oldest first
  enqueued,   \* history: events pushed into the buffer, oldest first
  phase,      \* how far onClose is
  failures, unheard, restarts

bus == <<published, queue>>
worker == <<active, handled>>
batcher == <<buffer, inFlight, batch>>
bounds == <<failures, unheard, restarts>>
vars == <<published, queue, active, handled, buffer, inFlight, batch, rows,
          enqueued, phase, failures, unheard, restarts>>

-----------------------------------------------------------------------------

Init ==
  /\ published = {}
  /\ queue = <<>>
  /\ active = NoJob
  /\ handled = FALSE
  /\ buffer = <<>>
  /\ inFlight = FALSE
  /\ batch = [f \in Flushes |-> <<>>]
  /\ rows = <<>>
  /\ enqueued = <<>>
  /\ phase = "open"
  /\ failures = 0
  /\ unheard = 0
  /\ restarts = 0

(* The order service adds the job.                                         *)
Publish(e) ==
  /\ e \notin published
  /\ published' = published \cup {e}
  /\ queue' = Append(queue, e)
  /\ UNCHANGED <<worker, batcher, rows, enqueued, phase, bounds>>

(* flush() without its guard.                                              *)
AnyBuffer(events) == events # <<>>

MayFlush(events) == ~inFlight /\ events # <<>>

(* flush() called when the buffer holds `events`: up to its await.         *)
Flush(events) ==
  LET f == CHOOSE x \in Flushes : batch[x] = <<>>
  IN  IF MayFlush(events) /\ \E x \in Flushes : batch[x] = <<>>
      THEN /\ inFlight' = TRUE
           /\ batch' = [batch EXCEPT ![f] = events]
           /\ buffer' = <<>>
      ELSE /\ buffer' = events
           /\ UNCHANGED <<inFlight, batch>>

(* The worker fetches a job; a closing worker fetches none.                *)
Take ==
  /\ phase \in {"open", "stopping"}
  /\ active = NoJob /\ queue # <<>>
  /\ active' = Head(queue)
  /\ handled' = FALSE
  /\ queue' = Tail(queue)
  /\ UNCHANGED <<published, batcher, rows, enqueued, phase, bounds>>

(* enqueue(job.data): push, and flush a full buffer.                       *)
Enqueue ==
  LET events == Append(buffer, active)
  IN  /\ active # NoJob /\ ~handled
      /\ IF Len(events) >= ANALYTICS_BATCH_MAX_SIZE
         THEN Flush(events)
         ELSE buffer' = events /\ UNCHANGED <<inFlight, batch>>
      /\ enqueued' = Append(enqueued, active)
      /\ handled' = TRUE
      /\ UNCHANGED <<bus, active, rows, phase, bounds>>

(* The processor has returned: BullMQ forgets the job.                     *)
Complete ==
  /\ active # NoJob /\ handled
  /\ active' = NoJob
  /\ UNCHANGED <<bus, handled, batcher, rows, enqueued, phase, bounds>>

(* The interval; stop() clears it.                                         *)
Tick ==
  /\ phase = "open"
  /\ MayFlush(buffer)
  /\ Flush(buffer)
  /\ UNCHANGED <<bus, worker, rows, enqueued, phase, bounds>>

(* stop()'s flush has come back.                                           *)
Stopped == phase' = IF phase = "stopping" THEN "closing" ELSE phase

(* bulkInsert resolves: one statement, all rows or none.                   *)
Insert(f) ==
  /\ batch[f] # <<>>
  /\ rows' = rows \o batch[f]
  /\ batch' = [batch EXCEPT ![f] = <<>>]
  /\ inFlight' = FALSE
  /\ Stopped
  /\ UNCHANGED <<bus, worker, buffer, enqueued, bounds>>

(* A catch that only logs.                                                 *)
DropBatch(f) == buffer

(* buffer.unshift(...batch)                                                *)
PutBack(f) == batch[f] \o buffer

(* bulkInsert rejects: nothing is inserted, or all of it and the answer is *)
(* lost.                                                                   *)
InsertFails(f) ==
  /\ batch[f] # <<>>
  /\ \/ /\ failures < MaxFailures
        /\ failures' = failures + 1
        /\ UNCHANGED <<rows, unheard>>
     \/ /\ unheard < MaxUnheard
        /\ unheard' = unheard + 1
        /\ rows' = rows \o batch[f]
        /\ UNCHANGED failures
  /\ buffer' = PutBack(f)
  /\ batch' = [batch EXCEPT ![f] = <<>>]
  /\ inFlight' = FALSE
  /\ Stopped
  /\ UNCHANGED <<bus, worker, enqueued, restarts>>

(* onClose: stop() clears the timer and awaits a last flush, which returns *)
(* at once when another is in flight; then the worker is closed, which     *)
(* waits for its job.                                                      *)
Stop ==
  /\ phase = "open"
  /\ Flush(buffer)
  /\ phase' = IF MayFlush(buffer) THEN "stopping" ELSE "closing"
  /\ UNCHANGED <<bus, worker, rows, enqueued, bounds>>

Close ==
  /\ phase = "closing"
  /\ active = NoJob
  /\ phase' = "closed"
  /\ UNCHANGED <<bus, worker, batcher, rows, enqueued, bounds>>

(* A stalled job that is failed instead of given to the next worker.       *)
ForgetJob == queue

(* BullMQ gives the job of a dead worker to the next one.                  *)
Requeue == IF active = NoJob THEN queue ELSE <<active>> \o queue

(* The process dies, or exits once closed, and another one starts.         *)
Restart ==
  /\ restarts < MaxRestarts
  /\ restarts' = restarts + 1
  /\ queue' = Requeue
  /\ active' = NoJob
  /\ handled' = FALSE
  /\ buffer' = <<>>
  /\ inFlight' = FALSE
  /\ batch' = [f \in Flushes |-> <<>>]
  /\ phase' = "open"
  /\ UNCHANGED <<published, rows, enqueued, failures, unheard>>

-----------------------------------------------------------------------------

Next ==
  \/ \E e \in Events : Publish(e)
  \/ Take \/ Enqueue \/ Complete
  \/ Tick
  \/ \E f \in Flushes : Insert(f) \/ InsertFails(f)
  \/ Stop \/ Close
  \/ Restart

(* Jobs are fetched and processed, the timer fires while it is set, and    *)
(* every insert settles.  Nothing makes the service stop or restart.       *)
Fairness ==
  /\ WF_vars(Take) /\ WF_vars(Enqueue) /\ WF_vars(Complete)
  /\ WF_vars(Tick)
  /\ \A f \in Flushes : WF_vars(Insert(f) \/ InsertFails(f))

Spec == Init /\ [][Next]_vars
FairSpec == Spec /\ Fairness

-----------------------------------------------------------------------------
(* Properties.                                                             *)

(* Every variable keeps its type.                                          *)
TypeOK ==
  /\ published \subseteq Events
  /\ queue \in Seq(Events)
  /\ active \in Events \cup {NoJob}
  /\ handled \in BOOLEAN
  /\ buffer \in Seq(Events)
  /\ inFlight \in BOOLEAN
  /\ batch \in [Flushes -> Seq(Events)]
  /\ rows \in Seq(Events)
  /\ enqueued \in Seq(Events)
  /\ phase \in {"open", "stopping", "closing", "closed"}
  /\ failures \in 0..MaxFailures
  /\ unheard \in 0..MaxUnheard
  /\ restarts \in 0..MaxRestarts

(* The table, then the one batch in flight, then the buffer.               *)
InOrder ==
  \E f \in Flushes :
    /\ \A g \in Flushes \ {f} : batch[g] = <<>>
    /\ enqueued = rows \o batch[f] \o buffer

(* "overlapping flushes are skipped, failures are logged and retried": as  *)
(* long as the process lives and no insert succeeds unheard, what was      *)
(* buffered is, in the order it came and each event once, inserted, in the *)
(* one batch in flight, or in the buffer.                                  *)
Conserved == restarts = 0 /\ unheard = 0 => InOrder

(* While a process lives, every event that no process has buffered before, *)
(* or this one has, reaches the table, whatever inserts fail, and also when*)
(* the process before it died with the job in its hands.                   *)
Ingested ==
  \A e \in Events, n \in 0..MaxRestarts :
    (e \in (published \ ToSet(enqueued)) \cup ToSet(buffer) /\ phase = "open" /\ restarts = n)
      ~> (e \in ToSet(rows) \/ phase # "open" \/ restarts # n)

(* "BullMQ retains jobs; ... events replay on restart": an event is in the *)
(* table, in the service's memory or in the queue.                         *)
Replayed ==
  \A e \in published :
    e \in ToSet(rows) \cup ToSet(queue) \cup ToSet(buffer) \cup {active}
          \cup UNION {ToSet(batch[f]) : f \in Flushes}

=============================================================================
