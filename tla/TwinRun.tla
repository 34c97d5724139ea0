------------------------------- MODULE TwinRun -------------------------------
(***************************************************************************)
(* The digital twin: simulation runs in one process, each of them firing   *)
(* its patrons' orders batch by batch over a bounded number of workers     *)
(* while a collector polls stock and takes snapshots.  Stub runs share one *)
(* Redis database and its scripts; live runs share the platform.           *)
(*                                                                         *)
(* A scenario says what the program draws at random: the patrons' baskets  *)
(* in the order of their scheduled times, their orders' latencies and what *)
(* each poll finds of the platform.                                        *)
(***************************************************************************)
EXTENDS RedisStock, TwinReport

CONSTANTS Items,
          Seed,         \* initialStock of the catalogue
          LeftOver,     \* what earlier runs left in the stub's database
          Runs,
          Experiments,  \* what is started: functions from Runs to scenarios
          MaxTicks,     \* bound on a run's snapshots before the last one
          MaxFailures   \* bound on calls that fail and on other patrons' trade

(* A patron's basket is never empty: generateDemand puts water into it.    *)
Scenario(c) ==
  /\ c.mode \in {"none", "stub", "live"} /\ c.audience \in BOOLEAN
  /\ c.baskets \in Seq(Seq([item : Items, quantity : Nat]) \ {<<>>})
  /\ c.latency \in [DOMAIN c.baskets -> Nat]
  /\ DOMAIN c.overrides \subseteq Items
  /\ \A i \in DOMAIN c.overrides : c.overrides[i] \in Nat
  /\ c.workerConcurrency \in Nat
  /\ c.readings \in Seq([database : BOOLEAN, depths : [Queues -> Nat], delta : Nat])

ASSUME TwinAssumption ==
  /\ {MaxTicks, MaxFailures, METRICS_POLL_INTERVAL_MS} \subseteq Nat
  /\ Seed \in [Items -> Nat]
  /\ LeftOver \in [Items -> Levels]
  /\ \A scenarios \in Experiments : \A r \in Runs : Scenario(scenarios[r])

VARIABLES
  config,   \* each run's ScenarioConfig
  stock,    \* the stub's Redis database and the platform's
  run,      \* SimulationRun and the locals of executeRun
  task,     \* a patron's task in the last runWithConcurrency
  metrics,  \* the run's metrics collector
  failures,
  history   \* what is true of a run, for the properties

twin == <<config, stock, run, task, metrics, failures>>
vars == <<twin, history>>

Baskets(r) == config[r].baskets
Patrons(r) == DOMAIN Baskets(r)
Mode(r) == config[r].mode
Running(r) == {p \in Patrons(r) : task[r][p].state = "running"}
At(r, step) == run[r].status = "running" /\ run[r].step = step
Ended == {"completed", "cancelled", "failed"}

(* The schedule is through, or the run was cancelled.                      *)
Over(r) ==
  /\ At(r, "schedule")
  /\ run[r].aborted \/ run[r].scheduleIndex = Len(Baskets(r))

(* resolveInitialStock                                                     *)
InitialStock(r) ==
  [i \in Items |-> IF i \in DOMAIN config[r].overrides THEN config[r].overrides[i] ELSE Seed[i]]

(* A key that is not there reads as zero.                                  *)
Readable(levels) == [i \in Items |-> IF levels[i] = NoKey THEN 0 ELSE levels[i]]

Idle(state) == [state |-> state, line |-> 1, releasing |-> {}]

-----------------------------------------------------------------------------

Init ==
  /\ config \in Experiments
  /\ stock = [stub |-> LeftOver, live |-> Seed]
  /\ run = [r \in Runs |->
              [status |-> "absent", step |-> "none", aborted |-> FALSE, scheduleIndex |-> 0,
               puts |-> {}, completed |-> 0, failed |-> 0, report |-> <<>>]]
  /\ task = [r \in Runs |-> [p \in Patrons(r) |-> Idle("waiting")]]
  /\ metrics = [r \in Runs |->
                  [polling |-> FALSE, polls |-> 0, outcomes |-> <<>>, levels |-> <<>>,
                   depths |-> <<>>, delta |-> 0, changed |-> 0, lag |-> 0, series |-> <<>>]]
  /\ failures = 0
  /\ history = [r \in Runs |->
                  [alone |-> TRUE, spared |-> TRUE, emptied |-> {}, room |-> 0, final |-> <<>>]]

Failure == failures < MaxFailures /\ failures' = failures + 1

-----------------------------------------------------------------------------
(* runWithConcurrency.                                                     *)

(* Every worker takes a task before any of them awaits one.                *)
StartTasks(r, patrons) ==
  task' = [task EXCEPT ![r] = [p \in Patrons(r) |->
    IF p \notin patrons \/ run[r].aborted THEN task[r][p]
    ELSE IF Cardinality({q \in patrons : q < p}) < config[r].workerConcurrency
         THEN Idle("running") ELSE Idle("queued")]]

(* A worker that looks at the signal only once.                            *)
TakeAnyway(r, tasks) ==
  LET queued == {p \in Patrons(r) : tasks[p].state = "queued"}
  IN  IF queued = {} THEN tasks ELSE [tasks EXCEPT ![Min(queued)] = Idle("running")]

(* A worker whose task has ended takes the next, unless the run is aborted. *)
TakeNext(r, tasks) ==
  LET queued == {p \in Patrons(r) : tasks[p].state = "queued"}
  IN  IF queued = {} \/ run[r].aborted THEN tasks
      ELSE [tasks EXCEPT ![Min(queued)] = Idle("running")]

EndTask(r, p) == task' = [task EXCEPT ![r] = TakeNext(r, [@ EXCEPT ![p] = Idle("done")])]

(* A batch that is over as soon as all its tasks are taken.                *)
AllTaken(r) == \A p \in Patrons(r) : task[r][p].state # "queued"

(* A batch that waits for its tasks and not for its workers.               *)
AllServed(r) == \A p \in Patrons(r) : task[r][p].state \notin {"queued", "running"}

(* Promise.all over the workers resolves.                                  *)
AllSettled(r) == Running(r) = {}

(* catch and finally of executeRun.                                        *)
Fail(r) ==
  /\ run' = [run EXCEPT ![r].status = "failed"]
  /\ metrics' = [metrics EXCEPT ![r].polling = FALSE]

(* A call of executeRun itself rejects.                                    *)
CallFails(r) ==
  /\ \/ At(r, "refill") /\ Mode(r) = "live"
     \/ At(r, "puts") /\ run[r].puts # {}
     \/ Over(r) /\ Mode(r) = "stub"
  /\ Failure
  /\ Fail(r)
  /\ UNCHANGED <<config, stock, task>>

-----------------------------------------------------------------------------
(* executeRun up to the schedule.                                          *)

(* Any run is polled from its start.                                       *)
StartPolling(r) ==
  /\ config[r].mode # "none"
  /\ run[r].status = "absent"
  /\ config[r].audience
  /\ run' = [run EXCEPT ![r].status = "running", ![r].step = "refill",
                        ![r].puts = IF Mode(r) = "stub" THEN Items ELSE {}]
  /\ metrics' = [metrics EXCEPT ![r].polling = TRUE]
  /\ UNCHANGED <<config, stock, task, failures>>

(* Without an audience generateDemand throws outside the try: the run      *)
(* stays pending.  A live run is polled before its stock is set up.        *)
StartRun(r) ==
  /\ config[r].mode # "none"
  /\ run[r].status = "absent"
  /\ IF config[r].audience
     THEN /\ run' = [run EXCEPT ![r].status = "running", ![r].step = "refill",
                                ![r].puts = IF Mode(r) = "stub" THEN Items ELSE {}]
          /\ metrics' = [metrics EXCEPT ![r].polling = (Mode(r) = "live")]
     ELSE /\ run' = [run EXCEPT ![r].status = "pending"]
          /\ UNCHANGED metrics
  /\ UNCHANGED <<config, stock, task, failures>>

(* A pipeline of SETs, whose answers are not looked at: what it fails to   *)
(* set is not noticed.                                                     *)
RefillStub(r) ==
  /\ At(r, "refill")
  /\ Mode(r) = "stub"
  /\ \E i \in run[r].puts :
       /\ \/ stock' = [stock EXCEPT !.stub[i] = InitialStock(r)[i]] /\ UNCHANGED failures
          \/ Failure /\ UNCHANGED stock
       /\ run' = [run EXCEPT ![r].puts = @ \ {i},
                             ![r].step = IF run[r].puts = {i} THEN "schedule" ELSE @]
       /\ metrics' = [metrics EXCEPT ![r].polling = (run[r].puts = {i})]
  /\ UNCHANGED <<config, task>>

(* setupLiveStock: POST /stock/refill, then a PUT for each override.       *)
RefillLive(r) ==
  /\ At(r, "refill")
  /\ Mode(r) = "live"
  /\ stock' = [stock EXCEPT !.live = Seed]
  /\ run' = [run EXCEPT ![r].step = "puts", ![r].puts = DOMAIN config[r].overrides]
  /\ UNCHANGED <<config, task, metrics, failures>>

PutOverride(r) ==
  /\ At(r, "puts")
  /\ \E i \in run[r].puts :
       /\ stock' = [stock EXCEPT !.live[i] = config[r].overrides[i]]
       /\ run' = [run EXCEPT ![r].puts = @ \ {i}]
  /\ UNCHANGED <<config, task, metrics, failures>>

StartSignups(r) ==
  /\ At(r, "puts")
  /\ run[r].puts = {}
  /\ StartTasks(r, Patrons(r))
  /\ run' = [run EXCEPT ![r].step = "signup"]
  /\ UNCHANGED <<config, stock, metrics, failures>>

SignUp(r, p) ==
  /\ run[r].step = "signup"
  /\ p \in Running(r)
  /\ EndTask(r, p)
  /\ UNCHANGED <<config, stock, run, metrics, failures>>

SignupsDone(r) ==
  /\ At(r, "signup")
  /\ AllSettled(r)
  /\ run' = [run EXCEPT ![r].step = "schedule"]
  /\ UNCHANGED <<config, stock, task, metrics, failures>>

-----------------------------------------------------------------------------
(* The schedule: every patron whose time has come, then the next batch.    *)

(* A batch that leaves out the patron it ends with.                        *)
SkipLast(r) ==
  /\ At(r, "schedule")
  /\ ~Over(r)
  /\ \E upto \in run[r].scheduleIndex + 1 .. Len(Baskets(r)) :
       /\ StartTasks(r, run[r].scheduleIndex + 1 .. upto - 1)
       /\ run' = [run EXCEPT ![r].step = "batch", ![r].scheduleIndex = upto]
  /\ UNCHANGED <<config, stock, metrics, failures>>

RunBatch(r) ==
  /\ At(r, "schedule")
  /\ ~Over(r)
  /\ \E upto \in run[r].scheduleIndex + 1 .. Len(Baskets(r)) :
       /\ StartTasks(r, run[r].scheduleIndex + 1 .. upto)
       /\ run' = [run EXCEPT ![r].step = "batch", ![r].scheduleIndex = upto]
  /\ UNCHANGED <<config, stock, metrics, failures>>

BatchDone(r) ==
  /\ At(r, "batch")
  /\ AllSettled(r)
  /\ run' = [run EXCEPT ![r].step = "schedule"]
  /\ UNCHANGED <<config, stock, task, metrics, failures>>

-----------------------------------------------------------------------------
(* Orders.                                                                 *)

(* recordOutcome and the run's counters, when placeOrder returns.          *)
Record(r, p, code) ==
  /\ metrics' = [metrics EXCEPT ![r].outcomes =
                   Append(@, [patron |-> p, code |-> code, latency |-> config[r].latency[p]])]
  /\ run' = IF code = 201 THEN [run EXCEPT ![r].completed = @ + 1]
            ELSE [run EXCEPT ![r].failed = @ + 1]
  /\ EndTask(r, p)

(* The patron's order is under way.                                        *)
Ordering(r, p) == run[r].step = "batch" /\ p \in Running(r)

Line(r, p) == Baskets(r)[p][task[r][p].line]
Decrementing(r, p) == Mode(r) = "stub" /\ Ordering(r, p) /\ task[r][p].releasing = {}

Decremented(r, p) ==
  [stock EXCEPT !.stub[Line(r, p).item] = AfterDecrement(@, Line(r, p).quantity)]

Released(r, p, k) ==
  LET line == Baskets(r)[p][k]
  IN  [stock EXCEPT !.stub[line.item] = AfterRelease(@, line.quantity)]

(* The stub's order reserves line by line; payment takes no time and never *)
(* fails.  Of a line that is refused all earlier ones are released.        *)
DecrementLine(r, p) ==
  /\ Decrementing(r, p)
  /\ LET line == Line(r, p)
         ok == DecrementCode(stock.stub[line.item], line.quantity) = SUCCESS
         n == task[r][p].line
     IN  /\ stock' = Decremented(r, p)
         /\ IF ok /\ n < Len(Baskets(r)[p])
            THEN task' = [task EXCEPT ![r][p].line = n + 1] /\ UNCHANGED <<run, metrics>>
            ELSE IF ~ok /\ n > 1
            THEN task' = [task EXCEPT ![r][p].releasing = 1 .. n - 1] /\ UNCHANGED <<run, metrics>>
            ELSE Record(r, p, IF ok THEN 201 ELSE 409)
  /\ UNCHANGED <<config, failures>>

(* releaseAll: all lines at once; the order is answered when all are back. *)
ReleaseLine(r, p) ==
  /\ \E k \in task[r][p].releasing :
       /\ stock' = Released(r, p, k)
       /\ IF task[r][p].state = "running" /\ task[r][p].releasing = {k}
          THEN Record(r, p, 409)
          ELSE task' = [task EXCEPT ![r][p].releasing = @ \ {k}] /\ UNCHANGED <<run, metrics>>
  /\ UNCHANGED <<config, failures>>

(* placeLiveOrder: the platform accepts what it has the units for.         *)
Accepted(r, p) ==
  [stock EXCEPT !.live = [i \in Items |-> @[i] - QuantityIn(Baskets(r)[p], i)]]

LiveOrder(r, p) ==
  /\ Mode(r) = "live"
  /\ Ordering(r, p)
  /\ \/ /\ \A i \in Items : stock.live[i] >= QuantityIn(Baskets(r)[p], i)
        /\ stock' = Accepted(r, p)
        /\ Record(r, p, 201)
     \/ \E code \in {409, 500} : Record(r, p, code) /\ UNCHANGED stock
  /\ UNCHANGED <<config, failures>>

(* A task's call rejects, whether or not it had its effect, and its worker *)
(* with it.  The other workers go on, and releases on their way arrive.    *)
Reject(r, p) ==
  /\ p \in Running(r)
  /\ Failure
  /\ \/ /\ task[r][p].releasing = {}
        /\ task' = [task EXCEPT ![r][p].state = "thrown"]
        /\ UNCHANGED stock
     \/ /\ Decrementing(r, p)
        /\ stock' = Decremented(r, p)
        /\ task' = [task EXCEPT ![r][p].state = "thrown"]
     \/ \E k \in task[r][p].releasing :
          /\ stock' \in {stock, Released(r, p, k)}
          /\ task' = [task EXCEPT ![r][p].state = "thrown", ![r][p].releasing = @ \ {k}]
     \/ /\ Mode(r) = "live" /\ run[r].step = "batch"
        /\ \A i \in Items : stock.live[i] >= QuantityIn(Baskets(r)[p], i)
        /\ stock' = Accepted(r, p)
        /\ task' = [task EXCEPT ![r][p].state = "thrown"]
  /\ IF run[r].status = "running" THEN Fail(r) ELSE UNCHANGED <<run, metrics>>
  /\ UNCHANGED config

-----------------------------------------------------------------------------
(* The collector.                                                          *)

(* pollPlatformMetrics: the levels, and in a live run the queues and then  *)
(* the database, whose failure leaves the lag as it was.                   *)
Poll(r) ==
  LET n == metrics[r].polls + 1
      reading == config[r].readings[n]
      levels == Readable(stock[Mode(r)])
  IN  /\ metrics[r].polling
      /\ metrics[r].polls < Len(config[r].readings)
      /\ metrics' = [metrics EXCEPT ![r] =
            IF Mode(r) = "stub" THEN [@ EXCEPT !.polls = n, !.levels = levels]
            ELSE LET m == [@ EXCEPT !.polls = n, !.levels = levels, !.depths = reading.depths]
                 IN  IF reading.database THEN Compared(m, n, reading.delta) ELSE m]
      /\ UNCHANGED <<config, stock, run, task, failures>>

Tick(r) ==
  /\ metrics[r].polling
  /\ Len(metrics[r].series) < MaxTicks
  /\ metrics' = [metrics EXCEPT ![r].series = Append(@, Snapshot(metrics[r]))]
  /\ UNCHANGED <<config, stock, run, task, failures>>

-----------------------------------------------------------------------------
(* The end.                                                                *)

(* A stub run reads the stock once more, a live one takes its last poll's. *)
FinalStock(r) == IF Mode(r) = "stub" THEN Readable(stock.stub) ELSE metrics[r].levels

End(r) ==
  LET series == Append(metrics[r].series, Snapshot(metrics[r]))
  IN  /\ Over(r)
      /\ metrics' = [metrics EXCEPT ![r].series = series, ![r].polling = FALSE]
      /\ run' = [run EXCEPT
                  ![r].status = IF run[r].aborted THEN "cancelled" ELSE "completed",
                  ![r].report = Report(Len(Baskets(r)), metrics[r].outcomes, Baskets(r),
                                       InitialStock(r), FinalStock(r), series)]
      /\ UNCHANGED <<config, stock, task, failures>>

(* A cancellation of a run in whatever state.                              *)
CancelAny(r) ==
  /\ run[r].status # "absent"
  /\ ~run[r].aborted
  /\ run' = [run EXCEPT ![r].aborted = TRUE]
  /\ UNCHANGED <<config, stock, task, metrics, failures>>

CancelRun(r) ==
  /\ run[r].status = "running"
  /\ ~run[r].aborted
  /\ run' = [run EXCEPT ![r].aborted = TRUE]
  /\ UNCHANGED <<config, stock, task, metrics, failures>>

(* The platform's other patrons and its administrator.                     *)
OthersTrade ==
  /\ \E r \in Runs : Mode(r) = "live"
  /\ Failure
  /\ \E i \in Items : \E level \in {0, Seed[i]} \ {stock.live[i]} :
       stock' = [stock EXCEPT !.live[i] = level]
  /\ UNCHANGED <<config, run, task, metrics>>

-----------------------------------------------------------------------------

(* Something of the run is under way.                                      *)
Busy(r) ==
  \/ run[r].status = "running"
  \/ \E p \in Patrons(r) : task[r][p].state = "running" \/ task[r][p].releasing # {}

Rivals(r) == {q \in Runs \ {r} : Mode(q) = Mode(r) /\ Busy(q)}

(* A run is alone while no other works on its stock, spared while none of  *)
(* its calls fails, and may record what was under way when it is cancelled. *)
(* What was at zero while it ran counts for a stub run from its refill on. *)
Observe ==
  history' = [r \in Runs |->
    LET h == history[r]
        failed == failures' # failures
    IN  [alone   |-> h.alone /\ (Busy(r)' => Rivals(r)' = {} /\ ~(failed /\ Mode(r) = "live")),
         spared  |-> h.spared /\ ~(failed /\ Busy(r)),
         emptied |-> IF Busy(r) /\ (Mode(r) = "stub" => run'[r].step # "refill")
                     THEN h.emptied \cup {i \in Items : Readable(stock[Mode(r)])'[i] = 0}
                     ELSE h.emptied,
         room    |-> IF run'[r].aborted # run[r].aborted
                     THEN Len(metrics[r].outcomes) + Cardinality(Running(r)) ELSE h.room,
         final   |-> IF run'[r].report # run[r].report THEN stock[Mode(r)] ELSE h.final]]

Progress(r) ==
  \/ RefillStub(r) \/ RefillLive(r) \/ PutOverride(r) \/ StartSignups(r) \/ SignupsDone(r)
  \/ RunBatch(r) \/ BatchDone(r) \/ End(r)
  \/ \E p \in Patrons(r) :
       SignUp(r, p) \/ DecrementLine(r, p) \/ ReleaseLine(r, p) \/ LiveOrder(r, p)

Step ==
  \/ OthersTrade
  \/ \E r \in Runs :
       \/ StartRun(r) \/ CancelRun(r) \/ Poll(r) \/ Tick(r) \/ CallFails(r)
       \/ \E p \in Patrons(r) : Reject(r, p)
       \/ Progress(r)

Next == Step /\ Observe

Spec == Init /\ [][Next]_vars

(* Calls are answered and timers fire; nothing makes anyone start a run.   *)
FairSpec == Spec /\ WF_twin(\E r \in Runs : Progress(r))

-----------------------------------------------------------------------------
(* Properties.                                                             *)

TypeOK ==
  /\ stock \in [{"stub", "live"} -> [Items -> Levels]]
  /\ \A r \in Runs :
       /\ run[r].status \in Ended \cup {"absent", "pending", "running"}
       /\ run[r].step \in {"none", "refill", "puts", "signup", "schedule", "batch"}
       /\ run[r].scheduleIndex \in 0 .. Len(Baskets(r))
       /\ run[r].completed + run[r].failed = Len(metrics[r].outcomes)
       /\ \A p \in Patrons(r) :
            /\ task[r][p].state \in {"waiting", "queued", "running", "done", "thrown"}
            /\ task[r][p].line \in 1 .. Len(Baskets(r)[p])
            /\ task[r][p].releasing \subseteq 1 .. task[r][p].line - 1
       /\ Cardinality(Running(r)) <= config[r].workerConcurrency

(* A report is final and complete: once a run has completed or was         *)
(* cancelled none of its orders is under way and its counters are those of *)
(* its report (executeRun awaits every batch before it builds the report); *)
(* and every patron of a completed run has ordered once, whatever the      *)
(* batches and the workers, if there is a worker at all.                   *)
ReportIsFinal ==
  \A r \in Runs : run[r].status \in {"completed", "cancelled"} =>
    /\ ~Busy(r)
    /\ run[r].report.succeeded = run[r].completed
    /\ run[r].report.attempted = run[r].completed + run[r].failed
    /\ run[r].status = "completed" /\ config[r].workerConcurrency > 0 =>
         /\ Len(metrics[r].outcomes) = run[r].report.patrons
         /\ {metrics[r].outcomes[n].patron : n \in DOMAIN metrics[r].outcomes} = Patrons(r)

(* The audit's verdict can be relied on: a run that had its stock to       *)
(* itself and lost no call reports no oversell, and in a stub run the      *)
(* units that are gone are those of the orders answered 201.               *)
AuditExact ==
  \A r \in Runs :
    run[r].status \in {"completed", "cancelled"} /\ history[r].alone /\ history[r].spared =>
      /\ run[r].report.oversold = {}
      /\ Mode(r) = "stub" =>
           \A i \in Items : InitialStock(r)[i] - history[r].final[i]
                              = SoldOf(metrics[r].outcomes, Baskets(r), i)

(* An exhaustion a run reports has happened while it ran and, in a stub    *)
(* run, to the stock it set up: that is not polled before the refill.  A   *)
(* live run is, and reports what was at zero before its set-up as well.    *)
ExhaustionIsReal ==
  \A r \in Runs : run[r].status \in {"completed", "cancelled"} =>
    \A b \in run[r].report.breaks :
      b.event.metric = "stock_exhaustion" => b.event.item \in history[r].emptied

(* The nearest-rank percentile: the least of the values that p percent of  *)
(* them do not exceed.                                                     *)
NearestRank(values, p) ==
  Min({v \in {values[n] : n \in DOMAIN values} :
         100 * Cardinality({n \in DOMAIN values : values[n] <= v}) >= p * Len(values)})

(* A snapshot agrees with the outcomes recorded when it was taken, in its  *)
(* counts and in both its percentiles.                                     *)
SnapshotsAgree ==
  \A r \in Runs : \A n \in DOMAIN metrics[r].series :
    LET bucket == metrics[r].series[n]
        then == SubSeq(metrics[r].outcomes, 1, bucket.completed + bucket.failed)
    IN  then # <<>> =>
          /\ bucket.completed = Count(then, 201)
          /\ bucket.p50 = NearestRank(Latencies(then), 50)
          /\ bucket.p95 = NearestRank(Latencies(then), 95)

(* From the a-th poll to the b-th, those that reached the database found   *)
(* Redis and inventory_sql to differ; and by the same all along.           *)
Reached(readings, n) == {k \in 1 .. n : readings[k].database}
Apart(readings, n, a, b) ==
  /\ {a, b} \subseteq Reached(readings, n)
  /\ \A k \in Reached(readings, n) : a <= k /\ k <= b => readings[k].delta > 0
Still(readings, n, a, b) ==
  /\ {a, b} \subseteq Reached(readings, n) /\ readings[a].delta > 0
  /\ \A k \in Reached(readings, n) : a <= k /\ k <= b => readings[k].delta = readings[a].delta

(* The longest such times up to the n-th poll, in polls.                   *)
ApartFor(readings, n) ==
  {l \in 0 .. n : l = 0 \/ \E a \in 1 .. n : Apart(readings, n, a, a + l)}
StillFor(readings, n) ==
  {l \in 0 .. n : l = 0 \/ \E a \in 1 .. n : Still(readings, n, a, a + l)}

(* The lag a run reports is exactly the longest time its polls saw the     *)
(* difference of the two stores stand unchanged, whatever polls miss the   *)
(* database and however the difference comes and goes.                     *)
LagIsOfOneDelta ==
  \A r \in Runs : Mode(r) = "live" =>
    metrics[r].lag
      = METRICS_POLL_INTERVAL_MS * Max(StillFor(config[r].readings, metrics[r].polls))

(* What BENCHMARKS.md says of the lag: it is the time since the two stores *)
(* last matched, and so no shorter than its polls saw them differ.         *)
LagAsDocumented ==
  \A r \in Runs : Mode(r) = "live" =>
    metrics[r].lag
      >= METRICS_POLL_INTERVAL_MS * Max(ApartFor(config[r].readings, metrics[r].polls))

(* What a run reports has happened: its snapshots, its exhaustions and its *)
(* lag are those of the orders and polls it made.                          *)
ReportIsTrue == SnapshotsAgree /\ ExhaustionIsReal /\ LagIsOfOneDelta

(* Cancelling stops the demand: a cancelled run records nothing but the    *)
(* orders that were under way.                                             *)
CancelStopsDemand ==
  \A r \in Runs : run[r].aborted =>
    Len(metrics[r].outcomes) + Cardinality(Running(r)) <= history[r].room

(* A run that was given an audience comes to an end, whatever fails and    *)
(* whether or not it has a worker.                                         *)
RunsEnd ==
  (\E r \in Runs : run[r].status = "running") ~> (\A r \in Runs : run[r].status # "running")

(* What the page and its controller rely on: a run starts once, is         *)
(* cancelled only by noticing its signal, and has its report in the step   *)
(* that ends it, so that nobody sees a cancelled run without one.          *)
Lifecycle ==
  INSTANCE SimulationRuns WITH sim <-
    [r \in Runs |-> [status |-> run[r].status, aborted |-> run[r].aborted,
                     report |-> run[r].report # <<>>]]
LifecycleKept == Lifecycle!RunsSpec

=============================================================================
