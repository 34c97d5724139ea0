------------------------------ MODULE TwinReport ------------------------------
(***************************************************************************)
(* The digital twin's arithmetic: what a metrics snapshot says of the      *)
(* outcomes recorded so far, what the audit says of the stock, and what    *)
(* the report makes of a series of snapshots.  An outcome is a patron's    *)
(* [patron, code, latency]; a basket is a sequence of [item, quantity].    *)
(***************************************************************************)
EXTENDS Integers, Sequences, FiniteSets, FiniteSetsExt, SequencesExt

CONSTANTS METRICS_POLL_INTERVAL_MS,
          P95_LATENCY_THRESHOLD_MS,
          QUEUE_DEPTH_THRESHOLD,
          STOCK_SYNC_LAG_THRESHOLD_MS,
          ConflictSample  \* attempts a conflict rate must rest on to be flagged

Queues == {"analytics", "cartCleanup", "itemZeroStock"}

Latencies(outcomes) == [n \in DOMAIN outcomes |-> outcomes[n].latency]
Count(outcomes, code) == Cardinality({n \in DOMAIN outcomes : outcomes[n].code = code})

(* An entry the snapshot lacks counts as zero.                             *)
LevelOf(levels, i) == IF i \in DOMAIN levels THEN levels[i] ELSE 0

-----------------------------------------------------------------------------
(* pollPlatformMetrics, when Redis and inventory_sql differ by delta at    *)
(* the n-th poll: the lag is counted from the last change of the delta.    *)

(* A lag counted from the start of the run.                                *)
LagFromStart(m, n, delta) ==
  [m EXCEPT !.delta = delta,
            !.lag = Max({@, IF delta > 0 THEN n * METRICS_POLL_INTERVAL_MS ELSE 0})]

Compared(m, n, delta) ==
  LET changed == IF delta # m.delta THEN n ELSE m.changed
  IN  [m EXCEPT !.delta = delta, !.changed = changed,
                !.lag = Max({@, IF delta > 0 THEN (n - changed) * METRICS_POLL_INTERVAL_MS
                                ELSE 0})]

-----------------------------------------------------------------------------
(* Snapshots.                                                              *)

(* A rank one too high.                                                    *)
RankAbove(n, p) == (p * n) \div 100 + 1

(* Math.ceil((p / 100) * n), at least the first.                           *)
Rank(n, p) == Max({1, (p * n + 99) \div 100})

(* Where the n-th value comes in a sort that leaves equal ones as they are. *)
Place(values, n) ==
  Cardinality({m \in DOMAIN values :
                 values[m] < values[n] \/ (values[m] = values[n] /\ m <= n)})

Sorted(values) ==
  [k \in DOMAIN values |-> values[CHOOSE n \in DOMAIN values : Place(values, n) = k]]

Percentile(values, p) ==
  IF values = <<>> THEN 0
  ELSE Sorted(values)[Min({Len(values), Rank(Len(values), p)})]

(* buildSnapshot, its rates as pairs of counts and its clock left out.     *)
Snapshot(m) ==
  [completed |-> Count(m.outcomes, 201),
   failed    |-> Len(m.outcomes) - Count(m.outcomes, 201),
   conflicts |-> Count(m.outcomes, 409),
   p50       |-> Percentile(Latencies(m.outcomes), 50),
   p95       |-> Percentile(Latencies(m.outcomes), 95),
   depths    |-> m.depths,
   levels    |-> m.levels,
   lag       |-> m.lag]

-----------------------------------------------------------------------------
(* The audit and the report.                                               *)

QuantityIn(basket, i) ==
  SumFunctionOnSet([k \in DOMAIN basket |-> basket[k].quantity],
                   {k \in DOMAIN basket : basket[k].item = i})

(* soldByItem[i]: what the orders answered 201 took of it.                 *)
SoldOf(outcomes, baskets, i) ==
  SumFunctionOnSet([n \in DOMAIN outcomes |-> QuantityIn(baskets[outcomes[n].patron], i)],
                   {n \in DOMAIN outcomes : outcomes[n].code = 201})

(* auditOversell: the items it reports.                                    *)
AuditOversell(initial, outcomes, baskets, final) ==
  {i \in DOMAIN initial :
     LET sold == SoldOf(outcomes, baskets, i)
         implied == initial[i] - LevelOf(final, i)
     IN  sold > 0 /\ (sold > initial[i] \/ implied > initial[i])}

(* What one bucket breaches; "item" says which item ran out.               *)
Metric(name) == [metric |-> name, item |-> "none"]
When(breached, event) == IF breached THEN {event} ELSE {}

Breaches(bucket) ==
  LET attempts == bucket.completed + bucket.failed
  IN  When(bucket.p95 > P95_LATENCY_THRESHOLD_MS, Metric("p95_latency"))
      \cup {Metric(q) : q \in {d \in DOMAIN bucket.depths :
                                 bucket.depths[d] > QUEUE_DEPTH_THRESHOLD}}
      \cup When(bucket.lag > STOCK_SYNC_LAG_THRESHOLD_MS, Metric("stock_sync_lag"))
      \cup {[metric |-> "stock_exhaustion", item |-> i] :
              i \in {j \in DOMAIN bucket.levels : bucket.levels[j] = 0}}
      \cup When(10 * bucket.conflicts > 3 * attempts /\ attempts > ConflictSample,
                Metric("conflict_rate"))

(* detectBreakEvents: each metric once, at the first bucket that breaches it. *)
BreakFirst(series) ==
  {[event |-> e, bucket |-> Min({n \in DOMAIN series : e \in Breaches(series[n])})] :
     e \in UNION {Breaches(series[n]) : n \in DOMAIN series}}

(* peakQueueDepth: the last bucket that is above the peak so far in one of *)
(* two queues, all its depths taken together.                              *)
PeakQueueDepth(series) ==
  FoldLeft(LAMBDA peak, bucket :
             IF \/ bucket.depths = <<>>
                \/ peak # <<>> /\ bucket.depths["analytics"] <= peak["analytics"]
                               /\ bucket.depths["cartCleanup"] <= peak["cartCleanup"]
             THEN peak ELSE bucket.depths,
           <<>>, series)

(* buildReport                                                             *)
Report(patrons, outcomes, baskets, initial, final, series) ==
  [patrons   |-> patrons,
   attempted |-> Len(outcomes),
   succeeded |-> Count(outcomes, 201),
   failed    |-> Len(outcomes) - Count(outcomes, 201),
   oversold  |-> AuditOversell(initial, outcomes, baskets, final),
   breaks    |-> BreakFirst(series),
   peak      |-> PeakQueueDepth(series),
   finalP95  |-> Last(series).p95,
   maxLag    |-> Max({series[n].lag : n \in DOMAIN series} \cup {0})]

=============================================================================
