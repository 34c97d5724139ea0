\* Stub runs alone and side by side, a live run, runs without audience or workers.
SPECIFICATION FairSpec
CONSTANTS
  r1 = r1
  r2 = r2
  cola = cola
  nachos = nachos
  Items = {cola, nachos}
  Seed <- SeedLevels
  LeftOver <- Drained
  Runs = {r1, r2}
  Experiments <- AllExperiments
  MaxTicks = 1
  MaxFailures = 1
  METRICS_POLL_INTERVAL_MS = 1
  P95_LATENCY_THRESHOLD_MS = 2
  QUEUE_DEPTH_THRESHOLD = 1
  STOCK_SYNC_LAG_THRESHOLD_MS = 1
  ConflictSample = 2
INVARIANTS ReportIsFinal AuditExact ReportIsTrue CancelStopsDemand
PROPERTIES RunsEnd LifecycleKept
CHECK_DEADLOCK FALSE
