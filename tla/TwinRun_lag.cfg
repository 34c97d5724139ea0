\* A live run whose stores differ by more at each poll: the lag and its documented meaning.
SPECIFICATION Spec
CONSTANTS
  r1 = r1
  r2 = r2
  cola = cola
  nachos = nachos
  Items = {cola, nachos}
  Seed <- SeedLevels
  LeftOver <- Drained
  Runs = {r1, r2}
  Experiments <- LiveExperiments
  MaxTicks = 1
  MaxFailures = 1
  METRICS_POLL_INTERVAL_MS = 1
  P95_LATENCY_THRESHOLD_MS = 2
  QUEUE_DEPTH_THRESHOLD = 1
  STOCK_SYNC_LAG_THRESHOLD_MS = 1
  ConflictSample = 2
INVARIANTS LagAsDocumented
CHECK_DEADLOCK FALSE
