\* Flushes by timer, by size and by stop(), inserts that fail or succeed unheard, a process
\* that dies or exits; queries before, between and after the batches; two requests and two
\* clean-ups of one cart; two simulation runs, handlers that overlap and a failing call or a restart of the twin.
SPECIFICATION PartSpec
CONSTANTS
  e1 = e1
  e2 = e2
  e3 = e3
  f1 = f1
  f2 = f2
  none = none
  Events = {e1, e2, e3}
  NoJob = none
  Flushes = {f1, f2}
  ANALYTICS_BATCH_MAX_SIZE = 2
  MaxFailures = 1
  MaxUnheard = 1
  MaxRestarts = 1
  Log <- TheLog
  Null = "none"
  MaxLoads = 2
  MaxInt = 24
  DASHBOARD_TOP_ITEMS_LIMIT = 2
  DASHBOARD_RECENT_ORDERS_LIMIT = 2
  CartItems = {"cola", "nachos"}
  MaxQuantity = 1
  Requests = {1, 2}
  CleanUps = {1, 2}
  MaxMishaps = 1
  MaxRuns = 2
  MaxJobs = 2
  MaxErrors = 1
INVARIANTS Conserved AddsUp OnlyRacesLose FollowsItsRun
PROPERTIES Ingested ClearedForGood ShownToTheEnd
CHECK_DEADLOCK FALSE
