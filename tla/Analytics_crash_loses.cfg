\* One crash.
SPECIFICATION Spec
CONSTANTS
  e1 = e1
  e2 = e2
  e3 = e3
  none = none
  f1 = f1
  f2 = f2
  Events = {e1, e2, e3}
  NoJob = none
  Flushes = {f1, f2}
  ANALYTICS_BATCH_MAX_SIZE = 2
  MaxFailures = 0
  MaxUnheard = 0
  MaxRestarts = 1
INVARIANTS Replayed
CHECK_DEADLOCK FALSE
