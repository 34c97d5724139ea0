\* A key outside the catalogue, first in SCAN order; no call fails.
SPECIFICATION FairSyncSpec
CONSTANTS
  cola = cola
  corn = corn
  trial = trial
  f1 = f1
  f2 = f2
  Keys = {cola, corn, trial}
  Catalog = {cola, corn}
  OpeningLevels <- OpeningTrial
  OpeningRows <- Rows
  ScanOrders <- TrialFirst
  STOCK_SCAN_COUNT = 1
  NewLevels <- SomeLevels
  IntegerMax = 2
  Flushes = {f1, f2}
  MaxKeyWrites = 1
  MaxFailures = 0
PROPERTIES RowsCatchUp
CHECK_DEADLOCK FALSE
