\* Calls time out while their commands run, a connection breaks, the process dies, levels
\* are overwritten; flushes fail and are refused at any await; starts fail, are interrupted
\* and give up; two orders, three handlers at once and a failing call.
SPECIFICATION PartSpec
CONSTANTS
  d1 = d1
  d2 = d2
  t1 = t1
  a1 = a1
  f1 = f1
  f2 = f2
  cola = cola
  corn = corn
  ghost = ghost
  trial = trial
  none = none
  o1 = o1
  o2 = o2
  Items = {cola, ghost}
  NoItem = none
  OpeningStock <- Opening
  SEED_PRODUCTS <- Seeds
  Decrements = {d1, d2}
  Releases = {t1}
  ReleaseOf <- ReturnsFirst
  Requests <- AllRequests
  Refills = {a1}
  AdminLevels = {1}
  MaxWrites = 1
  MaxReconnects = 1
  Faults = {"timeout", "publish", "crash"}
  Keys = {cola, corn, trial}
  Catalog = {cola, corn}
  OpeningLevels <- OpeningTrial
  OpeningRows <- Rows
  ScanOrders <- TrialLater
  STOCK_SCAN_COUNT = 1
  NewLevels <- WideLevels
  IntegerMax = 2
  Flushes = {f1, f2}
  MaxKeyWrites = 2
  MaxFailures = 1
  Services = {"menu", "stock", "gateway"}
  Products <- TwoProducts
  MaxStarts = 2
  MaxSlips = 1
  Orders = {o1, o2}
  MaxTasks = 3
  MaxSignIns = 1
  MaxFailed = 1
INVARIANTS ExcessIsResent SelloutAnnounced LeftoversTimedOut OpensFull OwnDetails
PROPERTIES RowsNeverGoBack Converges ComesBack
CHECK_DEADLOCK FALSE
