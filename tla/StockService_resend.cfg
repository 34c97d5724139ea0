\* A connection that breaks once between a script and its answer.
SPECIFICATION Spec
CONSTANTS
  d1 = d1
  d2 = d2
  t1 = t1
  a1 = a1
  cola = cola
  ghost = ghost
  none = none
  Items = {cola, ghost}
  NoItem = none
  OpeningStock <- Opening
  SEED_PRODUCTS <- Seeds
  Decrements = {d1, d2}
  Releases = {t1}
  ReleaseOf <- ReturnsFirst
  Requests <- Buys
  Refills = {}
  AdminLevels = {}
  MaxWrites = 0
  MaxReconnects = 1
  Faults = {}
INVARIANTS NoOversell
CHECK_DEADLOCK FALSE
