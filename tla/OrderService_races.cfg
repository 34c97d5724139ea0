\* Two checkouts for the last units, two cancellations and a status update; charges
\* may fail and an administrator writes levels at any moment.
SPECIFICATION Spec
CONSTANTS
  r1 = r1
  r2 = r2
  c1 = c1
  c2 = c2
  u1 = u1
  u2 = u2
  u3 = u3
  cola = cola
  corn = corn
  ghost = ghost
  ann = ann
  bob = bob
  Items = {cola, corn}
  OpeningStock <- Opening2
  Checkouts = {r1, r2}
  Cancels = {c1, c2}
  Updates = {u1}
  PatronOf <- OnePatron
  Bodies <- RaceCarts
  MaxLines = 2
  Wanted = {"preparing"}
  AdminLevels = {1}
  FaultPlans = {{"gateway", "update", "announce"}}
SYMMETRY Interchangeable
INVARIANTS CancelledForGood ChargedIsOrdered StockAccounted
CHECK_DEADLOCK FALSE
