\* Redis is lost: its clients of the stock service time out, the queues retry for ever.
SPECIFICATION FairSpec
CONSTANTS
  r1 = r1
  r2 = r2
  c1 = c1
  c2 = c2
  u1 = u1
  u2 = u2
  u3 = u3
  cola = cola
  corn = corn
  ghost = ghost
  ann = ann
  bob = bob
  Items = {cola, corn}
  OpeningStock <- Opening2
  Checkouts = {r1}
  Cancels = {}
  Updates = {}
  PatronOf <- OnePatron
  Bodies <- Carts
  MaxLines = 2
  Wanted = {"preparing"}
  AdminLevels = {}
  FaultPlans = {{"decrement", "queues silent"}}
PROPERTIES CheckoutsReturn
CHECK_DEADLOCK FALSE
