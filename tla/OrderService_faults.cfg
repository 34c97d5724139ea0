\* Every await may fail before or after its effect, and the process may die; or an awaited
\* call may never be answered; or three administrators and a patron meet at one order.
SPECIFICATION AnySpec
CONSTANTS
  r1 = r1
  r2 = r2
  c1 = c1
  c2 = c2
  u1 = u1
  u2 = u2
  u3 = u3
  cola = cola
  corn = corn
  ghost = ghost
  ann = ann
  bob = bob
  Items = {cola, corn, ghost}
  OpeningStock <- Opening3
  Checkouts = {r1, r2}
  Cancels = {c1}
  Updates = {u1, u2, u3}
  PatronOf <- TwoPatrons
  Bodies <- BothCarts
  MaxLines = 2
  Wanted = {"preparing", "ready", "seat-delivered", "placed", "none"}
  AdminLevels = {}
  FaultPlans = {{"decrement", "lost answer", "release", "gateway", "create", "publish", "cancel", "crash"}, {"stock silent", "database silent"}, {"queues silent"}, {}}
INVARIANTS TypeOK PaidAndReserved
PROPERTIES KeepsPromise AllAnswered StatusMoves AnnouncedOnce
CHECK_DEADLOCK FALSE
