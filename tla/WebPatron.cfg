\* Two tabs, their tokens expiring; an order with late, lost and failing answers; an item
\* sold out, refilled and ordered again; connections refused and broken, the service
\* restarting, the patron leaving.
SPECIFICATION PartSpec
CONSTANTS
  o1 = o1
  i1 = i1
  Tabs = {1, 2}
  Mounts = 2
  MaxTabLoads = 2
  MaxExpiries = 1
  MaxLost = 1
  Orders = {o1}
  MaxLoads = 3
  MaxReloads = 1
  MaxLosses = 2
  Items = {i1}
  MaxLevel = 2
  MaxPuts = 3
  MaxCheckouts = 2
  MaxVisits = 1
  MaxCartLosses = 1
  WS_UPSTREAM_MAX_ATTEMPTS = 2
  MaxSessions = 3
  MaxFrames = 2
  MaxFailures = 2
INVARIANTS OneIdentity OrderedOnce InOrder AtMostOneUpstream
PROPERTIES Reconnects LetIn NeverBack TruthShown ClearsItsOrder SelloutReaches
CHECK_DEADLOCK FALSE
