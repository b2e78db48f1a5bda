SPECIFICATION FloorSpec
CONSTANTS
  d1 = d1
  d2 = d2
  t1 = t1
  r1 = r1
  p1 = p1
  p2 = p2
  Drivers = {}
  Etas = {}
  Rosters = {}
  Reported = {"on_delivery", "delivered", "cancelled"}
  None = None
  Ordered = FALSE
  Posts = {p1}
  MaxEvents = 3
  MaxFaults = 1
PROPERTIES
  ForwardOnly
  FloorSyncs
CHECK_DEADLOCK FALSE
