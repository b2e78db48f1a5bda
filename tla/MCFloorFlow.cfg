SPECIFICATION FloorSpec
CONSTANTS
  d1 = d1
  d2 = d2
  t1 = t1
  r1 = r1
  p1 = p1
  p2 = p2
  Drivers = {d1}
  Etas = {}
  Rosters = {r1}
  Reported = {"on_delivery"}
  None = None
  Ordered = TRUE
  Posts = {p1, p2}
  MaxEvents = 3
  MaxFaults = 1
INVARIANTS
  AppliedInOrder
  FloorConverges
SYMMETRY PostSymmetry
CHECK_DEADLOCK FALSE
