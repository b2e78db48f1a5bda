SPECIFICATION PlacementSpec
CONSTANTS
  card = card
  cash = cash
  r1 = r1
  r2 = r2
  Keys = {card, cash}
  Cash = {cash}
  Requests = {r1, r2}
  MaxPlaces = 3
  MaxFaults = 2
INVARIANTS
  PlacedOnce
  PaidStaysPaid
  MoneyBack
SYMMETRY RequestSymmetry
CHECK_DEADLOCK FALSE
