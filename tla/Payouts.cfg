CONSTANTS
  Orders = {o1, o2}
  Jobs = {p1, p2}
  Amount = 1
  FeeReserve = 1
  MaxBank = 2
  MaxGen = 2
  Instants = {n1, n2}
  NoInstant = NoInstant
SPECIFICATION SpecAll
SYMMETRY Symmetry
INVARIANTS PaidOutOnce 
PROPERTIES ResultsStand PayoutsStand
CHECK_DEADLOCK FALSE
