CONSTANTS
  Users = {u1, u2, u3}
  Capacity = 2
  Minimum = 2
  MaxJoins = 2
  Workers = {w1, w2}
SPECIFICATION SpecAll
SYMMETRY Symmetry
INVARIANTS PaidServesOrReturns GroupInSync SettledIsQuiet NeverAbandoned
PROPERTY ActivitiesStand
CHECK_DEADLOCK FALSE
