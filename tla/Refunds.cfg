CONSTANTS
  Calls = {i1, i2}
  LastDay = 2
  People = {u1, u2, u3}
  Receipts = {r1, r2}
SPECIFICATION SpecAll
SYMMETRY Symmetry
INVARIANTS PaidBackOnce LimitsHold VerifiedIndependently
PROPERTY RefundsStand
CHECK_DEADLOCK FALSE
