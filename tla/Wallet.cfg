CONSTANTS
  small = small
  large = large
  Orders <- MCOrders
  Payable <- MCPayable
  Recharges <- MCRecharges
  Credited <- MCCredited
  References = {f1, f2, f3}
  LegacyBalance = 1
SPECIFICATION Spec
INVARIANTS LedgersAgree ReturnedOnce
PROPERTY KeepsPromise
CHECK_DEADLOCK FALSE
