CONSTANTS
  Calls = {c1, c2}
  Payable = 4
  Shares = {0, 2, 3, 4}
  Notices = {n1, n2}
  Sessions = {s1, s2}
  NoThread = NoThread
SPECIFICATION SpecAll
SYMMETRY Symmetry
INVARIANTS PaymentsAccounted AuthorizedOnce ChargedOnce OwnConfig
PROPERTY SettledStands
CHECK_DEADLOCK FALSE
