CONSTANTS
  NoInstant = NoInstant
  Instants = {i1, i2}
  MaxAttempts = 2
  Cases = {k1}
  Payable = 2
  Workers = {w1}
  AttemptCap = 2
SPECIFICATION LiveSpec
PROPERTY ConfirmedInTheEnd
CHECK_DEADLOCK FALSE
