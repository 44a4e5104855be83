\* Income that has reached the channel and is not credited yet stands in for
\* the money of a failed withdrawal.
CONSTANTS
    Keys = {k1}
    Procs = {p1}
    Cards = {c1}
    Incomes = {i1, i2}
    MaxAmount = 1
    CreditLag = TRUE
SPECIFICATION Spec
INVARIANT ReleasedIsBack
CHECK_DEADLOCK FALSE
