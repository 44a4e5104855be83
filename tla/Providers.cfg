\* Keys and Procs also stand for whatever another component has two of: cases, names, categories.
CONSTANTS
  Keys = {k1, k2}
  Procs = {p1, p2}
  Cards = {"card", "other"}
  Incomes = {"first", "second"}
  MaxAmount = 1
  CreditLag = FALSE
  First = First
  Default = Default
  None = None
  Typed = Typed
SPECIFICATION SpecAll
SYMMETRY Symmetry
INVARIANTS WithdrawnOnce DecidedOnce  
PROPERTIES PaysWhatWasShown DecisionStands
CHECK_DEADLOCK FALSE
