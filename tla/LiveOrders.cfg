CONSTANTS
  NoInstant = NoInstant
  Instants = {i1, i2, i3, i4}
  Early = {i1, i2}
  Workers = {w1, w2}
  None = none
  Typed = typed
SPECIFICATION Spec
PROPERTIES  WorkIsDone
CHECK_DEADLOCK FALSE
