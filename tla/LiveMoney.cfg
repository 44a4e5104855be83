CONSTANTS
  Calls = {c1, c2}
SPECIFICATION Spec
PROPERTIES  PaidOutIsRecorded
CHECK_DEADLOCK FALSE
