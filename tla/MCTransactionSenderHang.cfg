SPECIFICATION Spec
CONSTANTS
  Calls = {"multiple"}
  N = 3
  BatchSize = 2
  Tries = 2
  Validity = 1
  MaxAge = 1
PROPERTIES
  EveryCallEnds
CHECK_DEADLOCK FALSE
