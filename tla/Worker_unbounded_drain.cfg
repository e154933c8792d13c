\* A handler hangs while a batch is being dispatched.
SPECIFICATION LoopSpec
CONSTANTS
  j1 = j1
  j2 = j2
  j3 = j3
  Jobs = {j1, j2}
  Batch = 2
  Fanout = 1
CHECK_DEADLOCK FALSE
PROPERTIES DrainIsBounded
