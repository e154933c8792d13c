\* Handlers beat just in time.
SPECIFICATION Spec
CONSTANTS
  j1 = j1
  j2 = j2
  w1 = w1
  w2 = w2
  NoWorker = NoWorker
  Jobs = {j1, j2}
  Workers = {w1, w2}
  Serves <- MCServes
  Batch = 2
  MaxAttempts = 3
  TicksPerSec = 1
  Lease = 2
  BackoffCap = 3
  Delays = {0, 1}
  HeartbeatEvery = 2
INVARIANTS NoDoubleExecution HandlersOwnTheirRows
PROPERTIES IsExclusiveQueue
