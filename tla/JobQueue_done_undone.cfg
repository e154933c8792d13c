\* Three attempts, so that a late requeue is not the last one.
SPECIFICATION Spec
CONSTANTS
  j1 = j1
  j2 = j2
  w1 = w1
  w2 = w2
  NoWorker = NoWorker
  Jobs = {j1}
  Workers = {w1, w2}
  Serves <- MCServesOne
  Batch = 2
  MaxAttempts = 3
  TicksPerSec = 1
  Lease = 1
  BackoffCap = 2
  Delays = {0, 1}
  HeartbeatEvery = 9
PROPERTIES DoneIsNotUndone
