\* The worker dies on the last attempt.
SPECIFICATION FairSpec
CONSTANTS
  j1 = j1
  j2 = j2
  w1 = w1
  w2 = w2
  NoWorker = NoWorker
  Jobs = {j1, j2}
  Workers = {w1, w2}
  Serves <- MCServes
  Batch = 1
  MaxAttempts = 2
  TicksPerSec = 1
  Lease = 1
  BackoffCap = 2
  Delays = {0, 1}
  HeartbeatEvery = 1
PROPERTIES DeadWorkerRecovered
