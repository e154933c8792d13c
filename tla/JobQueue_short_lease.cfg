\* A lease of one and a half seconds, in ticks of half a second.
SPECIFICATION Spec
CONSTANTS
  j1 = j1
  j2 = j2
  w1 = w1
  w2 = w2
  NoWorker = NoWorker
  Jobs = {j1, j2}
  Workers = {w1, w2}
  Serves <- MCServes
  Batch = 2
  MaxAttempts = 2
  TicksPerSec = 2
  Lease = 3
  BackoffCap = 2
  Delays = {0, 1}
  HeartbeatEvery = 9
PROPERTIES ReapsOnlyExpired
