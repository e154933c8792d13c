\* Handlers never heartbeat: up to three handlers of one job, whose statements
\* may be late.  One of the two workers serves both kinds.
SPECIFICATION FairSpec
CONSTANTS
  j1 = j1
  j2 = j2
  w1 = w1
  w2 = w2
  NoWorker = NoWorker
  Jobs = {j1, j2}
  Workers = {w1, w2}
  Serves <- MCServesMixed
  Batch = 2
  MaxAttempts = 3
  TicksPerSec = 1
  Lease = 1
  BackoffCap = 1
  Delays = {0}
  HeartbeatEvery = 9
INVARIANTS TypeOK AttemptBudget LockedWhileRunning ClaimTokens
PROPERTIES JobConserved EventuallySettled
