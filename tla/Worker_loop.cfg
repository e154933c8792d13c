\* More jobs than a batch, and a batch larger than the semaphore.  The process
\* may exit.
SPECIFICATION LoopSpec
CONSTANTS
  j1 = j1
  j2 = j2
  j3 = j3
  Jobs = {j1, j2, j3}
  Batch = 2
  Fanout = 1
CHECK_DEADLOCK FALSE
INVARIANTS TypeOK PermitsConserved NoSleepOnWork OneBatchAfterCancel
PROPERTIES  StrandedOnlyByHandler DueJobsClaimed BatchIsHandled CancelReturns CancelReturnsAnyway
