\* Two jobs about one event; one error fewer than attempts.
SPECIFICATION FairSpec
CONSTANTS
  j1 = j1
  j2 = j2
  j3 = j3
  k1 = k1
  k2 = k2
  Jobs = {j1, j2}
  Keys = {k1}
  Key <- MCKey
  Runs <- MCRuns
  KeyOf <- MCKeyOf
  MaxAttempts = 2
  MaxConnections = 2
  MaxFaults = 1
CHECK_DEADLOCK FALSE
INVARIANTS TypeOK EffectIffProcessed DoneMeansApplied
PROPERTIES IsExactlyOnce DeliveriesEnd EventuallyApplied
