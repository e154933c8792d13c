\* Every program, with one failing statement.
SPECIFICATION FairFleetSpec
CONSTANTS
  j1 = j1
  j2 = j2
  j3 = j3
  w1 = w1
  w2 = w2
  lat = lat
  fair = fair
  j4 = j4
  NoWorker = NoWorker
  Rows = {j1, j2, j3, j4}
  Workers = {w1, w2, lat, fair}
  Carrier <- MCCarrier
  Limit <- MCLimit
  Cap <- MCCap
  Handles <- MCHandles
  Backlog <- MCBacklog
  Noisy = "A"
  MaxClock = 1
  MaxReturns = 0
  MaxAborts = 0
  MaxErrors = 1
CHECK_DEADLOCK FALSE
INVARIANTS FleetTypeOK ReportIsComplete BatchesAreDisjoint NoErrorUnreported
PROPERTIES MainReturns
