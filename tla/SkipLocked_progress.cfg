\* Two fair claims poll; one claim may die.
SPECIFICATION FairSpec
CONSTANTS
  j1 = j1
  j2 = j2
  j3 = j3
  w1 = w1
  w2 = w2
  NoWorker = NoWorker
  Rows = {j1, j2, j3}
  Workers = {w1, w2}
  Carrier <- MCCarrier
  Limit <- MCBothFair
  Cap <- MCBothCap
  MaxClock = 0
  MaxReturns = 1
  MaxAborts = 1
PROPERTIES DueRowsClaimed
