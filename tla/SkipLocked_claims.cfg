\* A fair claim and a batch claim overlap, while rows come back.
SPECIFICATION Spec
CONSTANTS
  j1 = j1
  j2 = j2
  j3 = j3
  w1 = w1
  w2 = w2
  NoWorker = NoWorker
  Rows = {j1, j2, j3}
  Workers = {w1, w2}
  Carrier <- MCCarrier
  Limit <- MCLimit
  Cap <- MCCap
  MaxClock = 1
  MaxReturns = 2
  MaxAborts = 0
SYMMETRY MCSymmetry
INVARIANTS TypeOK
PROPERTIES FairShares IsAtomic
