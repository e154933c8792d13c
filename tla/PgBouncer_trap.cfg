\* The demo behind the bouncer in either mode, with two other programs.
SPECIFICATION FairSpec
CONSTANTS
  b1 = b1
  b2 = b2
  c1 = c1
  c2 = c2
  f1 = f1
  o1 = o1
  w1 = w1
  q1 = q1
  q2 = q2
  None = None
  Backends = {b1, b2}
  Cached = {c1}
  Fixed = {f1}
  Web = {o1}
  Crate = {w1}
  Queries = {q1, q2}
  Probe = q1
  N = 2
  MaxQueries = 1
  MaxCloses = 1
CHECK_DEADLOCK FALSE
INVARIANTS TypeOK OwnStatement
PROPERTIES ErrorsComeOfMoving DemoPasses
