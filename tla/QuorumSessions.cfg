CONSTANTS
  Witnesses = {w1, w2}
  Requests = {q1, q2}
  None = None
  NotBefores <- MCNotBefores
  Maximums <- MCMaximums
  MaxTime = 1
  MaxRestores = 2
SPECIFICATION FairSpec
INVARIANTS TypeOK SessionsOnRecord ReleaseBounded NotEarly SameOrderOpens
PROPERTIES LoneRequestOpens
CHECK_DEADLOCK FALSE
