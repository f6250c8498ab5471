SPECIFICATION FairSpec
CONSTANTS
  w1 = w1
  w2 = w2
  c1 = c1
  c2 = c2
  t1 = t1
  t2 = t2
  t3 = t3
  NoOne = NoOne
  Workers <- MCWorkers
  Callers <- MCCallers
  Tasks <- MCTasks
PROPERTIES
  CallReturns
CHECK_DEADLOCK FALSE
