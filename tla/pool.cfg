SPECIFICATION FairSpec
CONSTANTS
  w1 = w1
  w2 = w2
  c1 = c1
  c2 = c2
  t1 = t1
  t2 = t2
  t3 = t3
  NoOne = NoOne
  Workers <- MCWorkers
  Callers <- MCCallers
  Tasks <- MCTasks
INVARIANTS
  TypeOK
  NoTaskOutlivesItsCall
  TaskHasOnePlace
  ProcessingCountsBusy
  NoLostSignal
  NoIdleBacklog
PROPERTIES
  TaskIsRun
  WaitReturns
  DestroyJoins
\* After the destructor every worker has left and the pool stops.
CHECK_DEADLOCK FALSE
