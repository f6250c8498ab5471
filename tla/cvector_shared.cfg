SPECIFICATION Spec
CONSTANTS
  t1 = t1
  t2 = t2
  Threads <- MCThreads
  Locks <- MCLocks
  Mixes <- MCMixes
  Ranges <- MCRanges
  MaxReaders = 4
  ContextRatio = 16
  MaxContexts = 4
INVARIANTS NoLostUpdate AccessIsLive ContextsAgree BuffersAreOwned NeededHasWaiter
PROPERTIES ImplementsLock OperationsEnd
