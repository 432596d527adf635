SPECIFICATION Spec
CONSTANTS
  n1 = n1
  n2 = n2
  n3 = n3
  f1 = f1
  f2 = f2
  Nodes = {n1, n2}
  Fibers = {f1, f2}
  Mode <- AllOff
  NoValue = NoValue
  Kind = "ScheduledEvery"
  Instantiation = "Cluster"
  MaxGen = 2
  GenBound <- OneMore
  MaxTimers = 1
  MaxRunning = 1
  AtomicSetnx = TRUE
  NoDelay = FALSE
  Slow = {}
  Stops = "quiet"
  Crashes = TRUE
SYMMETRY FiberSymmetry
INVARIANT TypeOK
INVARIANT LockMutex
INVARIANT RegisteredIsStored
INVARIANT SingleExecution
PROPERTY ImplementsMutex
CHECK_DEADLOCK FALSE
