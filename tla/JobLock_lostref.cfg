SPECIFICATION FairSpec
CONSTANTS
  n1 = n1
  n2 = n2
  n3 = n3
  f1 = f1
  f2 = f2
  Nodes = {n1, n2}
  Fibers = {f1}
  Mode <- AllOff
  NoValue = NoValue
  Kind = "ScheduledEvery"
  Instantiation = "Cluster"
  MaxGen = 1
  GenBound <- OneEach
  MaxTimers = 1
  MaxRunning = 1
  AtomicSetnx = TRUE
  NoDelay = TRUE
  Slow = {}
  Stops = "never"
  Crashes = FALSE

CHECK_DEADLOCK FALSE
PROPERTY RunsEveryInterval
