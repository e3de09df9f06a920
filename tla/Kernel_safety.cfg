SPECIFICATION Spec
CONSTANTS
  t1 = t1  t2 = t2  a = a  b = b  x1 = x1  x2 = x2  x3 = x3  x4 = x4
  None = None
  Threads <- TwoThreads
  Rings <- TwoRings
  Warps <- TwoWarps
  Tasks <- TwoTasks
  Homes <- TogetherOrApart
  WaitsFor <- WaitForNone
  MaxParallel = 1
  CounterSize = 2
  Directs = TRUE
  MaxSuspends = 1
  MaxTurns = 0
CHECK_DEADLOCK FALSE
INVARIANTS ParallelBound WarpsAreSerial CodeAssertions
PROPERTIES SuspendedWarpWaits
