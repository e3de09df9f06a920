SPECIFICATION Spec
CONSTANTS
  t1 = t1  t2 = t2  a = a  b = b  x1 = x1  x2 = x2  x3 = x3  x4 = x4
  None = None
  Threads <- TwoThreads
  Rings <- TwoRings
  Warps <- TwoWarps
  Tasks <- ThreeTasks
  Homes <- LastApart
  WaitsFor <- WaitForNone
  MaxParallel = 1
  CounterSize = 4
  Directs = FALSE
  MaxSuspends = 0
  MaxTurns = 0
INVARIANT QueueingIsScheduled
