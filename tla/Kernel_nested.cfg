SPECIFICATION Spec
CONSTANTS
  t1 = t1  t2 = t2  a = a  b = b  x1 = x1  x2 = x2  x3 = x3  x4 = x4
  None = None
  Threads <- OneThread
  Rings <- OneRing
  Warps <- TwoWarps
  Tasks <- FourTasks
  Homes <- OddApart
  WaitsFor <- WaitCrosswise
  MaxParallel = 4
  CounterSize = 8
  Directs = TRUE
  MaxSuspends = 0
  MaxTurns = 2
INVARIANTS PlacesReturned
