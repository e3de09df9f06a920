SPECIFICATION FairSpec
CONSTANTS
  w1 = w1  w2 = w2  main = main  c1 = c1  x1 = x1  x2 = x2  x3 = x3
  Null = Null
  Workers <- TwoWorkers
  Clients <- MainAndClient
  Closer = main
  Pollers <- Nobody
  Balancers <- OneClient
  Tasks <- OneTask
  ThreadCount = 2
  Dup = 1
  Priorities <- TopAndLast
  BalanceWindow = 0
  MaxCalls = 1
INVARIANTS  PriorityReserve
PROPERTIES CloseTerminates
