SPECIFICATION FairSpec
CONSTANTS
  w1 = w1  w2 = w2  main = main  c1 = c1  x1 = x1  x2 = x2  x3 = x3
  Null = Null
  Workers <- OneWorker
  Clients <- MainAndClient
  Closer = main
  Pollers <- Nobody
  Balancers <- Nobody
  Tasks <- OneTask
  ThreadCount = 1
  Dup = 1
  Priorities <- Normal
  BalanceWindow = 0
  MaxCalls = 1
PROPERTIES DispatchedRuns
