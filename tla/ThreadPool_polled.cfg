SPECIFICATION PollingSpec
CONSTANTS
  w1 = w1  w2 = w2  main = main  c1 = c1  x1 = x1  x2 = x2  x3 = x3
  Null = Null
  Workers <- OneWorker
  Clients <- MainAndClient
  Closer = main
  Pollers <- OneClient
  Balancers <- Nobody
  Tasks <- TwoTasks
  ThreadCount = 1
  Dup = 2
  Priorities <- Normal
  BalanceWindow = 1
  MaxCalls = 2
 
PROPERTIES DispatchedRuns
