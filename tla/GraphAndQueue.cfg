SPECIFICATION GraphAndQueueSpec
CONSTANTS
  MaxNodes = 3
  MaxDispatches = 2
  OwnerReferences = 2
  MaySuspend = TRUE
  MayClose = TRUE
  Rings = 3
  MaxTasks = 3
  MaxBarriers = 2
INVARIANTS TopologicalOrder CompletionIsLast  BarrierSeparates
PROPERTIES  EveryRunCompletes EveryTaskRuns
CHECK_DEADLOCK FALSE
