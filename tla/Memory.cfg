SPECIFICATION MemorySpec
CONSTANTS
  Threads = {t1, t2, t3}
  Blocks = {b1, b2, b3}
  NoBlock = NoBlock
  W = 1
  R = 2
  Slots = 2
  Bits = 3
  MaxCalls = 4
  Items = {o1, o2, o3, o4}
  NoItem = NoItem
  Heads = 2
  Limit = 1
  CounterSize = 8
  MaxAcquires = 4
  MaxClears = 1
SYMMETRY Symmetric
INVARIANTS CodeAssertions BlocksAccounted ItemsAccounted
PROPERTIES ImplementsHeap
CHECK_DEADLOCK FALSE
