SPECIFICATION LockAndListSpec
CONSTANTS
  Threads = {t1, t2, t3}
  NoThread = NoThread
  FLAG_WRITER = 8
  MaxCalls = 5
  N = 2
  MaxPages = 6
  MaxSent = 8
  RangeSizes = {1, 2, 3, 5}
INVARIANTS CodeAssertions TopAssertion
PROPERTIES ImplementsRWLock EverybodyGetsIn ImplementsChannel EverythingArrives
CHECK_DEADLOCK FALSE
