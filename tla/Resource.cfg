SPECIFICATION FairSpec
CONSTANTS
  Threads = {t1, t2}
  Objects = {o1, o2}
  Locations = {here}
  Anonymous = Anonymous
  Closer = t1
  NoObject = NoObject
  NoThread = NoThread
  CreateFlags = {{}, {"mapped", "manual"}, {"eternal", "manual"}}
  MaxCalls = 2
INVARIANTS NothingDangles CodeAssertions DataWhileMapped NothingLeaks
PROPERTIES CallsReturn
CHECK_DEADLOCK FALSE
