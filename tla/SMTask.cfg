SPECIFICATION FairSpec
CONSTANTS
  t0 = t0
  t1 = t1
  t2 = t2
  InitTask = t0
  Task = {t0, t1, t2}
  Slave = {t1}
  Keeper = {t0, t1}
  End = End
  MaxNest = 1
  MaxWork = 1
INVARIANTS TypeOK NoUseAfterFree NoTaskLost RefCountExact NoReentry
PROPERTIES GarbageIsCollected RunnableIsRun
