SPECIFICATION FairSpec
CONSTANTS
  w1 = w1
  w2 = w2
  w3 = w3
  t0 = t0
  t1 = t1
  t2 = t2
  Workers = {w1, w2, w3}
  Tasks = {t0, t1, t2}
  InitialTask = t0
  None = None
  SharePerWorker = 1
INVARIANTS TypeOK RemainingIsExact NoTaskLost NoTaskShared NoStrandedTask NoSleepPastTheEnd AllExploredAtReturn
PROPERTIES NoTasksIsFinal ImplementsTaskPool PoolTerminates
