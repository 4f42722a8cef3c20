\* Tasks call the API at the same time.
SPECIFICATION FairSpec
CONSTANTS
  t1 = t1
  t2 = t2
  t3 = t3
  Nobody = Nobody
  Task = {t1, t2, t3}
  MaxMutexes = 2
INVARIANTS
  MutualExclusion
PROPERTIES
  EveryCallReturns
