SPECIFICATION FairSpec
CONSTANTS
  t1 = t1  t2 = t2  t3 = t3  t4 = t4
  w1 = w1
  j1 = j1  j2 = j2  j3 = j3
  manual = manual
  None = None
  Kinds = {manual}
  Workers <- OneWorker
  KindOf <- OneKindOf
  Jobs = {j1, j2, j3}
  JobKind <- OneJobKind
  Hanging = {j1, j2}
  Slow = {j1, j2}
  Cancellable = {}
  Threads = {t1, t2, t3, t4}
  FirstThread <- OneFirstThread
  MaxLeaked = 2
  MaxDepth = 2
PROPERTIES QueueDrains
