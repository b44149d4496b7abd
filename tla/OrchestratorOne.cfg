SPECIFICATION Spec
CONSTANTS
  t1 = t1  t2 = t2  t3 = t3  t4 = t4
  w1 = w1
  j1 = j1  j2 = j2  j3 = j3
  manual = manual
  None = None
  Kinds = {manual}
  Workers <- OneWorker
  KindOf <- OneKindOf
  Jobs = {j1, j2, j3}
  JobKind <- OneJobKind
  Hanging = {j1}
  Slow = {j1, j2, j3}
  Cancellable = {j2}
  Threads = {t1, t2, t3}
  FirstThread <- OneFirstThread
  MaxLeaked = 1
  MaxDepth = 1
INVARIANTS LeakAccounting OneCurrentThread QueueBounded ThreadBudget JobsConserved
