SPECIFICATION Spec
CONSTANTS
  j1 = j1  j2 = j2  j3 = j3
  c1 = c1  c2 = c2
  None = None
  Jobs = {j1, j2}
  Mode <- FullMode
  Cancels = {c1}
  ManualWorkers = 2
  MaySubmitFail = FALSE
  MayTimeOut = FALSE
INVARIANT SlotNotStranded
CHECK_DEADLOCK FALSE
