SPECIFICATION FairSpec
CONSTANTS
  j1 = j1  j2 = j2  j3 = j3
  c1 = c1  c2 = c2
  None = None
  Jobs = {j1, j2, j3}
  Mode <- MixedMode
  Cancels = {c1, c2}
  ManualWorkers = 2
  MaySubmitFail = TRUE
  MayTimeOut = TRUE
PROPERTIES SlotReleased KeepsPromise
CHECK_DEADLOCK FALSE
