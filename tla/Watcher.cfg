SPECIFICATION Spec
CONSTANTS
  f1 = f1
  f2 = f2
  None = None
  Files = {f1, f2}
  Visible = {f1}
  QueueCap = 1
  DebounceCap = 1
  RescanCap = 1
  Faults = {"unseen", "restored", "locked", "error", "heuristics", "partial", "excluded",
            "kept", "unproved", "inplace"}
  MaxFaults = 1
  MaxWrites = 2
  MaxTrust = 1
INVARIANTS CleanWasScanned TakesWhatItFound
PROPERTY ThreatsEnd
CHECK_DEADLOCK FALSE
