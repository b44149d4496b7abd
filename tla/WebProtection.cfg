SPECIFICATION Spec
CONSTANTS
  g1 = g1
  None = None
  Guids = {g1}
  Faults = {"exists", "remove", "clear", "record", "install"}
  Strikes = 2
  ResolveEvery = 2
  ReconcilerEvery = 2
  MaxCrashes = 2
CONSTRAINT AtMostUnowned
INVARIANTS TypeOK LiveIsRecorded StopLeavesNoRule SomebodyCanRemove
PROPERTIES FiresOnlyWhenSick DeadRuleRemoved
