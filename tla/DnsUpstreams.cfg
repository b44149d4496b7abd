SPECIFICATION UpstreamsSpec
CONSTANTS
  s1 = s1
  s2 = s2
  self = self
  Servers = {s1, s2}
  Self = self
  MaxNetChanges = 4
  MaxFailures = 2
INVARIANTS AsleepIsCurrent
PROPERTY UpstreamsFollow
