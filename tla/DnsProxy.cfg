SPECIFICATION ProxySpec
CONSTANTS
  q1 = q1
  q2 = q2
  n1 = n1
  NoName = NoName
  Queries = {q1, q2}
  Names = {n1}
  Postures <- MCPostures
  Sizes = {1, 2}
  MaxInFlight = 1
  MaxConns = 1
  MaxQueued = 1
  Capacity = 2
  MaxBytes = 3
  MaxChanges = 1
INVARIANTS ProxyTypeOK BlockedIsNotServed ServedAsAsked CacheBounded Accounted
PROPERTIES EveryQueryEnds
CHECK_DEADLOCK FALSE
