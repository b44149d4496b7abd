SPECIFICATION Spec
CONSTANTS
  f1 = f1
  walk = walk  idle = idle
  r1 = r1  r2 = r2
  None = None
  Files = {f1}
  MaxSet = 3
  Fingerprint <- Prints
  Walks = {walk}
  Idle = {idle}
  Reloaders = {r1, r2}
  QueueCap = 2
  MaxGen = 3
CONSTRAINT NoMishap
VIEW LiveView
SYMMETRY Interchangeable
INVARIANTS TypeOK GenerationFitsEngine HitsAreCurrent
CHECK_DEADLOCK FALSE
