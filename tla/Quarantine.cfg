SPECIFICATION Spec
CONSTANTS
  p1 = p1  p2 = p2
  c1 = c1  c2 = c2
  q1 = q1  q2 = q2  q3 = q3
  r1 = r1  r2 = r2
  d1 = d1
  Fragment = Fragment
  None = None
  Paths = {p1, p2}
  Contents = {c1, c2}
  Ids = {q1, q2}
  Realtime = {q2}
  Restores = {r1}
  Deletes = {d1}
INVARIANTS NothingLost PurgedAfterCommit
SYMMETRY Interchangeable
CHECK_DEADLOCK FALSE
