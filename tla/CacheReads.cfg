SPECIFICATION Spec
CONSTANTS
  r1 = r1
  r2 = r2
  Reader = {r1, r2}
  TTL = 2
  Slow = 1
  MaxTime = 5
  MaxVersion = 3
CHECK_DEADLOCK FALSE
SYMMETRY Symmetry
INVARIANTS TypeOK FreshWithin
