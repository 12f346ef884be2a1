\* A connection leaves while the score broadcaster is under way.
CONSTANTS
  c1 = c1
  c2 = c2
  s1 = s1
  s2 = s2
  k1 = k1
  k2 = k2
  None = None
  Conns = {c1, c2}
  Sessions = {s1, s2}
  SessionOf <- OwnSessions
  Chunks = {k1, k2}
  Placements <- OneOrBoth
  Asks <- PlayAndWatch
  Capacity = 1
SPECIFICATION Spec
INVARIANTS NeverCrashes
CHECK_DEADLOCK FALSE
