\* Two connections of one player and one of another, from one address.
\* The clock stops: no deadlock check.
CONSTANTS
  c1 = c1
  c2 = c2
  c3 = c3
  p1 = p1
  p2 = p2
  i1 = i1
  Nothing = Nothing
  Conns = {c1, c2, c3}
  Players = {p1, p2}
  PlayerOf <- TwoAndOne
  Addresses = {i1}
  Cap = 2
  Burst = 1
  Refill = 2
  Idle = 2
  Cooldown = 2
  MaxClock = 6
SPECIFICATION Spec
INVARIANTS TypeOK SlotsCounted BucketExact
PROPERTIES Cadence
CHECK_DEADLOCK FALSE
