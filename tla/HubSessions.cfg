\* Two connections of one session, of which one watches what the other plays.
\* The process may crash, and connections end: no deadlock check.
CONSTANTS
  c1 = c1
  c2 = c2
  s1 = s1
  s2 = s2
  k1 = k1
  k2 = k2
  None = None
  Conns = {c1, c2}
  Sessions = {s1}
  SessionOf <- OneSession
  Chunks = {k1}
  Placements <- OneChunk
  Asks <- PlayAndWatch
  Capacity = 1
SPECIFICATION FairSpec
INVARIANTS TypeOK ClosedOnce OpenIffRegistered SubsAgree
PROPERTIES DeparturesEnd
CHECK_DEADLOCK FALSE
