\* Placements that lock four and two chunks beside a reader of one, under fairness.
CONSTANTS
  BoardSize = 4
  ChunkSize = 2
  CellsPerByte = 2
  MaxFlipDistance = 2
  CountModulus = 256
  p1 = p1
  p2 = p2
  NoWriter = NoWriter
  Placers = {p1, p2}
  Readers = {r1}
  TeamOf <- TwoTeams
  StartBoards <- Knot
  Targets <- KnotTargets
  ReadGoals <- LastChunk
SPECIFICATION FairSpec
INVARIANTS LockOrder NoLockCycle
PROPERTIES EveryCallReturns
