\* Flips that cross chunk boundaries: two players and a reader on four chunks.
CONSTANTS
  BoardSize = 4
  ChunkSize = 2
  CellsPerByte = 2
  MaxFlipDistance = 2
  CountModulus = 256
  p1 = p1
  p2 = p2
  NoWriter = NoWriter
  Placers = {p1, p2}
  Readers = {r1}
  TeamOf <- TwoTeams
  StartBoards <- Crossing
  Targets <- CrossTargets
  ReadGoals <- OneOrAll
SPECIFICATION Spec
INVARIANTS ScanUnderReadLock ScanFollowsRule CountsMatchCells VersionsCountPlacements WholePlacements
PROPERTIES NoTornReads LockedPlacementsLegal
