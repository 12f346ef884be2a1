\* One chunk lock covers the board: many boards, two players, rays of two cells.
CONSTANTS
  BoardSize = 4
  ChunkSize = 4
  CellsPerByte = 2
  MaxFlipDistance = 2
  CountModulus = 256
  p1 = p1
  p2 = p2
  NoWriter = NoWriter
  Placers = {p1, p2}
  Readers = {}
  TeamOf <- TwoTeams
  StartBoards <- SeededOrLines
  Targets <- LineTargets
  ReadGoals <- AllChunks
SPECIFICATION Spec
INVARIANTS TypeOK ScanFollowsRule
PROPERTIES Atomic
