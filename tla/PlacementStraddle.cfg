\* Two placements in neighbouring chunks that share a byte.
CONSTANTS
  BoardSize = 6
  ChunkSize = 3
  CellsPerByte = 2
  MaxFlipDistance = 3
  CountModulus = 256
  p1 = p1
  p2 = p2
  NoWriter = NoWriter
  Placers = {p1, p2}
  Readers = {}
  TeamOf <- TwoTeams
  StartBoards <- Straddling
  Targets <- StraddleTargets
  ReadGoals <- AllChunks
SPECIFICATION Spec
INVARIANTS CountsAgree
