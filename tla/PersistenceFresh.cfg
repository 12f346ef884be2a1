\* A process that is stopped by a signal within its first minute, and started again.
CONSTANTS
  BoardSize = 3
  ChunkSize = 3
  CellsPerByte = 3
  MaxFlipDistance = 2
  h1 = h1
  h2 = h2
  Handlers = {h1, h2}
  TeamOf <- BlackAndWhite
  Targets <- FewTargets
  RecordUnits = 2
  BufferUnits = 3
  OldLogs <- NoneWholeOrTorn
  Garbage <- TwoReadings
  MaxClock = 3
  MaxLives = 2
SPECIFICATION Spec
PROPERTIES PreservesBoard
CHECK_DEADLOCK FALSE
