\* Two handlers, a process that may stop and start again, a log whose buffer is full at one
\* record and a half.  It ends when its last life does: no deadlock check.
CONSTANTS
  BoardSize = 3
  ChunkSize = 3
  CellsPerByte = 3
  MaxFlipDistance = 2
  h1 = h1
  h2 = h2
  Handlers = {h1, h2}
  TeamOf <- BlackAndWhite
  Targets <- FewTargets
  RecordUnits = 2
  BufferUnits = 3
  OldLogs <- NoneWholeOrTorn
  Garbage <- TwoReadings
  MaxClock = 3
  MaxLives = 2
SPECIFICATION Spec
INVARIANTS TypeOK NothingFallsBetween
PROPERTIES NothingInvented Durable
CHECK_DEADLOCK FALSE
