\* Every kind of message, and pings at the boundaries of the length forms.
\* Messages are bounded: no deadlock check.
CONSTANTS
  ChunkPackedBytes = 625
  MaxPayload = 65536
  Answers <- EveryAnswer
  Messages <- EveryMessage
  PingSizes <- Boundaries
  MaxWrites = 1
  MaxSays = 2
SPECIFICATION Spec
INVARIANTS TypeOK FramesWhole ClientReads ServerHears PingsAnswered
CHECK_DEADLOCK FALSE
