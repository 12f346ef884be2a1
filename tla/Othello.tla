------------------------------- MODULE Othello -------------------------------
(***************************************************************************)
(* The pure part of server/internal/board: the geometry of the board (its  *)
(* cells, the chunks that partition them, the bytes that store them) and   *)
(* the Othello rule, stated declaratively.  Placement.tla scans the board  *)
(* step by step as ComputeFlips does; this module says what the scan is    *)
(* supposed to find.                                                       *)
(***************************************************************************)
EXTENDS Integers, Sequences, FiniteSetsExt

CONSTANTS
  BoardSize,        \* cells per axis (1000 in the code)
  ChunkSize,        \* cells per axis of a chunk (50)
  CellsPerByte,     \* cells packed in one byte of Board.cells (4)
  MaxFlipDistance   \* reach of a flip ray (50)

\* BoardSize is a whole number of chunks, and rows start on a byte boundary
\* (1000 is a multiple of 50 and of 4).  ChunkSize need not be a multiple of
\* CellsPerByte: 50 is not a multiple of 4.
ASSUME GeometryAssumption ==
  /\ BoardSize \in Nat \ {0}
  /\ ChunkSize \in Nat \ {0}
  /\ CellsPerByte \in Nat \ {0}
  /\ MaxFlipDistance \in Nat \ {0}
  /\ BoardSize % ChunkSize = 0
  /\ BoardSize % CellsPerByte = 0

-----------------------------------------------------------------------------
(* Cells *)

Empty == "empty"
Black == "black"
White == "white"
Team  == {Black, White}
Cell  == Team \cup {Empty}

Opponent(team) == IF team = Black THEN White ELSE Black

Axis  == 0 .. BoardSize - 1
Coord == Axis \X Axis

InBounds(p) == p[1] \in Axis /\ p[2] \in Axis

(* The chunk of a cell: chunk ids number the chunks row by row. *)
ChunksPerAxis == BoardSize \div ChunkSize
Chunk         == 0 .. ChunksPerAxis * ChunksPerAxis - 1
ChunkOf(p)    == (p[2] \div ChunkSize) * ChunksPerAxis + p[1] \div ChunkSize

(* The cells stored in the same byte as p: Set rewrites all of them. *)
ByteOf(p) ==
  {x \in Axis : x \div CellsPerByte = p[1] \div CellsPerByte} \X {p[2]}

(* The chunks of a placement at p that flips the cells of a sequence. *)
TouchedChunks(p, flips) ==
  {ChunkOf(p)} \cup {ChunkOf(q) : q \in Range(flips)}

(* The chunks that overlap the box of the given radius around p. *)
LowChunk(v, radius)  == (IF v - radius < 0 THEN 0 ELSE v - radius) \div ChunkSize
HighChunk(v, radius) ==
  (IF v + radius >= BoardSize THEN BoardSize - 1 ELSE v + radius) \div ChunkSize
ReadBox(p, radius) ==
  {cy * ChunksPerAxis + cx :
     cy \in LowChunk(p[2], radius) .. HighChunk(p[2], radius),
     cx \in LowChunk(p[1], radius) .. HighChunk(p[1], radius)}

-----------------------------------------------------------------------------
(* The rule *)

Directions == << <<-1, -1>>, <<0, -1>>, <<1, -1>>,
                 <<-1,  0>>,            <<1,  0>>,
                 <<-1,  1>>, <<0,  1>>, <<1,  1>> >>

(* The k-th cell from p in direction d. *)
Along(p, d, k) == <<p[1] + k * d[1], p[2] + k * d[2]>>

(* A run of k - 1 opposing stones from p in direction d is closed by a     *)
(* stone of the team at distance k, within the reach of a flip.            *)
Brackets(board, p, d, k, team) ==
  /\ InBounds(Along(p, d, k))
  /\ board[Along(p, d, k)] = team
  /\ \A j \in 1 .. k - 1 : board[Along(p, d, j)] = Opponent(team)

RayFlips(board, p, d, team) ==
  UNION {{Along(p, d, j) : j \in 1 .. k - 1} :
           k \in {n \in 1 .. MaxFlipDistance : Brackets(board, p, d, n, team)}}

(* The stones a placement turns over; a placement is legal iff it turns    *)
(* over at least one.                                                      *)
Flips(board, p, team) ==
  IF InBounds(p) /\ board[p] = Empty
  THEN UNION {RayFlips(board, p, Directions[i], team) : i \in DOMAIN Directions}
  ELSE {}

Placed(board, p, team) ==
  [q \in Coord |-> IF q = p \/ q \in Flips(board, p, team) THEN team ELSE board[q]]

-----------------------------------------------------------------------------
(* Tallies *)

Tally(board, chunk, colour) ==
  Cardinality({q \in Coord : ChunkOf(q) = chunk /\ board[q] = colour})

(* The board a fresh server starts from: a 2x2 cluster in every chunk, at   *)
(* offset 24 of 50.                                                        *)
SeedOffset == ChunkSize \div 2 - 1

SeedBoard ==
  [q \in Coord |->
     LET lx == (q[1] % ChunkSize) - SeedOffset
         ly == (q[2] % ChunkSize) - SeedOffset
     IN  IF lx \notin 0 .. 1 \/ ly \notin 0 .. 1 THEN Empty
         ELSE IF lx = ly THEN White ELSE Black]
=============================================================================
