---------------------------- MODULE OthelloLemmas ----------------------------
(* Facts about the geometry of the board, for any size of board, chunk and  *)
(* byte, and about the least and greatest element of a set of chunks.       *)
EXTENDS Othello, FiniteSetTheorems, WellFoundedInduction, TLAPS

(* Chunks tile the axis: there is at least one, and none sticks out.        *)
LEMMA ChunksTile ==
  /\ ChunksPerAxis \in Nat \ {0}
  /\ BoardSize = ChunksPerAxis * ChunkSize
BY GeometryAssumption DEF ChunksPerAxis

(* A cell further along an axis is in the same chunk or in a later one.     *)
LEMMA DivMonotone ==
  ASSUME NEW a \in Nat, NEW b \in Nat, a <= b
  PROVE  a \div ChunkSize <= b \div ChunkSize
<1> DEFINE qa == a \div ChunkSize
           qb == b \div ChunkSize
<1>1. ChunkSize \in Nat \ {0}
  BY GeometryAssumption
<1>2. /\ qa \in Nat /\ a = qa * ChunkSize + (a % ChunkSize) /\ a % ChunkSize \in 0 .. ChunkSize - 1
      /\ qb \in Nat /\ b = qb * ChunkSize + (b % ChunkSize) /\ b % ChunkSize \in 0 .. ChunkSize - 1
  BY <1>1
<1> HIDE DEF qa, qb
<1>3. SUFFICES ASSUME qa >= qb + 1 PROVE FALSE
  BY <1>2 DEF qa, qb
<1>4. qa * ChunkSize >= (qb + 1) * ChunkSize
  BY <1>1, <1>2, <1>3
<1>5. (qb + 1) * ChunkSize = qb * ChunkSize + ChunkSize
  BY <1>1, <1>2
<1> QED BY <1>1, <1>2, <1>4, <1>5

(* Dividing a coordinate by the chunk size gives a column or row of chunks. *)
LEMMA ChunkIndex ==
  ASSUME NEW v \in Axis
  PROVE  v \div ChunkSize \in 0 .. ChunksPerAxis - 1
<1> DEFINE q == v \div ChunkSize
<1>1. /\ v \in Nat /\ v < BoardSize /\ ChunkSize \in Nat \ {0}
  BY GeometryAssumption DEF Axis
<1>2. q \in Nat /\ v = q * ChunkSize + (v % ChunkSize) /\ v % ChunkSize \in 0 .. ChunkSize - 1
  BY <1>1
<1>3. q * ChunkSize < ChunksPerAxis * ChunkSize
  BY <1>1, <1>2, ChunksTile
<1>4. q < ChunksPerAxis
  <2> SUFFICES ASSUME q >= ChunksPerAxis PROVE FALSE
    BY <1>2, ChunksTile
  <2>1. q * ChunkSize >= ChunksPerAxis * ChunkSize
    BY <1>1, <1>2, ChunksTile
  <2> QED BY <2>1, <1>3, <1>1, <1>2, ChunksTile
<1> QED BY <1>2, <1>4, ChunksTile

(* The id of a pair of a column and a row of chunks is a chunk id.          *)
LEMMA ChunkId ==
  ASSUME NEW cx \in 0 .. ChunksPerAxis - 1, NEW cy \in 0 .. ChunksPerAxis - 1
  PROVE  cy * ChunksPerAxis + cx \in Chunk
<1> DEFINE n == ChunksPerAxis
<1>1. n \in Nat \ {0}
  BY ChunksTile
<1>2. cy * n <= (n - 1) * n
  BY <1>1
<1>3. (n - 1) * n = n * n - n
  BY <1>1
<1> HIDE DEF n
<1>4. cy * n \in Nat /\ n * n \in Nat
  BY <1>1 DEF n
<1>5. cy * n + cx \in 0 .. n * n - 1
  BY <1>1, <1>2, <1>3, <1>4 DEF n
<1> QED BY <1>5 DEF n, Chunk

(* Every cell of the board lies in a chunk of the board.                    *)
LEMMA ChunkOfType ==
  ASSUME NEW p \in Coord
  PROVE  ChunkOf(p) \in Chunk
<1>1. p[1] \in Axis /\ p[2] \in Axis
  BY DEF Coord
<1> QED BY <1>1, ChunkIndex, ChunkId DEF ChunkOf

(* The byte that stores a cell holds that cell, and only cells.             *)
LEMMA ByteOfType ==
  ASSUME NEW p \in Coord
  PROVE  p \in ByteOf(p) /\ ByteOf(p) \subseteq Coord
BY DEF ByteOf, Coord

(* The box around a cell consists of chunks of the board.                   *)
LEMMA ReadBoxType ==
  ASSUME NEW p \in Coord, NEW radius \in Nat
  PROVE  ReadBox(p, radius) \subseteq Chunk
<1>1. \A v \in Axis : /\ LowChunk(v, radius) \in 0 .. ChunksPerAxis - 1
                      /\ HighChunk(v, radius) \in 0 .. ChunksPerAxis - 1
  <2> TAKE v \in Axis
  <2>1. (IF v - radius < 0 THEN 0 ELSE v - radius) \in Axis
    BY GeometryAssumption DEF Axis
  <2>2. (IF v + radius >= BoardSize THEN BoardSize - 1 ELSE v + radius) \in Axis
    BY GeometryAssumption DEF Axis
  <2> QED BY <2>1, <2>2, ChunkIndex DEF LowChunk, HighChunk
<1>2. p[1] \in Axis /\ p[2] \in Axis
  BY DEF Coord
<1>3. ASSUME NEW cy \in LowChunk(p[2], radius) .. HighChunk(p[2], radius),
             NEW cx \in LowChunk(p[1], radius) .. HighChunk(p[1], radius)
      PROVE  cy * ChunksPerAxis + cx \in Chunk
  <2>1. cy \in 0 .. ChunksPerAxis - 1 /\ cx \in 0 .. ChunksPerAxis - 1
    BY <1>1, <1>2, ChunksTile
  <2> QED BY <2>1, ChunkId
<1> QED BY <1>3 DEF ReadBox

(* The chunk of the cell itself is in the box.                              *)
LEMMA ReadBoxHolds ==
  ASSUME NEW p \in Coord, NEW radius \in Nat
  PROVE  ReadBox(p, radius) # {}
<1>1. \A v \in Axis : LowChunk(v, radius) <= HighChunk(v, radius)
  <2> SUFFICES ASSUME NEW v \in Axis PROVE LowChunk(v, radius) <= HighChunk(v, radius)
    OBVIOUS
  <2> DEFINE low  == IF v - radius < 0 THEN 0 ELSE v - radius
             high == IF v + radius >= BoardSize THEN BoardSize - 1 ELSE v + radius
  <2>1. low \in Axis /\ high \in Axis /\ low <= high
    BY GeometryAssumption DEF Axis
  <2> HIDE DEF low, high
  <2>2. low \div ChunkSize <= high \div ChunkSize
    BY <2>1, DivMonotone DEF Axis
  <2> QED BY <2>2 DEF low, high, LowChunk, HighChunk
<1>2. p[1] \in Axis /\ p[2] \in Axis
  BY DEF Coord
<1>3. /\ LowChunk(p[1], radius) \in Int /\ HighChunk(p[1], radius) \in Int
      /\ LowChunk(p[2], radius) \in Int /\ HighChunk(p[2], radius) \in Int
  BY <1>2, GeometryAssumption DEF LowChunk, HighChunk, Axis
<1>4. /\ LowChunk(p[1], radius) \in LowChunk(p[1], radius) .. HighChunk(p[1], radius)
      /\ LowChunk(p[2], radius) \in LowChunk(p[2], radius) .. HighChunk(p[2], radius)
  BY <1>1, <1>2, <1>3
<1>5. LowChunk(p[2], radius) * ChunksPerAxis + LowChunk(p[1], radius) \in ReadBox(p, radius)
  BY <1>4 DEF ReadBox
<1> QED BY <1>5

(* The box holds the chunk of every cell within the radius, on both axes.   *)
LEMMA ReadBoxReach ==
  ASSUME NEW p \in Coord, NEW q \in Coord, NEW radius \in Nat,
         p[1] - radius <= q[1], q[1] <= p[1] + radius,
         p[2] - radius <= q[2], q[2] <= p[2] + radius
  PROVE  ChunkOf(q) \in ReadBox(p, radius)
<1>1. ASSUME NEW v \in Axis, NEW w \in Axis, v - radius <= w, w <= v + radius
      PROVE  w \div ChunkSize \in LowChunk(v, radius) .. HighChunk(v, radius)
  <2> DEFINE low  == IF v - radius < 0 THEN 0 ELSE v - radius
             high == IF v + radius >= BoardSize THEN BoardSize - 1 ELSE v + radius
  <2>1. low \in Nat /\ high \in Nat /\ w \in Nat /\ low <= w /\ w <= high
    BY <1>1, GeometryAssumption DEF Axis
  <2>2. LowChunk(v, radius) = low \div ChunkSize /\ HighChunk(v, radius) = high \div ChunkSize
    BY DEF LowChunk, HighChunk
  <2> HIDE DEF low, high
  <2>3. /\ low \div ChunkSize <= w \div ChunkSize
        /\ w \div ChunkSize <= high \div ChunkSize
    BY <2>1, DivMonotone
  <2>4. low \div ChunkSize \in Int /\ w \div ChunkSize \in Int /\ high \div ChunkSize \in Int
    BY <2>1, GeometryAssumption
  <2> QED BY <2>2, <2>3, <2>4
<1>2. p[1] \in Axis /\ p[2] \in Axis /\ q[1] \in Axis /\ q[2] \in Axis
  BY DEF Coord
<1>3. /\ q[1] \div ChunkSize \in LowChunk(p[1], radius) .. HighChunk(p[1], radius)
      /\ q[2] \div ChunkSize \in LowChunk(p[2], radius) .. HighChunk(p[2], radius)
  BY <1>1, <1>2
<1> QED BY <1>3 DEF ChunkOf, ReadBox

(* A placement touches at least one chunk, and only chunks of the board.    *)
LEMMA TouchedType ==
  ASSUME NEW p \in Coord, NEW flips \in Seq(Coord)
  PROVE  TouchedChunks(p, flips) \subseteq Chunk /\ TouchedChunks(p, flips) # {}
BY ChunkOfType DEF TouchedChunks, Range

(* The stones of a chunk are finitely many.                                 *)
LEMMA TallyType ==
  ASSUME NEW board, NEW chunk, NEW colour
  PROVE  Tally(board, chunk, colour) \in Nat
<1> DEFINE S == {q \in Coord : ChunkOf(q) = chunk /\ board[q] = colour}
<1>1. IsFiniteSet(Axis)
  BY GeometryAssumption, FS_Interval DEF Axis
<1>2. IsFiniteSet(Coord)
  BY <1>1, FS_Product DEF Coord
<1>3. IsFiniteSet(S)
  BY <1>2, FS_Subset
<1> QED BY <1>3, FS_CardinalityType DEF Tally

(* Every nonempty set of natural numbers has a least element, and every     *)
(* nonempty set of chunks a least and a greatest one.                       *)
LEMMA LeastNatural ==
  ASSUME NEW S \in SUBSET Nat, S # {}
  PROVE  \E x \in S : \A y \in S : x <= y
<1>1. PICK x \in S : \A y \in S : ~(<<y, x>> \in OpToRel(<, Nat))
  BY NatLessThanWellFounded, WFMin
<1>2. ASSUME NEW y \in S, y < x PROVE FALSE
  <2>1. <<y, x>> \in Nat \X Nat
    BY <1>2
  <2>2. <<y, x>>[1] < <<y, x>>[2]
    BY <1>2
  <2>3. <<y, x>> \in OpToRel(<, Nat)
    BY <2>1, <2>2, Zenon DEF OpToRel
  <2> QED BY <2>3, <1>1
<1>3. \A y \in S : x <= y
  BY <1>2
<1> QED BY <1>3

(* A nonempty set of chunks has a least id: the next one to be locked.      *)
LEMMA MinExists ==
  ASSUME NEW S \in SUBSET Chunk, S # {}
  PROVE  Min(S) \in S /\ \A x \in S : Min(S) <= x
<1>1. S \subseteq Nat
  BY ChunksTile DEF Chunk
<1> QED BY <1>1, LeastNatural DEF Min

(* A nonempty set of chunks has a greatest id: the next one to be unlocked. *)
LEMMA MaxExists ==
  ASSUME NEW S \in SUBSET Chunk, S # {}
  PROVE  Max(S) \in S /\ \A x \in S : x <= Max(S)
<1> DEFINE last == ChunksPerAxis * ChunksPerAxis - 1
           T == {last - x : x \in S}
<1>1. last \in Int /\ \A x \in S : x \in Int /\ last - x \in Nat
  BY ChunksTile DEF Chunk
<1> HIDE DEF last
<1>2. T \subseteq Nat /\ T # {}
  BY <1>1
<1>3. PICK least \in T : \A y \in T : least <= y
  <2> HIDE DEF T
  <2> QED BY <1>2, LeastNatural
<1>4. PICK x \in S : least = last - x
  BY <1>3
<1>5. \A y \in S : last - x <= last - y
  BY <1>3, <1>4
<1>6. \A y \in S : x >= y
  BY <1>1, <1>5
<1> QED BY <1>1, <1>6 DEF Max
=============================================================================
