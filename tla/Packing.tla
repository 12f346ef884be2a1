------------------------------- MODULE Packing -------------------------------
(***************************************************************************)
(* The packed forms of cells: the whole board of a snapshot file, row by   *)
(* row, and one chunk of it.  A byte holds CellsPerByte cells, the first   *)
(* in its most significant digits.                                         *)
(***************************************************************************)
EXTENDS Othello, SequencesExt

CodeOf(cell) == CASE cell = Empty -> 0 [] cell = Black -> 1 [] cell = White -> 2
CellOf(code) == CASE code = 1 -> Black [] code = 2 -> White [] OTHER -> Empty

PackedBytes(count) == (count + CellsPerByte - 1) \div CellsPerByte

(* The bytes of count cells, cells[i] being number i; the last byte is      *)
(* filled up with zero digits.  A digit shifts those before it up by one.   *)
Numbers(k)        == [j \in 1 .. CellsPerByte |-> (k - 1) * CellsPerByte + j - 1]
Code(cells, i, n) == IF i < n THEN CodeOf(cells[i]) ELSE 0

Packed(count, cells) ==
  [k \in 1 .. PackedBytes(count) |->
     FoldLeft(LAMBDA byte, i : 4 * byte + Code(cells, i, count), 0, Numbers(k))]

(* Cell number i is digit i % CellsPerByte of its byte: the byte is shifted *)
(* down by the digits after it.                                            *)
Shifts(i)       == [j \in 1 .. CellsPerByte - 1 - (i % CellsPerByte) |-> j]
Digit(bytes, i) ==
  FoldLeft(LAMBDA byte, j : byte \div 4, bytes[i \div CellsPerByte + 1], Shifts(i)) % 4

-----------------------------------------------------------------------------
(* A snapshot file: encodeBoard goes chunk by chunk, but numbers the cells  *)
(* of the whole board row by row, and so does decodeBoardInto.             *)

BoardCells == BoardSize * BoardSize

encodeBoard(board) ==
  Packed(BoardCells,
         [i \in 0 .. BoardCells - 1 |-> board[<<i % BoardSize, i \div BoardSize>>]])

decodeBoard(bytes) ==
  [q \in Coord |-> CellOf(Digit(bytes, q[2] * BoardSize + q[1]))]
=============================================================================
