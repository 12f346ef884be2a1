---------------------------- MODULE MCPlacement ----------------------------
(***************************************************************************)
(* Small instances of Placement for TLC.  In the pictures the columns are  *)
(* x = 0, 1, 2, ..., B and W are stones and a dot is an empty cell.        *)
(***************************************************************************)
EXTENDS Placement

CONSTANTS p1, p2

TwoTeams == [p \in Placers |-> IF p = p1 THEN Black ELSE White]

AllChunks == {Chunk}
OneOrAll == {{1}, Chunk}
LastChunk == {{3}}

\* a board with the given stones on it
BoardOf(black, white) ==
  [q \in Coord |-> IF q \in black THEN Black ELSE IF q \in white THEN White ELSE Empty]

(* One chunk of 4x4 cells and rays of at most two: every filling of the     *)
(* three cells to the right of the target <<0, 1>>, where two stones can be *)
(* closed within reach and three cannot, over a row from which White flips  *)
(* back.                                                                    *)
(*     . . . .                                                              *)
(*     . ? ? ?                                                              *)
(*     . W B .                                                              *)
(*     . . . .                                                              *)
Lines ==
  {BoardOf({<<2, 2>>} \cup b, {<<1, 2>>} \cup w) :
     b \in SUBSET {<<1, 1>>, <<2, 1>>, <<3, 1>>}, w \in SUBSET {<<1, 1>>, <<2, 1>>, <<3, 1>>}}
SeededOrLines == {SeedBoard} \cup Lines
LineTargets == {<<0, 1>>, <<3, 2>>, <<1, 0>>, <<2, 3>>}

(* Four chunks of 2x2 cells: each chunk boundary is crossed by flips.       *)
(*     . . . B      Black at (1,0) flips (1,1); once White has played (2,0) *)
(*     . W B .      and flipped (2,1), Black at (1,0) flips (2,0) as well,  *)
(*     . B W .      in a chunk the first scan gave no reason to lock.       *)
(*     . . . .                                                              *)
Crossing == {BoardOf({<<3, 0>>, <<1, 2>>, <<2, 1>>}, {<<1, 1>>, <<2, 2>>})}
CrossTargets == {<<1, 0>>, <<2, 0>>}

(* Four chunks of 2x2 cells: Black at (1,1) locks all four chunks to flip   *)
(* three stones, White at (2,3) locks the two lower ones.                   *)
(*     . . . .                                                              *)
(*     . . W B                                                              *)
(*     . W W .                                                              *)
(*     W B . B                                                              *)
Knot == {BoardOf({<<3, 1>>, <<1, 3>>, <<3, 3>>}, {<<2, 1>>, <<1, 2>>, <<2, 2>>, <<0, 3>>})}
KnotTargets == {<<1, 1>>, <<2, 3>>}

(* Four chunks of 3x3 cells in bytes of two cells: cells (2,y) and (3,y)    *)
(* share a byte and belong to different chunks.                             *)
(*     W B . . W B                                                          *)
Straddling == {BoardOf({<<1, 0>>, <<5, 0>>}, {<<0, 0>>, <<4, 0>>})}
StraddleTargets == {<<2, 0>>, <<3, 0>>}
============================================================================
