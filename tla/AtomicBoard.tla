----------------------------- MODULE AtomicBoard -----------------------------
(***************************************************************************)
(* What the server promises about the board: it only ever changes by whole *)
(* legal Othello placements, one at a time.  Placement.tla is shown to     *)
(* implement this specification where one chunk lock covers the board.     *)
(***************************************************************************)
EXTENDS Othello

CONSTANT StartBoards   \* the boards a server may start from: seeded or restored

VARIABLE board

Init == board \in StartBoards

Place(p, team) ==
  /\ board[p] = Empty /\ board'[p] = team
  /\ Flips(board, p, team) # {}
  /\ board' = Placed(board, p, team)

Next == \E p \in Coord, team \in Team : Place(p, team)

Spec == Init /\ [][Next]_board
=============================================================================
