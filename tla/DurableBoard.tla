---------------------------- MODULE DurableBoard ----------------------------
(***************************************************************************)
(* What persistence promises of the board: when the process stops and a    *)
(* new one starts, the board is one the game was in before, and it has all *)
(* the placements that had been secured on disk.                           *)
(***************************************************************************)
EXTENDS Othello, SequencesExt

VARIABLES
  trail,     \* the boards of this life of the process, the current one last
  secured    \* cells whose placements are on disk

Has(board, cells) == \A q \in cells : board[q] # Empty

Init == Len(trail) = 1 /\ secured = {}

Place ==
  /\ \E q \in Coord, team \in Team :
       /\ Flips(Last(trail), q, team) # {}
       /\ trail' = Append(trail, Placed(Last(trail), q, team))
  /\ UNCHANGED secured

Secure ==
  /\ secured \subseteq secured'
  /\ Has(Last(trail), secured')
  /\ UNCHANGED trail

Restart ==
  /\ \E n \in DOMAIN trail :
       Has(trail[n], secured) /\ trail' = <<trail[n]>>
  /\ UNCHANGED secured

Next == Secure \/ Restart \/ Place
=============================================================================
