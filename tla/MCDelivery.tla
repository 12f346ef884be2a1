------------------------------ MODULE MCDelivery ------------------------------
(***************************************************************************)
(* Small instances of Delivery for TLC.                                    *)
(***************************************************************************)
EXTENDS Delivery

CONSTANTS p1, c1, c2, k1, black, white, a

PageIsWhite == [x \in Actors |-> IF x = p1 THEN black ELSE white]

OneForAll == [q \in Cells |-> k1]

AllWhite == {[q \in Cells |-> white]}

OneCell == {{a}}
=============================================================================
