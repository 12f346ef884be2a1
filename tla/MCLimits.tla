-------------------------------- MODULE MCLimits --------------------------------
(***************************************************************************)
(* Small instances of Limits for TLC.                                      *)
(***************************************************************************)
EXTENDS Limits

CONSTANTS c1, c2, c3, p1, p2, i1

TwoAndOne == [c \in Conns |-> IF c = c3 THEN p2 ELSE p1]

=================================================================================
