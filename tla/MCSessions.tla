------------------------------- MODULE MCSessions -------------------------------
(***************************************************************************)
(* Small instances of Sessions for TLC.                                    *)
(***************************************************************************)
EXTENDS Sessions

CONSTANTS b1, t1, t2

OneBrowser == [t \in Tabs |-> b1]

=================================================================================
