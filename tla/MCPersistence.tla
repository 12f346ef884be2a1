---------------------------- MODULE MCPersistence ----------------------------
(***************************************************************************)
(* Small instances of Persistence for TLC: a seeded board of 3x3 cells.    *)
(*     W B .          Black at (2,1) flips (1,1), and only then can White   *)
(*     B W .          play at (2,2), and turn it back; White can play at    *)
(*     . . .          (2,0) at any time.                                    *)
(***************************************************************************)
EXTENDS Persistence

CONSTANTS h1, h2

BlackAndWhite == [h \in Handlers |-> IF h = h1 THEN Black ELSE White]

FewTargets == {<<2, 1>>, <<2, 2>>}

\* No log, or one of a life that ended before its first snapshot.
OldRecord == [at |-> <<2, 1>>, team |-> Black, ts |-> 0]
NoneWholeOrTorn == {<<>>, UnitsOf(OldRecord), Append(UnitsOf(OldRecord), UnitsOf(OldRecord)[1])}

\* One that every time filter skips, and one that none does.
TwoReadings == {None, [at |-> <<2, 2>>, team |-> White, ts |-> MaxClock + 1]}
=============================================================================
