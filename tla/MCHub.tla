--------------------------------- MODULE MCHub ---------------------------------
(***************************************************************************)
(* Small instances of Hub for TLC.                                         *)
(***************************************************************************)
EXTENDS Hub

CONSTANTS c1, c2, s1, s2, k1, k2

\* two tabs, or an old connection and the one that replaces it
OneSession == [c \in Conns |-> s1]
OwnSessions == [c \in Conns |-> IF c = c1 THEN s1 ELSE s2]

\* the messages the peers send: one plays, the other watches
PlayAndWatch == [c \in Conns |-> IF c = c1 THEN {"place", "ping"} ELSE {"subscribe", "unsubscribe"}]

OneChunk == {{k1}}
OneOrBoth == {{k1}, Chunks}
================================================================================
