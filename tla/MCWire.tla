--------------------------------- MODULE MCWire ---------------------------------
(***************************************************************************)
(* Small instances of Wire for TLC.                                        *)
(***************************************************************************)
EXTENDS Wire

\* a field of which every byte is different
Marked(first, width) == [j \in 1 .. width |-> (first + j) % 256]

\* a frame of every kind with a field of its own bytes everywhere
Filler(kind, layout) ==
  [kind |-> kind, data |-> [x \in DOMAIN layout |-> Marked(16 * layout[x][1], layout[x][2])]]

Entry(n) == [x |-> Marked(n, 2), y |-> Marked(n + 2, 2), cell |-> Marked(n + 4, 1)]

EveryAnswer ==
  {Filler(kind, PutFields[kind]) : kind \in {"Welcome", "Snapshot", "PlaceAck", "Score", "Pong"}}
  \cup {[kind |-> "Delta", data |-> [entries |-> [i \in 1 .. n |-> Entry(5 * i)]]] : n \in {1, 30}}
  \cup {[kind |-> "Error", data |-> [code |-> <<5>>, msg |-> Marked(n, n)]] : n \in {0, 3}}

EveryMessage == {Filler(kind, ClientPut[kind]) : kind \in DOMAIN ClientPut}

Boundaries == {0, 125, 126, 65535, 65536, 65537}
=================================================================================
