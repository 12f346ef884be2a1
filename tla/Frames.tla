--------------------------------- MODULE Frames ---------------------------------
(***************************************************************************)
(* The messages of the game, as the server encodes and decodes them        *)
(* (protocol.go) and as the client does (client/src/net/protocol.ts).      *)
(*                                                                         *)
(* A message is a function from its offsets, which begin at 0, to bytes.    *)
(* A number is the sequence of its bytes, the least significant first, as  *)
(* both sides put it there (binary.LittleEndian, littleEndian = true).     *)
(***************************************************************************)
EXTENDS Integers, FiniteSets, SequencesExt

CONSTANT ChunkPackedBytes   \* the bytes of a packed chunk (625)

Op == [Hello |-> 1, Subscribe |-> 2, Unsubscribe |-> 3, Place |-> 4, Ping |-> 5,
       Welcome |-> 129, Snapshot |-> 130, Delta |-> 131, PlaceAck |-> 132, Score |-> 133,
       Pong |-> 134, Error |-> 135]

Nothing == [kind |-> "nothing"]       \* what does not decode

BigEndian(n) == <<(n \div 256) % 256, n % 256>>       \* mutant
U16(n)       == <<n % 256, (n \div 256) % 256>>
Num(s)  == s[1] + 256 * s[2]
Size(m) == Cardinality(DOMAIN m)

\* the bytes of m from offset i on
Bytes(m, i, width) == [j \in 1 .. width |-> m[i + j - 1]]

-----------------------------------------------------------------------------
(* Where the server puts the fields of a frame: offset and width *)

PutFields ==
  [Hello       |-> [token |-> <<1, 32>>],
   Subscribe   |-> [chunk |-> <<1, 2>>],
   Unsubscribe |-> [chunk |-> <<1, 2>>],
   Place       |-> [x |-> <<1, 2>>, y |-> <<3, 2>>],
   Ping        |-> [nonce |-> <<1, 4>>],
   Welcome     |-> [session |-> <<1, 8>>, token |-> <<9, 32>>, team |-> <<41, 1>>, time |-> <<42, 8>>],
   Snapshot    |-> [chunk |-> <<1, 2>>, version |-> <<3, 8>>, packed |-> <<11, ChunkPackedBytes>>],
   PlaceAck    |-> [ok |-> <<1, 1>>, next |-> <<2, 8>>, err |-> <<10, 1>>],
   Score       |-> [black |-> <<1, 4>>, white |-> <<5, 4>>, empty |-> <<9, 4>>],
   Pong        |-> [nonce |-> <<1, 4>>, time |-> <<5, 8>>]]

Ends(layout) == {layout[x][1] + layout[x][2] : x \in DOMAIN layout}

Filled(op, layout, data) ==
  [i \in 0 .. Max(Ends(layout)) - 1 |->
     IF i = 0 THEN op
     ELSE LET x == CHOOSE x \in DOMAIN layout :
                     layout[x][1] <= i /\ i < layout[x][1] + layout[x][2]
          IN data[x][i - layout[x][1] + 1]]

EncodeDelta(entries) ==
  [i \in 0 .. 2 + 5 * Len(entries) |->
     IF i = 0 THEN Op.Delta
     ELSE IF i < 3 THEN U16(Len(entries))[i]
     ELSE LET e == entries[1 + (i - 3) \div 5] IN (e.x \o e.y \o e.cell)[1 + ((i - 3) % 5)]]

EncodeError(code, msg) ==
  [i \in 0 .. 3 + Len(msg) |->
     IF i = 0 THEN Op.Error
     ELSE IF i = 1 THEN code[1]
     ELSE IF i < 4 THEN U16(Len(msg))[i - 1] ELSE msg[i - 3]]

EncodeFrame(f) ==
  IF f.kind = "Delta" THEN EncodeDelta(f.data.entries)
  ELSE IF f.kind = "Error" THEN EncodeError(f.data.code, f.data.msg)
  ELSE Filled(Op[f.kind], PutFields[f.kind], f.data)

-----------------------------------------------------------------------------
(* Where the server looks for them, and the length it asks for *)

GetFields ==
  [Hello       |-> [token |-> <<1, 32>>],
   Subscribe   |-> [chunk |-> <<1, 2>>],
   Unsubscribe |-> [chunk |-> <<1, 2>>],
   Place       |-> [x |-> <<1, 2>>, y |-> <<3, 2>>],
   Ping        |-> [nonce |-> <<1, 4>>],
   Welcome     |-> [session |-> <<1, 8>>, token |-> <<9, 32>>, team |-> <<41, 1>>, time |-> <<42, 8>>],
   Snapshot    |-> [chunk |-> <<1, 2>>, version |-> <<3, 8>>, packed |-> <<11, ChunkPackedBytes>>],
   PlaceAck    |-> [ok |-> <<1, 1>>, next |-> <<2, 8>>, err |-> <<10, 1>>],
   Score       |-> [black |-> <<1, 4>>, white |-> <<5, 4>>, empty |-> <<9, 4>>],
   Pong        |-> [nonce |-> <<1, 4>>, time |-> <<5, 8>>]]

GetLength ==
  [Hello |-> 1 + 32, Subscribe |-> 3, Unsubscribe |-> 3, Place |-> 5, Ping |-> 5,
   Welcome |-> 50, Snapshot |-> 11 + ChunkPackedBytes, PlaceAck |-> 11, Score |-> 13, Pong |-> 13]

Found(kind, layout, m) ==
  [kind |-> kind, data |-> [x \in DOMAIN layout |-> Bytes(m, layout[x][1], layout[x][2])]]

FoundDelta(m) ==
  [kind |-> "Delta", data |-> [entries |->
     [i \in 1 .. Num(Bytes(m, 1, 2)) |->
        LET o == 3 + 5 * (i - 1) IN
        [x |-> Bytes(m, o, 2), y |-> Bytes(m, o + 2, 2), cell |-> Bytes(m, o + 4, 1)]]]]

FoundError(m) ==
  [kind |-> "Error", data |-> [code |-> Bytes(m, 1, 1), msg |-> Bytes(m, 4, Size(m) - 4)]]

KindOf(m) == CHOOSE kind \in DOMAIN Op \cup {"nothing"} :
               IF kind = "nothing" THEN \A x \in DOMAIN Op : Op[x] # m[0] ELSE Op[kind] = m[0]

LongEnough(kind, m) ==                                   \* mutant: longer ones pass
  IF kind \in DOMAIN GetLength THEN Size(m) >= GetLength[kind] ELSE FALSE

RightLength(kind, m) ==
  IF kind = "Delta" THEN Size(m) >= 3 /\ Size(m) = 3 + 5 * Num(Bytes(m, 1, 2))
  ELSE IF kind = "Error" THEN Size(m) >= 4 /\ Size(m) = 4 + Num(Bytes(m, 2, 2))
  ELSE kind \in DOMAIN GetLength /\ Size(m) = GetLength[kind]

DecodeFrame(m) ==
  IF Size(m) < 1 \/ ~RightLength(KindOf(m), m) THEN Nothing
  ELSE IF KindOf(m) = "Delta" THEN FoundDelta(m)
  ELSE IF KindOf(m) = "Error" THEN FoundError(m)
  ELSE Found(KindOf(m), GetFields[KindOf(m)], m)

-----------------------------------------------------------------------------
(* The client *)

ClientPut ==
  [Subscribe   |-> [chunk |-> <<1, 2>>],
   Unsubscribe |-> [chunk |-> <<1, 2>>],
   Place       |-> [x |-> <<1, 2>>, y |-> <<3, 2>>],
   Ping        |-> [nonce |-> <<1, 4>>]]

ClientEncode(f) == Filled(Op[f.kind], ClientPut[f.kind], f.data)

ClientGet ==
  [Welcome  |-> [session |-> <<1, 8>>, token |-> <<9, 32>>, team |-> <<41, 1>>, time |-> <<42, 8>>],
   PlaceAck |-> [ok |-> <<1, 1>>, next |-> <<2, 8>>, err |-> <<10, 1>>],
   Score    |-> [black |-> <<1, 4>>, white |-> <<5, 4>>, empty |-> <<9, 4>>],
   Pong     |-> [nonce |-> <<1, 4>>, time |-> <<5, 8>>]]

(* A DataView throws where there is no byte, and the frame is dropped; only *)
(* Error has its length compared, and a snapshot may be of any.            *)
Readable(kind, m) ==
  IF kind = "Delta" THEN Size(m) >= 3 /\ Size(m) >= 3 + 5 * Num(Bytes(m, 1, 2))
  ELSE IF kind = "Error" THEN Size(m) >= 4 /\ Size(m) = 4 + Num(Bytes(m, 2, 2))
  ELSE IF kind = "Snapshot" THEN Size(m) >= 11
  ELSE kind \in DOMAIN ClientGet /\ Size(m) >= Max(Ends(ClientGet[kind]))

decodeServerFrame(m) ==
  IF Size(m) < 1 \/ ~Readable(KindOf(m), m) THEN Nothing
  ELSE IF KindOf(m) = "Delta" THEN FoundDelta(m)
  ELSE IF KindOf(m) = "Error" THEN FoundError(m)
  ELSE IF KindOf(m) = "Snapshot"
       THEN Found("Snapshot", [chunk |-> <<1, 2>>, version |-> <<3, 8>>,
                               packed |-> <<11, Size(m) - 11>>], m)
  ELSE Found(KindOf(m), ClientGet[KindOf(m)], m)
=================================================================================
