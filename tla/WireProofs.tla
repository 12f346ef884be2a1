------------------------------ MODULE WireProofs ------------------------------
(***************************************************************************)
(* What is sent is what is read: theorems about Wire, for messages of any   *)
(* contents and any number of frames both ways.                            *)
(***************************************************************************)
EXTENDS Wire, FiniteSetTheorems, SequenceTheorems, TLAPS

-----------------------------------------------------------------------------
(* Messages: the bytes of a field are where they were put *)

(* The size of a message of n bytes is n.                                   *)
LEMMA SizeOf ==
  ASSUME NEW n \in Nat, NEW m, DOMAIN m = 0 .. n - 1
  PROVE  Size(m) = n
<1>1. Cardinality(0 .. n - 1) = IF 0 > n - 1 THEN 0 ELSE n - 1 - 0 + 1
  BY FS_Interval
<1> QED BY <1>1 DEF Size

(* The first byte of a message says what kind it is of.                     *)
LEMMA KindFound ==
  ASSUME NEW m, NEW kind \in DOMAIN Op, m[0] = Op[kind]
  PROVE  KindOf(m) = kind
<1> DEFINE Fits(k) == IF k = "nothing" THEN \A x \in DOMAIN Op : Op[x] # m[0] ELSE Op[k] = m[0]
<1>1. kind \in DOMAIN Op \cup {"nothing"} /\ Fits(kind)
  BY DEF Op
<1>2. \A k \in DOMAIN Op \cup {"nothing"} : Fits(k) => k = kind
  BY DEF Op
<1>3. KindOf(m) = CHOOSE k \in DOMAIN Op \cup {"nothing"} : Fits(k)
  BY DEF KindOf
<1> HIDE DEF Fits
<1> QED BY <1>1, <1>2, <1>3

(* The fields of a layout have places of their own and end at n.            *)
Inside(layout, x, i) == layout[x][1] <= i /\ i < layout[x][1] + layout[x][2]

LayoutOK(layout, n) ==
  /\ n \in Nat \ {0}
  /\ \A x \in DOMAIN layout : /\ layout[x][1] \in Nat \ {0} /\ layout[x][2] \in Nat \ {0}
                              /\ layout[x][1] + layout[x][2] <= n
  /\ \E x \in DOMAIN layout : layout[x][1] + layout[x][2] = n
  /\ \A x, y \in DOMAIN layout, i \in Nat : Inside(layout, x, i) /\ Inside(layout, y, i) => x = y

(* Its greatest end is the size of the message.                             *)
LEMMA GreatestEnd ==
  ASSUME NEW layout, NEW n, LayoutOK(layout, n)
  PROVE  Max(Ends(layout)) = n
<1>1. n \in Ends(layout) /\ \A e \in Ends(layout) : e \in Nat /\ e <= n
  BY DEF LayoutOK, Ends
<1>2. \A a, b \in Ends(layout) : (\A e \in Ends(layout) : a >= e) /\ (\A e \in Ends(layout) : b >= e) => a = b
  BY <1>1
<1>3. \A e \in Ends(layout) : n >= e
  BY <1>1 DEF LayoutOK
<1>4. Max(Ends(layout)) = CHOOSE a \in Ends(layout) : \A e \in Ends(layout) : a >= e
  BY DEF Max
<1> QED BY <1>1, <1>2, <1>3, <1>4

(* A message that was filled has n bytes, its kind first, and in the place  *)
(* of each field the bytes of that field.                                  *)
LEMMA FilledFields ==
  ASSUME NEW op, NEW layout, NEW n, LayoutOK(layout, n), NEW data,
         \A x \in DOMAIN layout : data[x] \in Field(layout[x][2])
  PROVE  /\ DOMAIN Filled(op, layout, data) = 0 .. n - 1
         /\ Filled(op, layout, data)[0] = op
         /\ \A x \in DOMAIN layout :
              Bytes(Filled(op, layout, data), layout[x][1], layout[x][2]) = data[x]
<1> DEFINE At(i) == CHOOSE x \in DOMAIN layout : Inside(layout, x, i)
           Whole == [i \in 0 .. n - 1 |->
                       IF i = 0 THEN op ELSE data[At(i)][i - layout[At(i)][1] + 1]]
<1>1. Filled(op, layout, data) = Whole
  BY GreatestEnd DEF Filled, Inside
<1>2. n \in Nat \ {0}
  BY DEF LayoutOK
<1>3. \A i \in 1 .. n - 1 : Whole[i] = data[At(i)][i - layout[At(i)][1] + 1]
  <2> HIDE DEF At
  <2>1. TAKE i \in 1 .. n - 1
  <2>2. i \in 0 .. n - 1 /\ i # 0
    BY <1>2
  <2> QED BY <2>2
<1>4. ASSUME NEW x \in DOMAIN layout
      PROVE  Bytes(Whole, layout[x][1], layout[x][2]) = data[x]
  <2>1. PICK o, w : o = layout[x][1] /\ w = layout[x][2]
    OBVIOUS
  <2>2. o \in Nat \ {0} /\ w \in Nat \ {0} /\ o + w <= n
    BY <2>1 DEF LayoutOK
  <2>3. ASSUME NEW j \in 1 .. w
        PROVE  Whole[o + j - 1] = data[x][j]
    <3>1. PICK i : i = o + j - 1
      OBVIOUS
    <3>2. i \in 1 .. n - 1 /\ i \in Nat /\ i - o + 1 = j
      BY <2>2, <1>2, <3>1
    <3>3. Inside(layout, x, i)
      BY <2>1, <2>2, <3>1 DEF Inside
    <3>4. \A y \in DOMAIN layout : Inside(layout, y, i) => y = x
      BY <3>2, <3>3 DEF LayoutOK
    <3>5. At(i) = x
      BY <3>3, <3>4
    <3>6. Whole[i] = data[At(i)][i - layout[At(i)][1] + 1]
      BY <3>2, <1>3
    <3> HIDE DEF At, Whole
    <3> QED BY <3>1, <3>2, <3>5, <3>6, <2>1
  <2>4. data[x] \in [1 .. w -> Byte]
    BY <2>1 DEF Field
  <2>5. Bytes(Whole, o, w) = [j \in 1 .. w |-> Whole[o + j - 1]]
    BY DEF Bytes
  <2> HIDE DEF Whole
  <2>6. Bytes(Whole, o, w) = data[x]
    BY <2>3, <2>4, <2>5
  <2> QED BY <2>6, <2>1
<1>5. DOMAIN Whole = 0 .. n - 1 /\ Whole[0] = op
  BY <1>2
<1> HIDE DEF Whole
<1> QED BY <1>1, <1>4, <1>5

(* The layouts.                                                             *)
LEMMA WelcomeLayout ==
  LayoutOK([session |-> <<1, 8>>, token |-> <<9, 32>>, team |-> <<41, 1>>, time |-> <<42, 8>>], 50)
<1> DEFINE L == [session |-> <<1, 8>>, token |-> <<9, 32>>, team |-> <<41, 1>>, time |-> <<42, 8>>]
<1>1. DOMAIN L = {"session", "token", "team", "time"}
  OBVIOUS
<1>2. /\ L.session[1] = 1 /\ L.session[2] = 8 /\ L.token[1] = 9 /\ L.token[2] = 32
      /\ L.team[1] = 41 /\ L.team[2] = 1 /\ L.time[1] = 42 /\ L.time[2] = 8
  OBVIOUS
<1> HIDE DEF L
<1>3. LayoutOK(L, 50)
  BY <1>1, <1>2 DEF LayoutOK, Inside
<1> QED BY <1>3 DEF L

(* The fields of a snapshot, whatever the size of a packed chunk.          *)
LEMMA SnapshotLayout ==
  LayoutOK([chunk |-> <<1, 2>>, version |-> <<3, 8>>, packed |-> <<11, ChunkPackedBytes>>],
           11 + ChunkPackedBytes)
<1> DEFINE L == [chunk |-> <<1, 2>>, version |-> <<3, 8>>, packed |-> <<11, ChunkPackedBytes>>]
<1>1. DOMAIN L = {"chunk", "version", "packed"}
  OBVIOUS
<1>2. /\ L.chunk[1] = 1 /\ L.chunk[2] = 2 /\ L.version[1] = 3 /\ L.version[2] = 8
      /\ L.packed[1] = 11 /\ L.packed[2] = ChunkPackedBytes
  OBVIOUS
<1>3. ChunkPackedBytes \in Nat \ {0}
  BY WireAssumption
<1> HIDE DEF L
<1>4. LayoutOK(L, 11 + ChunkPackedBytes)
  BY <1>1, <1>2, <1>3 DEF LayoutOK, Inside
<1> QED BY <1>4 DEF L

(* The fields of PlaceAck.                                                 *)
LEMMA PlaceAckLayout ==
  LayoutOK([ok |-> <<1, 1>>, next |-> <<2, 8>>, err |-> <<10, 1>>], 11)
<1> DEFINE L == [ok |-> <<1, 1>>, next |-> <<2, 8>>, err |-> <<10, 1>>]
<1>1. DOMAIN L = {"ok", "next", "err"}
  OBVIOUS
<1>2. /\ L.ok[1] = 1 /\ L.ok[2] = 1 /\ L.next[1] = 2 /\ L.next[2] = 8
      /\ L.err[1] = 10 /\ L.err[2] = 1
  OBVIOUS
<1> HIDE DEF L
<1>3. LayoutOK(L, 11)
  BY <1>1, <1>2 DEF LayoutOK, Inside
<1> QED BY <1>3 DEF L

(* The fields of Score.                                                    *)
LEMMA ScoreLayout ==
  LayoutOK([black |-> <<1, 4>>, white |-> <<5, 4>>, empty |-> <<9, 4>>], 13)
<1> DEFINE L == [black |-> <<1, 4>>, white |-> <<5, 4>>, empty |-> <<9, 4>>]
<1>1. DOMAIN L = {"black", "white", "empty"}
  OBVIOUS
<1>2. /\ L.black[1] = 1 /\ L.black[2] = 4 /\ L.white[1] = 5 /\ L.white[2] = 4
      /\ L.empty[1] = 9 /\ L.empty[2] = 4
  OBVIOUS
<1> HIDE DEF L
<1>3. LayoutOK(L, 13)
  BY <1>1, <1>2 DEF LayoutOK, Inside
<1> QED BY <1>3 DEF L

(* The fields of Pong.                                                     *)
LEMMA PongLayout == LayoutOK([nonce |-> <<1, 4>>, time |-> <<5, 8>>], 13)
<1> DEFINE L == [nonce |-> <<1, 4>>, time |-> <<5, 8>>]
<1>1. DOMAIN L = {"nonce", "time"}
  OBVIOUS
<1>2. L.nonce[1] = 1 /\ L.nonce[2] = 4 /\ L.time[1] = 5 /\ L.time[2] = 8
  OBVIOUS
<1> HIDE DEF L
<1>3. LayoutOK(L, 13)
  BY <1>1, <1>2 DEF LayoutOK, Inside
<1> QED BY <1>3 DEF L

(* The field of Subscribe and Unsubscribe.                                 *)
LEMMA ChunkLayout == LayoutOK([chunk |-> <<1, 2>>], 3)
  BY DEF LayoutOK, Inside

(* The fields of Place.                                                    *)
LEMMA PlaceLayout == LayoutOK([x |-> <<1, 2>>, y |-> <<3, 2>>], 5)
<1> DEFINE L == [x |-> <<1, 2>>, y |-> <<3, 2>>]
<1>1. DOMAIN L = {"x", "y"}
  OBVIOUS
<1>2. L.x[1] = 1 /\ L.x[2] = 2 /\ L.y[1] = 3 /\ L.y[2] = 2
  OBVIOUS
<1> HIDE DEF L
<1>3. LayoutOK(L, 5)
  BY <1>1, <1>2 DEF LayoutOK, Inside
<1> QED BY <1>3 DEF L

(* The field of Ping.                                                      *)
LEMMA PingLayout == LayoutOK([nonce |-> <<1, 4>>], 5)
  BY DEF LayoutOK, Inside

(* Both sides look for the fields where the other puts them, and ask for    *)
(* the length they have.                                                   *)
LEMMA ServerLayouts ==
  ASSUME NEW kind \in FromServer
  PROVE  /\ LayoutOK(PutFields[kind], GetLength[kind])
         /\ GetFields[kind] = PutFields[kind]
         /\ kind # "Snapshot" => kind \in DOMAIN ClientGet /\ ClientGet[kind] = PutFields[kind]
         /\ kind \in DOMAIN Op /\ kind \in DOMAIN GetLength
         /\ kind # "Delta" /\ kind # "Error"
<1>1. CASE kind = "Welcome"
  BY <1>1, WelcomeLayout DEF PutFields, GetFields, GetLength, ClientGet, Op
<1>2. CASE kind = "Snapshot"
  BY <1>2, SnapshotLayout DEF PutFields, GetFields, GetLength, Op
<1>3. CASE kind = "PlaceAck"
  BY <1>3, PlaceAckLayout DEF PutFields, GetFields, GetLength, ClientGet, Op
<1>4. CASE kind = "Score"
  BY <1>4, ScoreLayout DEF PutFields, GetFields, GetLength, ClientGet, Op
<1>5. CASE kind = "Pong"
  BY <1>5, PongLayout DEF PutFields, GetFields, GetLength, ClientGet, Op
<1> QED BY <1>1, <1>2, <1>3, <1>4, <1>5 DEF FromServer

(* The client's layouts are the server's, for what the client sends.       *)
LEMMA ClientLayouts ==
  ASSUME NEW kind \in DOMAIN ClientPut
  PROVE  /\ LayoutOK(ClientPut[kind], GetLength[kind])
         /\ GetFields[kind] = ClientPut[kind]
         /\ GetLength[kind] \in {3, 5}
         /\ kind \in DOMAIN Op /\ kind \in DOMAIN GetLength
         /\ kind # "Delta" /\ kind # "Error"
<1>1. CASE kind = "Subscribe"
  BY <1>1, ChunkLayout DEF ClientPut, GetFields, GetLength, Op
<1>2. CASE kind = "Unsubscribe"
  BY <1>2, ChunkLayout DEF ClientPut, GetFields, GetLength, Op
<1>3. CASE kind = "Place"
  BY <1>3, PlaceLayout DEF ClientPut, GetFields, GetLength, Op
<1>4. CASE kind = "Ping"
  BY <1>4, PingLayout DEF ClientPut, GetFields, GetLength, Op
<1> QED BY <1>1, <1>2, <1>3, <1>4 DEF ClientPut

(* The fields of a message that was filled are found again.                 *)
LEMMA FilledFound ==
  ASSUME NEW kind, NEW layout, NEW n, LayoutOK(layout, n), NEW op, NEW data,
         data = [x \in DOMAIN layout |-> data[x]],
         \A x \in DOMAIN layout : data[x] \in Field(layout[x][2])
  PROVE  Found(kind, layout, Filled(op, layout, data)) = [kind |-> kind, data |-> data]
<1>1. PICK m : m = Filled(op, layout, data)
  OBVIOUS
<1>2. \A x \in DOMAIN layout : Bytes(m, layout[x][1], layout[x][2]) = data[x]
  BY <1>1, FilledFields
<1>3. [x \in DOMAIN layout |-> Bytes(m, layout[x][1], layout[x][2])] = data
  BY <1>2
<1>4. Found(kind, layout, m) = [kind |-> kind, data |-> data]
  BY <1>3 DEF Found
<1> QED BY <1>1, <1>4

(* The server's decoder has a message of fixed length whole.                *)
LEMMA PlainDecoded ==
  ASSUME NEW kind \in DOMAIN GetLength, kind \in DOMAIN Op, kind # "Delta", kind # "Error",
         NEW m, DOMAIN m = 0 .. GetLength[kind] - 1, GetLength[kind] \in Nat \ {0},
         m[0] = Op[kind]
  PROVE  /\ KindOf(m) = kind
         /\ Size(m) = GetLength[kind]
         /\ DecodeFrame(m) = Found(kind, GetFields[kind], m)
<1>1. KindOf(m) = kind
  BY KindFound
<1>2. Size(m) = GetLength[kind]
  <2>1. PICK n \in Nat : n = GetLength[kind]
    OBVIOUS
  <2>2. Size(m) = n
    BY <2>1, SizeOf
  <2> QED BY <2>1, <2>2
<1>3. RightLength(kind, m) /\ ~(Size(m) < 1)
  BY <1>2 DEF RightLength
<1>4. DecodeFrame(m) = Found(kind, GetFields[kind], m)
  BY <1>1, <1>3 DEF DecodeFrame
<1> QED BY <1>1, <1>2, <1>4

(* A message of fixed length is read as what was sent, by either side.      *)
LEMMA PlainRoundTrip ==
  ASSUME NEW f, f.kind \in FromServer, Plain(f, PutFields)
  PROVE  /\ DecodeFrame(EncodeFrame(f)) = f
         /\ decodeServerFrame(EncodeFrame(f)) = f
         /\ Size(EncodeFrame(f)) \in Nat \ {0}
<1>1. PICK kind \in FromServer : kind = f.kind
  OBVIOUS
<1>2. PICK layout : layout = PutFields[kind]
  OBVIOUS
<1>3. PICK data : data = [x \in DOMAIN layout |-> f.data[x]]
  OBVIOUS
<1>4. /\ f = [kind |-> kind, data |-> data] /\ f.data = data
      /\ \A x \in DOMAIN layout : data[x] \in Field(layout[x][2])
  BY <1>1, <1>2, <1>3 DEF Plain
<1>5. PICK n : n = GetLength[kind]
  OBVIOUS
<1>6. LayoutOK(layout, n) /\ n \in Nat \ {0}
  BY <1>2, <1>5, ServerLayouts DEF LayoutOK
<1>7. PICK m : m = Filled(Op[kind], layout, data)
  OBVIOUS
<1>8. EncodeFrame(f) = m
  BY <1>1, <1>2, <1>4, <1>7, ServerLayouts DEF EncodeFrame
<1>9. DOMAIN m = 0 .. n - 1 /\ m[0] = Op[kind]
  <2>1. PICK op : op = Op[kind]
    OBVIOUS
  <2>2. m = Filled(op, layout, data)
    BY <1>7, <2>1
  <2>3. DOMAIN m = 0 .. n - 1 /\ m[0] = op
    BY <1>4, <1>6, <2>2, FilledFields
  <2> QED BY <2>1, <2>3
<1>10. Found(kind, layout, m) = f
  BY <1>3, <1>4, <1>6, <1>7, FilledFound
<1>11. KindOf(m) = kind /\ Size(m) = n /\ DecodeFrame(m) = Found(kind, GetFields[kind], m)
  BY <1>5, <1>6, <1>9, ServerLayouts, PlainDecoded
<1>12. DecodeFrame(m) = f
  BY <1>2, <1>10, <1>11, ServerLayouts
<1>13. decodeServerFrame(m) = f
  <2>1. CASE kind = "Snapshot"
    <3>1. layout = [chunk |-> <<1, 2>>, version |-> <<3, 8>>, packed |-> <<11, ChunkPackedBytes>>]
      BY <2>1, <1>2 DEF PutFields
    <3>2. n = 11 + ChunkPackedBytes /\ ChunkPackedBytes \in Nat
      BY <2>1, <1>5, WireAssumption DEF GetLength
    <3>3. Size(m) - 11 = ChunkPackedBytes /\ Size(m) >= 11 /\ ~(Size(m) < 1)
      BY <3>2, <1>11
    <3>4. Readable(KindOf(m), m)
      BY <2>1, <1>11, <3>3 DEF Readable
    <3>5. decodeServerFrame(m) = Found("Snapshot", layout, m)
      BY <2>1, <1>11, <3>1, <3>3, <3>4 DEF decodeServerFrame
    <3> QED BY <3>5, <2>1, <1>10
  <2>2. CASE kind # "Snapshot"
    <3>1. kind \in DOMAIN ClientGet /\ ClientGet[kind] = layout /\ kind # "Delta" /\ kind # "Error"
      BY <2>2, <1>2, ServerLayouts
    <3>2. Max(Ends(layout)) = n
      BY <1>6, GreatestEnd
    <3>3. Readable(kind, m) /\ ~(Size(m) < 1)
      BY <2>2, <3>1, <3>2, <1>6, <1>11 DEF Readable
    <3>4. decodeServerFrame(m) = Found(kind, layout, m)
      BY <2>2, <3>1, <3>3, <1>11 DEF decodeServerFrame
    <3> QED BY <3>4, <1>10
  <2> QED BY <2>1, <2>2
<1> QED BY <1>6, <1>8, <1>11, <1>12, <1>13

(* Two bytes hold a number up to 65535.                                     *)
LEMMA TwoBytes ==
  ASSUME NEW n \in Nat, n < 65536
  PROVE  (n % 256) + 256 * ((n \div 256) % 256) = n
<1>1. n \div 256 \in 0 .. 255
  OBVIOUS
<1>2. (n \div 256) % 256 = n \div 256
  BY <1>1
<1>3. n = 256 * (n \div 256) + (n % 256)
  OBVIOUS
<1> QED BY <1>1, <1>2, <1>3

(* The number at a place of a message that has its two bytes there.         *)
LEMMA NumRead ==
  ASSUME NEW n \in Nat, n < 65536, NEW m, NEW i \in Nat, NEW j \in Nat, j = i + 1,
         m[i] = U16(n)[1], m[j] = U16(n)[2]
  PROVE  Num(Bytes(m, i, 2)) = n
<1>1. Bytes(m, i, 2)[1] = m[i] /\ Bytes(m, i, 2)[2] = m[j]
  BY DEF Bytes
<1>2. U16(n)[1] = n % 256 /\ U16(n)[2] = (n \div 256) % 256
  BY DEF U16
<1> QED BY <1>1, <1>2, TwoBytes DEF Num

(* A function on an interval that begins at 1 is a sequence.                *)
LEMMA FieldIsSeq ==
  ASSUME NEW n \in Nat, NEW S, NEW x \in [1 .. n -> S]
  PROVE  x \in Seq(S) /\ Len(x) = n
<1>1. x \in Seq(S)
  BY SeqDef
<1>2. Len(x) \in Nat /\ DOMAIN x = 1 .. Len(x) /\ DOMAIN x = 1 .. n
  BY <1>1, LenProperties
<1> QED BY <1>1, <1>2

(* An entry of a delta has five bytes.                                      *)
Entries == [x : Field(2), y : Field(2), cell : Field(1)]
BytesOf(e) == e.x \o e.y \o e.cell

(* An entry of a delta takes five bytes, in three fields.                  *)
LEMMA EntryBytes ==
  ASSUME NEW e \in Entries
  PROVE  /\ BytesOf(e)[1] = e.x[1] /\ BytesOf(e)[2] = e.x[2]
         /\ BytesOf(e)[3] = e.y[1] /\ BytesOf(e)[4] = e.y[2]
         /\ BytesOf(e)[5] = e.cell[1]
<1>1. PICK x, y, c : x = e.x /\ y = e.y /\ c = e.cell
  OBVIOUS
<1>2. x \in [1 .. 2 -> Byte] /\ y \in [1 .. 2 -> Byte] /\ c \in [1 .. 1 -> Byte]
  BY <1>1 DEF Entries, Field
<1>3. x \in Seq(Byte) /\ Len(x) = 2
  BY <1>2, FieldIsSeq
<1>4. y \in Seq(Byte) /\ Len(y) = 2
  BY <1>2, FieldIsSeq
<1>5. c \in Seq(Byte) /\ Len(c) = 1
  BY <1>2, FieldIsSeq
<1>6. PICK s : s = x \o y
  OBVIOUS
<1>7. /\ s \in Seq(Byte) /\ Len(s) = Len(x) + Len(y)
      /\ \A i \in 1 .. Len(x) + Len(y) : s[i] = IF i <= Len(x) THEN x[i] ELSE y[i - Len(x)]
  BY <1>3, <1>4, <1>6, ConcatProperties
<1>8. s[1] = x[1] /\ s[2] = x[2] /\ s[3] = y[1] /\ s[4] = y[2]
  BY <1>3, <1>4, <1>7
<1>9. PICK t : t = s \o c
  OBVIOUS
<1>10. Len(s) = 4 /\ s \in Seq(Byte)
  BY <1>3, <1>4, <1>7
<1>11. \A i \in 1 .. Len(s) + Len(c) : t[i] = IF i <= Len(s) THEN s[i] ELSE c[i - Len(s)]
  BY ONLY <1>5, <1>9, <1>10, ConcatProperties
<1>12. t[1] = s[1] /\ t[2] = s[2] /\ t[3] = s[3] /\ t[4] = s[4] /\ t[5] = c[1]
  BY <1>5, <1>10, <1>11
<1>13. BytesOf(e) = t
  BY <1>1, <1>6, <1>9 DEF BytesOf
<1> QED BY <1>1, <1>8, <1>12, <1>13

(* Entry i of a delta begins 5 (i - 1) bytes after the count.               *)
LEMMA DeltaBytes ==
  ASSUME NEW entries \in Seq(Entries), NEW i \in 1 .. Len(entries), NEW r \in 0 .. 4
  PROVE  EncodeDelta(entries)[3 + 5 * (i - 1) + r] = BytesOf(entries[i])[r + 1]
<1>1. PICK at, n : at = 3 + 5 * (i - 1) + r /\ n = Len(entries)
  OBVIOUS
<1>2. n \in Nat /\ i \in 1 .. n
  BY <1>1
<1>3. at \in 0 .. 2 + 5 * n /\ at # 0 /\ ~(at < 3)
  BY <1>1, <1>2
<1>4. at - 3 = 5 * (i - 1) + r
  BY <1>1
<1>5. (at - 3) \div 5 = i - 1 /\ (at - 3) % 5 = r
  BY <1>4
<1>6. 1 + (at - 3) \div 5 = i /\ 1 + ((at - 3) % 5) = r + 1
  BY <1>5
<1>7. EncodeDelta(entries)[at]
        = BytesOf(entries[1 + (at - 3) \div 5])[1 + ((at - 3) % 5)]
  BY <1>1, <1>3 DEF EncodeDelta, BytesOf
<1> QED BY <1>1, <1>6, <1>7

(* An entry is found where it was put.                                      *)
EntryAt(m, o) == [x |-> Bytes(m, o, 2), y |-> Bytes(m, o + 2, 2), cell |-> Bytes(m, o + 4, 1)]

(* The fields read at the place of an entry are that entry.                *)
LEMMA EntryFound ==
  ASSUME NEW e \in Entries, NEW m, NEW o \in Nat,
         \A r \in 0 .. 4 : m[o + r] = BytesOf(e)[r + 1]
  PROVE  EntryAt(m, o) = e
<1>1. /\ m[o] = e.x[1] /\ m[o + 1] = e.x[2] /\ m[o + 2] = e.y[1] /\ m[o + 3] = e.y[2]
      /\ m[o + 4] = e.cell[1]
  <2>1. m[o + 0] = BytesOf(e)[0 + 1] /\ m[o + 1] = BytesOf(e)[1 + 1] /\ m[o + 2] = BytesOf(e)[2 + 1]
        /\ m[o + 3] = BytesOf(e)[3 + 1] /\ m[o + 4] = BytesOf(e)[4 + 1]
    OBVIOUS
  <2> QED BY <2>1, EntryBytes
<1>2. e.x \in [1 .. 2 -> Byte] /\ e.y \in [1 .. 2 -> Byte] /\ e.cell \in [1 .. 1 -> Byte]
  BY DEF Entries, Field
<1>3. Bytes(m, o, 2) = e.x
  <2>1. \A j \in 1 .. 2 : m[o + j - 1] = e.x[j]
    BY <1>1
  <2> QED BY <1>2, <2>1 DEF Bytes
<1>4. Bytes(m, o + 2, 2) = e.y
  <2>1. \A j \in 1 .. 2 : m[o + 2 + j - 1] = e.y[j]
    BY <1>1
  <2> QED BY <1>2, <2>1 DEF Bytes
<1>5. Bytes(m, o + 4, 1) = e.cell
  <2>1. \A j \in 1 .. 1 : m[o + 4 + j - 1] = e.cell[j]
    BY <1>1
  <2> QED BY <1>2, <2>1 DEF Bytes
<1> QED BY <1>3, <1>4, <1>5 DEF EntryAt, Entries

(* A delta is read as what was sent, by either side.                        *)
LEMMA DeltaRoundTrip ==
  ASSUME NEW f, DeltaFrame(f)
  PROVE  /\ DecodeFrame(EncodeFrame(f)) = f
         /\ decodeServerFrame(EncodeFrame(f)) = f
         /\ Size(EncodeFrame(f)) \in Nat \ {0}
<1>1. PICK entries : entries = f.data.entries
  OBVIOUS
<1>2. /\ f = [kind |-> "Delta", data |-> [entries |-> entries]] /\ f.kind = "Delta"
      /\ entries \in Seq(Entries) /\ Len(entries) < 65536
  BY <1>1 DEF DeltaFrame, Entries
<1>3. PICK n : n = Len(entries)
  OBVIOUS
<1>4. n \in Nat /\ n < 65536
  BY <1>2, <1>3
<1>5. PICK m : m = EncodeDelta(entries)
  OBVIOUS
<1>6. EncodeFrame(f) = m
  BY <1>1, <1>2, <1>5 DEF EncodeFrame
<1>7. DOMAIN m = 0 .. 2 + 5 * n /\ m[0] = Op["Delta"] /\ m[1] = U16(n)[1] /\ m[2] = U16(n)[2]
  <2>1. PICK u : u = U16(n)
    OBVIOUS
  <2>2. DOMAIN m = 0 .. 2 + 5 * n
    BY <1>3, <1>5 DEF EncodeDelta
  <2>3. 0 \in 0 .. 2 + 5 * n /\ 1 \in 0 .. 2 + 5 * n /\ 2 \in 0 .. 2 + 5 * n
    BY <1>4
  <2>4. m[0] = Op.Delta
    BY <1>3, <1>5, <2>3 DEF EncodeDelta
  <2>5. m[1] = u[1] /\ m[2] = u[2]
    BY <1>3, <1>5, <2>1, <2>3 DEF EncodeDelta
  <2> QED BY <2>1, <2>2, <2>4, <2>5 DEF Op
<1>8. Size(m) = 3 + 5 * n
  <2>1. PICK k \in Nat : k = 3 + 5 * n
    BY <1>4
  <2>2. DOMAIN m = 0 .. k - 1
    BY <1>4, <1>7, <2>1
  <2> QED BY <2>1, <2>2, SizeOf
<1>9. KindOf(m) = "Delta"
  <2>1. "Delta" \in DOMAIN Op
    BY DEF Op
  <2>2. m[0] = Op["Delta"]
    BY <1>7
  <2> QED BY ONLY <2>1, <2>2, KindFound
<1>10. Num(Bytes(m, 1, 2)) = n
  <2>1. 1 \in Nat /\ 2 \in Nat /\ 2 = 1 + 1
    OBVIOUS
  <2>2. m[1] = U16(n)[1] /\ m[2] = U16(n)[2]
    BY <1>7
  <2> QED BY ONLY <1>4, <2>1, <2>2, NumRead
<1>11. FoundDelta(m) = f
  <2>1. ASSUME NEW i \in 1 .. n
        PROVE  EntryAt(m, 3 + 5 * (i - 1)) = entries[i]
    <3>1. \A r \in 0 .. 4 : m[3 + 5 * (i - 1) + r] = BytesOf(entries[i])[r + 1]
      <4>1. i \in 1 .. Len(entries) /\ entries \in Seq(Entries)
        BY <1>2, <1>3
      <4>2. \A r \in 0 .. 4 : EncodeDelta(entries)[3 + 5 * (i - 1) + r] = BytesOf(entries[i])[r + 1]
        BY <4>1, DeltaBytes
      <4> QED BY <4>2, <1>5
    <3>2. PICK o \in Nat : o = 3 + 5 * (i - 1)
      BY <1>4
    <3>3. PICK e \in Entries : e = entries[i]
      BY <1>2, <1>3, ElementOfSeq
    <3>4. \A r \in 0 .. 4 : m[o + r] = BytesOf(e)[r + 1]
      BY <3>1, <3>2, <3>3
    <3> QED BY <3>2, <3>3, <3>4, EntryFound
  <2>2. PICK found : found = [i \in 1 .. n |-> EntryAt(m, 3 + 5 * (i - 1))]
    OBVIOUS
  <2>3. FoundDelta(m) = [kind |-> "Delta", data |-> [entries |-> found]]
    BY <1>10, <2>2 DEF FoundDelta, EntryAt
  <2>4. found = entries
    <3>1. entries = [i \in 1 .. n |-> entries[i]]
      BY <1>2, <1>3, LenProperties
    <3> QED BY <2>1, <2>2, <3>1
  <2> QED BY <1>2, <2>3, <2>4
<1>12. ~(Size(m) < 1) /\ Size(m) >= 3 /\ Size(m) \in Nat \ {0}
  BY <1>4, <1>8
<1>13. RightLength("Delta", m) /\ Readable("Delta", m)
  BY <1>4, <1>8, <1>10, <1>12 DEF RightLength, Readable
<1>14. DecodeFrame(m) = f
  BY <1>9, <1>11, <1>12, <1>13 DEF DecodeFrame
<1>15. decodeServerFrame(m) = f
  BY <1>9, <1>11, <1>12, <1>13 DEF decodeServerFrame
<1> QED BY <1>6, <1>12, <1>14, <1>15

(* So is an error.                                                          *)
LEMMA ErrorRoundTrip ==
  ASSUME NEW f, ErrorFrame(f)
  PROVE  /\ DecodeFrame(EncodeFrame(f)) = f
         /\ decodeServerFrame(EncodeFrame(f)) = f
         /\ Size(EncodeFrame(f)) \in Nat \ {0}
<1>1. PICK code, msg : code = f.data.code /\ msg = f.data.msg
  OBVIOUS
<1>2. /\ f = [kind |-> "Error", data |-> [code |-> code, msg |-> msg]] /\ f.kind = "Error"
      /\ code \in [1 .. 1 -> Byte] /\ msg \in Seq(Byte) /\ Len(msg) < 65536
  BY <1>1 DEF ErrorFrame, Field
<1>3. PICK n : n = Len(msg)
  OBVIOUS
<1>4. n \in Nat /\ n < 65536
  BY <1>2, <1>3
<1>5. PICK m : m = EncodeError(code, msg)
  OBVIOUS
<1>6. EncodeFrame(f) = m
  BY <1>1, <1>2, <1>5 DEF EncodeFrame
<1>7. /\ DOMAIN m = 0 .. 3 + n /\ m[0] = Op["Error"] /\ m[1] = code[1]
      /\ m[2] = U16(n)[1] /\ m[3] = U16(n)[2]
  BY <1>3, <1>4, <1>5 DEF EncodeError, Op
<1>8. \A j \in 1 .. n : m[3 + j] = msg[j]
  BY <1>3, <1>4, <1>5 DEF EncodeError
<1>9. Size(m) = 4 + n
  <2>1. PICK k \in Nat : k = 4 + n
    BY <1>4
  <2>2. DOMAIN m = 0 .. k - 1
    BY <1>4, <1>7, <2>1
  <2> QED BY <2>1, <2>2, SizeOf
<1>10. KindOf(m) = "Error"
  <2>1. "Error" \in DOMAIN Op
    BY DEF Op
  <2>2. m[0] = Op["Error"]
    BY <1>7
  <2> QED BY ONLY <2>1, <2>2, KindFound
<1>11. Num(Bytes(m, 2, 2)) = n
  <2>1. 2 \in Nat /\ 3 \in Nat /\ 3 = 2 + 1
    OBVIOUS
  <2>2. m[2] = U16(n)[1] /\ m[3] = U16(n)[2]
    BY <1>7
  <2> QED BY ONLY <1>4, <2>1, <2>2, NumRead
<1>12. Bytes(m, 1, 1) = code
  <2>1. \A j \in 1 .. 1 : m[1 + j - 1] = code[j]
    BY <1>7
  <2> QED BY <1>2, <2>1 DEF Bytes
<1>13. Bytes(m, 4, Size(m) - 4) = msg
  <2>1. Size(m) - 4 = n
    BY <1>4, <1>9
  <2>2. \A j \in 1 .. n : m[4 + j - 1] = msg[j]
    BY <1>8, <1>4
  <2>3. Bytes(m, 4, n) = [j \in 1 .. n |-> m[4 + j - 1]]
    BY DEF Bytes
  <2>4. msg = [j \in 1 .. n |-> msg[j]]
    BY <1>2, <1>3
  <2> QED BY <2>1, <2>2, <2>3, <2>4
<1>14. FoundError(m) = f
  BY <1>2, <1>12, <1>13 DEF FoundError
<1>15. ~(Size(m) < 1) /\ Size(m) >= 4 /\ Size(m) \in Nat \ {0}
  BY <1>4, <1>9
<1>16. RightLength("Error", m) /\ Readable("Error", m)
  BY <1>4, <1>9, <1>11, <1>15 DEF RightLength, Readable
<1>17. DecodeFrame(m) = f
  BY <1>10, <1>14, <1>15, <1>16 DEF DecodeFrame
<1>18. decodeServerFrame(m) = f
  BY <1>10, <1>14, <1>15, <1>16 DEF decodeServerFrame
<1> QED BY <1>6, <1>15, <1>17, <1>18

(* What the server encodes, both sides decode to what it was.               *)
THEOREM AnswersReadBack ==
  \A f \in Answers :
    /\ DecodeFrame(EncodeFrame(f)) = f
    /\ decodeServerFrame(EncodeFrame(f)) = f
    /\ Size(EncodeFrame(f)) \in Nat \ {0}
BY WireAssumption, PlainRoundTrip, DeltaRoundTrip, ErrorRoundTrip

(* What the client encodes the server decodes to what it was.               *)
LEMMA MessageReadBack ==
  ASSUME NEW f \in Messages
  PROVE  /\ DecodeFrame(ClientEncode(f)) = f
         /\ Size(ClientEncode(f)) \in {3, 5}
         /\ KindOf(ClientEncode(f)) \in DOMAIN ClientPut
         /\ GetLength[KindOf(ClientEncode(f))] = Size(ClientEncode(f))
         /\ ClientEncode(f)[0] = Op[KindOf(ClientEncode(f))]
<1>1. PICK kind : kind = f.kind
  OBVIOUS
<1>2. kind \in DOMAIN ClientPut /\ Plain(f, ClientPut)
  BY <1>1, WireAssumption DEF Plain
<1>3. PICK layout : layout = ClientPut[kind]
  OBVIOUS
<1>4. PICK data : data = [x \in DOMAIN layout |-> f.data[x]]
  OBVIOUS
<1>5. /\ f = [kind |-> kind, data |-> data] /\ f.data = data
      /\ \A x \in DOMAIN layout : data[x] \in Field(layout[x][2])
  BY <1>1, <1>2, <1>3, <1>4 DEF Plain
<1>6. PICK n : n = GetLength[kind]
  OBVIOUS
<1>7. LayoutOK(layout, n) /\ n \in {3, 5} /\ kind \in DOMAIN Op /\ kind \in DOMAIN GetLength
      /\ kind # "Delta" /\ kind # "Error" /\ GetFields[kind] = layout
  BY <1>2, <1>3, <1>6, ClientLayouts
<1>8. PICK op : op = Op[kind]
  OBVIOUS
<1>9. PICK m : m = Filled(op, layout, data)
  OBVIOUS
<1>10. ClientEncode(f) = m
  BY <1>1, <1>3, <1>5, <1>8, <1>9 DEF ClientEncode
<1>11. DOMAIN m = 0 .. n - 1 /\ m[0] = op
  <2>1. LayoutOK(layout, n) /\ \A x \in DOMAIN layout : data[x] \in Field(layout[x][2])
    BY <1>5, <1>7
  <2> QED BY ONLY <2>1, <1>9, FilledFields
<1>12. Found(kind, layout, m) = f
  BY <1>4, <1>5, <1>7, <1>9, FilledFound
<1>13. KindOf(m) = kind /\ Size(m) = n /\ DecodeFrame(m) = Found(kind, GetFields[kind], m)
  <2>1. DOMAIN m = 0 .. GetLength[kind] - 1 /\ GetLength[kind] \in Nat \ {0} /\ m[0] = Op[kind]
    BY <1>6, <1>7, <1>8, <1>11
  <2>2. KindOf(m) = kind /\ Size(m) = GetLength[kind] /\ DecodeFrame(m) = Found(kind, GetFields[kind], m)
    BY <1>7, <2>1, PlainDecoded
  <2> QED BY <1>6, <2>2
<1>14. DecodeFrame(m) = f
  BY <1>7, <1>12, <1>13
<1> QED BY <1>2, <1>6, <1>7, <1>8, <1>10, <1>11, <1>13, <1>14

(* A message that is cut or has bytes added is nothing to the server.       *)
Resized(m, k) == [i \in 0 .. k - 1 |-> IF i < Size(m) THEN m[i] ELSE 0]

(* A message of the client that is a byte too short or too long decodes to *)
(* nothing.                                                                *)
LEMMA ResizedIsNothing ==
  ASSUME NEW f \in Messages, NEW m, m = ClientEncode(f), NEW k \in {Size(m) - 1, Size(m) + 1}
  PROVE  /\ k \in Nat /\ k < 7
         /\ Size(Resized(m, k)) = k
         /\ DecodeFrame(Resized(m, k)) = Nothing
<1>1. PICK kind : kind = KindOf(m)
  OBVIOUS
<1>2. PICK n : n = Size(m)
  OBVIOUS
<1>3. n \in {3, 5} /\ kind \in DOMAIN ClientPut /\ GetLength[kind] = n /\ m[0] = Op[kind]
  BY <1>1, <1>2, MessageReadBack
<1>4. k \in Nat /\ k < 7 /\ k > 1 /\ k # n
  BY <1>2, <1>3
<1>5. PICK r : r = Resized(m, k)
  OBVIOUS
<1>6. DOMAIN r = 0 .. k - 1 /\ r[0] = m[0]
  BY <1>2, <1>3, <1>4, <1>5 DEF Resized
<1>7. Size(r) = k
  BY <1>4, <1>6, SizeOf
<1>8. kind \in DOMAIN Op /\ kind \in DOMAIN GetLength /\ kind # "Delta" /\ kind # "Error"
  BY <1>3, ClientLayouts
<1>9. r[0] = Op[kind]
  BY <1>3, <1>6
<1>10. KindOf(r) = kind
  BY ONLY <1>8, <1>9, KindFound
<1>11. ~RightLength(kind, r)
  BY <1>3, <1>4, <1>7, <1>8 DEF RightLength
<1>12. DecodeFrame(r) = Nothing
  BY <1>10, <1>11 DEF DecodeFrame
<1> QED BY <1>4, <1>5, <1>7, <1>12

-----------------------------------------------------------------------------
(* Headers: the length that was written is the length that is read *)

(* A number below 2^24 is the sum of its three bytes.                      *)
LEMMA ThreeBytes ==
  ASSUME NEW n \in Nat, n < 256 * 65536
  PROVE  (n \div 65536) * 65536 + ((n \div 256) % 256) * 256 + (n % 256) = n
<1>1. PICK q \in Nat : q = n \div 256
  OBVIOUS
<1>2. n = 256 * q + (n % 256)
  BY <1>1
<1>3. q = 256 * (q \div 256) + (q % 256)
  BY <1>1
<1>4. n \div 65536 = q \div 256
  BY <1>1
<1>5. n \div 65536 \in Nat /\ q \div 256 \in Nat /\ q % 256 \in Nat /\ n % 256 \in Nat
  BY <1>1
<1> QED BY <1>1, <1>2, <1>3, <1>4, <1>5

(* The sizes of frames in use: their lengths fit in three bytes.            *)
FrameSizes == {n \in Nat : n < 256 * 65536}

(* The server reads the length that the peer wrote, in each of the three   *)
(* forms.                                                                  *)
LEMMA PeerHeader ==
  ASSUME NEW first \in Byte, NEW n \in FrameSizes, NEW h, h = HeaderOf(first, n)
  PROVE  h[1] = first /\ ~(h[2] < 128) /\ LengthIn(h) = n
<1>1. first \in 0 .. 255 /\ n \in Nat /\ n < 256 * 65536
  BY DEF Byte, FrameSizes
<1>2. CASE n < 126
  <2>1. h[1] = first /\ h[2] = 128 + n
    BY <1>1, <1>2 DEF HeaderOf
  <2>2. (128 + n) % 128 = n
    BY <1>1, <1>2
  <2> QED BY <1>1, <1>2, <2>1, <2>2 DEF LengthIn
<1>3. CASE ~(n < 126) /\ n < 65536
  <2>1. h[1] = first /\ h[2] = 254 /\ h[3] = n \div 256 /\ h[4] = n % 256
    BY <1>1, <1>3 DEF HeaderOf
  <2>2. 254 % 128 = 126
    OBVIOUS
  <2>3. LengthIn(h) = (n \div 256) * 256 + (n % 256)
    BY <2>1, <2>2 DEF LengthIn
  <2> QED BY <1>1, <2>1, <2>3
<1>4. CASE ~(n < 126) /\ ~(n < 65536)
  <2>1. /\ h[1] = first /\ h[2] = 255 /\ h[8] = n \div 65536
        /\ h[9] = (n \div 256) % 256 /\ h[10] = n % 256
    BY <1>1, <1>4 DEF HeaderOf
  <2>2. 255 % 128 = 127
    OBVIOUS
  <2>3. LengthIn(h) = (n \div 65536) * 65536 + ((n \div 256) % 256) * 256 + (n % 256)
    BY <2>1, <2>2 DEF LengthIn
  <2> QED BY <1>1, <2>1, <2>3, ThreeBytes
<1> QED BY <1>1, <1>2, <1>3, <1>4

(* The peer reads the operation and the length that the server wrote.      *)
LEMMA ServerHeader ==
  ASSUME NEW op \in {Binary, PongOp}, NEW n \in Nat, n < 65536, NEW h, h = Header(op, n)
  PROVE  h[1] - 128 = op /\ LengthOf(h) = n
<1>1. op \in Nat
  BY DEF Binary, PongOp
<1>2. CASE n < 126
  BY <1>1, <1>2 DEF Header, Short, LengthOf
<1>3. CASE ~(n < 126)
  <2>1. h[1] = 128 + op /\ h[2] = 126 /\ h[3] = n \div 256 /\ h[4] = n % 256
    BY <1>3 DEF Header, Short
  <2>2. LengthOf(h) = (n \div 256) * 256 + (n % 256)
    BY <2>1 DEF LengthOf
  <2> QED BY <1>1, <2>1, <2>2
<1> QED BY <1>2, <1>3

-----------------------------------------------------------------------------
(* The inductive invariant *)

(* What the two goroutines may write, in frames and in pieces.              *)
Pongs        == {Frame(PongOp, Data(n)) : n \in Nat}
ServerFrames == {Frame(Binary, Payload(EncodeFrame(a))) : a \in Answers} \cup Pongs
Payloads     == {f.payload : f \in ServerFrames}
HeaderPiece(f)  == [header |-> Header(f.op, f.payload.size)]
PayloadPiece(f) == [payload |-> f.payload]
Pieces       == {HeaderPiece(f) : f \in ServerFrames} \cup {PayloadPiece(f) : f \in ServerFrames}

(* What the peer may send, and what the server may hear.                    *)
PeerPayloads == {Data(n) : n \in FrameSizes}
                \cup {Payload(ClientEncode(f)) : f \in Messages}
                \cup {Payload(Resized(ClientEncode(f), k)) : f \in Messages, k \in 0 .. 6}
Saying(first, p) == [header |-> HeaderOf(first, p.size), payload |-> p]
Spoken       == UNION {{Saying(first, p) : p \in PeerPayloads} : first \in Byte}
Sounds       == Messages \cup {Nothing} \cup {Event(kind) : kind \in {"pong", "close", "error"}}
                \cup {Ping(n) : n \in Nat}

Typed ==
  /\ TypeOK
  /\ pc["writer"] \in {"lock", "header", "payload"} => Len(written["writer"]) < MaxWrites
  /\ current \in [Writers -> ServerFrames \cup {NoFrame}]
  /\ written \in [Writers -> Seq(Payloads)]
  /\ sent \in Seq(ServerFrames) /\ out \in Seq(Pieces)
  /\ in \in Seq(Spoken) /\ said \in Seq(Sounds) /\ heard \in Seq(Sounds)
  /\ due \in Seq(Payloads)

(* A goroutine that is past the header has a frame that has a payload.      *)
HasPayload(f) == f.payload.size # 0 /\ f.payload.size < 65536

PayloadsLeft == \A g \in Writers : pc[g] = "payload" => HasPayload(current[g])

(* The frames of s after the first r lie in o one after the other, frame k  *)
(* at place[k].                                                             *)
Width(f) == IF f.payload.size = 0 THEN 1 ELSE 2

LiesAt(o, f, here, next) ==
  /\ here + Width(f) = next /\ next <= Len(o) + 1
  /\ f.payload.size < 65536
  /\ o[here] = HeaderPiece(f)
  /\ f.payload.size # 0 => o[here + 1] = PayloadPiece(f)

Laid(o, s, r, place) ==
  /\ place \in [r + 1 .. Len(s) + 1 -> Nat \ {0}]
  /\ place[r + 1] = 1
  /\ \A j, k \in r + 1 .. Len(s) + 1 : j <= k => place[j] <= place[k]
  /\ \A k \in r + 1 .. Len(s) : LiesAt(o, s[k], place[k], place[k + 1])

(* After them there may be a header of which the payload is still to come.   *)
Ended(o, last)   == Len(o) + 1 = last
HalfOf(o, last, f) == Len(o) = last /\ HasPayload(f) /\ o[last] = HeaderPiece(f)

Streams(place) ==
  LET last == place[Len(sent) + 1] IN
  /\ Laid(out, sent, Len(got), place)
  /\ Ended(out, last) \/ \E f \in ServerFrames : HalfOf(out, last, f)
  /\ sock = "open" => /\ (\A g \in Writers : pc[g] # "payload") => Ended(out, last)
                      /\ \A g \in Writers : pc[g] = "payload" => HalfOf(out, last, current[g])

(* One sequence begins another.                                             *)
Opens(s, t) == Len(s) <= Len(t) /\ \A i \in 1 .. Len(s) : s[i] = t[i]

InOrder ==
  /\ got \in Seq(ServerFrames) /\ Opens(got, sent)
  /\ \E place : Streams(place)

(* What the server will make of a frame of the peer.                        *)
HeardAs(x) ==
  IF Rejects(x.header) THEN Event("error")
  ELSE IF OpIn(x.header) = Binary THEN DecodeFrame(x.payload.message)
  ELSE IF OpIn(x.header) = PingOp THEN Ping(LengthIn(x.header))
  ELSE IF OpIn(x.header) = PongOp THEN Event("pong") ELSE Event("close")

AllHeard ==
  /\ Len(said) = Len(heard) + Len(in)
  /\ \A i \in 1 .. Len(heard) : heard[i] = said[i]
  /\ \A i \in 1 .. Len(in) : HeardAs(in[i]) = said[Len(heard) + i]

(* The pong in the hands of the reader is the one that is due.              *)
Writable(p) == p.size < 65536

PongsDue ==
  /\ Opens(written["reader"], due)
  /\ sock = "open" /\ pc["reader"] = "idle" => written["reader"] = due
  /\ sock = "open" /\ pc["reader"] \in {"lock", "header", "payload"} =>
       due = IF Writable(current["reader"].payload)
             THEN Append(written["reader"], current["reader"].payload) ELSE written["reader"]
  /\ sock = "open" => pc["reader"] # "done"

WireInv == Typed /\ PayloadsLeft /\ InOrder /\ AllHeard /\ PongsDue

(* A frame of the server is a message or a pong, and one of no bytes has   *)
(* no data.                                                                *)
LEMMA FrameFacts ==
  ASSUME NEW f \in ServerFrames
  PROVE  /\ f # NoFrame /\ f.op \in {Binary, PongOp} /\ f.payload.size \in Nat
         /\ f = Frame(f.op, f.payload) /\ f.payload \in Payloads
         /\ f.payload.size = 0 => f.payload = Data(0)
         /\ f.op = Binary => \E a \in Answers : f.payload = Payload(EncodeFrame(a))
<1>1. CASE f \in Pongs
  <2>1. PICK n \in Nat : f = Frame(PongOp, Data(n))
    BY <1>1 DEF Pongs
  <2>2. f.op = PongOp /\ f.payload = Data(n) /\ f.payload.size = n
    BY <2>1 DEF Frame, Data
  <2>3. f # NoFrame /\ PongOp # Binary
    BY <2>2 DEF NoFrame, Frame, PongOp, Binary
  <2> QED BY <2>1, <2>2, <2>3 DEF Payloads
<1>2. CASE \E a \in Answers : f = Frame(Binary, Payload(EncodeFrame(a)))
  <2>1. PICK a \in Answers : f = Frame(Binary, Payload(EncodeFrame(a)))
    BY <1>2
  <2>2. f.op = Binary /\ f.payload = Payload(EncodeFrame(a))
    BY <2>1 DEF Frame
  <2>3. f.payload.size = Size(EncodeFrame(a))
    BY <2>2 DEF Payload
  <2>4. f.payload.size \in Nat \ {0}
    BY <2>3, AnswersReadBack
  <2>5. f # NoFrame
    BY <2>2 DEF NoFrame, Frame, Binary
  <2>6. f = Frame(f.op, f.payload)
    BY <2>1, <2>2
  <2> QED BY <2>2, <2>4, <2>5, <2>6 DEF Payloads
<1> QED BY <1>1, <1>2 DEF ServerFrames

(* The pong of any size is a frame of the server.                          *)
LEMMA PongFrames ==
  ASSUME NEW n \in Nat
  PROVE  /\ Frame(PongOp, Data(n)) \in ServerFrames /\ Frame(PongOp, Data(n)).payload = Data(n)
         /\ Data(n) \in Payloads /\ Data(n).size = n
<1>1. Frame(PongOp, Data(n)) \in ServerFrames
  BY DEF ServerFrames, Pongs
<1>2. Frame(PongOp, Data(n)).payload = Data(n) /\ Data(n).size = n
  BY DEF Frame, Data
<1> QED BY <1>1, <1>2 DEF Payloads

(* A header is told from a payload.                                        *)
LEMMA PieceFacts ==
  /\ \A f \in ServerFrames :
       /\ HeaderPiece(f) \in Pieces /\ PayloadPiece(f) \in Pieces
       /\ IsHeader(HeaderPiece(f)) /\ ~IsHeader(PayloadPiece(f))
BY DEF Pieces, HeaderPiece, PayloadPiece, IsHeader

(* The length in a frame of the peer is a number.                          *)
LEMMA SpokenFacts ==
  ASSUME NEW x \in Spoken
  PROVE  LengthIn(x.header) \in Nat
<1>1. PICK first \in Byte, p \in PeerPayloads : x = Saying(first, p)
  BY DEF Spoken
<1>2. p.size \in FrameSizes
  <2>1. CASE \E n \in FrameSizes : p = Data(n)
    BY <2>1 DEF Data
  <2>2. CASE \E f \in Messages : p = Payload(ClientEncode(f))
    <3>1. PICK f \in Messages : p = Payload(ClientEncode(f))
      BY <2>2
    <3>2. p.size \in {3, 5}
      BY <3>1, MessageReadBack DEF Payload
    <3> QED BY <3>2 DEF FrameSizes
  <2>3. CASE \E f \in Messages, k \in 0 .. 6 : p = Payload(Resized(ClientEncode(f), k))
    <3>1. PICK f \in Messages, k \in 0 .. 6 : p = Payload(Resized(ClientEncode(f), k))
      BY <2>3
    <3>2. DOMAIN Resized(ClientEncode(f), k) = 0 .. k - 1 /\ k \in Nat
      BY DEF Resized
    <3>3. PICK r : r = Resized(ClientEncode(f), k)
      OBVIOUS
    <3>4. Size(r) = k
      BY <3>2, <3>3, SizeOf
    <3>5. p.size = Size(r)
      BY <3>1, <3>3 DEF Payload
    <3>6. k \in FrameSizes
      BY DEF FrameSizes
    <3> QED BY <3>4, <3>5, <3>6
  <2> QED BY <2>1, <2>2, <2>3 DEF PeerPayloads
<1>3. PICK n \in FrameSizes : n = p.size
  BY <1>2
<1>4. \A h : h = HeaderOf(first, n) => LengthIn(h) = n
  BY <1>1, <1>3, PeerHeader
<1>5. LengthIn(HeaderOf(first, n)) = n
  BY <1>4
<1>6. n \in Nat
  BY <1>3 DEF FrameSizes
<1> QED BY <1>1, <1>3, <1>5, <1>6 DEF Saying

(* The sizes of pings are sizes of frames.                                 *)
LEMMA PingSizesOK == PingSizes \subseteq FrameSizes /\ FrameSizes \subseteq Nat
BY WireAssumption DEF FrameSizes

(* A sequence is one longer with an element appended.                      *)
LEMMA LongerSeq ==
  ASSUME NEW S, NEW s \in Seq(S), NEW e \in S
  PROVE  /\ Append(s, e) \in Seq(S) /\ Len(Append(s, e)) = Len(s) + 1
         /\ Append(s, e)[Len(s) + 1] = e /\ Len(s) \in Nat
         /\ \A i \in 1 .. Len(s) : Append(s, e)[i] = s[i]
OBVIOUS

(* The tail of a sequence is one shorter.                                  *)
LEMMA ShorterSeq ==
  ASSUME NEW S, NEW s \in Seq(S), s # <<>>
  PROVE  /\ Tail(s) \in Seq(S) /\ Len(Tail(s)) = Len(s) - 1 /\ Len(s) \in Nat \ {0}
         /\ Head(s) \in S /\ Head(s) = s[1]
         /\ \A i \in 1 .. Len(s) - 1 : Tail(s)[i] = s[i + 1]
<1>1. Tail(s) \in Seq(S) /\ Len(Tail(s)) = Len(s) - 1 /\ Head(s) \in S
      /\ \A i \in 1 .. Len(Tail(s)) : Tail(s)[i] = s[i + 1]
  BY HeadTailProperties
<1>2. Len(s) \in Nat \ {0}
  BY EmptySeq
<1>3. Head(s) = s[1]
  OBVIOUS
<1> QED BY <1>1, <1>2, <1>3

(* The types hold at the start.                                            *)
LEMMA TypedInit == Init => Typed
<1>1. SUFFICES ASSUME Init PROVE Typed
  OBVIOUS
<1>2. TypeOK
  <2>1. \A g \in Writers : holder # g /\ pc[g] = "idle" /\ current[g] = NoFrame
    BY <1>1 DEF Init, Writers, Nobody
  <2>2. Len(said) = 0 /\ Len(written["writer"]) = 0
    BY <1>1 DEF Init, Writers
  <2>3. pc \in [Writers -> {"idle", "lock", "header", "payload", "done"}]
    BY <1>1 DEF Init
  <2>4. sock \in {"open", "down", "closed"} /\ holder \in Writers \cup {Nobody}
    BY <1>1 DEF Init
  <2> QED BY <2>1, <2>2, <2>3, <2>4, WireAssumption DEF TypeOK
<1>3. pc["writer"] = "idle"
  BY <1>1 DEF Init, Writers
<1>4. current \in [Writers -> ServerFrames \cup {NoFrame}] /\ written \in [Writers -> Seq(Payloads)]
  BY <1>1 DEF Init
<1>5. /\ sent \in Seq(ServerFrames) /\ out \in Seq(Pieces) /\ in \in Seq(Spoken)
      /\ said \in Seq(Sounds) /\ heard \in Seq(Sounds) /\ due \in Seq(Payloads)
  BY <1>1 DEF Init
<1> QED BY <1>2, <1>3, <1>4, <1>5 DEF Typed

(* The goroutine that writes changes its own part only, and the mutex.      *)
LEMMA ControlStep ==
  ASSUME Typed, NEW g \in Writers,
         NEW label \in {"idle", "lock", "header", "payload", "done"},
         NEW frame \in ServerFrames \cup {NoFrame},
         frame = NoFrame <=> label \in {"idle", "done"},
         Goto(g, label), current' = [current EXCEPT ![g] = frame],
         holder' = IF label \in {"header", "payload"} THEN g
                   ELSE IF holder = g THEN Nobody ELSE holder,
         label \in {"header", "payload"} => holder \in {g, Nobody},
         sock' \in {"open", "down", "closed"},
         Len(said') <= MaxSays, Len(written'["writer"]) <= MaxWrites
  PROVE  TypeOK' /\ current' \in [Writers -> ServerFrames \cup {NoFrame}]
<1>1. /\ pc \in [Writers -> {"idle", "lock", "header", "payload", "done"}]
      /\ current \in [Writers -> ServerFrames \cup {NoFrame}]
      /\ holder \in Writers \cup {Nobody}
      /\ \A h \in Writers : holder = h <=> pc[h] \in {"header", "payload"}
      /\ \A h \in Writers : current[h] = NoFrame <=> pc[h] \in {"idle", "done"}
  BY DEF Typed, TypeOK
<1>2. pc' = [pc EXCEPT ![g] = label]
  BY DEF Goto
<1>3. pc'[g] = label /\ \A h \in Writers : h # g => pc'[h] = pc[h]
  BY <1>1, <1>2
<1>4. current'[g] = frame /\ \A h \in Writers : h # g => current'[h] = current[h]
  BY <1>1
<1>5. \A h \in Writers : h # Nobody
  BY DEF Writers, Nobody
<1>6. \A h \in Writers : holder' = h <=> pc'[h] \in {"header", "payload"}
  <2> TAKE h \in Writers
  <2>1. CASE h = g
    BY <2>1, <1>3, <1>5
  <2>2. CASE h # g
    BY <2>2, <1>1, <1>3, <1>5
  <2> QED BY <2>1, <2>2
<1>7. \A h \in Writers : current'[h] = NoFrame <=> pc'[h] \in {"idle", "done"}
  <2> TAKE h \in Writers
  <2>1. CASE h = g
    BY <2>1, <1>3, <1>4
  <2>2. CASE h # g
    BY <2>2, <1>1, <1>3, <1>4
  <2> QED BY <2>1, <2>2
<1>8. pc' \in [Writers -> {"idle", "lock", "header", "payload", "done"}]
  BY <1>1, <1>2
<1>9. holder' \in Writers \cup {Nobody}
  BY <1>1
<1>10. current' \in [Writers -> ServerFrames \cup {NoFrame}]
  BY <1>1
<1> QED BY <1>6, <1>7, <1>8, <1>9, <1>10 DEF TypeOK

(* Steps of the peer, and of a reader that does not write, keep the control. *)
LEMMA ControlKept ==
  ASSUME Typed, UNCHANGED goroutines, sock' \in {"open", "down", "closed"},
         Len(said') <= MaxSays, UNCHANGED written
  PROVE  TypeOK' /\ current' \in [Writers -> ServerFrames \cup {NoFrame}]
<1>1. pc' = pc /\ holder' = holder /\ current' = current /\ written' = written
  BY DEF goroutines
<1>2. TypeOK /\ current \in [Writers -> ServerFrames \cup {NoFrame}]
  BY DEF Typed
<1>3. TypeOK'
  BY <1>1, <1>2 DEF TypeOK
<1> QED BY <1>1, <1>2, <1>3

(* The types hold after writeMu is taken,                                  *)
LEMMA TypedLock ==
  ASSUME Typed, NEW g \in Writers, Lock(g)
  PROVE  Typed'
<1>1. /\ pc[g] = "lock" /\ holder = Nobody /\ holder' = g /\ Goto(g, "header")
      /\ out' = out /\ sock' = sock /\ current' = current /\ in' = in
      /\ written' = written /\ sent' = sent /\ said' = said /\ heard' = heard /\ due' = due
  BY DEF Lock, Free, history
<1>2. PICK frame : frame = current[g]
  OBVIOUS
<1>3. current \in [Writers -> ServerFrames \cup {NoFrame}] /\ TypeOK
  BY DEF Typed
<1>4. frame \in ServerFrames \cup {NoFrame} /\ frame # NoFrame
  BY <1>1, <1>2, <1>3 DEF TypeOK
<1>5. current' = [current EXCEPT ![g] = frame]
  BY <1>1, <1>2, <1>3
<1>6. Len(said') <= MaxSays /\ Len(written'["writer"]) <= MaxWrites /\ sock' \in {"open", "down", "closed"}
  BY <1>1, <1>3 DEF TypeOK
<1>7. TypeOK' /\ current' \in [Writers -> ServerFrames \cup {NoFrame}]
  BY <1>1, <1>4, <1>5, <1>6, ControlStep
<1>8. pc'["writer"] \in {"lock", "header", "payload"} => Len(written'["writer"]) < MaxWrites
  <2>1. pc["writer"] \in {"lock", "header", "payload"} => Len(written["writer"]) < MaxWrites
    BY DEF Typed
  <2>2. pc'["writer"] = IF g = "writer" THEN "header" ELSE pc["writer"]
    BY <1>1, <1>3 DEF Goto, TypeOK, Writers
  <2> QED BY <2>1, <2>2, <1>1
<1> QED BY <1>1, <1>7, <1>8 DEF Typed

(* after a write that fails,                                               *)
LEMMA TypedFails ==
  ASSUME Typed, NEW g \in Writers, WriteFails(g)
  PROVE  Typed'
<1>1. PICK label : label = IF g = "writer" THEN "done" ELSE "idle"
  OBVIOUS
<1>2. /\ pc[g] \in {"header", "payload"} /\ holder' = Nobody /\ Goto(g, label)
      /\ current' = [current EXCEPT ![g] = NoFrame]
      /\ out' = out /\ sock' = sock /\ in' = in
      /\ written' = written /\ sent' = sent /\ said' = said /\ heard' = heard /\ due' = due
  BY <1>1 DEF WriteFails, Unlock, history
<1>3. TypeOK /\ label \in {"idle", "done"}
  BY <1>1 DEF Typed
<1>4. holder = g
  BY <1>2, <1>3 DEF TypeOK
<1>5. Len(said') <= MaxSays /\ Len(written'["writer"]) <= MaxWrites /\ sock' \in {"open", "down", "closed"}
  BY <1>2, <1>3 DEF TypeOK
<1>6. TypeOK' /\ current' \in [Writers -> ServerFrames \cup {NoFrame}]
  BY <1>2, <1>3, <1>4, <1>5, ControlStep
<1>7. pc'["writer"] \in {"lock", "header", "payload"} => Len(written'["writer"]) < MaxWrites
  <2>1. pc["writer"] \in {"lock", "header", "payload"} => Len(written["writer"]) < MaxWrites
    BY DEF Typed
  <2>2. pc'["writer"] = IF g = "writer" THEN label ELSE pc["writer"]
    BY <1>2, <1>3 DEF Goto, TypeOK, Writers
  <2> QED BY <2>1, <2>2, <1>2, <1>3
<1> QED BY <1>2, <1>6, <1>7 DEF Typed

(* A frame that is done joins those that are written.                       *)
LEMMA TypedDone ==
  ASSUME Typed, NEW g \in Writers, Done(g), pc[g] \in {"header", "payload"},
         sock' = sock, said' = said
  PROVE  /\ TypeOK' /\ current' \in [Writers -> ServerFrames \cup {NoFrame}]
         /\ pc'["writer"] \in {"lock", "header", "payload"} => Len(written'["writer"]) < MaxWrites
         /\ written' \in [Writers -> Seq(Payloads)] /\ sent' \in Seq(ServerFrames)
<1>1. /\ holder' = Nobody /\ Goto(g, "idle") /\ current' = [current EXCEPT ![g] = NoFrame]
      /\ written' = [written EXCEPT ![g] = Append(@, current[g].payload)]
      /\ sent' = Append(sent, current[g])
  BY DEF Done, Unlock
<1>2. TypeOK /\ written \in [Writers -> Seq(Payloads)] /\ sent \in Seq(ServerFrames)
      /\ current \in [Writers -> ServerFrames \cup {NoFrame}]
  BY DEF Typed
<1>3. PICK f : f = current[g]
  OBVIOUS
<1>4. f \in ServerFrames
  BY <1>2, <1>3 DEF TypeOK
<1>5. f.payload \in Payloads
  BY <1>4, FrameFacts
<1>6. PICK w : w = written[g]
  OBVIOUS
<1>7. w \in Seq(Payloads) /\ Append(w, f.payload) \in Seq(Payloads) /\ Len(Append(w, f.payload)) = Len(w) + 1
      /\ Len(w) \in Nat
  BY <1>2, <1>5, <1>6, LongerSeq
<1>8. written' = [written EXCEPT ![g] = Append(w, f.payload)]
  BY <1>1, <1>3, <1>6
<1>9. written' \in [Writers -> Seq(Payloads)]
  BY <1>2, <1>7, <1>8
<1>10. sent' \in Seq(ServerFrames)
  BY <1>1, <1>2, <1>3, <1>4, LongerSeq
<1>11. Len(written'["writer"]) <= MaxWrites
  <2>1. CASE g = "writer"
    <3>1. written'["writer"] = Append(w, f.payload)
      BY <2>1, <1>2, <1>8
    <3>2. Len(w) < MaxWrites
      BY <2>1, <1>6 DEF Typed
    <3> QED BY <3>1, <3>2, <1>7, WireAssumption
  <2>2. CASE g # "writer"
    <3>1. written'["writer"] = written["writer"]
      BY <2>2, <1>2, <1>8 DEF Writers
    <3> QED BY <3>1, <1>2 DEF TypeOK
  <2> QED BY <2>1, <2>2
<1>12. Len(said') <= MaxSays /\ sock' \in {"open", "down", "closed"} /\ holder = g
  BY <1>2 DEF TypeOK
<1>13. TypeOK' /\ current' \in [Writers -> ServerFrames \cup {NoFrame}]
  BY <1>1, <1>11, <1>12, ControlStep
<1>14. pc'["writer"] \in {"lock", "header", "payload"} => Len(written'["writer"]) < MaxWrites
  <2>1. CASE g = "writer"
    <3>1. pc'["writer"] = "idle"
      BY <2>1, <1>1, <1>2 DEF Goto, TypeOK, Writers
    <3> QED BY <3>1
  <2>2. CASE g # "writer"
    <3>1. pc'["writer"] = pc["writer"]
      BY <2>2, <1>1, <1>2 DEF Goto, TypeOK, Writers
    <3>2. written'["writer"] = written["writer"]
      BY <2>2, <1>2, <1>8 DEF Writers
    <3> QED BY <3>1, <3>2 DEF Typed
  <2> QED BY <2>1, <2>2
<1> QED BY <1>9, <1>10, <1>13, <1>14

(* after a header, which may be all of a frame,                            *)
LEMMA TypedHeader ==
  ASSUME Typed, NEW g \in Writers, WriteHeader(g)
  PROVE  Typed'
<1>1. PICK f : f = current[g]
  OBVIOUS
<1>2. /\ pc[g] = "header" /\ sock' = sock /\ out' = Append(out, HeaderPiece(f))
      /\ in' = in /\ said' = said /\ heard' = heard /\ due' = due
  BY <1>1 DEF WriteHeader, HeaderPiece
<1>3. TypeOK /\ current \in [Writers -> ServerFrames \cup {NoFrame}] /\ out \in Seq(Pieces)
  BY DEF Typed
<1>4. f \in ServerFrames
  BY <1>1, <1>2, <1>3 DEF TypeOK
<1>5. out' \in Seq(Pieces)
  BY <1>2, <1>3, <1>4, PieceFacts, LongerSeq
<1>6. CASE Done(g)
  BY <1>2, <1>5, <1>6, TypedDone DEF Typed
<1>7. CASE Goto(g, "payload") /\ UNCHANGED <<holder, current, written, sent>>
  <2>1. Goto(g, "payload") /\ holder' = holder /\ current' = current /\ written' = written /\ sent' = sent
    BY <1>7
  <2>2. f # NoFrame /\ holder = g
    BY <1>2, <1>3, <1>4, FrameFacts DEF TypeOK
  <2>3. current' = [current EXCEPT ![g] = f]
    BY <2>1, <1>1, <1>3
  <2>4. Len(said') <= MaxSays /\ Len(written'["writer"]) <= MaxWrites /\ sock' \in {"open", "down", "closed"}
    BY <1>2, <1>3, <2>1 DEF TypeOK
  <2>5. TypeOK' /\ current' \in [Writers -> ServerFrames \cup {NoFrame}]
    BY <1>4, <2>1, <2>2, <2>3, <2>4, ControlStep
  <2>6. pc'["writer"] \in {"lock", "header", "payload"} => Len(written'["writer"]) < MaxWrites
    <3>1. pc["writer"] \in {"lock", "header", "payload"} => Len(written["writer"]) < MaxWrites
      BY DEF Typed
    <3>2. pc'["writer"] = IF g = "writer" THEN "payload" ELSE pc["writer"]
      BY <2>1, <1>3 DEF Goto, TypeOK, Writers
    <3> QED BY <3>1, <3>2, <1>2, <2>1
  <2> QED BY <1>2, <1>5, <2>1, <2>5, <2>6 DEF Typed
<1> QED BY <1>6, <1>7 DEF WriteHeader

(* after a payload,                                                        *)
LEMMA TypedPayload ==
  ASSUME Typed, NEW g \in Writers, WritePayload(g)
  PROVE  Typed'
<1>1. PICK f : f = current[g]
  OBVIOUS
<1>2. /\ pc[g] = "payload" /\ sock' = sock /\ out' = Append(out, PayloadPiece(f)) /\ Done(g)
      /\ in' = in /\ said' = said /\ heard' = heard /\ due' = due
  BY <1>1 DEF WritePayload, PayloadPiece
<1>3. TypeOK /\ current \in [Writers -> ServerFrames \cup {NoFrame}] /\ out \in Seq(Pieces)
  BY DEF Typed
<1>4. f \in ServerFrames
  BY <1>1, <1>2, <1>3 DEF TypeOK
<1>5. out' \in Seq(Pieces)
  BY <1>2, <1>3, <1>4, PieceFacts, LongerSeq
<1> QED BY <1>2, <1>5, TypedDone DEF Typed

(* and after the writer took a message.                                    *)
LEMMA TypedSend ==
  ASSUME Typed, NEW a \in Answers, Send(a)
  PROVE  Typed'
<1>1. PICK f : f = Frame(Binary, Payload(EncodeFrame(a)))
  OBVIOUS
<1>2. /\ pc["writer"] = "idle" /\ Len(written["writer"]) < MaxWrites
      /\ current' = [current EXCEPT !["writer"] = f] /\ Goto("writer", "lock")
      /\ out' = out /\ sock' = sock /\ holder' = holder /\ in' = in
      /\ written' = written /\ sent' = sent /\ said' = said /\ heard' = heard /\ due' = due
  BY <1>1 DEF Send, Begin, history
<1>3. f \in ServerFrames
  BY <1>1 DEF ServerFrames
<1>4. f # NoFrame
  BY <1>3, FrameFacts
<1>5. TypeOK /\ "writer" \in Writers
  BY DEF Typed, Writers
<1>6. Len(said') <= MaxSays /\ Len(written'["writer"]) <= MaxWrites /\ sock' \in {"open", "down", "closed"}
      /\ holder # "writer"
  BY <1>2, <1>5 DEF TypeOK
<1>7. TypeOK' /\ current' \in [Writers -> ServerFrames \cup {NoFrame}]
  BY <1>2, <1>3, <1>4, <1>5, <1>6, ControlStep
<1> QED BY <1>2, <1>7 DEF Typed

(* What the reader makes of a frame is what AllHeard expects.               *)
NextSaid == said[Len(heard) + 1]

(* The next frame is heard as what was said, which is a sound.             *)
LEMMA HeardNext ==
  ASSUME Typed, AllHeard, in # <<>>
  PROVE  /\ Coming \in Spoken /\ HeardAs(Coming) = NextSaid /\ NextSaid \in Sounds
         /\ Tail(in) \in Seq(Spoken) /\ Append(heard, NextSaid) \in Seq(Sounds)
<1>1. in \in Seq(Spoken) /\ said \in Seq(Sounds) /\ heard \in Seq(Sounds)
  BY DEF Typed
<1>2. Tail(in) \in Seq(Spoken) /\ Len(in) \in Nat \ {0} /\ Head(in) \in Spoken /\ Head(in) = in[1]
  BY <1>1, ShorterSeq
<1>3. Len(heard) \in Nat /\ Len(said) = Len(heard) + Len(in)
  BY <1>1, LenProperties DEF AllHeard
<1>4. Len(heard) + 1 \in 1 .. Len(said)
  BY <1>2, <1>3
<1>5. NextSaid \in Sounds
  BY <1>1, <1>4, ElementOfSeq DEF NextSaid
<1>6. HeardAs(in[1]) = said[Len(heard) + 1]
  BY <1>2 DEF AllHeard
<1>7. Append(heard, NextSaid) \in Seq(Sounds)
  BY <1>1, <1>5, LongerSeq
<1> QED BY <1>2, <1>5, <1>6, <1>7 DEF Coming, NextSaid

(* So every frame that is read is heard as it was meant.                    *)
LEMMA HearsNext ==
  ASSUME Typed, AllHeard, in # <<>>, NEW what, Hear(what), what = HeardAs(Coming)
  PROVE  /\ in' = Tail(in) /\ heard' = Append(heard, NextSaid)
         /\ in' \in Seq(Spoken) /\ heard' \in Seq(Sounds)
BY HeardNext DEF Hear

(* Each of the five reads hears the next thing said.                       *)
LEMMA ReadHears ==
  ASSUME Typed, AllHeard,
         ReadMessage \/ ReadPing \/ ReadPong \/ ReadClose \/ ReadFails
  PROVE  /\ in # <<>> /\ pc["reader"] = "idle" /\ sock # "closed"
         /\ in' = Tail(in) /\ heard' = Append(heard, NextSaid)
         /\ in' \in Seq(Spoken) /\ heard' \in Seq(Sounds)
<1>1. in # <<>> /\ pc["reader"] = "idle" /\ sock # "closed"
  BY DEF ReadMessage, ReadPing, ReadPong, ReadClose, ReadFails, ReadFrame, Hears
<1>2. \E what : Hear(what) /\ what = HeardAs(Coming)
  <2>1. CASE ReadMessage
    BY <2>1 DEF ReadMessage, ReadFrame, HeardAs
  <2>2. CASE ReadPing
    BY <2>2 DEF ReadPing, ReadFrame, HeardAs, PingOp, Binary
  <2>3. CASE ReadPong
    BY <2>3 DEF ReadPong, ReadFrame, HeardAs, PingOp, Binary, PongOp
  <2>4. CASE ReadClose
    BY <2>4 DEF ReadClose, ReadFrame, HeardAs, PingOp, Binary, PongOp, Shut
  <2>5. CASE ReadFails
    BY <2>5 DEF ReadFails, HeardAs
  <2> QED BY <2>1, <2>2, <2>3, <2>4, <2>5
<1> QED BY <1>1, <1>2, HearsNext

(* The types hold after a step of the reader.                              *)
LEMMA TypedRead ==
  ASSUME Typed, AllHeard, Reading
  PROVE  Typed'
<1>1. TypeOK /\ "reader" \in Writers
  BY DEF Typed, Writers
<1>2. written' = written /\ sent' = sent /\ said' = said /\ out' = out /\ holder' = holder
  BY DEF Reading, ReadMessage, ReadPing, ReadPong, ReadClose, ReadFails, ReadEnds, goroutines, history
<1>3. sock' \in {"open", "down", "closed"}
  <2>1. sock \in {"open", "down", "closed"}
    BY <1>1 DEF TypeOK
  <2> QED BY <2>1 DEF Reading, ReadMessage, ReadPing, ReadPong, ReadClose, ReadFails, ReadEnds, End
<1>4. Len(said') <= MaxSays /\ Len(written'["writer"]) <= MaxWrites
  BY <1>1, <1>2 DEF TypeOK
<1>5. in' \in Seq(Spoken) /\ heard' \in Seq(Sounds)
  <2>1. CASE ReadEnds
    BY <2>1 DEF ReadEnds, history, Typed
  <2> QED BY <2>1, ReadHears DEF Reading
<1>6. /\ TypeOK' /\ current' \in [Writers -> ServerFrames \cup {NoFrame}]
      /\ pc'["writer"] = pc["writer"] /\ due' \in Seq(Payloads)
  <2>1. due \in Seq(Payloads) /\ current \in [Writers -> ServerFrames \cup {NoFrame}]
    BY DEF Typed
  <2>2. CASE ReadMessage \/ ReadPong
    <3>1. UNCHANGED goroutines /\ pc' = pc /\ due' = due
      BY <2>2 DEF ReadMessage, ReadPong, goroutines
    <3> QED BY <3>1, <2>1, <1>2, <1>3, <1>4, ControlKept
  <2>3. CASE ReadClose \/ ReadFails \/ ReadEnds
    <3>1. Goto("reader", "done") /\ current' = current /\ pc["reader"] = "idle" /\ due' = due
      BY <2>3 DEF ReadClose, ReadFails, ReadEnds, End, ReadFrame, Hears, history
    <3>2. current["reader"] = NoFrame /\ holder # "reader"
      BY <3>1, <1>1 DEF TypeOK
    <3>3. current' = [current EXCEPT !["reader"] = NoFrame]
      BY <3>1, <3>2, <2>1
    <3>4. TypeOK' /\ current' \in [Writers -> ServerFrames \cup {NoFrame}]
      BY <3>1, <3>2, <3>3, <1>1, <1>2, <1>3, <1>4, ControlStep
    <3>5. pc'["writer"] = pc["writer"]
      BY <3>1, <1>1 DEF Goto, TypeOK, Writers
    <3> QED BY <3>1, <3>4, <3>5, <2>1
  <2>4. CASE ReadPing
    <3>1. PICK n : n = LengthIn(Coming.header)
      OBVIOUS
    <3>2. in # <<>> /\ pc["reader"] = "idle" /\ Goto("reader", "lock")
      BY <2>4 DEF ReadPing, ReadFrame, Hears, Begin
    <3>3. current' = [current EXCEPT !["reader"] = Frame(PongOp, Data(n))]
      BY <2>4, <3>1 DEF ReadPing, Begin
    <3>4. due' = Append(due, Data(n)) \/ due' = due
      BY <2>4, <3>1 DEF ReadPing
    <3>5. n \in Nat
      BY <3>1, <3>2, HeardNext, SpokenFacts
    <3>6. Frame(PongOp, Data(n)) \in ServerFrames /\ Data(n) \in Payloads
      BY <3>5, PongFrames
    <3>7. Frame(PongOp, Data(n)) # NoFrame
      BY <3>6, FrameFacts
    <3>8. due' \in Seq(Payloads)
      BY <3>4, <3>6, <2>1, LongerSeq
    <3>9. holder # "reader"
      BY <3>2, <1>1 DEF TypeOK
    <3>10. TypeOK' /\ current' \in [Writers -> ServerFrames \cup {NoFrame}]
      BY <3>2, <3>3, <3>6, <3>7, <3>9, <1>1, <1>2, <1>3, <1>4, ControlStep
    <3>11. pc'["writer"] = pc["writer"]
      BY <3>2, <1>1 DEF Goto, TypeOK, Writers
    <3> QED BY <3>8, <3>10, <3>11
  <2> QED BY <2>2, <2>3, <2>4 DEF Reading
<1> QED BY <1>2, <1>5, <1>6 DEF Typed

(* What the peer says is heard as it was meant.                             *)
LEMMA SayingHeard ==
  ASSUME NEW x, NEW first \in Byte, NEW p \in PeerPayloads, x = Saying(first, p),
         p.size \in FrameSizes
  PROVE  x \in Spoken /\ x.header[1] = first /\ ~(x.header[2] < 128)
         /\ LengthIn(x.header) = p.size /\ x.payload = p
<1>1. x \in Spoken
  BY DEF Spoken
<1>2. PICK n \in FrameSizes : n = p.size
  OBVIOUS
<1>3. PICK h : h = HeaderOf(first, n)
  OBVIOUS
<1>4. h[1] = first /\ ~(h[2] < 128) /\ LengthIn(h) = n
  BY <1>3, PeerHeader
<1>5. x.header = h /\ x.payload = p
  BY <1>2, <1>3 DEF Saying
<1> QED BY <1>1, <1>2, <1>4, <1>5

SaysSo(x, what) ==
  /\ x \in Spoken /\ what \in Sounds /\ HeardAs(x) = what
  /\ in' = Append(in, x) /\ said' = Append(said, what)
  /\ UNCHANGED <<out, sock, goroutines, written, sent, got, heard, due>>
  /\ Len(said) < MaxSays

(* Sizes of the small frames.                                              *)
LEMMA SmallSizes == /\ 0 \in FrameSizes /\ 1 \in FrameSizes /\ 2 \in FrameSizes /\ 3 \in FrameSizes
                    /\ 4 \in FrameSizes /\ 5 \in FrameSizes /\ 6 \in FrameSizes
BY DEF FrameSizes

(* A binary frame of few bytes is heard as what its message decodes to.    *)
LEMMA BinaryHeard ==
  ASSUME NEW x, NEW p \in PeerPayloads, x = Saying(128 + Binary, p), p.size \in 0 .. 6
  PROVE  x \in Spoken /\ HeardAs(x) = DecodeFrame(p.message)
<1>1. 128 + Binary \in Byte /\ p.size \in FrameSizes
  BY SmallSizes DEF Byte, Binary
<1>2. x \in Spoken /\ x.header[1] = 128 + Binary /\ ~(x.header[2] < 128)
      /\ LengthIn(x.header) = p.size /\ x.payload = p
  BY <1>1, SayingHeard
<1>3. ~Rejects(x.header)
  <2>1. x.header[1] = 130
    BY <1>2 DEF Binary
  <2>2. (130 \div 16) % 8 = 0
    OBVIOUS
  <2>3. ~(LengthIn(x.header) > MaxPayload)
    BY <1>2, WireAssumption
  <2> QED BY <2>1, <2>2, <2>3, <1>2 DEF Rejects
<1>4. OpIn(x.header) = Binary
  BY <1>2 DEF OpIn, Binary
<1> QED BY <1>2, <1>3, <1>4 DEF HeardAs

(* A message is heard as itself,                                           *)
LEMMA SayMessageSo ==
  ASSUME NEW f \in Messages, SayMessage(f)
  PROVE  \E x : SaysSo(x, f)
<1>1. PICK p : p = Payload(ClientEncode(f))
  OBVIOUS
<1>2. PICK x : x = Saying(128 + Binary, p)
  OBVIOUS
<1>3. p \in PeerPayloads /\ p.size = Size(ClientEncode(f)) /\ p.message = ClientEncode(f)
  BY <1>1 DEF PeerPayloads, Payload
<1>4. p.size \in 0 .. 6
  BY <1>3, MessageReadBack
<1>5. x \in Spoken /\ HeardAs(x) = DecodeFrame(p.message)
  BY <1>2, <1>3, <1>4, BinaryHeard
<1>6. HeardAs(x) = f
  BY <1>3, <1>5, MessageReadBack
<1>7. Say(128 + Binary, p, f)
  BY <1>1 DEF SayMessage
<1>8. in' = Append(in, x)
  BY <1>2, <1>7 DEF Say, Saying
<1> QED BY <1>5, <1>6, <1>7, <1>8 DEF Say, SaysSo, Sounds

(* one of the wrong length as nothing,                                     *)
LEMMA SayOtherSo ==
  ASSUME NEW f \in Messages, SayOther(f)
  PROVE  \E x : SaysSo(x, Nothing)
<1>1. PICK m : m = ClientEncode(f)
  OBVIOUS
<1>2. PICK k \in {Size(m) - 1, Size(m) + 1} :
        Say(128 + Binary, Payload([i \in 0 .. k - 1 |-> IF i < Size(m) THEN m[i] ELSE 0]), Nothing)
  BY <1>1 DEF SayOther
<1>3. k \in Nat /\ k < 7 /\ Size(Resized(m, k)) = k /\ DecodeFrame(Resized(m, k)) = Nothing
  BY <1>1, <1>2, ResizedIsNothing
<1>4. PICK r : r = Resized(m, k)
  OBVIOUS
<1>5. PICK p : p = Payload(r)
  OBVIOUS
<1>6. Say(128 + Binary, p, Nothing)
  BY <1>2, <1>4, <1>5 DEF Resized
<1>7. p \in PeerPayloads
  <2>1. k \in 0 .. 6
    BY <1>3
  <2>2. p = Payload(Resized(ClientEncode(f), k))
    BY <1>1, <1>4, <1>5
  <2> QED BY <2>1, <2>2 DEF PeerPayloads
<1>8. p.size = k /\ p.message = r
  BY <1>3, <1>4, <1>5 DEF Payload
<1>9. PICK x : x = Saying(128 + Binary, p)
  OBVIOUS
<1>10. p.size \in 0 .. 6
  BY <1>3, <1>8
<1>11. x \in Spoken /\ HeardAs(x) = DecodeFrame(p.message)
  BY <1>7, <1>9, <1>10, BinaryHeard
<1>12. HeardAs(x) = Nothing
  BY <1>3, <1>4, <1>8, <1>11
<1>13. in' = Append(in, x)
  BY <1>6, <1>9 DEF Say, Saying
<1> QED BY <1>6, <1>11, <1>12, <1>13 DEF Say, SaysSo, Sounds

(* a ping as a ping of its size, or an error if it is too large,           *)
LEMMA SayPingSo ==
  ASSUME NEW n \in PingSizes, SayPing(n)
  PROVE  \E x, what : SaysSo(x, what)
<1>1. PICK p : p = Data(n)
  OBVIOUS
<1>2. PICK what : what = IF n > MaxPayload THEN Event("error") ELSE Ping(n)
  OBVIOUS
<1>3. PICK x : x = Saying(128 + PingOp, p)
  OBVIOUS
<1>4. n \in FrameSizes /\ n \in Nat
  BY PingSizesOK
<1>5. p \in PeerPayloads /\ p.size = n
  BY <1>1, <1>4 DEF PeerPayloads, Data
<1>6. 128 + PingOp \in Byte
  BY DEF Byte, PingOp
<1>7. x \in Spoken /\ x.header[1] = 128 + PingOp /\ ~(x.header[2] < 128) /\ LengthIn(x.header) = n
  BY <1>3, <1>4, <1>5, <1>6, SayingHeard
<1>8. Rejects(x.header) <=> n > MaxPayload
  <2>1. x.header[1] = 137
    BY <1>7 DEF PingOp
  <2>2. (137 \div 16) % 8 = 0
    OBVIOUS
  <2> QED BY <2>1, <2>2, <1>7 DEF Rejects
<1>9. OpIn(x.header) = PingOp /\ PingOp # Binary
  BY <1>7 DEF OpIn, PingOp, Binary
<1>10. HeardAs(x) = what
  BY <1>2, <1>7, <1>8, <1>9 DEF HeardAs
<1>11. what \in Sounds
  BY <1>2, <1>4 DEF Sounds
<1>12. Say(128 + PingOp, p, what)
  BY <1>1, <1>2 DEF SayPing
<1>13. in' = Append(in, x)
  BY <1>3, <1>12 DEF Say, Saying
<1> QED BY <1>7, <1>10, <1>11, <1>12, <1>13 DEF Say, SaysSo

(* and a pong, a close and a fragment as the frames they are.              *)
LEMMA SayFixedSo ==
  ASSUME NEW first \in Byte, NEW n \in {0, 1, 2}, NEW kind \in {"pong", "close", "error"},
         kind = "pong" => first = 128 + PongOp,
         kind = "close" => first = 128 + Shut,
         kind = "error" => first = Binary,
         Say(first, Data(n), Event(kind))
  PROVE  \E x, what : SaysSo(x, what)
<1>1. PICK p : p = Data(n)
  OBVIOUS
<1>2. PICK x : x = Saying(first, p)
  OBVIOUS
<1>3. n \in FrameSizes
  BY SmallSizes
<1>4. p \in PeerPayloads /\ p.size = n
  BY <1>1, <1>3 DEF PeerPayloads, Data
<1>5. x \in Spoken /\ x.header[1] = first /\ ~(x.header[2] < 128) /\ LengthIn(x.header) = n
  BY <1>2, <1>3, <1>4, SayingHeard
<1>6. ~(n > MaxPayload)
  BY WireAssumption
<1>7. HeardAs(x) = Event(kind)
  <2>1. CASE kind = "pong"
    <3>1. x.header[1] = 138 /\ (138 \div 16) % 8 = 0 /\ 138 % 16 = 10
      BY <2>1, <1>5 DEF PongOp
    <3>2. ~Rejects(x.header)
      BY <3>1, <1>5, <1>6 DEF Rejects
    <3>3. OpIn(x.header) = PongOp /\ PongOp # Binary /\ PongOp # PingOp
      BY <3>1 DEF OpIn, PongOp, Binary, PingOp
    <3> QED BY <2>1, <3>2, <3>3 DEF HeardAs
  <2>2. CASE kind = "close"
    <3>1. x.header[1] = 136 /\ (136 \div 16) % 8 = 0 /\ 136 % 16 = 8
      BY <2>2, <1>5 DEF Shut
    <3>2. ~Rejects(x.header)
      BY <3>1, <1>5, <1>6 DEF Rejects
    <3>3. OpIn(x.header) # PongOp /\ OpIn(x.header) # Binary /\ OpIn(x.header) # PingOp
      BY <3>1 DEF OpIn, PongOp, Binary, PingOp
    <3> QED BY <2>2, <3>2, <3>3 DEF HeardAs
  <2>3. CASE kind = "error"
    <3>1. x.header[1] < 128
      BY <2>3, <1>5 DEF Binary
    <3> QED BY <2>3, <3>1 DEF HeardAs, Rejects
  <2> QED BY <2>1, <2>2, <2>3
<1>8. Say(first, p, Event(kind))
  BY <1>1
<1>9. in' = Append(in, x)
  BY <1>2, <1>8 DEF Say, Saying
<1>10. Event(kind) \in Sounds
  BY DEF Sounds
<1> QED BY <1>5, <1>7, <1>8, <1>9, <1>10 DEF Say, SaysSo

(* So whatever the peer says, the server will hear what it is meant to.     *)
Speaking ==
  \/ \E f \in Messages : SayMessage(f) \/ SayOther(f)
  \/ \E n \in PingSizes : SayPing(n)
  \/ SayPong \/ SayClose \/ SayPart

(* So for all that the peer says.                                          *)
LEMMA AllSaySo ==
  ASSUME Speaking
  PROVE  \E x, what : SaysSo(x, what)
<1>1. CASE \E f \in Messages : SayMessage(f) \/ SayOther(f)
  BY <1>1, SayMessageSo, SayOtherSo
<1>2. CASE \E n \in PingSizes : SayPing(n)
  BY <1>2, SayPingSo
<1>3. 128 + PongOp \in Byte /\ 128 + Shut \in Byte /\ Binary \in Byte
  BY DEF Byte, PongOp, Shut, Binary
<1>4. CASE SayPong
  BY <1>3, <1>4, SayFixedSo DEF SayPong
<1>5. CASE SayClose
  BY <1>3, <1>5, SayFixedSo DEF SayClose
<1>6. CASE SayPart
  BY <1>3, <1>6, SayFixedSo DEF SayPart
<1> QED BY <1>1, <1>2, <1>4, <1>5, <1>6 DEF Speaking

(* The types hold after the peer said something,                           *)
LEMMA TypedSay ==
  ASSUME Typed, NEW x, NEW what, SaysSo(x, what)
  PROVE  Typed'
<1>1. /\ x \in Spoken /\ what \in Sounds /\ in' = Append(in, x) /\ said' = Append(said, what)
      /\ UNCHANGED goroutines /\ pc' = pc /\ Len(said) < MaxSays
      /\ out' = out /\ sock' = sock /\ written' = written /\ sent' = sent /\ heard' = heard /\ due' = due
  BY DEF SaysSo, goroutines
<1>2. in \in Seq(Spoken) /\ said \in Seq(Sounds) /\ TypeOK
  BY DEF Typed
<1>3. in' \in Seq(Spoken) /\ said' \in Seq(Sounds) /\ Len(said') = Len(said) + 1 /\ Len(said) \in Nat
  BY <1>1, <1>2, LongerSeq
<1>4. Len(said') <= MaxSays /\ sock' \in {"open", "down", "closed"}
  BY <1>1, <1>2, <1>3, WireAssumption DEF TypeOK
<1>5. TypeOK' /\ current' \in [Writers -> ServerFrames \cup {NoFrame}]
  BY <1>1, <1>4, ControlKept
<1> QED BY <1>1, <1>3, <1>5 DEF Typed

(* after it received a frame or the network failed,                        *)
LEMMA TypedReceive ==
  ASSUME Typed, Receive \/ Break
  PROVE  Typed'
<1>1. TypeOK /\ out \in Seq(Pieces)
  BY DEF Typed
<1>2. /\ UNCHANGED goroutines /\ pc' = pc /\ UNCHANGED written
      /\ written' = written /\ sent' = sent /\ in' = in /\ said' = said /\ heard' = heard /\ due' = due
  BY DEF Receive, Break, goroutines, history
<1>3. sock' \in {"open", "down", "closed"}
  BY <1>1 DEF Receive, Break, TypeOK
<1>4. Len(said') <= MaxSays
  BY <1>1, <1>2 DEF TypeOK
<1>5. TypeOK' /\ current' \in [Writers -> ServerFrames \cup {NoFrame}]
  BY <1>2, <1>3, <1>4, ControlKept
<1>6. out' \in Seq(Pieces)
  <2>1. CASE Break
    BY <2>1, <1>1 DEF Break
  <2>2. CASE Receive
    <3>1. out # <<>>
      BY <2>2 DEF Receive
    <3>2. Tail(out) \in Seq(Pieces) /\ Len(Tail(out)) = Len(out) - 1 /\ Len(out) \in Nat
      BY <3>1, <1>1, ShorterSeq
    <3>3. CASE out' = Tail(out)
      BY <3>2, <3>3
    <3>4. CASE out' = Tail(Tail(out)) /\ Len(out) > 1
      <4>1. PICK t : t = Tail(out)
        OBVIOUS
      <4>2. Len(t) # 0
        BY ONLY <3>2, <3>4, <4>1
      <4>3. t # <<>>
        BY ONLY <4>2
      <4> QED BY <3>2, <3>4, <4>1, <4>3, ShorterSeq
    <3> QED BY <2>2, <3>3, <3>4 DEF Receive
  <2> QED BY <2>1, <2>2
<1> QED BY <1>2, <1>5, <1>6 DEF Typed

(* so after every step.                                                    *)
LEMMA TypedStep ==
  ASSUME Typed, AllHeard, [Next]_vars
  PROVE  Typed'
<1>1. CASE \E f \in Answers : Send(f)
  BY <1>1, TypedSend
<1>2. CASE \E g \in Writers : Writing(g)
  BY <1>2, TypedLock, TypedFails, TypedHeader, TypedPayload DEF Writing
<1>3. CASE Reading
  BY <1>3, TypedRead
<1>4. CASE Peer
  <2>1. CASE Speaking
    BY <2>1, AllSaySo, TypedSay
  <2> QED BY <1>4, <2>1, TypedReceive DEF Peer, Speaking
<1>5. CASE UNCHANGED vars
  <2>1. /\ UNCHANGED goroutines /\ pc' = pc /\ UNCHANGED written /\ sock' = sock /\ out' = out
        /\ written' = written /\ sent' = sent /\ in' = in /\ said' = said /\ heard' = heard /\ due' = due
    BY <1>5 DEF vars, goroutines, history
  <2>2. sock' \in {"open", "down", "closed"} /\ Len(said') <= MaxSays
    BY <2>1 DEF Typed, TypeOK
  <2>3. TypeOK' /\ current' \in [Writers -> ServerFrames \cup {NoFrame}]
    BY <2>1, <2>2, ControlKept
  <2> QED BY <2>1, <2>3 DEF Typed
<1> QED BY <1>1, <1>2, <1>3, <1>4, <1>5 DEF Next

-----------------------------------------------------------------------------
(* AllHeard: the frames in the connection are those still to be heard *)

(* A frame that is read joins what was heard.                              *)
LEMMA AllHeardRead ==
  ASSUME Typed, AllHeard, in # <<>>, in' = Tail(in), heard' = Append(heard, NextSaid), said' = said
  PROVE  AllHeard'
<1>1. in \in Seq(Spoken) /\ said \in Seq(Sounds) /\ heard \in Seq(Sounds)
  BY DEF Typed
<1>2. PICK n \in Nat : n = Len(heard)
  BY <1>1, LenProperties
<1>3. /\ Len(in') = Len(in) - 1 /\ Len(in) \in Nat \ {0}
      /\ \A i \in 1 .. Len(in) - 1 : in'[i] = in[i + 1]
  BY <1>1, ShorterSeq
<1>4. PICK e \in Sounds : e = NextSaid
  BY HeardNext
<1>5. Len(heard') = n + 1 /\ heard'[n + 1] = e /\ \A i \in 1 .. n : heard'[i] = heard[i]
  BY <1>1, <1>2, <1>4, LongerSeq
<1>6. e = said[n + 1]
  BY <1>2, <1>4 DEF NextSaid
<1>7. /\ Len(said) = n + Len(in) /\ \A i \in 1 .. n : heard[i] = said[i]
      /\ \A i \in 1 .. Len(in) : HeardAs(in[i]) = said[n + i]
  BY <1>2 DEF AllHeard
<1>8. Len(said') = Len(heard') + Len(in')
  BY <1>3, <1>5, <1>7
<1>9. \A i \in 1 .. Len(heard') : heard'[i] = said'[i]
  BY <1>2, <1>5, <1>6, <1>7
<1>10. \A i \in 1 .. Len(in') : HeardAs(in'[i]) = said'[Len(heard') + i]
  <2> TAKE i \in 1 .. Len(in')
  <2>1. i \in 1 .. Len(in) - 1 /\ i + 1 \in 1 .. Len(in)
    BY <1>3
  <2>2. in'[i] = in[i + 1] /\ HeardAs(in[i + 1]) = said[n + (i + 1)]
    BY <2>1, <1>3, <1>7
  <2>3. n + (i + 1) = Len(heard') + i
    BY <2>1, <1>5
  <2> QED BY <2>2, <2>3
<1> QED BY <1>8, <1>9, <1>10 DEF AllHeard, HeardAs

(* A frame that is said joins those to be heard.                           *)
LEMMA AllHeardSay ==
  ASSUME Typed, AllHeard, NEW x, NEW what, SaysSo(x, what)
  PROVE  AllHeard'
<1>1. /\ x \in Spoken /\ what \in Sounds /\ in' = Append(in, x) /\ said' = Append(said, what)
      /\ heard' = heard /\ HeardAs(x) = what
  BY DEF SaysSo
<1>2. in \in Seq(Spoken) /\ said \in Seq(Sounds) /\ heard \in Seq(Sounds)
  BY DEF Typed
<1>3. PICK n \in Nat : n = Len(heard)
  BY <1>2, LenProperties
<1>4. /\ Len(in') = Len(in) + 1 /\ in'[Len(in) + 1] = x /\ Len(in) \in Nat
      /\ \A i \in 1 .. Len(in) : in'[i] = in[i]
  BY <1>1, <1>2, LongerSeq
<1>5. /\ Len(said') = Len(said) + 1 /\ said'[Len(said) + 1] = what /\ Len(said) \in Nat
      /\ \A i \in 1 .. Len(said) : said'[i] = said[i]
  BY <1>1, <1>2, LongerSeq
<1>6. /\ Len(said) = n + Len(in) /\ \A i \in 1 .. n : heard[i] = said[i]
      /\ \A i \in 1 .. Len(in) : HeardAs(in[i]) = said[n + i]
  BY <1>3 DEF AllHeard
<1>7. Len(said') = Len(heard') + Len(in')
  BY <1>1, <1>3, <1>4, <1>5, <1>6
<1>8. \A i \in 1 .. Len(heard') : heard'[i] = said'[i]
  BY <1>1, <1>3, <1>4, <1>5, <1>6
<1>9. \A i \in 1 .. Len(in') : HeardAs(in'[i]) = said'[Len(heard') + i]
  <2> TAKE i \in 1 .. Len(in')
  <2>1. CASE i = Len(in) + 1
    <3>1. n + i = Len(said) + 1
      BY <2>1, <1>4, <1>6
    <3> QED BY <2>1, <3>1, <1>1, <1>3, <1>4, <1>5
  <2>2. CASE i \in 1 .. Len(in)
    <3>1. n + i \in 1 .. Len(said)
      BY <2>2, <1>4, <1>6
    <3> QED BY <2>2, <3>1, <1>1, <1>3, <1>4, <1>5, <1>6
  <2> QED BY <2>1, <2>2, <1>4
<1> QED BY <1>7, <1>8, <1>9 DEF AllHeard, HeardAs

(* No other step touches either.                                           *)
LEMMA AllHeardStep ==
  ASSUME Typed, AllHeard, [Next]_vars
  PROVE  AllHeard'
<1>1. CASE UNCHANGED <<in, said, heard>>
  BY <1>1 DEF AllHeard, HeardAs
<1>2. CASE Speaking
  BY <1>2, AllSaySo, AllHeardSay
<1>3. CASE ReadMessage \/ ReadPing \/ ReadPong \/ ReadClose \/ ReadFails
  <2>1. said' = said
    BY <1>3 DEF ReadMessage, ReadPing, ReadPong, ReadClose, ReadFails
  <2> QED BY <1>3, <2>1, ReadHears, AllHeardRead
<1>4. CASE ReadEnds \/ Receive \/ Break \/ UNCHANGED vars
  <2>1. UNCHANGED <<in, said, heard>>
    BY <1>4 DEF ReadEnds, Receive, Break, vars, history
  <2> QED BY <2>1, <1>1
<1>5. CASE \E f \in Answers : Send(f)
  <2>1. UNCHANGED <<in, said, heard>>
    BY <1>5 DEF Send, history
  <2> QED BY <2>1, <1>1
<1>6. CASE \E g \in Writers : Writing(g)
  <2>1. UNCHANGED <<in, said, heard>>
    BY <1>6 DEF Writing, Lock, WriteFails, WriteHeader, WritePayload, history
  <2> QED BY <2>1, <1>1
<1> QED BY <1>2, <1>3, <1>4, <1>5, <1>6 DEF Next, Reading, Peer, Speaking

-----------------------------------------------------------------------------
(* PayloadsLeft: only a frame that has a payload is left after its header *)

(* A goroutine goes on to a payload only with a frame that has one.        *)
LEMMA PayloadsLeftStep ==
  ASSUME Typed, PayloadsLeft, [Next]_vars
  PROVE  PayloadsLeft'
<1>1. TypeOK
  BY DEF Typed
<1>2. CASE UNCHANGED <<pc, current>>
  BY <1>2 DEF PayloadsLeft, HasPayload
<1>3. ASSUME NEW g \in Writers, NEW label \in {"idle", "lock", "header", "done"}, NEW frame,
             Goto(g, label), current' = [current EXCEPT ![g] = frame]
      PROVE  PayloadsLeft'
  <2>1. pc'[g] = label /\ \A h \in Writers \ {g} : pc'[h] = pc[h]
    BY <1>1, <1>3 DEF Goto, TypeOK
  <2>2. current \in [Writers -> ServerFrames \cup {NoFrame}]
    BY DEF Typed
  <2>3. \A h \in Writers \ {g} : current'[h] = current[h]
    BY <1>3, <2>2
  <2> QED BY <2>1, <2>3 DEF PayloadsLeft, HasPayload
<1>4. \A g \in Writers : current = [current EXCEPT ![g] = current[g]]
  BY DEF Typed
<1>5. CASE \E f \in Answers : Send(f)
  <2>1. PICK f \in Answers : Send(f)
    BY <1>5
  <2>2. "writer" \in Writers /\ Goto("writer", "lock")
        /\ \E frame : current' = [current EXCEPT !["writer"] = frame]
    BY <2>1 DEF Send, Begin, Writers
  <2> QED BY <2>2, <1>3
<1>6. ASSUME NEW g \in Writers, Writing(g) PROVE PayloadsLeft'
  <2>1. CASE Lock(g)
    <3>1. Goto(g, "header") /\ current' = current
      BY <2>1 DEF Lock
    <3> QED BY <3>1, <1>3, <1>4
  <2>2. CASE WriteFails(g)
    <3>1. \E label \in {"idle", "done"} : Goto(g, label)
      BY <2>2 DEF WriteFails, Unlock
    <3>2. current' = [current EXCEPT ![g] = NoFrame]
      BY <2>2 DEF WriteFails, Unlock
    <3> QED BY <3>1, <3>2, <1>3
  <2>3. CASE Done(g)
    <3>1. Goto(g, "idle") /\ current' = [current EXCEPT ![g] = NoFrame]
      BY <2>3 DEF Done, Unlock
    <3> QED BY <3>1, <1>3
  <2>4. CASE WriteHeader(g) /\ ~Done(g)
    <3>1. PICK n : n = current[g].payload.size
      OBVIOUS
    <3>2. pc[g] = "header" /\ ~TooLarge(n) /\ n # 0 /\ Goto(g, "payload") /\ current' = current
      BY <2>4, <3>1 DEF WriteHeader
    <3>3. current[g] \in ServerFrames
      BY <3>2, <1>1 DEF Typed, TypeOK
    <3>4. n \in Nat
      BY <3>1, <3>3, FrameFacts
    <3>5. HasPayload(current[g])
      BY <3>1, <3>2, <3>4 DEF HasPayload, TooLarge
    <3>6. \A h \in Writers \ {g} : pc'[h] = pc[h]
      BY <3>2, <1>1 DEF Goto, TypeOK
    <3> QED BY <3>2, <3>5, <3>6 DEF PayloadsLeft, HasPayload
  <2> QED BY <1>6, <2>1, <2>2, <2>3, <2>4 DEF Writing, WritePayload
<1>7. CASE ReadMessage \/ ReadPong \/ Speaking \/ Receive \/ Break \/ UNCHANGED vars
  <2>1. UNCHANGED <<pc, current>>
    <3>1. CASE Speaking
      BY <3>1, AllSaySo DEF SaysSo, goroutines
    <3> QED BY <1>7, <3>1 DEF ReadMessage, ReadPong, Receive, Break, vars, goroutines
  <2> QED BY <2>1, <1>2
<1>8. CASE ReadClose \/ ReadFails \/ ReadEnds
  <2>1. "reader" \in Writers /\ Goto("reader", "done") /\ current' = current
    BY <1>8 DEF ReadClose, ReadFails, ReadEnds, End, Writers
  <2> QED BY <2>1, <1>3, <1>4
<1>9. CASE ReadPing
  <2>1. PICK frame : Begin("reader", frame)
    BY <1>9 DEF ReadPing
  <2>2. "reader" \in Writers /\ Goto("reader", "lock") /\ current' = [current EXCEPT !["reader"] = frame]
    BY <2>1 DEF Begin, Writers
  <2> QED BY <2>2, <1>3
<1> QED BY <1>5, <1>6, <1>7, <1>8, <1>9 DEF Next, Reading, Peer, Speaking

-----------------------------------------------------------------------------
(* PongsDue *)

(* A sequence begins itself,                                               *)
LEMMA OpensSelf ==
  ASSUME NEW S, NEW s \in Seq(S)
  PROVE  Opens(s, s)
BY DEF Opens

(* and what it begins may grow.                                            *)
LEMMA OpensLonger ==
  ASSUME NEW S, NEW s \in Seq(S), NEW t \in Seq(S), NEW e \in S, Opens(s, t)
  PROVE  Opens(s, Append(t, e))
<1>1. PICK n \in Nat : n = Len(s)
  BY LenProperties
<1>2. PICK u \in Seq(S) : u = Append(t, e)
  BY LongerSeq
<1>3. Len(u) = Len(t) + 1 /\ Len(t) \in Nat /\ \A i \in 1 .. Len(t) : u[i] = t[i]
  BY <1>2, LongerSeq
<1>4. n <= Len(t) /\ \A i \in 1 .. n : s[i] = t[i]
  BY <1>1 DEF Opens
<1>5. Len(s) <= Len(u) /\ \A i \in 1 .. Len(s) : s[i] = u[i]
  BY <1>1, <1>3, <1>4
<1> QED BY <1>2, <1>5 DEF Opens

(* A step that leaves the reader alone leaves its pongs alone.             *)
LEMMA PongsKept ==
  ASSUME PongsDue, pc'["reader"] = pc["reader"], current'["reader"] = current["reader"],
         written'["reader"] = written["reader"], due' = due, sock' = "open" => sock = "open"
  PROVE  PongsDue'
BY DEF PongsDue, Opens, Writable

(* A ping that is read owes the pong the reader begins, if it can be       *)
(* written.                                                                *)
LEMMA PongsDuePing ==
  ASSUME Typed, AllHeard, PongsDue, ReadPing
  PROVE  PongsDue'
<1>1. PICK n : n = LengthIn(Coming.header)
  OBVIOUS
<1>2. PICK f : f = Frame(PongOp, Data(n))
  OBVIOUS
<1>3. PICK w : w = written["reader"]
  OBVIOUS
<1>4. in # <<>> /\ pc["reader"] = "idle" /\ sock' = sock /\ written' = written
      /\ Begin("reader", f)
  BY <1>1, <1>2 DEF ReadPing, ReadFrame, Hears
<1>5. due' = IF n < 65536 THEN Append(due, Data(n)) ELSE due
  BY <1>1 DEF ReadPing
<1>6. n \in Nat
  BY <1>1, <1>4, HeardNext, SpokenFacts
<1>7. f.payload = Data(n) /\ Data(n) \in Payloads /\ Data(n).size = n
  BY <1>2, <1>6, PongFrames
<1>8. "reader" \in Writers /\ due \in Seq(Payloads) /\ written \in [Writers -> Seq(Payloads)] /\ TypeOK
      /\ current \in [Writers -> ServerFrames \cup {NoFrame}]
  BY DEF Typed, Writers
<1>9. w \in Seq(Payloads)
  BY <1>3, <1>8
<1>10. pc'["reader"] = "lock" /\ current'["reader"] = f
  BY <1>4, <1>8 DEF Begin, Goto, TypeOK
<1>11. Opens(w, due')
  <2>1. Opens(w, due)
    BY <1>3 DEF PongsDue
  <2>2. Opens(w, Append(due, Data(n)))
    BY <2>1, <1>7, <1>8, <1>9, OpensLonger
  <2> QED BY <2>1, <2>2, <1>5
<1>12. sock' = "open" => due' = IF Writable(current'["reader"].payload)
                                 THEN Append(w, current'["reader"].payload) ELSE w
  <2>1. sock = "open" => w = due
    BY <1>3, <1>4 DEF PongsDue
  <2>2. Writable(Data(n)) <=> n < 65536
    BY <1>7 DEF Writable
  <2> QED BY <2>1, <2>2, <1>4, <1>5, <1>7, <1>10
<1>13. written'["reader"] = w
  BY <1>3, <1>4
<1> QED BY <1>10, <1>11, <1>12, <1>13 DEF PongsDue, Opens, Writable

(* The pong that is written was owed.                                      *)
LEMMA PongsDueDone ==
  ASSUME Typed, PongsDue, Done("reader"), sock = "open", sock' = sock, due' = due,
         pc["reader"] \in {"header", "payload"}, Writable(current["reader"].payload)
  PROVE  PongsDue'
<1>1. PICK p : p = current["reader"].payload
  OBVIOUS
<1>2. PICK w : w = written["reader"]
  OBVIOUS
<1>3. "reader" \in Writers /\ due \in Seq(Payloads) /\ written \in [Writers -> Seq(Payloads)] /\ TypeOK
  BY DEF Typed, Writers
<1>4. due = Append(w, p)
  BY <1>1, <1>2 DEF PongsDue
<1>5. written'["reader"] = Append(w, p)
  BY <1>1, <1>2, <1>3 DEF Done
<1>6. pc'["reader"] = "idle"
  BY <1>3 DEF Done, Unlock, Goto, TypeOK
<1>7. Opens(due, due)
  BY <1>3, OpensSelf
<1> QED BY <1>4, <1>5, <1>6, <1>7 DEF PongsDue, Opens, Writable

(* The writer's steps leave the reader alone.                              *)
LEMMA ReaderAlone ==
  ASSUME Typed, NEW g \in Writers, g # "reader", Writing(g)
  PROVE  /\ pc'["reader"] = pc["reader"] /\ current'["reader"] = current["reader"]
         /\ written'["reader"] = written["reader"] /\ due' = due /\ sock' = sock
<1>1. "reader" \in Writers /\ TypeOK /\ current \in [Writers -> ServerFrames \cup {NoFrame}]
      /\ written \in [Writers -> Seq(Payloads)]
  BY DEF Typed, Writers
<1>2. pc'["reader"] = pc["reader"]
  <2>1. \E label : Goto(g, label)
    BY DEF Writing, Lock, WriteFails, WriteHeader, WritePayload, Done, Unlock
  <2> QED BY <2>1, <1>1 DEF Goto, TypeOK
<1>3. current'["reader"] = current["reader"]
  <2>1. current' = current \/ current' = [current EXCEPT ![g] = NoFrame]
    BY DEF Writing, Lock, WriteFails, WriteHeader, WritePayload, Done, Unlock
  <2> QED BY <2>1, <1>1
<1>4. written'["reader"] = written["reader"]
  <2>1. written' = written \/ Done(g)
    BY DEF Writing, Lock, WriteFails, WriteHeader, WritePayload, history
  <2> QED BY <2>1, <1>1 DEF Done
<1>5. due' = due /\ sock' = sock
  BY DEF Writing, Lock, WriteFails, WriteHeader, WritePayload, history
<1> QED BY <1>2, <1>3, <1>4, <1>5

(* So every step keeps the account of the pongs.                           *)
LEMMA PongsDueStep ==
  ASSUME Typed, PayloadsLeft, AllHeard, PongsDue, [Next]_vars
  PROVE  PongsDue'
<1>1. TypeOK /\ "reader" \in Writers /\ current \in [Writers -> ServerFrames \cup {NoFrame}]
      /\ written \in [Writers -> Seq(Payloads)]
  BY DEF Typed, Writers
<1>2. CASE \E f \in Answers : Send(f)
  <2>1. PICK f \in Answers : Send(f)
    BY <1>2
  <2>2. pc'["reader"] = pc["reader"] /\ current'["reader"] = current["reader"]
    BY <2>1, <1>1 DEF Send, Begin, Goto, TypeOK
  <2>3. written' = written /\ due' = due /\ sock' = sock
    BY <2>1 DEF Send, history
  <2> QED BY <2>2, <2>3, PongsKept
<1>3. CASE \E g \in Writers : g # "reader" /\ Writing(g)
  BY <1>3, ReaderAlone, PongsKept
<1>4. CASE Lock("reader")
  <2>1. pc["reader"] = "lock" /\ pc'["reader"] = "header"
    BY <1>4, <1>1 DEF Lock, Goto, TypeOK
  <2>2. current' = current /\ written' = written /\ due' = due /\ sock' = sock
    BY <1>4 DEF Lock, history
  <2> QED BY <2>1, <2>2 DEF PongsDue, Opens, Writable
<1>5. CASE WriteFails("reader")
  <2>1. pc["reader"] \in {"header", "payload"} /\ pc'["reader"] = "idle"
    BY <1>5, <1>1 DEF WriteFails, Unlock, Goto, TypeOK
  <2>2. written' = written /\ due' = due /\ sock' = sock
    BY <1>5 DEF WriteFails, history
  <2>3. sock = "open" => TooLarge(current["reader"].payload.size)
    BY <1>5 DEF WriteFails
  <2>4. current["reader"] \in ServerFrames
    BY <2>1, <1>1 DEF TypeOK
  <2>5. current["reader"].payload.size \in Nat
    BY <2>4, FrameFacts
  <2>6. sock = "open" => ~Writable(current["reader"].payload)
    BY <2>3, <2>5 DEF TooLarge, Writable
  <2>7. sock = "open" => due = written["reader"]
    BY <2>1, <2>6 DEF PongsDue
  <2> QED BY <2>1, <2>2, <2>7 DEF PongsDue, Opens, Writable
<1>6. CASE WriteHeader("reader") /\ ~Done("reader")
  <2>1. pc["reader"] = "header" /\ pc'["reader"] = "payload"
    BY <1>6, <1>1 DEF WriteHeader, Goto, TypeOK
  <2>2. current' = current /\ written' = written /\ due' = due /\ sock' = sock
    BY <1>6 DEF WriteHeader
  <2> QED BY <2>1, <2>2 DEF PongsDue, Opens, Writable
<1>7. CASE WriteHeader("reader") /\ Done("reader")
  <2>1. pc["reader"] = "header" /\ sock = "open" /\ sock' = sock /\ due' = due
        /\ ~TooLarge(current["reader"].payload.size)
    BY <1>7 DEF WriteHeader
  <2>2. current["reader"] \in ServerFrames
    BY <2>1, <1>1 DEF TypeOK
  <2>3. current["reader"].payload.size \in Nat
    BY <2>2, FrameFacts
  <2>4. Writable(current["reader"].payload)
    BY <2>1, <2>3 DEF TooLarge, Writable
  <2> QED BY <2>1, <2>4, <1>7, PongsDueDone
<1>8. CASE WritePayload("reader")
  <2>1. pc["reader"] = "payload" /\ sock = "open" /\ sock' = sock /\ due' = due /\ Done("reader")
    BY <1>8 DEF WritePayload
  <2>2. Writable(current["reader"].payload)
    BY <2>1, <1>1 DEF PayloadsLeft, HasPayload, Writable
  <2> QED BY <2>1, <2>2, PongsDueDone
<1>9. CASE ReadPing
  BY <1>9, PongsDuePing
<1>10. CASE ReadClose \/ ReadFails \/ ReadEnds
  <2>1. sock' = "closed" /\ written' = written /\ due' = due
    BY <1>10 DEF ReadClose, ReadFails, ReadEnds, End, history
  <2> QED BY <2>1 DEF PongsDue, Opens
<1>11. CASE ReadMessage \/ ReadPong \/ Speaking \/ Receive \/ Break \/ UNCHANGED vars
  <2>1. pc' = pc /\ current' = current /\ written' = written /\ due' = due /\ (sock' = sock \/ sock' = "down")
    <3>1. CASE Speaking
      BY <3>1, AllSaySo DEF SaysSo, goroutines
    <3> QED BY <1>11, <3>1 DEF ReadMessage, ReadPong, Receive, Break, vars, goroutines, history
  <2> QED BY <2>1, PongsKept
<1>12. CASE \E g \in Writers : Writing(g)
  BY <1>3, <1>4, <1>5, <1>6, <1>7, <1>8, <1>12 DEF Writing
<1> QED BY <1>2, <1>9, <1>10, <1>11, <1>12 DEF Next, Reading, Peer, Speaking

-----------------------------------------------------------------------------
(* InOrder: the frames that were done lie in the connection one after the    *)
(* other, and the peer takes them off at the other end                      *)

(* A frame takes one or two pieces.                                        *)
LEMMA Widths ==
  ASSUME NEW f
  PROVE  Width(f) \in {1, 2} /\ (Width(f) = 1 <=> f.payload.size = 0)
BY DEF Width

(* A piece at the end of the stream leaves the frames in it where they     *)
(* are.                                                                    *)
LEMMA LaidLonger ==
  ASSUME NEW o \in Seq(Pieces), NEW e \in Pieces, NEW s \in Seq(ServerFrames),
         NEW r \in Nat, NEW place, Laid(o, s, r, place)
  PROVE  Laid(Append(o, e), s, r, place)
<1>1. PICK p \in Seq(Pieces) : p = Append(o, e)
  BY LongerSeq
<1>2. Len(p) = Len(o) + 1 /\ Len(o) \in Nat /\ \A i \in 1 .. Len(o) : p[i] = o[i]
  BY <1>1, LongerSeq
<1>3. \A k \in r + 1 .. Len(s) : LiesAt(p, s[k], place[k], place[k + 1])
  <2> TAKE k \in r + 1 .. Len(s)
  <2>1. k \in r + 1 .. Len(s) + 1 /\ k + 1 \in r + 1 .. Len(s) + 1
    OBVIOUS
  <2>2. PICK here \in Nat \ {0}, next \in Nat \ {0} : here = place[k] /\ next = place[k + 1]
    BY <2>1 DEF Laid
  <2>3. PICK f : f = s[k]
    OBVIOUS
  <2>4. LiesAt(o, f, here, next)
    BY <2>2, <2>3 DEF Laid
  <2>5. PICK d \in {1, 2} : d = Width(f) /\ (d = 1 <=> f.payload.size = 0)
    BY Widths
  <2>6. /\ here + d = next /\ next <= Len(o) + 1 /\ f.payload.size < 65536
        /\ o[here] = HeaderPiece(f) /\ (d # 1 => o[here + 1] = PayloadPiece(f))
    BY <2>4, <2>5 DEF LiesAt
  <2>7. p[here] = o[here] /\ (d # 1 => p[here + 1] = o[here + 1])
    <3>1. PICK l \in Nat : l = Len(o)
      BY <1>2
    <3>2. here + d = next /\ next <= l + 1
      BY <2>6, <3>1
    <3>3. here \in 1 .. l /\ (d # 1 => here + 1 \in 1 .. l)
      <4>1. CASE d = 1
        BY ONLY <2>2, <3>1, <3>2, <4>1
      <4>2. CASE d = 2
        BY ONLY <2>2, <3>1, <3>2, <4>2
      <4> QED BY <4>1, <4>2
    <3>4. \A i \in 1 .. l : p[i] = o[i]
      BY <1>2, <3>1
    <3> QED BY ONLY <3>3, <3>4
  <2>8. next <= Len(p) + 1
    BY ONLY <1>2, <2>2, <2>6
  <2>9. LiesAt(p, f, here, next)
    BY <2>5, <2>6, <2>7, <2>8 DEF LiesAt
  <2> QED BY <2>2, <2>3, <2>9
<1>4. Laid(p, s, r, place)
  BY <1>3 DEF Laid
<1> QED BY <1>1, <1>4

(* A frame that ends the stream joins the frames that lie in it.           *)
LEMMA LaidMore ==
  ASSUME NEW o \in Seq(Pieces), NEW s \in Seq(ServerFrames), NEW f \in ServerFrames,
         NEW r \in Nat, r <= Len(s), NEW place, Laid(o, s, r, place),
         LiesAt(o, f, place[Len(s) + 1], Len(o) + 1)
  PROVE  \E longer : /\ Laid(o, Append(s, f), r, longer)
                     /\ longer[Len(Append(s, f)) + 1] = Len(o) + 1
<1>1. PICK n \in Nat : n = Len(s)
  BY LenProperties
<1>2. PICK t \in Seq(ServerFrames) : t = Append(s, f)
  BY LongerSeq
<1>3. Len(t) = n + 1 /\ t[n + 1] = f /\ \A i \in 1 .. n : t[i] = s[i]
  BY <1>1, <1>2, LongerSeq
<1>4. PICK end \in Nat \ {0} : end = Len(o) + 1
  BY LenProperties
<1>5. PICK longer : longer = [k \in r + 1 .. n + 2 |-> IF k = n + 2 THEN end ELSE place[k]]
  OBVIOUS
<1>6. place \in [r + 1 .. n + 1 -> Nat \ {0}] /\ place[r + 1] = 1
      /\ \A j, k \in r + 1 .. n + 1 : j <= k => place[j] <= place[k]
  BY <1>1 DEF Laid
<1>7. longer \in [r + 1 .. n + 2 -> Nat \ {0}]
  <2>1. \A k \in r + 1 .. n + 2 : k # n + 2 => k \in r + 1 .. n + 1
    BY <1>1
  <2> QED BY <1>4, <1>5, <1>6, <2>1
<1>8. longer[n + 2] = end /\ \A k \in r + 1 .. n + 1 : longer[k] = place[k]
  BY <1>1, <1>5
<1>9. place[n + 1] <= end
  <2>1. n + 1 \in r + 1 .. n + 1
    BY <1>1
  <2>2. place[n + 1] \in Nat
    BY <1>6, <2>1
  <2>3. place[n + 1] + Width(f) = end
    BY <1>1, <1>4 DEF LiesAt
  <2>4. PICK d \in {1, 2} : d = Width(f)
    BY Widths
  <2> QED BY <2>2, <2>3, <2>4
<1>10. \A j, k \in r + 1 .. n + 2 : j <= k => longer[j] <= longer[k]
  <2> SUFFICES ASSUME NEW j \in r + 1 .. n + 2, NEW k \in r + 1 .. n + 2, j <= k
               PROVE  longer[j] <= longer[k]
    OBVIOUS
  <2>1. CASE k # n + 2
    <3>1. j \in r + 1 .. n + 1 /\ k \in r + 1 .. n + 1
      BY <2>1, <1>1
    <3>2. place[j] <= place[k] /\ longer[j] = place[j] /\ longer[k] = place[k]
      BY <3>1, <1>6, <1>8
    <3> QED BY <3>2
  <2>2. CASE k = n + 2 /\ j = n + 2
    BY <2>2, <1>4, <1>8
  <2>3. CASE k = n + 2 /\ j # n + 2
    <3>1. j \in r + 1 .. n + 1 /\ n + 1 \in r + 1 .. n + 1 /\ j <= n + 1
      BY <2>3, <1>1
    <3>2. place[j] <= place[n + 1] /\ place[j] \in Nat /\ place[n + 1] \in Nat
      BY <3>1, <1>6
    <3>3. longer[j] = place[j] /\ longer[k] = end
      BY <2>3, <3>1, <1>8
    <3> QED BY ONLY <3>2, <3>3, <1>4, <1>9
  <2> QED BY <2>1, <2>2, <2>3
<1>11. \A k \in r + 1 .. n + 1 : LiesAt(o, t[k], longer[k], longer[k + 1])
  <2> TAKE k \in r + 1 .. n + 1
  <2>1. CASE k = n + 1
    <3>1. t[k] = f /\ longer[k] = place[n + 1] /\ longer[k + 1] = end
      BY <2>1, <1>1, <1>3, <1>8
    <3> QED BY <3>1, <1>1, <1>4
  <2>2. CASE k # n + 1
    <3>1. k \in r + 1 .. n /\ k + 1 \in r + 1 .. n + 1 /\ k \in 1 .. n
      BY <2>2, <1>1
    <3>2. t[k] = s[k] /\ longer[k] = place[k] /\ longer[k + 1] = place[k + 1]
      BY <3>1, <1>3, <1>8
    <3>3. LiesAt(o, s[k], place[k], place[k + 1])
      BY <3>1, <1>1 DEF Laid
    <3> QED BY <3>2, <3>3
  <2> QED BY <2>1, <2>2
<1>12. longer[r + 1] = 1
  <2>1. r + 1 \in r + 1 .. n + 1
    BY <1>1
  <2> QED BY <2>1, <1>6, <1>8
<1>13. Len(t) + 1 = n + 2
  BY <1>3
<1>14. Laid(o, t, r, longer)
  BY <1>3, <1>7, <1>10, <1>11, <1>12, <1>13 DEF Laid
<1> QED BY <1>2, <1>4, <1>8, <1>13, <1>14

(* What is left of the stream after its first frame.                       *)
Cut(p, o, d) == Len(p) = Len(o) - d /\ \A i \in 1 .. Len(o) - d : p[i] = o[i + d]

LaidRest(p, s, r, place, d) ==
  /\ place[Len(s) + 1] \in Nat /\ place[Len(s) + 1] >= 1 + d
  /\ \E rest : Laid(p, s, r + 1, rest) /\ rest[Len(s) + 1] = place[Len(s) + 1] - d

(* The frames after the first lie in it as they did.                       *)
LEMMA LaidShorter ==
  ASSUME NEW o \in Seq(Pieces), NEW p \in Seq(Pieces), NEW d \in {1, 2}, NEW s \in Seq(ServerFrames),
         NEW r \in Nat, r + 1 <= Len(s), NEW place, Laid(o, s, r, place), place[r + 2] = 1 + d,
         Cut(p, o, d)
  PROVE  LaidRest(p, s, r, place, d)
<1>1. PICK n \in Nat : n = Len(s)
  BY LenProperties
<1>2. Len(p) = Len(o) - d /\ \A i \in 1 .. Len(o) - d : p[i] = o[i + d]
  BY DEF Cut
<1>3. PICK l \in Nat : l = Len(o)
  BY LenProperties
<1>4. place \in [r + 1 .. n + 1 -> Nat \ {0}]
      /\ \A j, k \in r + 1 .. n + 1 : j <= k => place[j] <= place[k]
  BY <1>1 DEF Laid
<1>5. \A k \in r + 2 .. n + 1 : place[k] \in Nat /\ place[k] >= 1 + d
  <2> TAKE k \in r + 2 .. n + 1
  <2>1. k \in r + 1 .. n + 1 /\ r + 2 \in r + 1 .. n + 1 /\ r + 2 <= k
    BY <1>1
  <2>2. place[k] \in Nat /\ place[r + 2] <= place[k]
    BY <2>1, <1>4
  <2> QED BY <2>2
<1>6. PICK rest : rest = [k \in r + 2 .. n + 1 |-> place[k] - d]
  OBVIOUS
<1>7. rest \in [r + 2 .. n + 1 -> Nat \ {0}]
  <2>1. \A k \in r + 2 .. n + 1 : place[k] - d \in Nat \ {0}
    BY <1>5
  <2> QED BY <1>6, <2>1
<1>8. \A j, k \in r + 2 .. n + 1 : j <= k => rest[j] <= rest[k]
  <2> SUFFICES ASSUME NEW j \in r + 2 .. n + 1, NEW k \in r + 2 .. n + 1, j <= k
               PROVE  rest[j] <= rest[k]
    OBVIOUS
  <2>1. place[j] <= place[k] /\ place[j] \in Nat /\ place[k] \in Nat
    BY <1>4, <1>5
  <2> QED BY <2>1, <1>6
<1>9. r + 2 \in r + 2 .. n + 1 /\ rest[r + 2] = 1
  <2>1. r + 2 \in r + 2 .. n + 1
    BY <1>1
  <2> QED BY <2>1, <1>6
<1>10. \A k \in r + 2 .. n : LiesAt(p, s[k], rest[k], rest[k + 1])
  <2> TAKE k \in r + 2 .. n
  <2>1. k \in r + 1 .. n /\ k \in r + 2 .. n + 1 /\ k + 1 \in r + 2 .. n + 1
    OBVIOUS
  <2>2. PICK here \in Nat : here = place[k] /\ here >= 1 + d
    BY <2>1, <1>5
  <2>3. PICK next \in Nat : next = place[k + 1] /\ next >= 1 + d
    BY <2>1, <1>5
  <2>4. PICK f : f = s[k]
    OBVIOUS
  <2>5. LiesAt(o, f, here, next)
    BY <2>1, <2>2, <2>3, <2>4, <1>1 DEF Laid
  <2>6. PICK w \in {1, 2} : w = Width(f) /\ (w = 1 <=> f.payload.size = 0)
    BY Widths
  <2>7. /\ here + w = next /\ next <= l + 1 /\ f.payload.size < 65536
        /\ o[here] = HeaderPiece(f) /\ (w # 1 => o[here + 1] = PayloadPiece(f))
    BY <2>5, <2>6, <1>3 DEF LiesAt
  <2>8. /\ here - d \in 1 .. l - d /\ (w # 1 => here - d + 1 \in 1 .. l - d)
        /\ (here - d) + d = here /\ (here - d + 1) + d = here + 1
    <3>1. d \in {1, 2} /\ w \in {1, 2} /\ here + w = next /\ next <= l + 1
      BY <2>6, <2>7
    <3>2. /\ here \in Nat /\ l \in Nat /\ here >= 1 + d
      BY <1>3, <2>2
    <3>3. CASE d = 1
      <4>1. CASE w = 1
        BY ONLY <3>1, <3>2, <3>3, <4>1
      <4>2. CASE w = 2
        BY ONLY <3>1, <3>2, <3>3, <4>2
      <4> QED BY <3>1, <4>1, <4>2
    <3>4. CASE d = 2
      <4>1. CASE w = 1
        BY ONLY <3>1, <3>2, <3>4, <4>1
      <4>2. CASE w = 2
        BY ONLY <3>1, <3>2, <3>4, <4>2
      <4> QED BY <3>1, <4>1, <4>2
    <3> QED BY <3>1, <3>3, <3>4
  <2>9. p[here - d] = o[here] /\ (w # 1 => p[here - d + 1] = o[here + 1])
    <3>1. \A i \in 1 .. l - d : p[i] = o[i + d]
      BY <1>3, <1>2
    <3> QED BY <3>1, <2>8
  <2>10. (here - d) + w = next - d /\ next - d <= Len(p) + 1
    <3>1. Len(p) = l - d
      BY <1>2, <1>3
    <3>2. here + w = next /\ next <= l + 1 /\ here \in Nat /\ next \in Nat /\ l \in Nat
          /\ d \in Int /\ w \in Int
      BY <1>3, <2>2, <2>3, <2>6, <2>7
    <3> QED BY ONLY <3>1, <3>2
  <2>11. LiesAt(p, f, here - d, next - d)
    <3>1. PICK h : h = here - d
      OBVIOUS
    <3>2. h + Width(f) = next - d /\ next - d <= Len(p) + 1
      BY <2>6, <2>10, <3>1
    <3>3. p[h] = HeaderPiece(f) /\ (w # 1 => p[h + 1] = PayloadPiece(f))
      BY <2>7, <2>9, <3>1
    <3>4. LiesAt(p, f, h, next - d)
      BY <2>6, <2>7, <3>2, <3>3 DEF LiesAt
    <3> QED BY <3>1, <3>4
  <2>12. rest[k] = here - d /\ rest[k + 1] = next - d
    BY <2>1, <2>2, <2>3, <1>6
  <2> QED BY <2>4, <2>11, <2>12
<1>11. (r + 1) + 1 = r + 2
  OBVIOUS
<1>12. Laid(p, s, r + 1, rest)
  BY <1>1, <1>7, <1>8, <1>9, <1>10, <1>11 DEF Laid
<1>13. n + 1 \in r + 2 .. n + 1
  BY <1>1
<1>14. place[n + 1] \in Nat /\ place[n + 1] >= 1 + d /\ rest[n + 1] = place[n + 1] - d
  BY <1>5, <1>6, <1>13
<1> QED BY <1>1, <1>12, <1>14 DEF LaidRest

(* A step that does not touch the stream, or who is past a header, keeps   *)
(* the order.                                                              *)
LEMMA StreamsKept ==
  ASSUME InOrder, out' = out, sent' = sent, got' = got,
         sock' = "open" => /\ sock = "open"
                           /\ \A g \in Writers : /\ pc'[g] = "payload" <=> pc[g] = "payload"
                                                 /\ pc[g] = "payload" => current'[g] = current[g]
  PROVE  InOrder'
<1>1. PICK place : Streams(place)
  BY DEF InOrder
<1>2. PICK last : last = place[Len(sent) + 1]
  OBVIOUS
<1>3. /\ Laid(out, sent, Len(got), place)
      /\ Ended(out, last) \/ \E f \in ServerFrames : HalfOf(out, last, f)
      /\ sock = "open" => /\ (\A g \in Writers : pc[g] # "payload") => Ended(out, last)
                          /\ \A g \in Writers : pc[g] = "payload" => HalfOf(out, last, current[g])
  BY <1>1, <1>2 DEF Streams
<1>4. sock' = "open" => /\ (\A g \in Writers : pc'[g] # "payload") => Ended(out, last)
                        /\ \A g \in Writers : pc'[g] = "payload" => HalfOf(out, last, current'[g])
  BY <1>3
<1>5. /\ Laid(out', sent', Len(got'), place) /\ last = place[Len(sent') + 1]
      /\ Ended(out', last) \/ \E f \in ServerFrames : HalfOf(out', last, f)
      /\ sock' = "open" => /\ (\A g \in Writers : pc'[g] # "payload") => Ended(out', last)
                           /\ \A g \in Writers : pc'[g] = "payload" => HalfOf(out', last, current'[g])
  BY <1>2, <1>3, <1>4
<1>6. Streams(place)'
  BY <1>5 DEF Streams
<1>7. got' \in Seq(ServerFrames) /\ Opens(got', sent')
  BY DEF InOrder
<1> QED BY <1>6, <1>7 DEF InOrder

(* A frame that is done joins the frames in the stream.                    *)
LEMMA DoneJoins ==
  ASSUME Typed, got \in Seq(ServerFrames), Opens(got, sent),
         NEW place, Laid(out, sent, Len(got), place), NEW f \in ServerFrames, NEW o \in Seq(Pieces),
         Laid(o, sent, Len(got), place), LiesAt(o, f, place[Len(sent) + 1], Len(o) + 1),
         out' = o, sent' = Append(sent, f), got' = got, \A g \in Writers : pc'[g] # "payload"
  PROVE  InOrder'
<1>1. sent \in Seq(ServerFrames)
  BY DEF Typed
<1>2. PICK r \in Nat : r = Len(got)
  BY LenProperties
<1>3. r <= Len(sent)
  BY <1>2 DEF Opens
<1>4. PICK t \in Seq(ServerFrames) : t = Append(sent, f)
  BY <1>1, LongerSeq
<1>5. PICK longer : Laid(o, t, r, longer) /\ longer[Len(t) + 1] = Len(o) + 1
  BY <1>1, <1>2, <1>3, <1>4, LaidMore
<1>6. Opens(got, t)
  BY <1>1, <1>4, OpensLonger
<1>7. Ended(o, longer[Len(t) + 1])
  BY <1>5 DEF Ended
<1>8. got' = got /\ sent' = t /\ out' = o
  BY <1>4
<1>9. Streams(longer)'
  BY <1>2, <1>5, <1>7, <1>8 DEF Streams
<1> QED BY <1>6, <1>8, <1>9 DEF InOrder

(* The next piece goes to the end of the stream.                           *)
Ready(place, e) ==
  /\ Streams(place) /\ place[Len(sent) + 1] \in Nat \ {0}
  /\ Laid(out, sent, Len(got), place)
  /\ Append(out, e) \in Seq(Pieces) /\ Laid(Append(out, e), sent, Len(got), place)
  /\ Len(Append(out, e)) = Len(out) + 1 /\ Len(out) \in Nat
  /\ Append(out, e)[Len(out) + 1] = e
  /\ \A i \in 1 .. Len(out) : Append(out, e)[i] = out[i]

(* The frames lie in the stream whatever piece is put at its end.          *)
LEMMA NextPiece ==
  ASSUME Typed, InOrder, NEW e \in Pieces
  PROVE  \E place : Ready(place, e)
<1>1. PICK place : Streams(place)
  BY DEF InOrder
<1>2. out \in Seq(Pieces) /\ sent \in Seq(ServerFrames)
  BY DEF Typed
<1>3. got \in Seq(ServerFrames) /\ Len(got) <= Len(sent)
  BY DEF InOrder, Opens
<1>4. Laid(out, sent, Len(got), place)
  BY <1>1 DEF Streams
<1>5. PICK r \in Nat, n \in Nat : r = Len(got) /\ n = Len(sent) /\ r <= n
  BY <1>2, <1>3, LenProperties
<1>6. Laid(Append(out, e), sent, r, place)
  BY <1>2, <1>4, <1>5, LaidLonger
<1>7. n + 1 \in r + 1 .. n + 1
  BY <1>5
<1>8. place[n + 1] \in Nat \ {0}
  BY <1>4, <1>5, <1>7 DEF Laid
<1>9. /\ Append(out, e) \in Seq(Pieces)
      /\ Len(Append(out, e)) = Len(out) + 1 /\ Len(out) \in Nat
      /\ Append(out, e)[Len(out) + 1] = e
      /\ \A i \in 1 .. Len(out) : Append(out, e)[i] = out[i]
  BY <1>2, LongerSeq
<1>10. place[Len(sent) + 1] \in Nat \ {0}
  BY <1>5, <1>8
<1>11. Laid(Append(out, e), sent, Len(got), place)
  BY <1>5, <1>6
<1> QED BY <1>1, <1>4, <1>9, <1>10, <1>11 DEF Ready

(* A header begins a frame, or is one; nobody else is past a header then.  *)
LEMMA InOrderHeader ==
  ASSUME Typed, InOrder, NEW g \in Writers, WriteHeader(g)
  PROVE  InOrder'
<1>1. PICK f : f = current[g]
  OBVIOUS
<1>2. /\ pc[g] = "header" /\ sock = "open" /\ sock' = sock /\ out' = Append(out, HeaderPiece(f)) /\ got' = got
      /\ ~TooLarge(f.payload.size)
  BY <1>1 DEF WriteHeader, HeaderPiece
<1>3. TypeOK
  BY DEF Typed
<1>4. f \in ServerFrames
  BY <1>1, <1>2, <1>3 DEF Typed, TypeOK
<1>5. PICK e \in Pieces : e = HeaderPiece(f)
  BY <1>4, PieceFacts
<1>6. PICK place : Ready(place, e)
  BY NextPiece
<1>7. PICK last \in Nat \ {0} : last = place[Len(sent) + 1]
  BY <1>6 DEF Ready
<1>8. /\ Streams(place) /\ last = place[Len(sent) + 1] /\ Laid(out, sent, Len(got), place)
       /\ Append(out, e) \in Seq(Pieces) /\ Laid(Append(out, e), sent, Len(got), place)
       /\ Len(Append(out, e)) = Len(out) + 1 /\ Len(out) \in Nat
       /\ Append(out, e)[Len(out) + 1] = e
       /\ \A i \in 1 .. Len(out) : Append(out, e)[i] = out[i]
  BY <1>6, <1>7 DEF Ready
<1>9. PICK o \in Seq(Pieces) : o = Append(out, e)
  BY <1>8
<1>10. \A h \in Writers : pc[h] # "payload"
  BY <1>2, <1>3 DEF TypeOK
<1>11. Ended(out, last)
  BY <1>2, <1>8, <1>10 DEF Streams
<1>12. Len(out) + 1 = last /\ Len(o) = last /\ o[last] = HeaderPiece(f)
  BY <1>5, <1>8, <1>9, <1>11 DEF Ended
<1>13. f.payload.size \in Nat
  BY <1>4, FrameFacts
<1>14. f.payload.size < 65536
  BY <1>2, <1>13 DEF TooLarge
<1>15. CASE f.payload.size = 0
  <2>1. Done(g)
    BY <1>1, <1>15 DEF WriteHeader
  <2>2. sent' = Append(sent, f)
    BY <2>1, <1>1 DEF Done
  <2>3. \A h \in Writers : pc'[h] # "payload"
    BY <2>1, <1>3, <1>10 DEF Done, Unlock, Goto, TypeOK
  <2>4. Width(f) = 1
    BY <1>15 DEF Width
  <2>5. LiesAt(o, f, last, Len(o) + 1)
    BY <2>4, <1>12, <1>14, <1>15 DEF LiesAt
  <2>6. got \in Seq(ServerFrames) /\ Opens(got, sent)
    BY DEF InOrder
  <2>7. out' = o
    BY <1>2, <1>5, <1>9
  <2> QED BY <2>2, <2>3, <2>5, <2>6, <2>7, <1>2, <1>4, <1>8, <1>9, DoneJoins
<1>16. CASE f.payload.size # 0
  <2>1. Goto(g, "payload") /\ current' = current /\ sent' = sent
    BY <1>1, <1>16 DEF WriteHeader
  <2>2. pc'[g] = "payload" /\ \A h \in Writers \ {g} : pc'[h] # "payload"
    BY <2>1, <1>3, <1>10 DEF Goto, TypeOK
  <2>3. HalfOf(o, last, f)
    BY <1>12, <1>14, <1>16 DEF HalfOf, HasPayload
  <2>4. /\ out' = o /\ sent' = sent /\ got' = got /\ current'[g] = f
    BY <2>1, <1>1, <1>2, <1>5, <1>9
  <2>5. last = place[Len(sent) + 1] /\ Laid(o, sent, Len(got), place)
    BY <1>8, <1>9
  <2>6. Streams(place)'
    BY <2>2, <2>3, <2>4, <2>5, <1>4 DEF Streams
  <2> QED BY <2>4, <2>6 DEF InOrder
<1> QED BY <1>15, <1>16

(* A payload ends the frame that its goroutine began.                      *)
LEMMA InOrderPayload ==
  ASSUME Typed, InOrder, NEW g \in Writers, WritePayload(g)
  PROVE  InOrder'
<1>1. PICK f : f = current[g]
  OBVIOUS
<1>2. /\ pc[g] = "payload" /\ sock = "open" /\ sock' = sock /\ out' = Append(out, PayloadPiece(f)) /\ got' = got
      /\ Done(g)
  BY <1>1 DEF WritePayload, PayloadPiece
<1>3. TypeOK
  BY DEF Typed
<1>4. f \in ServerFrames
  BY <1>1, <1>2, <1>3 DEF Typed, TypeOK
<1>5. PICK e \in Pieces : e = PayloadPiece(f)
  BY <1>4, PieceFacts
<1>6. PICK place : Ready(place, e)
  BY NextPiece
<1>7. PICK last \in Nat \ {0} : last = place[Len(sent) + 1]
  BY <1>6 DEF Ready
<1>8. /\ Streams(place) /\ last = place[Len(sent) + 1] /\ Laid(out, sent, Len(got), place)
       /\ Append(out, e) \in Seq(Pieces) /\ Laid(Append(out, e), sent, Len(got), place)
       /\ Len(Append(out, e)) = Len(out) + 1 /\ Len(out) \in Nat
       /\ Append(out, e)[Len(out) + 1] = e
       /\ \A i \in 1 .. Len(out) : Append(out, e)[i] = out[i]
  BY <1>6, <1>7 DEF Ready
<1>9. PICK o \in Seq(Pieces) : o = Append(out, e)
  BY <1>8
<1>10. HalfOf(out, last, f)
  BY <1>1, <1>2, <1>8 DEF Streams
<1>11. Len(out) = last /\ f.payload.size # 0 /\ f.payload.size < 65536 /\ out[last] = HeaderPiece(f)
  BY <1>10 DEF HalfOf, HasPayload
<1>12. Len(o) = last + 1 /\ o[last] = HeaderPiece(f) /\ o[last + 1] = PayloadPiece(f)
  BY <1>5, <1>8, <1>9, <1>11
<1>13. Width(f) = 2
  BY <1>11 DEF Width
<1>14. LiesAt(o, f, last, Len(o) + 1)
  BY <1>11, <1>12, <1>13 DEF LiesAt
<1>15. sent' = Append(sent, f)
  BY <1>1, <1>2 DEF Done
<1>16. \A h \in Writers : pc'[h] # "payload"
  <2>1. \A h \in Writers \ {g} : pc[h] # "payload"
    BY <1>2, <1>3 DEF TypeOK
  <2> QED BY <2>1, <1>2, <1>3 DEF Done, Unlock, Goto, TypeOK
<1>17. got \in Seq(ServerFrames) /\ Opens(got, sent)
  BY DEF InOrder
<1>18. out' = o
  BY <1>2, <1>5, <1>9
<1> QED BY <1>2, <1>4, <1>8, <1>9, <1>14, <1>15, <1>16, <1>17, <1>18, DoneJoins

(* The peer takes the first frame off the stream.                          *)
LEMMA FrameTaken ==
  ASSUME Typed, InOrder, NEW r \in Nat, r = Len(got), r + 1 <= Len(sent),
         NEW place, Streams(place), NEW f \in ServerFrames, f = sent[r + 1],
         NEW d \in {1, 2}, d = Width(f),
         NEW p \in Seq(Pieces), Cut(p, out, d),
         out' = p, sent' = sent, got' = Append(got, f),
         sock' = sock, pc' = pc, current' = current
  PROVE  InOrder'
<1>1. out \in Seq(Pieces) /\ sent \in Seq(ServerFrames) /\ got \in Seq(ServerFrames) /\ Opens(got, sent)
  BY DEF Typed, InOrder
<1>2. Len(p) = Len(out) - d /\ \A i \in 1 .. Len(out) - d : p[i] = out[i + d]
  BY DEF Cut
<1>3. Laid(out, sent, r, place)
  BY DEF Streams
<1>4. PICK n \in Nat : n = Len(sent)
  BY <1>1, LenProperties
<1>5. place[r + 2] = 1 + d
  <2>1. r + 1 \in r + 1 .. n /\ (r + 1) + 1 = r + 2
    BY <1>4
  <2>2. LiesAt(out, f, place[r + 1], place[r + 2])
    BY <2>1, <1>3, <1>4 DEF Laid
  <2>3. place[r + 1] = 1
    BY <1>3 DEF Laid
  <2> QED BY <2>2, <2>3 DEF LiesAt
<1>6. n + 1 = Len(sent) + 1 /\ r + 1 <= Len(sent)
  BY <1>4
<1>7. PICK o \in Seq(Pieces), s \in Seq(ServerFrames) : o = out /\ s = sent
  BY <1>1
<1>8. /\ r + 1 <= Len(s) /\ Laid(o, s, r, place) /\ Cut(p, o, d)
  BY <1>3, <1>6, <1>7
<1>9. LaidRest(p, s, r, place, d)
  BY <1>5, <1>7, <1>8, LaidShorter
<1>10. /\ place[Len(sent) + 1] \in Nat /\ place[Len(sent) + 1] >= 1 + d
      /\ \E rest : /\ Laid(p, sent, r + 1, rest)
                   /\ rest[Len(sent) + 1] = place[Len(sent) + 1] - d
  BY <1>7, <1>9 DEF LaidRest
<1>11. PICK last \in Nat : last = place[n + 1] /\ last >= 1 + d
  BY <1>10, <1>6
<1>12. PICK rest : Laid(p, sent, r + 1, rest) /\ rest[n + 1] = last - d
  BY <1>10, <1>11, <1>6
<1>13. PICK got2 \in Seq(ServerFrames) : got2 = Append(got, f)
  BY <1>1, LongerSeq
<1>14. Len(got2) = r + 1 /\ got2[r + 1] = f /\ \A i \in 1 .. r : got2[i] = got[i]
  BY <1>1, <1>13, LongerSeq
<1>15. Opens(got2, sent)
  <2>1. \A i \in 1 .. r : got[i] = sent[i]
    BY <1>1 DEF Opens
  <2>2. \A i \in 1 .. r + 1 : got2[i] = sent[i]
    <3> TAKE i \in 1 .. r + 1
    <3>1. CASE i = r + 1
      BY <3>1, <1>14
    <3>2. CASE i # r + 1
      <4>1. i \in 1 .. r
        BY <3>2
      <4> QED BY <4>1, <2>1, <1>14
    <3> QED BY <3>1, <3>2
  <2> QED BY <2>2, <1>14 DEF Opens
<1>16. Ended(out, last) => Ended(p, last - d)
  <2>1. PICK l \in Nat : l = Len(out)
    BY <1>1, LenProperties
  <2> QED BY <2>1, <1>11, <1>2 DEF Ended
<1>17. \A h : HalfOf(out, last, h) => HalfOf(p, last - d, h)
  <2> SUFFICES ASSUME NEW h, HalfOf(out, last, h) PROVE HalfOf(p, last - d, h)
    OBVIOUS
  <2>1. Len(out) = last /\ HasPayload(h) /\ out[last] = HeaderPiece(h)
    BY DEF HalfOf
  <2>2. last - d \in 1 .. last - d /\ (last - d) + d = last
    <3>1. last \in Nat /\ last >= 1 + d /\ d \in {1, 2}
      BY <1>11
    <3>2. CASE d = 1
      BY ONLY <3>1, <3>2
    <3>3. CASE d = 2
      BY ONLY <3>1, <3>3
    <3> QED BY <3>1, <3>2, <3>3
  <2>3. p[last - d] = out[last]
    BY <2>1, <2>2, <1>2
  <2> QED BY <2>1, <2>3, <1>2 DEF HalfOf
<1>18. /\ Ended(out, last) \/ \E h \in ServerFrames : HalfOf(out, last, h)
       /\ sock = "open" => /\ (\A g \in Writers : pc[g] # "payload") => Ended(out, last)
                           /\ \A g \in Writers : pc[g] = "payload" => HalfOf(out, last, current[g])
  BY <1>4, <1>11 DEF Streams
<1>19. /\ Ended(p, last - d) \/ \E h \in ServerFrames : HalfOf(p, last - d, h)
       /\ sock = "open" => /\ (\A g \in Writers : pc[g] # "payload") => Ended(p, last - d)
                           /\ \A g \in Writers : pc[g] = "payload" => HalfOf(p, last - d, current[g])
  BY <1>16, <1>17, <1>18
<1>20. got' = got2 /\ Len(got') = r + 1 /\ sent' = sent /\ rest[Len(sent') + 1] = last - d
  BY <1>4, <1>12, <1>13, <1>14
<1>21. Streams(rest)'
  BY <1>12, <1>19, <1>20 DEF Streams
<1> QED BY <1>13, <1>15, <1>20, <1>21 DEF InOrder

(* So it receives the next frame that was done, and waits for one that is  *)
(* not.                                                                    *)
LEMMA InOrderReceive ==
  ASSUME Typed, InOrder, Receive
  PROVE  InOrder'
<1>1. out \in Seq(Pieces) /\ sent \in Seq(ServerFrames) /\ got \in Seq(ServerFrames) /\ Opens(got, sent)
  BY DEF Typed, InOrder
<1>2. PICK place : Streams(place)
  BY DEF InOrder
<1>3. PICK r \in Nat, n \in Nat : r = Len(got) /\ n = Len(sent) /\ r <= n
  BY <1>1, LenProperties DEF Opens
<1>4. Laid(out, sent, r, place) /\ place[r + 1] = 1
  BY <1>2, <1>3 DEF Streams, Laid
<1>5. sent' = sent /\ sock' = sock /\ pc' = pc /\ current' = current /\ out # <<>>
  BY DEF Receive, goroutines
<1>6. /\ Tail(out) \in Seq(Pieces) /\ Len(Tail(out)) = Len(out) - 1 /\ Len(out) \in Nat \ {0}
      /\ \A i \in 1 .. Len(out) - 1 : Tail(out)[i] = out[i + 1]
  BY <1>1, <1>5, ShorterSeq
<1>7. ASSUME NEW f \in ServerFrames, f.payload.size < 65536, out[1] = HeaderPiece(f)
      PROVE  /\ IsHeader(out[1]) /\ LengthOf(out[1].header) = f.payload.size
             /\ out[1].header[1] - 128 = f.op
  <2>1. IsHeader(out[1])
    BY <1>7, PieceFacts
  <2>2. PICK m \in Nat : m = f.payload.size
    BY FrameFacts
  <2>3. PICK op \in {Binary, PongOp} : op = f.op
    BY FrameFacts
  <2>4. PICK h : h = Header(op, m)
    OBVIOUS
  <2>5. h[1] - 128 = op /\ LengthOf(h) = m
    BY <1>7, <2>2, <2>4, ServerHeader
  <2>6. out[1].header = h
    BY <1>7, <2>2, <2>3, <2>4 DEF HeaderPiece
  <2> QED BY <2>1, <2>2, <2>3, <2>5, <2>6
<1>8. CASE r = n
  <2>1. \A f \in ServerFrames : ~HalfOf(out, 1, f)
    <3> SUFFICES ASSUME NEW f \in ServerFrames, HalfOf(out, 1, f) PROVE FALSE
      OBVIOUS
    <3>1. Len(out) = 1 /\ f.payload.size # 0 /\ f.payload.size < 65536 /\ out[1] = HeaderPiece(f)
      BY DEF HalfOf, HasPayload
    <3>2. IsHeader(out[1]) /\ LengthOf(out[1].header) # 0
      BY <3>1, <1>7
    <3>3. Len(out) > 1
      BY <3>2 DEF Receive
    <3> QED BY <3>1, <3>3
  <2>2. ~Ended(out, 1)
    BY <1>6 DEF Ended
  <2> QED BY <2>1, <2>2, <1>2, <1>3, <1>4, <1>8 DEF Streams
<1>9. CASE r # n
  <2>1. r + 1 \in 1 .. n /\ r + 1 \in r + 1 .. n /\ (r + 1) + 1 = r + 2 /\ r + 1 <= Len(sent)
    BY <1>3, <1>9
  <2>2. PICK f \in ServerFrames : f = sent[r + 1]
    BY <2>1, <1>1, <1>3, ElementOfSeq
  <2>3. PICK next : next = place[r + 2]
    OBVIOUS
  <2>4. LiesAt(out, f, 1, next)
    BY <2>1, <2>2, <2>3, <1>3, <1>4 DEF Laid
  <2>5. PICK d \in {1, 2} : d = Width(f) /\ (d = 1 <=> f.payload.size = 0)
    BY Widths
  <2>6. /\ 1 + d = next /\ next <= Len(out) + 1 /\ f.payload.size < 65536
        /\ out[1] = HeaderPiece(f) /\ (d = 2 => out[2] = PayloadPiece(f))
    BY <2>4, <2>5 DEF LiesAt
  <2>7. /\ IsHeader(out[1]) /\ LengthOf(out[1].header) = f.payload.size
        /\ out[1].header[1] - 128 = f.op
    BY <2>6, <1>7
  <2>8. CASE d = 1
    <3>1. f.payload.size = 0
      BY <2>5, <2>8
    <3>2. got' = Append(got, Frame(f.op, Data(0))) /\ out' = Tail(out)
      BY <2>7, <3>1 DEF Receive
    <3>3. f = Frame(f.op, Data(0))
      BY <3>1, FrameFacts
    <3>4. got' = Append(got, f)
      BY <3>2, <3>3
    <3>5. PICK p \in Seq(Pieces) : p = Tail(out) /\ Len(p) = Len(out) - d
                                   /\ \A i \in 1 .. Len(out) - d : p[i] = out[i + d]
      BY <1>6, <2>8
    <3>6. out' = p
      BY <3>2, <3>5
    <3>7. Cut(p, out, d)
      BY <3>5 DEF Cut
    <3> QED BY <1>2, <1>3, <1>5, <2>1, <2>2, <2>5, <3>4, <3>5, <3>6, <3>7, FrameTaken
  <2>9. CASE d = 2
    <3>1. f.payload.size # 0 /\ out[2] = PayloadPiece(f) /\ Len(out) > 1
      BY <1>6, <2>5, <2>6, <2>9
    <3>2. ~IsHeader(out[2]) /\ out[2].payload = f.payload
      BY <3>1, PieceFacts DEF PayloadPiece
    <3>3. got' = Append(got, Frame(f.op, f.payload)) /\ out' = Tail(Tail(out))
      BY <2>7, <3>1, <3>2 DEF Receive
    <3>4. f = Frame(f.op, f.payload)
      BY FrameFacts
    <3>5. got' = Append(got, f)
      BY <3>3, <3>4
    <3>6. PICK t \in Seq(Pieces) : t = Tail(out) /\ Len(t) = Len(out) - 1
                                   /\ \A i \in 1 .. Len(out) - 1 : t[i] = out[i + 1]
      BY <1>6
    <3>7. Len(t) # 0
      BY <3>1, <3>6, <1>6
    <3>8. t # <<>>
      BY ONLY <3>7
    <3>9. /\ Tail(t) \in Seq(Pieces) /\ Len(Tail(t)) = Len(t) - 1
          /\ \A i \in 1 .. Len(t) - 1 : Tail(t)[i] = t[i + 1]
      BY <3>6, <3>8, ShorterSeq
    <3>10. PICK p \in Seq(Pieces) : p = Tail(t)
      BY <3>9
    <3>11. Len(p) = Len(out) - d /\ \A i \in 1 .. Len(out) - d : p[i] = out[i + d]
      <4>1. PICK l \in Nat : l = Len(out)
        BY <1>6
      <4>2. Len(p) = l - 2
        BY <3>6, <3>9, <3>10, <4>1
      <4>3. \A i \in 1 .. l - 2 : p[i] = out[i + 2]
        <5> TAKE i \in 1 .. l - 2
        <5>1. i + 1 \in 1 .. l - 1 /\ i \in 1 .. (l - 1) - 1 /\ (i + 1) + 1 = i + 2
          BY <4>1
        <5>2. p[i] = t[i + 1]
          BY <5>1, <3>6, <3>9, <3>10, <4>1
        <5>3. t[i + 1] = out[(i + 1) + 1]
          BY <5>1, <3>6, <4>1
        <5> QED BY <5>1, <5>2, <5>3
      <4> QED BY <2>9, <4>1, <4>2, <4>3
    <3>12. out' = p
      BY <3>3, <3>6, <3>10
    <3>13. Cut(p, out, d)
      BY <3>11 DEF Cut
    <3> QED BY <1>2, <1>3, <1>5, <2>1, <2>2, <2>5, <3>5, <3>12, <3>13, FrameTaken
  <2> QED BY <2>8, <2>9
<1> QED BY <1>8, <1>9

(* No step puts the frames out of order.                                   *)
LEMMA InOrderStep ==
  ASSUME Typed, InOrder, [Next]_vars
  PROVE  InOrder'
<1>1. TypeOK /\ current \in [Writers -> ServerFrames \cup {NoFrame}]
  BY DEF Typed
<1>2. ASSUME NEW g \in Writers, pc[g] # "payload",
             NEW label \in {"idle", "lock", "header", "done"}, NEW frame,
             Goto(g, label), current' = [current EXCEPT ![g] = frame],
             out' = out, sent' = sent, got' = got, sock' = "open" => sock = "open"
      PROVE  InOrder'
  <2>1. pc'[g] = label /\ \A h \in Writers \ {g} : pc'[h] = pc[h]
    BY <1>1, <1>2 DEF Goto, TypeOK
  <2>2. \A h \in Writers \ {g} : current'[h] = current[h]
    BY <1>1, <1>2
  <2>3. \A h \in Writers : /\ pc'[h] = "payload" <=> pc[h] = "payload"
                           /\ pc[h] = "payload" => current'[h] = current[h]
    BY <2>1, <2>2, <1>2
  <2> QED BY <2>3, <1>2, StreamsKept
<1>3. \A g \in Writers : current = [current EXCEPT ![g] = current[g]]
  BY <1>1
<1>4. "reader" \in Writers /\ "writer" \in Writers
  BY DEF Writers
<1>5. CASE \E f \in Answers : Send(f)
  <2>1. PICK f \in Answers : Send(f)
    BY <1>5
  <2>2. PICK frame : Begin("writer", frame)
    BY <2>1 DEF Send
  <2>3. pc["writer"] # "payload" /\ out' = out /\ sent' = sent /\ got' = got /\ sock' = sock
    BY <2>1 DEF Send, history
  <2>4. Goto("writer", "lock") /\ current' = [current EXCEPT !["writer"] = frame]
    BY <2>2 DEF Begin
  <2> QED BY <2>3, <2>4, <1>2, <1>4
<1>6. ASSUME NEW g \in Writers, Writing(g) PROVE InOrder'
  <2>1. CASE Lock(g)
    <3>1. pc[g] # "payload" /\ Goto(g, "header") /\ current' = current /\ out' = out /\ sent' = sent
          /\ got' = got /\ sock' = sock
      BY <2>1 DEF Lock, history
    <3> QED BY <3>1, <1>2, <1>3
  <2>2. CASE WriteFails(g) /\ sock = "open"
    <3>1. pc[g] # "payload" /\ current' = [current EXCEPT ![g] = NoFrame] /\ out' = out /\ sent' = sent
          /\ got' = got /\ sock' = sock
      BY <2>2 DEF WriteFails, Unlock, history
    <3>2. \E label \in {"idle", "done"} : Goto(g, label)
      BY <2>2 DEF WriteFails, Unlock
    <3> QED BY <3>1, <3>2, <1>2
  <2>3. CASE WriteFails(g) /\ sock # "open"
    <3>1. out' = out /\ sent' = sent /\ got' = got /\ sock' = sock
      BY <2>3 DEF WriteFails, history
    <3> QED BY <3>1, <2>3, StreamsKept
  <2> QED BY <1>6, <2>1, <2>2, <2>3, InOrderHeader, InOrderPayload DEF Writing
<1>7. CASE ReadPing
  <2>1. PICK frame : Begin("reader", frame)
    BY <1>7 DEF ReadPing
  <2>2. pc["reader"] # "payload" /\ out' = out /\ sent' = sent /\ got' = got /\ sock' = sock
    BY <1>7 DEF ReadPing, ReadFrame, Hears
  <2>3. Goto("reader", "lock") /\ current' = [current EXCEPT !["reader"] = frame]
    BY <2>1 DEF Begin
  <2> QED BY <2>2, <2>3, <1>2, <1>4
<1>8. CASE ReadClose \/ ReadFails \/ ReadEnds
  <2>1. sock' = "closed" /\ out' = out /\ sent' = sent /\ got' = got
    BY <1>8 DEF ReadClose, ReadFails, ReadEnds, End, history
  <2> QED BY <2>1, StreamsKept
<1>9. CASE ReadMessage \/ ReadPong \/ Speaking \/ Break \/ UNCHANGED vars
  <2>1. /\ pc' = pc /\ current' = current /\ out' = out /\ sent' = sent /\ got' = got
        /\ sock' = sock \/ sock' = "down"
    <3>1. CASE Speaking
      BY <3>1, AllSaySo DEF SaysSo, goroutines
    <3> QED BY <1>9, <3>1 DEF ReadMessage, ReadPong, Break, vars, goroutines, history
  <2> QED BY <2>1, StreamsKept
<1>10. CASE Receive
  BY <1>10, InOrderReceive
<1> QED BY <1>5, <1>6, <1>7, <1>8, <1>9, <1>10 DEF Next, Reading, Peer, Speaking

-----------------------------------------------------------------------------
(* The invariant holds, and what follows from it *)

(* The invariant holds at the start.                                       *)
LEMMA InitInv == Init => WireInv
<1>1. SUFFICES ASSUME Init PROVE WireInv
  OBVIOUS
<1>2. Typed
  BY <1>1, TypedInit
<1>3. /\ sock = "open" /\ out = <<>> /\ sent = <<>> /\ got = <<>> /\ said = <<>> /\ heard = <<>>
      /\ in = <<>> /\ due = <<>> /\ "reader" \in Writers
      /\ \A g \in Writers : pc[g] = "idle" /\ written[g] = <<>>
  BY <1>1 DEF Init, Writers
<1>4. PayloadsLeft
  BY <1>3 DEF PayloadsLeft
<1>5. AllHeard
  BY <1>3 DEF AllHeard
<1>6. PongsDue
  <2>1. pc["reader"] = "idle" /\ written["reader"] = <<>>
    BY <1>3
  <2> QED BY <2>1, <1>3 DEF PongsDue, Opens
<1>7. InOrder
  <2>1. PICK place : place = [k \in {1} |-> 1]
    OBVIOUS
  <2>2. Len(sent) = 0 /\ Len(got) = 0 /\ Len(out) = 0
    BY <1>3
  <2>3. 0 + 1 .. 0 + 1 = {1} /\ 0 + 1 .. 0 = {}
    OBVIOUS
  <2>4. place \in [{1} -> Nat \ {0}] /\ place[1] = 1
    BY <2>1
  <2>5. Laid(out, sent, Len(got), place)
    BY <2>2, <2>3, <2>4 DEF Laid
  <2>6. place[Len(sent) + 1] = 1 /\ Ended(out, 1)
    BY <2>2, <2>4 DEF Ended
  <2>7. \A g \in Writers : pc[g] # "payload"
    BY <1>3
  <2>8. Streams(place)
    BY <2>5, <2>6, <2>7 DEF Streams
  <2>9. got \in Seq(ServerFrames) /\ Opens(got, sent)
    BY <1>3, <2>2 DEF Opens
  <2> QED BY <2>8, <2>9 DEF InOrder
<1> QED BY <1>2, <1>4, <1>5, <1>6, <1>7 DEF WireInv

(* WireInv holds always: the frames that were done and not received lie one *)
(* after the other in the stream, what was said and not heard is in the     *)
(* connection, and the reader owes exactly the pong it is about to write.   *)
THEOREM WireConsistent == Spec => []WireInv
<1>1. Init => WireInv
  BY InitInv
<1>2. WireInv /\ [Next]_vars => WireInv'
  BY TypedStep, PayloadsLeftStep, InOrderStep, AllHeardStep, PongsDueStep DEF WireInv
<1> QED BY <1>1, <1>2, PTL DEF Spec

(* One sequence begins another if it is a prefix of it.                    *)
LEMMA OpensIsPrefix ==
  ASSUME NEW S, NEW s \in Seq(S), NEW t \in Seq(S), Opens(s, t)
  PROVE  IsPrefix(s, t)
<1>1. PICK n \in Nat, m \in Nat : n = Len(s) /\ m = Len(t) /\ n <= m
  BY LenProperties DEF Opens
<1>2. \A i \in 1 .. n : s[i] = t[i]
  BY <1>1 DEF Opens
<1>3. SubSeq(s, 1, n) = [i \in 1 .. n |-> s[i]] /\ SubSeq(t, 1, n) = [i \in 1 .. n |-> t[i]]
  BY <1>1
<1>4. SubSeq(s, 1, n) = SubSeq(t, 1, n)
  BY <1>2, <1>3
<1> QED BY <1>1, <1>4 DEF IsPrefix

(* TypeOK: what a connection holds is what the declarations say, the mutex  *)
(* is with the goroutine that writes, and only with it (main.go, writeMu). *)
THEOREM TypeOKCorrect == Spec => []TypeOK
<1>1. WireInv => TypeOK
  BY DEF WireInv, Typed
<1> QED BY <1>1, WireConsistent, PTL

(* FramesWhole: whatever turns the writer and the reader take, and whatever *)
(* form the length of a frame has, the peer receives the frames that were   *)
(* done, whole and in order (wsframe.go, Write; main.go, writeMu).          *)
THEOREM FramesWholeCorrect == Spec => []FramesWhole
<1>1. WireInv => FramesWhole
  <2>1. SUFFICES ASSUME WireInv PROVE IsPrefix(got, sent)
    BY DEF FramesWhole
  <2>2. got \in Seq(ServerFrames) /\ sent \in Seq(ServerFrames) /\ Opens(got, sent)
    BY <2>1 DEF WireInv, InOrder, Typed
  <2> QED BY <2>2, OpensIsPrefix
<1> QED BY <1>1, WireConsistent, PTL

(* ClientReads: what the client decodes of what it receives is a message    *)
(* the server encoded, and the server's own decoder agrees (protocol.go,    *)
(* protocol.ts).                                                           *)
THEOREM ClientReadsCorrect == Spec => []ClientReads
<1>1. WireInv => ClientReads
  <2>1. SUFFICES ASSUME WireInv PROVE ClientReads
    OBVIOUS
  <2>2. got \in Seq(ServerFrames)
    BY <2>1 DEF WireInv, InOrder
  <2>3. ASSUME NEW i \in DOMAIN got, got[i].op = Binary
        PROVE  /\ decodeServerFrame(got[i].payload.message) \in Answers
               /\ EncodeFrame(decodeServerFrame(got[i].payload.message)) = got[i].payload.message
               /\ DecodeFrame(got[i].payload.message) = decodeServerFrame(got[i].payload.message)
    <3>1. got[i] \in ServerFrames
      BY <2>2, <2>3
    <3>2. PICK a \in Answers : got[i].payload = Payload(EncodeFrame(a))
      BY <3>1, <2>3, FrameFacts
    <3>3. got[i].payload.message = EncodeFrame(a)
      BY <3>2 DEF Payload
    <3>4. decodeServerFrame(EncodeFrame(a)) = a /\ DecodeFrame(EncodeFrame(a)) = a
      BY AnswersReadBack
    <3> QED BY <3>3, <3>4
  <2> QED BY <2>3 DEF ClientReads
<1> QED BY <1>1, WireConsistent, PTL

(* ServerHears: the server hears what the client said, in order; a message  *)
(* of the wrong length is dropped and leaves those after it alone           *)
(* (wsframe.go, Read; main.go, the loop of serveWS).                       *)
THEOREM ServerHearsCorrect == Spec => []ServerHears
<1>1. WireInv => ServerHears
  <2>1. SUFFICES ASSUME WireInv PROVE IsPrefix(heard, said)
    BY DEF ServerHears
  <2>2. heard \in Seq(Sounds) /\ said \in Seq(Sounds) /\ in \in Seq(Spoken) /\ AllHeard
    BY <2>1 DEF WireInv, Typed
  <2>3. PICK n \in Nat, m \in Nat : n = Len(heard) /\ m = Len(in)
    BY <2>2, LenProperties
  <2>4. Len(said) = n + m
    BY <2>2, <2>3 DEF AllHeard
  <2>5. Opens(heard, said)
    BY <2>2, <2>3, <2>4 DEF AllHeard, Opens
  <2> QED BY <2>2, <2>5, OpensIsPrefix
<1> QED BY <1>1, WireConsistent, PTL

(* PingsAnswered: every ping has its pong, in order and of the same size,   *)
(* but for one of 64 KiB, and none is owed while the reader waits           *)
(* (main.go, the reader's answer to a ping).                               *)
THEOREM PingsAnsweredCorrect == Spec => []PingsAnswered
<1>1. WireInv => PingsAnswered
  <2>1. SUFFICES ASSUME WireInv PROVE PingsAnswered
    OBVIOUS
  <2>2. PongsDue /\ due \in Seq(Payloads) /\ written["reader"] \in Seq(Payloads)
    BY <2>1 DEF WireInv, Typed, Writers
  <2>3. Opens(written["reader"], due) /\ (sock = "open" /\ pc["reader"] = "idle" => written["reader"] = due)
    BY <2>2 DEF PongsDue
  <2>4. IsPrefix(written["reader"], due)
    BY <2>2, <2>3, OpensIsPrefix
  <2> QED BY <2>3, <2>4 DEF PingsAnswered
<1> QED BY <1>1, WireConsistent, PTL
=============================================================================
