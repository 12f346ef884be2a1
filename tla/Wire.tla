---------------------------------- MODULE Wire ----------------------------------
(***************************************************************************)
(* One websocket connection: the frames of wsframe.go, the writer and the  *)
(* reader goroutine of serveWS (main.go), which both write to it, and the  *)
(* messages of Frames that they carry.                                     *)
(*                                                                         *)
(* What the server writes is a sequence of headers and of the payloads that *)
(* should follow them.  What the peer writes arrives frame by frame.  A     *)
(* payload is a message or the data of a ping, of which only the size       *)
(* matters; masks are not spelled out.                                     *)
(***************************************************************************)
EXTENDS Frames

CONSTANTS
  Answers,     \* messages the server sends
  Messages,    \* messages the client sends
  PingSizes,   \* sizes of the pings the peer sends
  MaxPayload,  \* 64 KiB
  MaxWrites,   \* bound: messages of the server
  MaxSays      \* bound: frames of the peer

Byte         == 0 .. 255
Field(width) == [1 .. width -> Byte]

\* a message whose fields fill their places
Plain(f, layouts) ==
  /\ f.kind \in DOMAIN layouts
  /\ f = [kind |-> f.kind, data |-> [x \in DOMAIN layouts[f.kind] |-> f.data[x]]]
  /\ \A x \in DOMAIN layouts[f.kind] : f.data[x] \in Field(layouts[f.kind][x][2])

\* those of variable length, whose lengths fit in two bytes
DeltaFrame(f) ==
  /\ f.kind = "Delta"
  /\ f = [kind |-> "Delta", data |-> [entries |-> f.data.entries]]
  /\ f.data.entries \in Seq([x : Field(2), y : Field(2), cell : Field(1)])
  /\ Len(f.data.entries) < 65536

ErrorFrame(f) ==
  /\ f.kind = "Error"
  /\ f = [kind |-> "Error", data |-> [code |-> f.data.code, msg |-> f.data.msg]]
  /\ f.data.code \in Field(1) /\ f.data.msg \in Seq(Byte)
  /\ Len(f.data.msg) < 65536

FromServer == {"Welcome", "Snapshot", "PlaceAck", "Score", "Pong"}

ASSUME WireAssumption ==
  /\ ChunkPackedBytes \in Nat \ {0} /\ MaxPayload = 65536
  /\ \A f \in Answers :
       DeltaFrame(f) \/ ErrorFrame(f) \/ (f.kind \in FromServer /\ Plain(f, PutFields))
  /\ \A f \in Messages : Plain(f, ClientPut)
  /\ \A n \in PingSizes : n \in Nat /\ n < 256 * 65536
  /\ MaxWrites \in Nat /\ MaxSays \in Nat

Binary == 2
Shut   == 8
PingOp == 9
PongOp == 10

Data(n)    == [size |-> n, message |-> <<>>]
Payload(m) == [size |-> Size(m), message |-> m]

VARIABLES
  out,      \* what the server has written and the peer not read
  sock,     \* the connection: open, down (the network) or closed (by serveWS)
  holder,   \* the goroutine that has writeMu
  pc,       \* what each of the two goroutines does next
  current,  \* the frame it writes
  in,       \* the frames the peer has sent and the server not read
  written,  \* history: the payloads each goroutine wrote
  sent,     \* history: the frames both wrote, in the order they were done
  got,      \* history: what the peer received
  said,     \* history: the frames the peer sent
  heard,    \* history: what the server made of them
  due       \* history: the pongs that the pings it read ask for

goroutines == <<holder, pc, current>>
history    == <<written, sent, got, said, heard, due>>
vars       == <<out, sock, goroutines, in, history>>

Writers == {"writer", "reader"}
Nobody  == "nobody"
Frame(op, payload) == [op |-> op, payload |-> payload]
Event(kind)        == [kind |-> kind]
Ping(n)            == [kind |-> "ping", size |-> n]
NoFrame            == Frame(0, Data(0))

Init ==
  /\ out = <<>> /\ sock = "open"
  /\ holder = Nobody
  /\ pc = [g \in Writers |-> "idle"]
  /\ current = [g \in Writers |-> NoFrame]
  /\ in = <<>>
  /\ written = [g \in Writers |-> <<>>]
  /\ sent = <<>> /\ got = <<>> /\ said = <<>> /\ heard = <<>> /\ due = <<>>

Goto(g, label) == pc' = [pc EXCEPT ![g] = label]

-----------------------------------------------------------------------------
(* wsframe.Write under writeMu: header, then payload *)

Short(n)      == n < 126

Header(op, n) ==
  IF Short(n) THEN <<128 + op, n>> ELSE <<128 + op, 126, n \div 256, n % 256>>

LargerThan65534(n) == n >= 65535          \* mutant: off by one
TooLarge(n)        == n >= 65536

Begin(g, frame) ==
  /\ current' = [current EXCEPT ![g] = frame]
  /\ Goto(g, "lock")

AnyTime(g) == TRUE                        \* mutant: no mutex
Free(g)    == holder = Nobody

Lock(g) ==
  /\ pc[g] = "lock" /\ Free(g)
  /\ holder' = g
  /\ Goto(g, "header")
  /\ UNCHANGED <<out, sock, current, in, history>>

Unlock(g, label) ==
  /\ holder' = Nobody
  /\ current' = [current EXCEPT ![g] = NoFrame]
  /\ Goto(g, label)

(* A frame of 64 KiB or more is refused; a connection that is down fails.   *)
(* The writer stops at an error, the reader does not care.                 *)
WriteFails(g) ==
  /\ pc[g] \in {"header", "payload"}
  /\ \/ sock # "open"
     \/ pc[g] = "header" /\ TooLarge(current[g].payload.size)
  /\ Unlock(g, IF g = "writer" THEN "done" ELSE "idle")
  /\ UNCHANGED <<out, sock, in, history>>

Done(g) ==
  /\ Unlock(g, "idle")
  /\ written' = [written EXCEPT ![g] = Append(@, current[g].payload)]
  /\ sent' = Append(sent, current[g])

WriteHeader(g) ==
  LET n == current[g].payload.size IN
  /\ pc[g] = "header" /\ sock = "open" /\ ~TooLarge(n)
  /\ out' = Append(out, [header |-> Header(current[g].op, n)])
  /\ IF n = 0 THEN Done(g)
     ELSE Goto(g, "payload") /\ UNCHANGED <<holder, current, written, sent>>
  /\ UNCHANGED <<sock, in, got, said, heard, due>>

WritePayload(g) ==
  /\ pc[g] = "payload" /\ sock = "open"
  /\ out' = Append(out, [payload |-> current[g].payload])
  /\ Done(g)
  /\ UNCHANGED <<sock, in, got, said, heard, due>>

(* The writer takes a message from Client.Outbound.                        *)
Send(f) ==
  /\ pc["writer"] = "idle" /\ Len(written["writer"]) < MaxWrites
  /\ Begin("writer", Frame(Binary, Payload(EncodeFrame(f))))
  /\ UNCHANGED <<out, sock, holder, in, history>>

-----------------------------------------------------------------------------
(* The reader: wsframe.Read, and the loop of serveWS *)

\* the payload length, of the 7-bit, the 16-bit and the 64-bit form
LengthIn(h) ==
  IF h[2] % 128 < 126 THEN h[2] % 128
  ELSE IF h[2] % 128 = 126 THEN h[3] * 256 + h[4]
  ELSE h[8] * 65536 + h[9] * 256 + h[10]         \* those in use are less than 2^24

Rejects(h) ==
  \/ (h[1] \div 16) % 8 # 0 \/ h[1] < 128 \/ h[2] < 128
  \/ LengthIn(h) > MaxPayload

Hears == pc["reader"] = "idle" /\ sock # "closed" /\ in # <<>>
Coming == Head(in)
OpIn(h) == h[1] % 16

Hear(what) ==
  /\ in' = Tail(in)
  /\ heard' = Append(heard, what)

End ==
  /\ sock' = "closed"
  /\ Goto("reader", "done")

ReadFrame(op) == Hears /\ ~Rejects(Coming.header) /\ OpIn(Coming.header) = op

ReadMessage ==
  /\ ReadFrame(Binary)
  /\ Hear(DecodeFrame(Coming.payload.message))
  /\ UNCHANGED <<out, sock, goroutines, written, sent, got, said, due>>

ReadPing ==
  /\ ReadFrame(PingOp)
  /\ Hear(Ping(LengthIn(Coming.header)))
  /\ Begin("reader", Frame(PongOp, Data(LengthIn(Coming.header))))
  /\ due' = IF LengthIn(Coming.header) < 65536
            THEN Append(due, Data(LengthIn(Coming.header))) ELSE due
  /\ UNCHANGED <<out, sock, holder, written, sent, got, said>>

ReadPong ==
  /\ ReadFrame(PongOp)
  /\ Hear(Event("pong"))
  /\ UNCHANGED <<out, sock, goroutines, written, sent, got, said, due>>

ReadClose ==
  /\ ReadFrame(Shut)
  /\ Hear(Event("close"))
  /\ End
  /\ UNCHANGED <<out, holder, current, written, sent, got, said, due>>

ReadFails ==
  /\ Hears /\ Rejects(Coming.header)
  /\ Hear(Event("error"))
  /\ End
  /\ UNCHANGED <<out, holder, current, written, sent, got, said, due>>

ReadEnds ==
  /\ pc["reader"] = "idle" /\ sock = "down" /\ in = <<>>
  /\ End
  /\ UNCHANGED <<out, holder, current, in, history>>

-----------------------------------------------------------------------------
(* The peer: a websocket implementation, and the client or a bot *)

HeaderOf(first, n) ==
  IF n < 126 THEN <<first, 128 + n>>
  ELSE IF n < 65536 THEN <<first, 254, n \div 256, n % 256>>
  ELSE <<first, 255, 0, 0, 0, 0, 0, n \div 65536, (n \div 256) % 256, n % 256>>

Say(first, payload, what) ==
  /\ sock = "open" /\ Len(said) < MaxSays
  /\ in' = Append(in, [header |-> HeaderOf(first, payload.size), payload |-> payload])
  /\ said' = Append(said, what)
  /\ UNCHANGED <<out, sock, goroutines, written, sent, got, heard, due>>

SayMessage(f) == Say(128 + Binary, Payload(ClientEncode(f)), f)

(* A message that is a byte too short or too long.                         *)
SayOther(f) ==
  LET m == ClientEncode(f) IN
  \E k \in {Size(m) - 1, Size(m) + 1} :
    Say(128 + Binary, Payload([i \in 0 .. k - 1 |-> IF i < Size(m) THEN m[i] ELSE 0]), Nothing)

SayPing(n) == Say(128 + PingOp, Data(n), IF n > MaxPayload THEN Event("error") ELSE Ping(n))
SayPong    == Say(128 + PongOp, Data(0), Event("pong"))
SayClose   == Say(128 + Shut, Data(2), Event("close"))
SayPart    == Say(Binary, Data(1), Event("error"))

\* the length in a header of the server
LengthOf(h) == IF h[2] = 126 THEN h[3] * 256 + h[4] ELSE h[2]
IsHeader(x) == "header" \in DOMAIN x

(* A header that is not followed by its payload leaves the peer with garbage.*)
Receive ==
  LET n == LengthOf(out[1].header) IN
  /\ sock # "down" /\ out # <<>>
  /\ IF ~IsHeader(out[1]) THEN got' = Append(got, NoFrame) /\ out' = Tail(out)
     ELSE IF n = 0 THEN got' = Append(got, Frame(out[1].header[1] - 128, Data(0))) /\ out' = Tail(out)
     ELSE /\ Len(out) > 1
          /\ got' = Append(got, IF ~IsHeader(out[2]) /\ out[2].payload.size = n
                                THEN Frame(out[1].header[1] - 128, out[2].payload) ELSE NoFrame)
          /\ out' = Tail(Tail(out))
  /\ UNCHANGED <<sock, goroutines, in, written, sent, said, heard, due>>

Break ==
  /\ sock = "open"
  /\ sock' = "down"
  /\ UNCHANGED <<out, goroutines, in, history>>

-----------------------------------------------------------------------------
Writing(g) == Lock(g) \/ WriteFails(g) \/ WriteHeader(g) \/ WritePayload(g)

Reading == ReadMessage \/ ReadPing \/ ReadPong \/ ReadClose \/ ReadFails \/ ReadEnds

Peer ==
  \/ \E f \in Messages : SayMessage(f) \/ SayOther(f)
  \/ \E n \in PingSizes : SayPing(n)
  \/ SayPong \/ SayClose \/ SayPart
  \/ Receive \/ Break

Next ==
  \/ \E f \in Answers : Send(f)
  \/ \E g \in Writers : Writing(g)
  \/ Reading \/ Peer

Spec == Init /\ [][Next]_vars

-----------------------------------------------------------------------------
(* Properties *)

(* A goroutine writes only while it has the mutex, and has a frame then.    *)
TypeOK ==
  /\ sock \in {"open", "down", "closed"}
  /\ pc \in [Writers -> {"idle", "lock", "header", "payload", "done"}]
  /\ holder \in Writers \cup {Nobody}
  /\ \A g \in Writers : holder = g <=> pc[g] \in {"header", "payload"}
  /\ \A g \in Writers : current[g] = NoFrame <=> pc[g] \in {"idle", "done"}
  /\ Len(said) <= MaxSays /\ Len(written["writer"]) <= MaxWrites

(* The peer receives the frames that the goroutines wrote, whole and in the *)
(* order they were done, however the two take turns and whatever form the   *)
(* length has (wsframe.go:95).                                             *)
FramesWhole == IsPrefix(got, sent)

(* What the client decodes is what the server encoded, field for field, and *)
(* what the server's own decoder makes of it.                              *)
ClientReads ==
  \A i \in DOMAIN got : got[i].op = Binary =>
    LET m == got[i].payload.message
        f == decodeServerFrame(m) IN
    f \in Answers /\ EncodeFrame(f) = m /\ DecodeFrame(m) = f

(* The server hears what the client said, in order; messages of the wrong   *)
(* length count for nothing, and do not disturb those after them.          *)
ServerHears == IsPrefix(heard, said)

(* Every ping has its pong, in order, of the same size - but one of exactly  *)
(* 64 KiB, which Read takes and Write refuses - and none is pending while   *)
(* the reader waits for the next frame on an open connection.              *)
PingsAnswered ==
  /\ IsPrefix(written["reader"], due)
  /\ sock = "open" /\ pc["reader"] = "idle" => written["reader"] = due
=================================================================================
