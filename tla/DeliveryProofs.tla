----------------------------- MODULE DeliveryProofs -----------------------------
(***************************************************************************)
(* What a page has of the board is the board, or the server knows that it  *)
(* has not: the types of Delivery, its subscriptions, and the frames under *)
(* way to the page, for any number of players, connections, cells and      *)
(* chunks.                                                                 *)
(***************************************************************************)
EXTENDS Delivery, FiniteSetTheorems, SequenceTheorems, TLAPS

-----------------------------------------------------------------------------
(* The inductive invariant                                                   *)

(* Actor a has a delta that wrote cell q; it is still to be offered to the  *)
(* page's client; one that is has for the chunk of q a version after n.     *)
Carries(a, q) == delta[a] # Nothing /\ q \in DOMAIN delta[a].cells
Pending(a, q) == Carries(a, q) /\ (pc[a] = "collect" \/ copied[a] = conn)
Newer(q, n)   == \E a \in Actors : Pending(a, q) /\ delta[a].ver[ChunkOf[q]] > n

(* What a goroutine is doing agrees with what it is to send, and with the   *)
(* hub, which has no client of it before it registers.                      *)
ControlOK ==
  /\ \A a \in Players : pc[a] \in {"ready", "collect", "offer"}
  /\ \A c \in Conns : packed[c] # Nothing => packed[c].chunk \in todo[c]
  /\ \A c \in Conns : pc[c] = "pack" => \A j, k \in todo[c] : j = k
  /\ \A c \in Conns : pc[c] \in {"none", "register"} => registered # c

(* A page whose client is not the one the hub has has not got there yet, or *)
(* another connection has taken it out; it took the marks of its own.       *)
ClientOK ==
  /\ Served /\ registered # conn => pc[conn] = "register" \/ meddled = Chunks
  /\ registered = conn /\ pc[conn] = "flag" =>
       taken[conn] = conn /\ subs \ meddled \subseteq todo[conn]

(* No frame has a version the board has not, and a delta that has the       *)
(* version of the board has its colours.                                    *)
VersionsOK ==
  /\ \A k \in Chunks : version[k] <= commits
  /\ \A c \in Conns : packed[c] # Nothing => packed[c].ver <= version[packed[c].chunk]
  /\ \A a \in Actors : delta[a] # Nothing =>
       \A k \in DOMAIN delta[a].ver : delta[a].ver[k] <= version[k]
  /\ \A a \in Actors, q \in Cells : Carries(a, q) =>
       delta[a].cells[q] = board[q] \/ delta[a].ver[ChunkOf[q]] < version[ChunkOf[q]]

AsksFor(message, k) == message.kind # "place" /\ message.chunk = k
Has(k)              == registered = conn /\ k \in subs

(* The last message under way about a chunk says whether the page wants it; *)
(* with none under way the hub has what the page wants.                     *)
LastAsk(asks, k) ==
  \A i \in DOMAIN asks :
    AsksFor(asks[i], k) /\ (\A j \in i + 1 .. Len(asks) : ~AsksFor(asks[j], k))
      => (k \in wanted <=> asks[i].kind = "subscribe")
NoAsk(asks, k) == \A i \in DOMAIN asks : ~AsksFor(asks[i], k)

AsksOK ==
  Served => \A k \in Chunks :
    /\ LastAsk(up[conn], k)
    /\ NoAsk(up[conn], k) /\ k \notin meddled => (k \in wanted <=> Has(k))

(* A chunk is fresh when the hub has it for the page's client as the page's *)
(* own messages left it, has no reason left to send it again, and nothing   *)
(* happened to it against which there is no provision.                      *)
Tended(k)  == open /\ registered = conn /\ k \in subs \ meddled
Loading(k) == pc[conn] \in {"pack", "repack"} /\ k \in todo[conn]
Fresh(k)   == Tended(k) /\ ~Loading(k) /\ ~needSnap[conn] /\ disturbed[k] = {}

Writes(frame, q) == frame.kind \notin {"ack", "welcome"} /\ q \in DOMAIN frame.cells
Replaces(frame, k) == frame.kind = "snapshot" /\ frame.chunk = k

(* The page has an image of the chunk, or one is queued.                    *)
Loaded(k) == cache[k] # Nothing \/ \E i \in DOMAIN queue : Replaces(queue[i], k)

(* Once the page has read its queue it shows the colour in the cell.        *)
Shows(q, colour) ==
  \/ \E i \in DOMAIN queue :
       /\ Writes(queue[i], q) /\ queue[i].cells[q] = colour
       /\ \A j \in i + 1 .. Len(queue) : ~Writes(queue[j], q)
  \/ /\ \A i \in DOMAIN queue : ~Writes(queue[i], q)
     /\ cache[ChunkOf[q]] # Nothing /\ cache[ChunkOf[q]][q] = colour

(* A delta that is pending brings the colour, is late for version n, or is  *)
(* not the newest that is pending.                                          *)
Ordered(q, colour, n) ==
  \A a \in Actors : Pending(a, q) =>
    \/ delta[a].cells[q] = colour
    \/ delta[a].ver[ChunkOf[q]] < n
    \/ Newer(q, delta[a].ver[ChunkOf[q]])

(* Of a fresh chunk the page will show the board, or a delta is to come.    *)
CellOK(q, colour, n) ==
  /\ Shows(q, colour) \/ \E a \in Actors : Pending(a, q)
  /\ Ordered(q, colour, n)

ChunkOK(k) ==
  Fresh(k) => /\ Loaded(k)
              /\ \A q \in CellsOf(k) : CellOK(q, board[q], newest[k])

QueuedOK == \A k \in Chunks : ChunkOK(k)

(* A snapshot that may be queued has the board, or a delta is to come.      *)
PackedCell(q, shown, colour, n) ==
  /\ shown = colour \/ Newer(q, n)
  /\ Ordered(q, colour, n)

(* What the page's goroutine has packed may make its chunk fresh.           *)
Usable ==
  LET snap == packed[conn] IN
  snap # Nothing /\ Tended(snap.chunk) /\ ~needSnap[conn] /\ newest[snap.chunk] <= snap.ver

PackedOK ==
  LET snap == packed[conn] IN
  Usable => \A q \in CellsOf(snap.chunk) : PackedCell(q, snap.cells[q], board[q], snap.ver)

DeliveryInv == TypeOK /\ ControlOK /\ ClientOK /\ VersionsOK /\ AsksOK /\ QueuedOK /\ PackedOK
-----------------------------------------------------------------------------
(* Frames                                                                    *)

(* What a delta is made of, and what is in it.                              *)
LEMMA DeltaType ==
  /\ \A cells \in SUBSET Cells :
       \A colours \in [cells -> Colours], ver \in [Touched(cells) -> 0 .. MaxCommits] :
         Delta(colours, ver) \in Deltas
  /\ \A d \in Deltas :
       /\ d.kind = "delta" /\ d # Nothing /\ d \in Frame
       /\ DOMAIN d.cells \in SUBSET Cells /\ d.cells \in [DOMAIN d.cells -> Colours]
       /\ DOMAIN d.ver = Touched(DOMAIN d.cells)
       /\ d.ver \in [DOMAIN d.ver -> 0 .. MaxCommits]
<1>1. ASSUME NEW d \in Deltas
      PROVE  \E cells \in SUBSET Cells : \E colours \in [cells -> Colours] :
               \E ver \in [Touched(cells) -> 0 .. MaxCommits] : d = Delta(colours, ver)
  BY DEF Deltas
<1>2. ASSUME NEW d \in Deltas
      PROVE  /\ d.kind = "delta"
             /\ DOMAIN d.cells \in SUBSET Cells /\ d.cells \in [DOMAIN d.cells -> Colours]
             /\ DOMAIN d.ver = Touched(DOMAIN d.cells)
             /\ d.ver \in [DOMAIN d.ver -> 0 .. MaxCommits]
  BY <1>1 DEF Delta
<1>3. \A d \in Deltas : d # Nothing /\ d \in Frame
  BY DeliveryAssumption DEF Frame
<1>4. ASSUME NEW cells \in SUBSET Cells, NEW colours \in [cells -> Colours],
             NEW ver \in [Touched(cells) -> 0 .. MaxCommits]
      PROVE  Delta(colours, ver) \in Deltas
  BY DEF Deltas
<1> QED BY <1>2, <1>3, <1>4

(* What a snapshot is made of, and what is in it.                           *)
LEMMA SnapshotType ==
  /\ \A k \in Chunks : \A cells \in Image(k), ver \in 0 .. MaxCommits :
       Snapshot(k, cells, ver) \in Snapshots
  /\ \A s \in Snapshots :
       /\ s.kind = "snapshot" /\ s # Nothing /\ s \in Frame
       /\ s.chunk \in Chunks /\ s.cells \in Image(s.chunk) /\ s.ver \in 0 .. MaxCommits
       /\ s.cells # Nothing /\ s.cells \in Images
<1>1. ASSUME NEW s \in Snapshots
      PROVE  \E k \in Chunks : \E cells \in Image(k) : \E ver \in 0 .. MaxCommits :
               s = Snapshot(k, cells, ver)
  BY DEF Snapshots
<1>2. ASSUME NEW s \in Snapshots
      PROVE  /\ s.kind = "snapshot" /\ s.chunk \in Chunks
             /\ s.cells \in Image(s.chunk) /\ s.ver \in 0 .. MaxCommits
  BY <1>1 DEF Snapshot
<1>3. \A s \in Snapshots : s # Nothing /\ s \in Frame
  BY DeliveryAssumption DEF Frame
<1>4. \A s \in Snapshots : s.cells # Nothing /\ s.cells \in Images
  BY <1>2, DeliveryAssumption DEF Images
<1>5. ASSUME NEW k \in Chunks, NEW cells \in Image(k), NEW ver \in 0 .. MaxCommits
      PROVE  Snapshot(k, cells, ver) \in Snapshots
  BY DEF Snapshots
<1> QED BY <1>2, <1>3, <1>4, <1>5

(* A queue takes a frame or drops it.                                       *)
LEMMA PushType ==
  ASSUME queue \in Seq(Frame), Len(queue) <= Capacity, NEW frame \in Frame, Push(frame)
  PROVE  /\ queue' \in Seq(Frame) /\ Len(queue') <= Capacity
         /\ Full => queue' = queue
         /\ ~Full => queue' = Append(queue, frame)
BY DeliveryAssumption DEF Push, Full

(* Taking the first of a sequence leaves the others.                        *)
LEMMA TailType ==
  ASSUME NEW S, NEW s \in Seq(S), s # <<>>
  PROVE  /\ Head(s) \in S /\ Tail(s) \in Seq(S) /\ Len(Tail(s)) = Len(s) - 1
         /\ Head(s) = s[1] /\ Len(s) \in Nat \ {0}
         /\ \A i \in 1 .. Len(s) - 1 : Tail(s)[i] = s[i + 1]
OBVIOUS

-----------------------------------------------------------------------------
(* Types                                                                     *)

(* The part of the type invariant that says what goroutines hold.           *)
GoroutinesType ==
  /\ pc \in [Actors -> Label]
  /\ delta \in [Actors -> Deltas \cup {Nothing}]
  /\ \A a \in Actors : delta[a] # Nothing <=> pc[a] \in {"collect", "offer"}
  /\ packed \in [Conns -> Snapshots \cup {Nothing}]
  /\ \A c \in Conns : packed[c] # Nothing => pc[c] \in {"pack", "repack"}

UpType == up \in [Conns -> Seq(Message)]

QueueType == queue \in Seq(Frame) /\ Len(queue) <= Capacity

(* Every variable has its type at the beginning.                            *)
LEMMA InitType == Init => TypeOK
<1> SUFFICES ASSUME Init PROVE TypeOK
  OBVIOUS
<1>1. queue \in Seq(Frame) /\ Len(queue) <= Capacity
  BY DeliveryAssumption DEF Init
<1>2. up \in [Conns -> Seq(Message)] /\ messages \in 0 .. MaxMessages
  BY DeliveryAssumption DEF Init
<1>3. board \in [Cells -> Colours] /\ commits \in 0 .. MaxCommits
  BY DeliveryAssumption DEF Init
<1>4. /\ version \in [Chunks -> 0 .. MaxCommits] /\ newest \in [Chunks -> 0 .. MaxCommits]
      /\ disturbed \in [Chunks -> SUBSET Trouble]
      /\ cache \in [Chunks -> Images \cup {Nothing}]
      /\ \A k \in Chunks : cache[k] = Nothing
  BY DeliveryAssumption DEF Init
<1>5. pc \in [Actors -> Label] /\ \A a \in Actors : pc[a] \notin {"collect", "offer"}
  BY DEF Init, Label
<1>6. /\ delta \in [Actors -> Deltas \cup {Nothing}] /\ \A a \in Actors : delta[a] = Nothing
      /\ copied \in [Actors -> Conns \cup {Nothing}]
      /\ packed \in [Conns -> Snapshots \cup {Nothing}] /\ \A c \in Conns : packed[c] = Nothing
      /\ taken \in [Conns -> Conns \cup {Nothing}] /\ todo \in [Conns -> SUBSET Chunks]
      /\ needSnap \in [Conns -> BOOLEAN]
  BY DEF Init
<1>7. /\ registered \in Conns \cup {Nothing} /\ conn \in Conns
      /\ subs \subseteq Chunks /\ wanted \subseteq Chunks /\ meddled \subseteq Chunks
      /\ open \in BOOLEAN /\ pending \in BOOLEAN /\ unanswered \in BOOLEAN
  BY DeliveryAssumption DEF Init
<1> QED BY <1>1, <1>2, <1>3, <1>4, <1>5, <1>6, <1>7 DEF TypeOK

(* A goroutine that goes on to another step holds a delta only until it is  *)
(* offered, and a snapshot only until it is queued.                         *)
LEMMA GotoType ==
  ASSUME TypeOK, NEW a \in Actors, NEW label \in Label, Goto(a, label),
         \/ label \notin {"collect", "offer"} /\ delta' = [delta EXCEPT ![a] = Nothing]
         \/ label \notin {"collect", "offer"} /\ pc[a] \notin {"collect", "offer"} /\ delta' = delta
         \/ label = "offer" /\ pc[a] = "collect" /\ delta' = delta,
         \/ packed' = packed /\ pc[a] \notin {"pack", "repack"}
         \/ a \in Conns /\ packed' = [packed EXCEPT ![a] = Nothing]
  PROVE  GoroutinesType'
<1>1. /\ pc \in [Actors -> Label] /\ delta \in [Actors -> Deltas \cup {Nothing}]
      /\ \A b \in Actors : delta[b] # Nothing <=> pc[b] \in {"collect", "offer"}
  BY DEF TypeOK
<1>2. /\ packed \in [Conns -> Snapshots \cup {Nothing}]
      /\ \A c \in Conns : packed[c] # Nothing => pc[c] \in {"pack", "repack"}
  BY DEF TypeOK
<1>3. pc' \in [Actors -> Label] /\ pc'[a] = label /\ \A b \in Actors \ {a} : pc'[b] = pc[b]
  BY <1>1 DEF Goto
<1>4. /\ delta' \in [Actors -> Deltas \cup {Nothing}]
      /\ \A b \in Actors \ {a} : delta'[b] = delta[b]
      /\ delta'[a] # Nothing <=> label \in {"collect", "offer"}
  BY <1>1
<1>5. \A b \in Actors : delta'[b] # Nothing <=> pc'[b] \in {"collect", "offer"}
  BY <1>1, <1>3, <1>4
<1>6. packed' \in [Conns -> Snapshots \cup {Nothing}]
  BY <1>2
<1>7. ASSUME NEW c \in Conns, packed'[c] # Nothing
      PROVE  pc'[c] \in {"pack", "repack"}
  <2>1. c # a /\ packed[c] # Nothing
    BY <1>2, <1>7
  <2> QED BY <1>2, <1>3, <2>1 DEF Actors
<1> QED BY <1>3, <1>4, <1>5, <1>6, <1>7 DEF GoroutinesType

(* A placement writes the board, counts up the versions of the chunks it    *)
(* touches and leaves a delta of the type of deltas.                        *)
LEMMA PlaceType ==
  ASSUME TypeOK, \A k \in Chunks : version[k] <= commits,
         NEW a \in Actors, NEW cells \in Moves, Place(a, cells)
  PROVE  /\ board' \in [Cells -> Colours] /\ commits' \in 0 .. MaxCommits
         /\ version' \in [Chunks -> 0 .. MaxCommits]
         /\ \A k \in Chunks : version'[k] <= commits' /\ version[k] <= version'[k]
         /\ \A k \in Touched(cells) : k \in Chunks /\ version'[k] = version[k] + 1
         /\ delta' \in [Actors -> Deltas \cup {Nothing}]
         /\ pc' \in [Actors -> Label]
         /\ pc' = [pc EXCEPT ![a] = "collect"]
         /\ delta'[a] # Nothing /\ delta'[a].kind = "delta"
         /\ delta'[a].cells = [q \in cells |-> TeamOf[a]]
         /\ delta'[a].ver = [k \in Touched(cells) |-> version'[k]]
         /\ \A b \in Actors \ {a} : delta'[b] = delta[b]
         /\ cells \in SUBSET Cells /\ copied' = copied
<1>1. cells \in SUBSET Cells /\ TeamOf[a] \in Colours /\ cells # {}
  BY DeliveryAssumption
<1>2. Touched(cells) \in SUBSET Chunks
  BY <1>1, DeliveryAssumption DEF Touched
<1>3. board' \in [Cells -> Colours]
  BY <1>1 DEF Place, Write, TypeOK
<1>4. commits' \in 0 .. MaxCommits /\ commits' = commits + 1
  BY DeliveryAssumption DEF Place, TypeOK
<1>5. ASSUME NEW k \in Chunks
      PROVE  /\ version'[k] \in 0 .. MaxCommits /\ version'[k] <= commits'
             /\ version[k] <= version'[k]
             /\ k \in Touched(cells) => version'[k] = version[k] + 1
  <2>1. version'[k] = IF k \in Touched(cells) THEN version[k] + 1 ELSE version[k]
    BY DEF Place
  <2>2. version[k] \in 0 .. MaxCommits /\ commits \in 0 .. MaxCommits /\ version[k] <= commits
    BY DEF TypeOK
  <2>3. commits' = commits + 1 /\ commits' \in 0 .. MaxCommits
    BY <1>4
  <2> QED BY <2>1, <2>2, <2>3, DeliveryAssumption
<1>6. version' \in [Chunks -> 0 .. MaxCommits]
  <2>1. version' = [k \in Chunks |-> version'[k]]
    BY DEF Place
  <2> QED BY <2>1, <1>5
<1>7. PICK colours : colours = [q \in cells |-> TeamOf[a]]
  OBVIOUS
<1>8. PICK ver : ver = [k \in Touched(cells) |-> version'[k]]
  OBVIOUS
<1>9. colours \in [cells -> Colours] /\ ver \in [Touched(cells) -> 0 .. MaxCommits]
  BY <1>1, <1>2, <1>5, <1>7, <1>8
<1>10. Delta(colours, ver) \in Deltas
  BY <1>9, <1>1, DeltaType
<1>11. delta' = [delta EXCEPT ![a] = Delta(colours, ver)]
  BY <1>7, <1>8 DEF Place
<1>12. delta' \in [Actors -> Deltas \cup {Nothing}] /\ delta'[a] = Delta(colours, ver)
       /\ \A b \in Actors \ {a} : delta'[b] = delta[b]
  BY <1>10, <1>11 DEF TypeOK
<1>13. delta'[a] # Nothing /\ delta'[a].kind = "delta" /\ delta'[a].cells = colours
       /\ delta'[a].ver = ver
  BY <1>10, <1>12, DeltaType DEF Delta
<1>14. pc' = [pc EXCEPT ![a] = "collect"] /\ pc' \in [Actors -> Label] /\ copied' = copied
  BY DEF Place, Goto, TypeOK, Label
<1> QED BY <1>1, <1>2, <1>3, <1>4, <1>5, <1>6, <1>7, <1>8, <1>12, <1>13, <1>14

(* A goroutine that placed was ready and holds a delta only.                *)
LEMMA PlaceGoroutines ==
  ASSUME TypeOK, \A k \in Chunks : version[k] <= commits,
         NEW a \in Actors, NEW cells \in Moves, Place(a, cells), pc[a] = "ready", packed' = packed
  PROVE  GoroutinesType'
<1>1. /\ pc' \in [Actors -> Label] /\ delta' \in [Actors -> Deltas \cup {Nothing}]
      /\ pc' = [pc EXCEPT ![a] = "collect"] /\ delta'[a] # Nothing
      /\ \A b \in Actors \ {a} : delta'[b] = delta[b]
  BY PlaceType
<1>2. \A b \in Actors : delta'[b] # Nothing <=> pc'[b] \in {"collect", "offer"}
  BY <1>1 DEF TypeOK
<1>3. \A c \in Conns : packed'[c] # Nothing => pc'[c] \in {"pack", "repack"}
  BY <1>1 DEF TypeOK, Actors
<1> QED BY <1>1, <1>2, <1>3 DEF GoroutinesType, TypeOK

(* What a step leaves as it is keeps its type.                              *)
LEMMA PlayerPlacesType ==
  ASSUME TypeOK, \A k \in Chunks : version[k] <= commits,
         NEW p \in Players, NEW cells \in Moves, PlayerPlaces(p, cells)
  PROVE  TypeOK'
<1>1. p \in Actors /\ Place(p, cells) /\ pc[p] = "ready" /\ packed' = packed
  BY DEF PlayerPlaces, Actors, locals
<1>2. GoroutinesType'
  BY <1>1, PlaceGoroutines
<1>3. /\ board' \in [Cells -> Colours] /\ commits' \in 0 .. MaxCommits
      /\ version' \in [Chunks -> 0 .. MaxCommits] /\ copied' = copied
  BY <1>1, PlaceType
<1> QED BY <1>2, <1>3 DEF TypeOK, GoroutinesType, PlayerPlaces, hub, locals, client, frames

(* A queue takes what is queued for the page's connection or drops it.      *)
LEMMA EnqueueType ==
  ASSUME TypeOK, NEW c, NEW frame \in Frame, Enqueue(c, frame)
  PROVE  QueueType'
BY PushType DEF Enqueue, QueueType, TypeOK

(* The subscriptions that were changed behind the page's back are chunks.   *)
LEMMA MeddleType ==
  ASSUME TypeOK, NEW c, NEW ks \in SUBSET Chunks, Meddle(c, ks)
  PROVE  meddled' \subseteq Chunks
BY DEF Meddle, TypeOK

(* Taking the first message leaves messages.                                *)
LEMMA ReadType ==
  ASSUME TypeOK, NEW c \in Conns, NEW kind, Hears(c, kind), Read(c)
  PROVE  /\ UpType'
         /\ Head(up[c]) \in Message /\ Head(up[c]).kind = kind /\ up[c] # <<>>
         /\ up'[c] = Tail(up[c]) /\ \A d \in Conns \ {c} : up'[d] = up[d]
         /\ pc[c] = "ready" /\ packed[c] = Nothing /\ delta[c] = Nothing
         /\ c \in Actors
<1>1. c \in Actors
  BY DEF Actors
<1>2. up[c] \in Seq(Message) /\ up[c] # <<>>
  BY DEF TypeOK, Hears
<1>3. Head(up[c]) \in Message /\ Tail(up[c]) \in Seq(Message)
  BY <1>2, TailType
<1>4. up'[c] = Tail(up[c]) /\ (\A d \in Conns \ {c} : up'[d] = up[d])
      /\ up' \in [Conns -> Seq(Message)]
  BY <1>3 DEF Read, TypeOK
<1>5. UpType'
  BY <1>4 DEF UpType, TypeOK
<1>6. packed[c] = Nothing /\ delta[c] = Nothing
  BY <1>1 DEF TypeOK, Hears
<1> QED BY <1>1, <1>2, <1>3, <1>4, <1>5, <1>6 DEF Hears

(* A message about a chunk names one of the chunks.                         *)
LEMMA MessageType ==
  /\ \A m \in Message : m.kind \in {"subscribe", "unsubscribe", "place"}
  /\ \A m \in Message : m.kind # "place" => m.chunk \in Chunks
  /\ \A k \in Chunks : Ask("subscribe", k) \in Message /\ Ask("unsubscribe", k) \in Message
  /\ [kind |-> "place"] \in Message
<1>1. ASSUME NEW m \in Message, m # [kind |-> "place"]
      PROVE  \E kind \in {"subscribe", "unsubscribe"}, k \in Chunks :
               m = [kind |-> kind, chunk |-> k]
  BY <1>1 DEF Message, Ask
<1>2. ASSUME NEW m \in Message, m # [kind |-> "place"]
      PROVE  m.kind \in {"subscribe", "unsubscribe"} /\ m.chunk \in Chunks
  BY <1>1, <1>2
<1>3. \A m : m = [kind |-> "place"] => m.kind = "place"
  OBVIOUS
<1>4. \A k \in Chunks : Ask("subscribe", k) \in Message /\ Ask("unsubscribe", k) \in Message
  BY DEF Message
<1>5. [kind |-> "place"] \in Message
  BY DEF Message
<1> QED BY <1>2, <1>3, <1>4, <1>5

(* A step that reads a message keeps the types, whatever the message is     *)
(* and whether its placement is taken or refused.                           *)
LEMMA ReadingType ==
  ASSUME TypeOK, \A k \in Chunks : version[k] <= commits, NEW c \in Conns,
         ReadSubscribe(c) \/ ReadUnsubscribe(c) \/ ReadPlace(c) \/ RefusePlace(c)
  PROVE  TypeOK'
<1>1. CASE ReadSubscribe(c)
  <2>1. Hears(c, "subscribe") /\ Read(c)
    BY <1>1 DEF ReadSubscribe
  <2>2. /\ UpType' /\ Head(up[c]) \in Message /\ Head(up[c]).kind = "subscribe"
        /\ pc[c] = "ready" /\ delta[c] = Nothing /\ c \in Actors
    BY <2>1, ReadType
  <2>3. Head(up[c]).chunk \in Chunks
    BY <2>2, MessageType
  <2>4. UNCHANGED <<delta, packed>>
    BY <1>1 DEF ReadSubscribe
  <2>5. GoroutinesType'
    <3>1. CASE registered = Nothing
      BY <1>1, <2>4, <3>1 DEF ReadSubscribe, GoroutinesType, TypeOK
    <3>2. CASE registered # Nothing
      <4>1. Goto(c, "pack") /\ "pack" \in Label
        BY <1>1, <3>2 DEF ReadSubscribe, Label
      <4> QED BY <2>2, <2>4, <4>1, GotoType
    <3> QED BY <3>1, <3>2
  <2>6. subs' \subseteq Chunks /\ registered' = registered /\ meddled' \subseteq Chunks
        /\ todo' \in [Conns -> SUBSET Chunks]
    <3>1. CASE registered = Nothing
      BY <1>1, <3>1 DEF ReadSubscribe, hub, TypeOK
    <3>2. CASE registered # Nothing
      <4>1. PICK k \in Chunks : k = Head(up[c]).chunk
        BY <2>3
      <4>2. Meddle(c, {k}) /\ subs' = subs \cup {k} /\ registered' = registered
            /\ todo' = [todo EXCEPT ![c] = {k}]
        BY <1>1, <3>2, <4>1 DEF ReadSubscribe
      <4>3. meddled' \subseteq Chunks
        BY <4>2, MeddleType
      <4> QED BY <4>2, <4>3 DEF TypeOK
    <3> QED BY <3>1, <3>2
  <2> QED BY <1>1, <2>2, <2>5, <2>6
          DEF ReadSubscribe, TypeOK, GoroutinesType, UpType, client, frames, server
<1>2. CASE ReadUnsubscribe(c)
  <2>1. Hears(c, "unsubscribe") /\ Read(c)
    BY <1>2 DEF ReadUnsubscribe
  <2>2. UpType' /\ Head(up[c]) \in Message /\ Head(up[c]).kind = "unsubscribe"
    BY <2>1, ReadType
  <2>3. Head(up[c]).chunk \in Chunks
    BY <2>2, MessageType
  <2>4. subs' \subseteq Chunks /\ registered' = registered /\ meddled' \subseteq Chunks
    BY <1>2, <2>3, MeddleType DEF ReadUnsubscribe, TypeOK
  <2> QED BY <1>2, <2>2, <2>4
          DEF ReadUnsubscribe, TypeOK, UpType, client, frames, server, sending, locals
<1>3. CASE ReadPlace(c)
  <2>1. Hears(c, "place") /\ Read(c)
    BY <1>3 DEF ReadPlace
  <2>2. UpType' /\ pc[c] = "ready" /\ c \in Actors
    BY <2>1, ReadType
  <2>3. PICK cells \in Moves : Place(c, cells)
    BY <1>3 DEF ReadPlace
  <2>4. packed' = packed
    BY <1>3 DEF ReadPlace, locals
  <2>5. GoroutinesType'
    BY <2>2, <2>3, <2>4, PlaceGoroutines
  <2>6. /\ board' \in [Cells -> Colours] /\ commits' \in 0 .. MaxCommits
        /\ version' \in [Chunks -> 0 .. MaxCommits] /\ copied' = copied
    BY <2>2, <2>3, PlaceType
  <2> QED BY <1>3, <2>2, <2>5, <2>6
          DEF TypeOK, GoroutinesType, UpType, ReadPlace, hub, locals, client, frames
<1>4. CASE RefusePlace(c)
  <2>1. Hears(c, "place") /\ Read(c)
    BY <1>4 DEF RefusePlace
  <2>2. UpType' /\ pc[c] = "ready" /\ delta[c] = Nothing /\ c \in Actors
    BY <2>1, ReadType
  <2>3. UNCHANGED <<delta, packed>>
    BY <1>4 DEF RefusePlace, locals
  <2>4. GoroutinesType'
    <3>1. CASE pc' = pc
      BY <2>3, <3>1 DEF GoroutinesType, TypeOK
    <3>2. CASE Goto(c, "ack")
      <4>1. "ack" \in Label
        BY DEF Label
      <4> QED BY <2>2, <2>3, <3>2, <4>1, GotoType
    <3> QED BY <1>4, <3>1, <3>2 DEF RefusePlace
  <2>5. QueueType' /\ unanswered' \in BOOLEAN
    <3>1. Ack \in Frame
      BY DEF Frame
    <3>2. UNCHANGED queue => QueueType'
      BY DEF QueueType, TypeOK
    <3>3. unanswered' \in BOOLEAN
      BY <1>4 DEF RefusePlace, AckIsLost, TypeOK, Full
    <3> QED BY <1>4, <3>1, <3>2, <3>3, EnqueueType DEF RefusePlace
  <2> QED BY <1>4, <2>2, <2>4, <2>5
          DEF RefusePlace, TypeOK, GoroutinesType, UpType, QueueType, hub, locals, client,
              frames, server
<1> QED BY <1>1, <1>2, <1>3, <1>4

(* A page's message stays under way or is dropped.                          *)
LEMMA SendType ==
  ASSUME TypeOK, NEW message \in Message, Send(message)
  PROVE  /\ UpType' /\ messages' \in 0 .. MaxMessages
         /\ open => up'[conn] = Append(up[conn], message)
<1>1. up[conn] \in Seq(Message) /\ conn \in Conns /\ messages' \in 0 .. MaxMessages
  BY DeliveryAssumption DEF TypeOK, Send
<1>2. CASE open
  <2>1. Append(up[conn], message) \in Seq(Message)
    BY <1>1
  <2>2. up' = [up EXCEPT ![conn] = Append(up[conn], message)]
    BY <1>2 DEF Send
  <2> QED BY <1>1, <2>1, <2>2 DEF UpType, TypeOK
<1>3. CASE ~open
  BY <1>1, <1>3 DEF Send, UpType, TypeOK
<1> QED BY <1>2, <1>3

(* A step of a page that sends a message keeps the types.                   *)
LEMMA PageType ==
  ASSUME TypeOK, (\E k \in Chunks : Show(k) \/ Hide(k)) \/ Click
  PROVE  TypeOK'
<1>1. ASSUME NEW k \in Chunks, Show(k)
      PROVE  TypeOK'
  <2>1. UpType' /\ messages' \in 0 .. MaxMessages
    BY <1>1, SendType, MessageType DEF Show
  <2>2. wanted' \subseteq Chunks
    BY <1>1 DEF Show, TypeOK
  <2> QED BY <1>1, <2>1, <2>2
          DEF Show, TypeOK, UpType, server, sending, hub, locals, frames
<1>2. ASSUME NEW k \in Chunks, Hide(k)
      PROVE  TypeOK'
  <2>1. UpType' /\ messages' \in 0 .. MaxMessages
    BY <1>2, SendType, MessageType DEF Hide
  <2>2. wanted' \subseteq Chunks
    BY <1>2 DEF Hide, TypeOK
  <2> QED BY <1>2, <2>1, <2>2
          DEF Hide, TypeOK, UpType, server, sending, hub, locals, frames
<1>3. CASE Click
  <2>1. UpType' /\ messages' \in 0 .. MaxMessages
    BY <1>3, SendType, MessageType DEF Click
  <2>2. pending' \in BOOLEAN /\ unanswered' \in BOOLEAN
    BY <1>3 DEF Click, TypeOK
  <2> QED BY <1>3, <2>1, <2>2
          DEF Click, TypeOK, UpType, server, sending, hub, locals, frames
<1> QED BY <1>1, <1>2, <1>3

(* What a goroutine that has offered its delta does next.                   *)
LEMMA AfterType ==
  ASSUME NEW a \in Actors
  PROVE  {AfterOffer(a), AfterPanic(a)} \subseteq {"ready", "ack", "closing"}
BY DEF AfterOffer, AfterPanic

(* A goroutine that is done with its delta keeps the types.                 *)
LEMMA OffersRestType ==
  ASSUME TypeOK, NEW a \in Actors, pc[a] \in {"collect", "offer"}, packed' = packed,
         NEW label \in {AfterOffer(a), AfterPanic(a)}, Goto(a, label),
         delta' = [delta EXCEPT ![a] = Nothing], copied' = [copied EXCEPT ![a] = Nothing]
  PROVE  GoroutinesType' /\ copied' \in [Actors -> Conns \cup {Nothing}]
<1>1. label \in Label /\ label \notin {"collect", "offer"}
  BY AfterType DEF Label
<1>2. GoroutinesType'
  BY <1>1, GotoType
<1> QED BY <1>2 DEF TypeOK

(* A goroutine that looks for the subscribers of its chunks has a delta and *)
(* keeps it as long as it is to be offered.                                 *)
LEMMA CollectType ==
  ASSUME TypeOK, NEW a \in Actors, Collect(a)
  PROVE  TypeOK'
<1>1. packed' = packed /\ pc[a] = "collect"
  BY DEF Collect, locals
<1>2. GoroutinesType' /\ copied' \in [Actors -> Conns \cup {Nothing}]
  <2>1. CASE OffersRest(a)
    BY <1>1, <2>1, OffersRestType DEF OffersRest
  <2>2. CASE Goto(a, "offer") /\ copied' = [copied EXCEPT ![a] = registered] /\ UNCHANGED delta
    <3>1. "offer" \in Label
      BY DEF Label
    <3>2. GoroutinesType'
      BY <1>1, <2>2, <3>1, GotoType
    <3>3. copied' \in [Actors -> Conns \cup {Nothing}]
      BY <2>2 DEF TypeOK
    <3> QED BY <3>2, <3>3
  <2> QED BY <2>1, <2>2 DEF Collect
<1> QED BY <1>2 DEF Collect, TypeOK, GoroutinesType, client, frames, server, hub, locals

(* The newest versions that were offered are of the board.                  *)
LEMMA RaisedType ==
  ASSUME TypeOK, NEW a \in Actors, pc[a] = "offer"
  PROVE  /\ delta[a] \in Deltas
         /\ \A k \in DOMAIN delta[a].ver : delta[a].ver[k] \in 0 .. MaxCommits
         /\ Raised(delta[a].ver) \in [Chunks -> 0 .. MaxCommits]
<1>1. delta[a] \in Deltas
  BY DEF TypeOK
<1>2. PICK ver : ver = delta[a].ver
  OBVIOUS
<1>3. \A k \in DOMAIN ver : ver[k] \in 0 .. MaxCommits
  BY <1>1, <1>2, DeltaType
<1>4. Raised(ver) \in [Chunks -> 0 .. MaxCommits]
  BY <1>3 DEF Raised, TypeOK
<1> QED BY <1>1, <1>2, <1>3, <1>4

(* Marking a client keeps the marks boolean.                                *)
LEMMA MarkType ==
  ASSUME TypeOK, NEW d, NEW mark, d \in Conns => mark \in BOOLEAN,
         needSnap' = [needSnap EXCEPT ![d] = mark]
  PROVE  needSnap' \in [Conns -> BOOLEAN]
BY DEF TypeOK

(* Offering a delta keeps the types, and so does a panic.                   *)
LEMMA OfferType ==
  ASSUME TypeOK, NEW a \in Actors, OfferDelta(a) \/ BroadcastPanics(a)
  PROVE  TypeOK'
<1>1. /\ pc[a] = "offer" /\ packed' = packed
      /\ delta' = [delta EXCEPT ![a] = Nothing] /\ copied' = [copied EXCEPT ![a] = Nothing]
      /\ \E label \in {AfterOffer(a), AfterPanic(a)} : Goto(a, label)
  BY DEF OfferDelta, BroadcastPanics, OffersRest, locals
<1>2. GoroutinesType' /\ copied' \in [Actors -> Conns \cup {Nothing}]
  BY <1>1, OffersRestType
<1>3. PICK ver : ver = delta[a].ver
  OBVIOUS
<1>4. delta[a] \in Deltas /\ Raised(ver) \in [Chunks -> 0 .. MaxCommits]
  BY <1>1, <1>3, RaisedType
<1>5. /\ newest \in [Chunks -> 0 .. MaxCommits] /\ disturbed \in [Chunks -> SUBSET Trouble]
      /\ needSnap \in [Conns -> BOOLEAN] /\ queue \in Seq(Frame) /\ Len(queue) <= Capacity
  BY DEF TypeOK
<1>6. QueueType' /\ needSnap' \in [Conns -> BOOLEAN]
  <2>1. CASE BroadcastPanics(a)
    BY <1>5, <2>1 DEF BroadcastPanics, QueueType
  <2>2. CASE OfferDelta(a)
    <3>1. CASE copied[a] = conn
      <4>1. Push(delta[a]) /\ delta[a] \in Frame
            /\ needSnap' = [needSnap EXCEPT ![copied[a]] = Marked(copied[a])]
        BY <1>4, <2>2, <3>1, DeltaType DEF OfferDelta
      <4>2. QueueType'
        BY <1>5, <4>1, PushType DEF QueueType
      <4>3. copied[a] \in Conns => Marked(copied[a]) \in BOOLEAN
        BY <1>5 DEF Marked, Full
      <4> QED BY <4>1, <4>2, <4>3, MarkType
    <3>2. CASE copied[a] # conn
      <4>1. PICK mark \in {needSnap[copied[a]], TRUE} :
              needSnap' = [needSnap EXCEPT ![copied[a]] = mark]
        BY <2>2, <3>2 DEF OfferDelta
      <4>2. needSnap' \in [Conns -> BOOLEAN]
        BY <1>5, <4>1, MarkType
      <4>3. queue' = queue
        BY <2>2, <3>2 DEF OfferDelta
      <4> QED BY <1>5, <4>2, <4>3 DEF QueueType
    <3> QED BY <3>1, <3>2
  <2> QED BY <2>1, <2>2
<1>7. newest' \in [Chunks -> 0 .. MaxCommits]
  BY <1>3, <1>4, <1>5 DEF OfferDelta, BroadcastPanics, frames
<1>8. disturbed' \in [Chunks -> SUBSET Trouble]
  <2>1. \/ disturbed' = disturbed
        \/ disturbed' = [k \in Chunks |-> IF k \in DOMAIN ver /\ ver[k] < newest[k]
                             THEN disturbed[k] \cup {"reordered"} ELSE disturbed[k]]
        \/ disturbed' = [k \in Chunks |-> IF k \in DOMAIN ver THEN disturbed[k] \cup {"aborted"}
                                          ELSE disturbed[k]]
    BY <1>3 DEF OfferDelta, BroadcastPanics, frames
  <2> QED BY <1>5, <2>1 DEF Trouble
<1> QED BY <1>2, <1>6, <1>7, <1>8
        DEF OfferDelta, BroadcastPanics, TypeOK, GoroutinesType, QueueType, client, server, hub,
            locals

(* So do the beginning and the end of a connection on the server.           *)
LEMMA ConnectionType ==
  ASSUME TypeOK, NEW c \in Conns,
         Register(c) \/ Welcome(c) \/ Fail(c) \/ SendPanics(c) \/ RemoveSession(c)
  PROVE  TypeOK'
<1>1. c \in Actors /\ {"welcome", "abandoned", "ready", "closing", "gone"} \subseteq Label
  BY DEF Actors, Label
<1>2. Chunks \in SUBSET Chunks
  OBVIOUS
<1>3. CASE Register(c)
  <2>1. GoroutinesType'
    <3>1. Goto(c, "welcome") /\ pc[c] = "register" /\ UNCHANGED <<delta, packed>>
      BY <1>3 DEF Register, locals
    <3> QED BY <1>1, <3>1, GotoType
  <2>2. registered' \in Conns \cup {Nothing} /\ subs' \subseteq Chunks /\ meddled' \subseteq Chunks
    BY <1>2, <1>3, MeddleType DEF Register
  <2> QED BY <1>3, <2>1, <2>2
          DEF Register, TypeOK, GoroutinesType, server, locals, client, frames
<1>4. CASE Welcome(c)
  <2>1. UNCHANGED <<delta, packed>> /\ pc[c] = "welcome"
    BY <1>4 DEF Welcome, locals
  <2>2. GoroutinesType' /\ QueueType' /\ unanswered' \in BOOLEAN
    <3>1. CASE Closed(c)
      <4>1. Goto(c, "abandoned") /\ queue' = queue
            /\ unanswered' = (unanswered \/ (c = conn /\ pending))
        BY <1>4, <3>1 DEF Welcome
      <4>2. GoroutinesType'
        BY <1>1, <2>1, <4>1, GotoType
      <4> QED BY <4>1, <4>2 DEF QueueType, TypeOK
    <3>2. CASE ~Closed(c)
      <4>1. Goto(c, "ready") /\ Enqueue(c, Greeting) /\ unanswered' = unanswered
        BY <1>4, <3>2 DEF Welcome
      <4>2. GoroutinesType'
        BY <1>1, <2>1, <4>1, GotoType
      <4>3. Greeting \in Frame
        BY DEF Frame
      <4>4. QueueType'
        BY <4>1, <4>3, EnqueueType
      <4> QED BY <4>1, <4>2, <4>4 DEF TypeOK
    <3> QED BY <3>1, <3>2
  <2> QED BY <1>4, <2>2
          DEF Welcome, TypeOK, GoroutinesType, QueueType, server, hub, locals, client, frames
<1>5. CASE Fail(c)
  <2>1. Goto(c, "closing") /\ pc[c] = "ready" /\ UNCHANGED <<delta, packed>>
    BY <1>5 DEF Fail, locals
  <2>2. GoroutinesType'
    BY <1>1, <2>1, GotoType
  <2> QED BY <1>5, <2>2 DEF Fail, TypeOK, GoroutinesType, server, hub, locals, client, frames
<1>6. CASE SendPanics(c)
  <2>1. /\ Goto(c, "closing") /\ delta' = delta /\ packed' = [packed EXCEPT ![c] = Nothing]
        /\ todo' = [todo EXCEPT ![c] = {}]
    BY <1>6 DEF SendPanics
  <2>2. pc[c] \notin {"collect", "offer"}
    BY <1>6 DEF SendPanics, TypeOK
  <2>3. GoroutinesType'
    BY <1>1, <2>1, <2>2, GotoType
  <2>4. todo' \in [Conns -> SUBSET Chunks]
    BY <2>1 DEF TypeOK
  <2> QED BY <1>6, <2>3, <2>4
          DEF SendPanics, TypeOK, GoroutinesType, server, hub, client, frames
<1>7. CASE RemoveSession(c)
  <2>1. Goto(c, "gone") /\ pc[c] = "closing" /\ UNCHANGED <<delta, packed>>
    BY <1>7 DEF RemoveSession, locals
  <2>2. GoroutinesType'
    BY <1>1, <2>1, GotoType
  <2>3. registered' \in Conns \cup {Nothing} /\ subs' \subseteq Chunks /\ meddled' \subseteq Chunks
    BY <1>2, <1>7, MeddleType DEF RemoveSession
  <2>4. UpType'
    <3>1. <<>> \in Seq(Message)
      OBVIOUS
    <3>2. up' = [up EXCEPT ![c] = <<>>]
      BY <1>7 DEF RemoveSession
    <3> QED BY <3>1, <3>2 DEF UpType, TypeOK
  <2> QED BY <1>7, <2>2, <2>3, <2>4
          DEF RemoveSession, TypeOK, GoroutinesType, UpType, server, locals, client, frames
<1> QED BY <1>3, <1>4, <1>5, <1>6, <1>7

(* And what its goroutine does when it does not read.                       *)
LEMMA ServingType ==
  ASSUME TypeOK, NEW c \in Conns,
         \/ SendAck(c) \/ QueueSnapshot(c) \/ TakeChunks(c) \/ TakeFlag(c)
         \/ \E k \in Chunks : PackChunk(c, k)
  PROVE  TypeOK'
<1>1. c \in Actors /\ {"take", "flag", "ready", "repack"} \subseteq Label
  BY DEF Actors, Label
<1>2. CASE SendAck(c)
  <2>1. Goto(c, "take") /\ pc[c] = "ack" /\ UNCHANGED <<delta, packed>>
    BY <1>2 DEF SendAck, locals
  <2>2. GoroutinesType'
    BY <1>1, <2>1, GotoType
  <2>3. Ack \in Frame
    BY DEF Frame
  <2>4. QueueType'
    BY <1>2, <2>3, EnqueueType DEF SendAck
  <2>5. unanswered' \in BOOLEAN
    BY <1>2 DEF SendAck, AckIsLost, TypeOK, Full
  <2> QED BY <1>2, <2>2, <2>4, <2>5
          DEF SendAck, TypeOK, GoroutinesType, QueueType, server, hub, locals, client, frames
<1>3. CASE QueueSnapshot(c)
  <2>1. packed[c] \in Snapshots /\ pc[c] \in {"pack", "repack"}
    BY <1>3 DEF QueueSnapshot, TypeOK
  <2>2. packed[c] \in Frame /\ packed[c].chunk \in Chunks /\ packed[c].ver \in 0 .. MaxCommits
    BY <2>1, SnapshotType
  <2>3. QueueType'
    BY <1>3, <2>2, EnqueueType DEF QueueSnapshot
  <2>4. newest' \in [Chunks -> 0 .. MaxCommits]
    <3>1. \/ newest' = newest
          \/ newest' = [newest EXCEPT ![packed[c].chunk] =
                           IF packed[c].ver > newest[packed[c].chunk] THEN packed[c].ver
                           ELSE newest[packed[c].chunk]]
      BY <1>3 DEF QueueSnapshot, frames
    <3>2. newest \in [Chunks -> 0 .. MaxCommits]
      BY DEF TypeOK
    <3> QED BY <2>2, <3>1, <3>2
  <2>5. disturbed' \in [Chunks -> SUBSET Trouble]
    <3>1. disturbed \in [Chunks -> SUBSET Trouble]
      BY DEF TypeOK
    <3>2. CASE disturbed' = disturbed
      BY <3>1, <3>2
    <3>3. CASE disturbed' # disturbed
      <4>1. PICK marks \in SUBSET Trouble : disturbed' = [disturbed EXCEPT ![packed[c].chunk] = marks]
        <5>1. disturbed[packed[c].chunk] \in SUBSET Trouble
          BY <2>2, <3>1
        <5>2. \/ disturbed' = [disturbed EXCEPT ![packed[c].chunk] =
                                 disturbed[packed[c].chunk] \cup {"unsent"}]
              \/ disturbed' = [disturbed EXCEPT ![packed[c].chunk] = {"crossed"}]
              \/ disturbed' = [disturbed EXCEPT ![packed[c].chunk] = {}]
          BY <1>3, <3>3 DEF QueueSnapshot, frames
        <5> QED BY <5>1, <5>2 DEF Trouble
      <4> QED BY <3>1, <4>1
    <3> QED BY <3>2, <3>3
  <2>6. todo' = [todo EXCEPT ![c] = todo[c] \ {packed[c].chunk}]
    BY <1>3 DEF QueueSnapshot
  <2>7. todo' \in [Conns -> SUBSET Chunks]
    BY <2>6 DEF TypeOK
  <2>8. PICK label \in {"take", "ready", "repack"} : Goto(c, label)
    BY <1>3 DEF QueueSnapshot
  <2>9. GoroutinesType'
    <3>1. packed' = [packed EXCEPT ![c] = Nothing] /\ delta' = delta
      BY <1>3 DEF QueueSnapshot
    <3>2. label \in Label /\ label \notin {"collect", "offer"}
      BY <2>8 DEF Label
    <3> QED BY <1>1, <2>1, <2>8, <3>1, <3>2, GotoType
  <2> QED BY <1>3, <2>3, <2>4, <2>5, <2>7, <2>9
          DEF QueueSnapshot, TypeOK, GoroutinesType, QueueType, server, hub, client
<1>4. CASE TakeChunks(c)
  <2>1. PICK label \in {"ready", "flag"} : Goto(c, label)
    BY <1>4 DEF TakeChunks
  <2>2. pc[c] = "take" /\ UNCHANGED <<delta, packed>>
    BY <1>4 DEF TakeChunks
  <2>3. label \in Label /\ label \notin {"collect", "offer"}
    BY <2>1 DEF Label
  <2>4. GoroutinesType'
    BY <1>1, <2>1, <2>2, <2>3, GotoType
  <2>5. todo' \in [Conns -> SUBSET Chunks] /\ taken' \in [Conns -> Conns \cup {Nothing}]
    BY <1>4 DEF TakeChunks, TypeOK
  <2> QED BY <1>4, <2>4, <2>5 DEF TakeChunks, TypeOK, GoroutinesType, server, hub, client, frames
<1>5. CASE TakeFlag(c)
  <2>1. PICK label \in {"ready", "repack"} : Goto(c, label)
    BY <1>5 DEF TakeFlag
  <2>2. pc[c] = "flag" /\ UNCHANGED <<delta, packed>>
    BY <1>5 DEF TakeFlag
  <2>3. label \in Label /\ label \notin {"collect", "offer"}
    BY <2>1 DEF Label
  <2>4. GoroutinesType'
    BY <1>1, <2>1, <2>2, <2>3, GotoType
  <2>5. todo' \in [Conns -> SUBSET Chunks] /\ taken' \in [Conns -> Conns \cup {Nothing}]
        /\ meddled' \subseteq Chunks
    BY <1>5 DEF TakeFlag, TypeOK
  <2>6. needSnap' \in [Conns -> BOOLEAN]
    BY <1>5, MarkType DEF TakeFlag
  <2> QED BY <1>5, <2>4, <2>5, <2>6 DEF TakeFlag, TypeOK, GoroutinesType, server, client, frames
<1>6. ASSUME NEW k \in Chunks, PackChunk(c, k)
      PROVE  TypeOK'
  <2>1. PICK cells : cells = [q \in CellsOf(k) |-> board[q]]
    OBVIOUS
  <2>2. cells \in Image(k) /\ version[k] \in 0 .. MaxCommits
    BY <2>1 DEF Image, CellsOf, TypeOK
  <2>3. Snapshot(k, cells, version[k]) \in Snapshots
    BY <2>2, SnapshotType
  <2>4. packed' = [packed EXCEPT ![c] = Snapshot(k, cells, version[k])] /\ pc' = pc
        /\ pc[c] \in {"pack", "repack"}
    BY <1>6, <2>1 DEF PackChunk, sending
  <2>5. /\ packed' \in [Conns -> Snapshots \cup {Nothing}]
        /\ \A d \in Conns : packed'[d] # Nothing => pc'[d] \in {"pack", "repack"}
    BY <2>3, <2>4 DEF TypeOK
  <2> QED BY <1>6, <2>5 DEF PackChunk, TypeOK, server, sending, hub, client, frames
<1> QED BY <1>2, <1>3, <1>4, <1>5, <1>6

(* What the page makes of a frame are images of its chunks.                 *)
LEMMA ReceiveType ==
  ASSUME TypeOK, Receive
  PROVE  TypeOK'
<1>1. queue \in Seq(Frame) /\ queue # <<>> /\ Len(queue) <= Capacity
  BY DEF Receive, TypeOK
<1>2. Head(queue) \in Frame /\ Tail(queue) \in Seq(Frame) /\ Len(Tail(queue)) = Len(queue) - 1
      /\ Len(queue) \in Nat
  BY <1>1, TailType
<1>3. queue' \in Seq(Frame) /\ Len(queue') <= Capacity
  BY <1>1, <1>2, DeliveryAssumption DEF Receive
<1>4. PICK frame : frame = Head(queue)
  OBVIOUS
<1>5. frame \in Snapshots \/ frame \in Deltas \/ frame \in {Ack, Greeting}
  BY <1>2, <1>4 DEF Frame
<1>6. ASSUME NEW k \in Chunks
      PROVE  Applied(frame, k) \in Image(k) \/ Applied(frame, k) = cache[k]
  <2>1. CASE frame \in Snapshots
    BY <2>1, SnapshotType DEF Applied
  <2>2. CASE frame \in Deltas
    <3>1. /\ frame.kind = "delta" /\ frame.cells \in [DOMAIN frame.cells -> Colours]
      BY <2>2, DeltaType
    <3>2. CASE k \in DOMAIN frame.ver /\ cache[k] # Nothing
      <4>1. cache[k] \in [CellsOf(k) -> Colours]
        BY <3>2 DEF TypeOK, Image
      <4>2. Applied(frame, k) = [q \in CellsOf(k) |-> IF q \in DOMAIN frame.cells
                                                       THEN frame.cells[q] ELSE cache[k][q]]
        BY <3>1, <3>2 DEF Applied
      <4>3. Applied(frame, k) \in [CellsOf(k) -> Colours]
        BY <3>1, <4>1, <4>2
      <4> QED BY <4>3 DEF Image
    <3>3. CASE ~(k \in DOMAIN frame.ver /\ cache[k] # Nothing)
      BY <3>1, <3>3 DEF Applied
    <3> QED BY <3>2, <3>3
  <2>3. CASE frame \in {Ack, Greeting}
    BY <2>3 DEF Applied, Ack, Greeting
  <2> QED BY <1>5, <2>1, <2>2, <2>3
<1>7. cache' \in [Chunks -> Images \cup {Nothing}]
      /\ \A k \in Chunks : cache'[k] # Nothing => cache'[k] \in Image(k)
  <2>1. CASE open
    <3>1. cache' = [k \in Chunks |-> Applied(frame, k)]
      BY <1>4, <2>1 DEF Receive
    <3>2. ASSUME NEW k \in Chunks
          PROVE  /\ cache'[k] \in Images \cup {Nothing}
                 /\ cache'[k] # Nothing => cache'[k] \in Image(k)
      <4>1. cache'[k] = Applied(frame, k)
        BY <3>1
      <4>2. cache[k] \in Images \cup {Nothing} /\ (cache[k] # Nothing => cache[k] \in Image(k))
        BY DEF TypeOK
      <4>3. Image(k) \subseteq Images
        BY DEF Images
      <4> QED BY <1>6, <4>1, <4>2, <4>3
    <3>3. cache' = [k \in Chunks |-> cache'[k]]
      BY <3>1
    <3> QED BY <3>2, <3>3
  <2>2. CASE ~open
    BY <2>2 DEF Receive, TypeOK
  <2> QED BY <2>1, <2>2
<1>8. pending' \in BOOLEAN
  BY DEF Receive, TypeOK
<1> QED BY <1>3, <1>7, <1>8 DEF Receive, TypeOK, server, sending, hub, locals, frames

(* A new connection asks for each wanted chunk once.                        *)
LEMMA ReconnectAsks ==
  ASSUME TypeOK, NEW c \in Conns, Reconnect(c)
  PROVE  /\ UpType'
         /\ \A i \in DOMAIN up'[c] : up'[c][i].kind = "subscribe" /\ up'[c][i].chunk \in wanted
         /\ \A k \in wanted : \E i \in DOMAIN up'[c] : up'[c][i] = Ask("subscribe", k)
<1>1. PICK order \in SetToSeqs(wanted) :
        up' = [up EXCEPT ![c] = [i \in DOMAIN order |-> Ask("subscribe", order[i])]]
  BY DEF Reconnect, Again
<1>2. wanted \in SUBSET Chunks /\ IsFiniteSet(wanted) /\ Cardinality(wanted) \in Nat
  BY DeliveryAssumption, FS_Subset, FS_CardinalityType DEF TypeOK
<1> DEFINE D == 1 .. Cardinality(wanted)
<1>3. order \in [D -> wanted] /\ \A i, j \in D : i # j => order[i] # order[j]
  BY <1>1 DEF SetToSeqs
<1>4. order \in Injection(D, wanted)
  BY <1>3 DEF Injection, IsInjective
<1>5. IsFiniteSet(D) /\ Cardinality(D) = Cardinality(wanted)
  BY <1>2, FS_Interval
<1>6. order \in Surjection(D, wanted)
  BY <1>2, <1>4, <1>5, FS_Injection
<1>7. \A k \in wanted : \E i \in D : order[i] = k
  BY <1>6 DEF Surjection
<1>8. PICK asks : asks = [i \in DOMAIN order |-> Ask("subscribe", order[i])]
  OBVIOUS
<1>9. DOMAIN asks = D /\ \A i \in D : asks[i] = Ask("subscribe", order[i])
  BY <1>3, <1>8
<1>10. \A i \in D : asks[i] \in Message
  BY <1>2, <1>3, <1>9, MessageType
<1>11. asks \in Seq(Message)
  <2>1. asks = [i \in D |-> Ask("subscribe", order[i])]
    BY <1>3, <1>8
  <2>2. asks \in [1 .. Cardinality(wanted) -> Message]
    BY <1>9, <1>10, <2>1
  <2> QED BY <1>2, <2>2
<1>12. up' = [up EXCEPT ![c] = asks]
  BY <1>1, <1>8
<1>13. UpType' /\ up'[c] = asks
  BY <1>11, <1>12 DEF UpType, TypeOK
<1>14. \A i \in D : asks[i].kind = "subscribe" /\ asks[i].chunk \in wanted
  BY <1>3, <1>9 DEF Ask
<1> QED BY <1>7, <1>9, <1>13, <1>14

(* Losing a connection and opening the next keep the types.                 *)
LEMMA ReopenType ==
  ASSUME TypeOK, Lose \/ \E c \in Conns : Reconnect(c)
  PROVE  TypeOK'
<1>1. CASE Lose
  <2>1. open' \in BOOLEAN /\ unanswered' \in BOOLEAN
    BY <1>1 DEF Lose, TypeOK
  <2> QED BY <1>1, <2>1 DEF Lose, TypeOK, server, sending, hub, locals, frames
<1>2. ASSUME NEW c \in Conns, Reconnect(c)
      PROVE  TypeOK'
  <2>1. UpType'
    BY <1>2, ReconnectAsks
  <2>2. GoroutinesType'
    <3>1. Goto(c, "register") /\ pc[c] = "none" /\ UNCHANGED <<delta, packed>>
      BY <1>2 DEF Reconnect, Unused, locals
    <3>2. c \in Actors /\ "register" \in Label
      BY DEF Actors, Label
    <3> QED BY <3>1, <3>2, GotoType
  <2>3. queue' \in Seq(Frame) /\ Len(queue') <= Capacity
    BY <1>2, DeliveryAssumption DEF Reconnect
  <2>4. newest' \in [Chunks -> 0 .. MaxCommits] /\ disturbed' \in [Chunks -> SUBSET Trouble]
    BY <1>2, DeliveryAssumption DEF Reconnect
  <2>5. conn' \in Conns /\ open' \in BOOLEAN /\ meddled' \subseteq Chunks
    BY <1>2 DEF Reconnect
  <2> QED BY <1>2, <2>1, <2>2, <2>3, <2>4, <2>5
          DEF Reconnect, TypeOK, GoroutinesType, UpType, server, locals
<1> QED BY <1>1, <1>2

(* Every step keeps the types of the variables.                             *)
LEMMA TypeNext ==
  ASSUME TypeOK, \A k \in Chunks : version[k] <= commits, [Next]_vars
  PROVE  TypeOK'
<1>1. ASSUME NEW p \in Players, NEW cells \in Moves, PlayerPlaces(p, cells)
      PROVE  TypeOK'
  BY <1>1, PlayerPlacesType
<1>2. ASSUME NEW a \in Actors, Handling(a)
      PROVE  TypeOK'
  BY <1>2, CollectType, OfferType DEF Handling
<1>3. ASSUME NEW c \in Conns, Serving(c) \/ Fail(c)
      PROVE  TypeOK'
  BY <1>3, ConnectionType, ReadingType, ServingType DEF Serving
<1>4. CASE (\E k \in Chunks : Show(k) \/ Hide(k)) \/ Click
  BY <1>4, PageType
<1>5. CASE Receive
  BY <1>5, ReceiveType
<1>6. CASE Lose \/ \E c \in Conns : Reconnect(c)
  BY <1>6, ReopenType
<1>7. CASE UNCHANGED vars
  BY <1>7 DEF vars, server, sending, hub, locals, client, frames, TypeOK
<1> QED BY <1>1, <1>2, <1>3, <1>4, <1>5, <1>6, <1>7 DEF Next

-----------------------------------------------------------------------------
(* Who does what                                                             *)

(* A step of the goroutine of connection c keeps the order of all of them   *)
(* if it keeps that of c and registers no other connection.                 *)
LEMMA ControlMove ==
  ASSUME TypeOK, ControlOK, NEW c \in Conns, NEW label, Goto(c, label),
         \A d \in Conns \ {c} : todo'[d] = todo[d] /\ packed'[d] = packed[d],
         packed'[c] # Nothing => packed'[c].chunk \in todo'[c],
         label = "pack" => \A j, k \in todo'[c] : j = k,
         registered' \in {registered, Nothing, c},
         label = "none" => FALSE,
         label = "register" => pc[c] = "none" /\ registered' = registered
  PROVE  ControlOK'
<1>1. c \in Actors /\ Conns \subseteq Actors /\ Players \subseteq Actors /\ c \notin Players
  BY DeliveryAssumption DEF Actors
<1>2. pc'[c] = label /\ \A a \in Actors \ {c} : pc'[a] = pc[a]
  BY <1>1 DEF Goto, TypeOK
<1>3. \A a \in Players : pc'[a] \in {"ready", "collect", "offer"}
  BY <1>1, <1>2 DEF ControlOK
<1>4. \A d \in Conns : packed'[d] # Nothing => packed'[d].chunk \in todo'[d]
  BY DEF ControlOK
<1>5. \A d \in Conns : pc'[d] = "pack" => \A j, k \in todo'[d] : j = k
  BY <1>1, <1>2 DEF ControlOK
<1>6. ASSUME NEW d \in Conns, pc'[d] \in {"none", "register"}
      PROVE  registered' # d
  <2>1. CASE d = c
    BY <1>2, <1>6, <2>1 DEF ControlOK
  <2>2. CASE d # c
    BY <1>1, <1>2, <1>6, <2>2, DeliveryAssumption DEF ControlOK
  <2> QED BY <2>1, <2>2
<1> QED BY <1>3, <1>4, <1>5, <1>6 DEF ControlOK

(* The steps of placing and offering.                                       *)
LEMMA ControlOffer ==
  ASSUME TypeOK, ControlOK, NEW a \in Actors, NEW label \in Label,
         Goto(a, label), pc[a] \in {"ready", "collect", "offer"},
         label \notin {"pack", "none", "register"},
         a \in Players => label \in {"ready", "collect", "offer"},
         UNCHANGED <<registered, todo, packed>>
  PROVE  ControlOK'
<1>1. Conns \subseteq Actors /\ Players \subseteq Actors
  BY DEF Actors
<1>2. pc'[a] = label /\ \A b \in Actors \ {a} : pc'[b] = pc[b]
  BY DEF Goto, TypeOK
<1> QED BY <1>1, <1>2 DEF ControlOK

(* A goroutine sends the chunk it was asked for, or all it took after an    *)
(* ack, and is registered before anything else.                             *)
LEMMA ControlServing ==
  ASSUME TypeOK, ControlOK, NEW c \in Conns, Serving(c) \/ Fail(c)
  PROVE  ControlOK'
<1>1. pc[c] \notin {"pack", "repack"} => packed[c] = Nothing
  BY DEF TypeOK
<1>2. todo \in [Conns -> SUBSET Chunks] /\ packed \in [Conns -> Snapshots \cup {Nothing}]
  BY DEF TypeOK
<1>3. CASE Register(c)
  <2>1. Goto(c, "welcome") /\ registered' = c /\ UNCHANGED <<todo, packed>> /\ packed[c] = Nothing
    BY <1>1, <1>3 DEF Register, locals
  <2> QED BY <2>1, ControlMove
<1>4. CASE Welcome(c)
  <2>1. UNCHANGED <<registered, todo, packed>> /\ packed[c] = Nothing
    BY <1>1, <1>4 DEF Welcome, locals, hub
  <2>2. PICK label \in {"abandoned", "ready"} : Goto(c, label)
    BY <1>4 DEF Welcome
  <2> QED BY <2>1, <2>2, ControlMove
<1>5. CASE ReadSubscribe(c)
  <2>1. UNCHANGED <<registered, packed>> /\ packed[c] = Nothing
    BY <1>1, <1>5 DEF ReadSubscribe, hub, Hears
  <2>2. CASE registered = Nothing
    BY <1>5, <2>2 DEF ReadSubscribe, hub, ControlOK
  <2>3. CASE registered # Nothing
    <3>1. Goto(c, "pack") /\ todo' = [todo EXCEPT ![c] = {Head(up[c]).chunk}]
      BY <1>5, <2>3 DEF ReadSubscribe
    <3>2. todo'[c] = {Head(up[c]).chunk} /\ \A d \in Conns \ {c} : todo'[d] = todo[d]
      BY <1>2, <3>1
    <3> QED BY <2>1, <3>1, <3>2, ControlMove
  <2> QED BY <2>2, <2>3
<1>6. CASE ReadUnsubscribe(c)
  BY <1>6 DEF ReadUnsubscribe, sending, locals, ControlOK
<1>7. CASE ReadPlace(c)
  <2>1. Goto(c, "collect") /\ UNCHANGED <<registered, todo, packed>> /\ packed[c] = Nothing
    BY <1>1, <1>7 DEF ReadPlace, Place, Hears, hub, locals
  <2> QED BY <2>1, ControlMove
<1>8. CASE RefusePlace(c)
  <2>1. UNCHANGED <<registered, todo, packed>> /\ packed[c] = Nothing
    BY <1>1, <1>8 DEF RefusePlace, Hears, hub, locals
  <2>2. CASE pc' = pc
    BY <2>1, <2>2 DEF ControlOK
  <2>3. CASE Goto(c, "ack")
    BY <2>1, <2>3, ControlMove
  <2> QED BY <1>8, <2>2, <2>3 DEF RefusePlace
<1>9. CASE SendAck(c)
  <2>1. Goto(c, "take") /\ UNCHANGED <<registered, todo, packed>> /\ packed[c] = Nothing
    BY <1>1, <1>9 DEF SendAck, hub, locals
  <2> QED BY <2>1, ControlMove
<1>10. CASE QueueSnapshot(c)
  <2>1. /\ packed' = [packed EXCEPT ![c] = Nothing] /\ UNCHANGED registered
        /\ todo' = [todo EXCEPT ![c] = todo[c] \ {packed[c].chunk}]
    BY <1>10 DEF QueueSnapshot, hub
  <2>2. packed'[c] = Nothing /\ \A d \in Conns \ {c} : todo'[d] = todo[d] /\ packed'[d] = packed[d]
    BY <1>2, <2>1
  <2>3. PICK label \in {"take", "ready", "repack"} : Goto(c, label)
    BY <1>10 DEF QueueSnapshot
  <2> QED BY <2>1, <2>2, <2>3, ControlMove
<1>11. CASE TakeChunks(c)
  <2>1. UNCHANGED <<registered, packed>> /\ packed[c] = Nothing
        /\ todo' = [todo EXCEPT ![c] = subs]
    BY <1>1, <1>11 DEF TakeChunks, hub
  <2>2. PICK label \in {"ready", "flag"} : Goto(c, label)
    BY <1>11 DEF TakeChunks
  <2>3. \A d \in Conns \ {c} : todo'[d] = todo[d]
    BY <1>2, <2>1
  <2> QED BY <2>1, <2>2, <2>3, ControlMove
<1>12. CASE TakeFlag(c)
  <2>1. UNCHANGED <<registered, packed>> /\ packed[c] = Nothing
    BY <1>1, <1>12 DEF TakeFlag
  <2>2. PICK label \in {"ready", "repack"} : Goto(c, label)
    BY <1>12 DEF TakeFlag
  <2>3. \A d \in Conns \ {c} : todo'[d] = todo[d]
    BY <1>2, <1>12 DEF TakeFlag
  <2> QED BY <2>1, <2>2, <2>3, ControlMove
<1>13. ASSUME NEW k \in Chunks, PackChunk(c, k)
       PROVE  ControlOK'
  <2>1. PICK cells : cells = [q \in CellsOf(k) |-> board[q]]
    OBVIOUS
  <2>2. /\ packed' = [packed EXCEPT ![c] = Snapshot(k, cells, version[k])]
        /\ k \in todo[c] /\ UNCHANGED <<pc, registered, todo>>
    BY <1>13, <2>1 DEF PackChunk, sending, hub
  <2>3. packed'[c].chunk = k /\ \A d \in Conns \ {c} : packed'[d] = packed[d]
    BY <1>2, <2>2 DEF Snapshot
  <2>4. \A d \in Conns : packed'[d] # Nothing => packed'[d].chunk \in todo'[d]
    BY <2>2, <2>3 DEF ControlOK
  <2> QED BY <2>2, <2>4 DEF ControlOK
<1>14. CASE SendPanics(c)
  <2>1. Goto(c, "closing") /\ UNCHANGED registered /\ packed' = [packed EXCEPT ![c] = Nothing]
        /\ todo' = [todo EXCEPT ![c] = {}]
    BY <1>14 DEF SendPanics, hub
  <2>2. packed'[c] = Nothing /\ \A d \in Conns \ {c} : todo'[d] = todo[d] /\ packed'[d] = packed[d]
    BY <1>2, <2>1
  <2> QED BY <2>1, <2>2, ControlMove
<1>15. CASE RemoveSession(c)
  <2>1. Goto(c, "gone") /\ registered' = Nothing /\ UNCHANGED <<todo, packed>>
        /\ packed[c] = Nothing
    BY <1>1, <1>15 DEF RemoveSession, locals
  <2> QED BY <2>1, ControlMove
<1>16. CASE Fail(c)
  <2>1. Goto(c, "closing") /\ UNCHANGED <<registered, todo, packed>> /\ packed[c] = Nothing
    BY <1>1, <1>16 DEF Fail, hub, locals
  <2> QED BY <2>1, ControlMove
<1> QED BY <1>3, <1>4, <1>5, <1>6, <1>7, <1>8, <1>9, <1>10, <1>11, <1>12, <1>13, <1>14, <1>15,
           <1>16 DEF Serving

(* Every step keeps that order.                                             *)
LEMMA ControlNext ==
  ASSUME TypeOK, ControlOK, [Next]_vars
  PROVE  ControlOK'
<1>1. ASSUME NEW p \in Players, NEW cells \in Moves, PlayerPlaces(p, cells)
      PROVE  ControlOK'
  <2>1. Goto(p, "collect") /\ pc[p] = "ready" /\ p \in Actors /\ "collect" \in Label
        /\ UNCHANGED <<registered, todo, packed>>
    BY <1>1 DEF PlayerPlaces, Place, hub, locals, Actors, Label
  <2> QED BY <2>1, ControlOffer
<1>2. ASSUME NEW a \in Actors, Handling(a)
      PROVE  ControlOK'
  <2>1. PICK label \in {"offer", AfterOffer(a), AfterPanic(a)} : Goto(a, label)
    BY <1>2 DEF Handling, Collect, OfferDelta, BroadcastPanics, OffersRest
  <2>2. pc[a] \in {"ready", "collect", "offer"} /\ UNCHANGED <<registered, todo, packed>>
    BY <1>2 DEF Handling, Collect, OfferDelta, BroadcastPanics, hub, locals
  <2>3. label \in Label \ {"pack", "none", "register"}
        /\ (a \in Players => label \in {"ready", "offer"})
    BY <2>1, DeliveryAssumption DEF AfterOffer, AfterPanic, Label
  <2> QED BY <2>1, <2>2, <2>3, ControlOffer
<1>3. ASSUME NEW c \in Conns, Serving(c) \/ Fail(c)
      PROVE  ControlOK'
  BY <1>3, ControlServing
<1>4. ASSUME NEW k \in Chunks, Show(k) \/ Hide(k)
      PROVE  ControlOK'
  BY <1>4 DEF Show, Hide, sending, hub, locals, ControlOK
<1>5. CASE Click \/ Receive \/ Lose
  BY <1>5 DEF Click, Receive, Lose, sending, hub, locals, ControlOK
<1>6. ASSUME NEW c \in Conns, Reconnect(c)
      PROVE  ControlOK'
  <2>1. Goto(c, "register") /\ pc[c] = "none" /\ UNCHANGED <<registered, todo, packed>>
    BY <1>6 DEF Reconnect, Unused, locals
  <2>2. packed[c] = Nothing
    BY <2>1 DEF TypeOK
  <2> QED BY <2>1, <2>2, ControlMove
<1>7. CASE UNCHANGED vars
  BY <1>7 DEF vars, sending, hub, locals, ControlOK
<1> QED BY <1>1, <1>2, <1>3, <1>4, <1>5, <1>6, <1>7 DEF Next

-----------------------------------------------------------------------------
(* The page's client                                                         *)

(* Where the page's goroutine is when it goes on.                           *)
LEMMA GotoPage ==
  ASSUME TypeOK, NEW a \in Actors, NEW label, Goto(a, label), conn' = conn
  PROVE  pc'[conn'] = IF a = conn THEN label ELSE pc[conn]
BY DEF Goto, TypeOK, Actors

(* A page is served only while it was, unless it opens a new connection.    *)
LEMMA ServedBefore ==
  ASSUME TypeOK, Next, Served', \A c \in Conns : ~Reconnect(c)
  PROVE  Served /\ conn' = conn
<1>1. conn' = conn /\ (open' => open)
  <2>1. ASSUME NEW p \in Players, NEW cells \in Moves, PlayerPlaces(p, cells)
        PROVE  UNCHANGED <<conn, open>>
    BY <2>1 DEF PlayerPlaces, client
  <2>2. ASSUME NEW a \in Actors, Handling(a)
        PROVE  UNCHANGED <<conn, open>>
    BY <2>2 DEF Handling, Collect, OfferDelta, BroadcastPanics, client
  <2>3. ASSUME NEW c \in Conns, Serving(c) \/ Fail(c)
        PROVE  UNCHANGED <<conn, open>>
    <3>1. CASE Register(c) \/ Welcome(c) \/ ReadSubscribe(c) \/ ReadUnsubscribe(c)
               \/ ReadPlace(c) \/ RefusePlace(c)
      BY <3>1 DEF Register, Welcome, ReadSubscribe, ReadUnsubscribe, ReadPlace, RefusePlace, client
    <3>2. CASE ~(Register(c) \/ Welcome(c) \/ ReadSubscribe(c) \/ ReadUnsubscribe(c)
                 \/ ReadPlace(c) \/ RefusePlace(c))
      BY <2>3, <3>2 DEF Serving, SendAck, QueueSnapshot, TakeChunks, TakeFlag, PackChunk,
                        SendPanics, RemoveSession, Fail, client
    <3> QED BY <3>1, <3>2
  <2>4. ASSUME NEW k \in Chunks, Show(k) \/ Hide(k)
        PROVE  UNCHANGED <<conn, open>>
    BY <2>4 DEF Show, Hide
  <2>5. CASE Click \/ Receive \/ Lose
    BY <2>5 DEF Click, Receive, Lose
  <2> QED BY <2>1, <2>2, <2>3, <2>4, <2>5 DEF Next
<1>2. pc[conn] \in {"closing", "gone", "abandoned"} =>
        pc'[conn] \in {"closing", "gone", "abandoned"}
  <2> SUFFICES ASSUME pc[conn] \in {"closing", "gone", "abandoned"}
               PROVE  pc'[conn] \in {"closing", "gone", "abandoned"}
    OBVIOUS
  <2>1. conn \in Actors /\ packed[conn] = Nothing /\ Conns \subseteq Actors
        /\ Players \subseteq Actors
    BY DEF TypeOK, Actors
  <2>2. \A a, label : Goto(a, label) /\ pc[a] \notin {"closing", "gone", "abandoned"} =>
          pc'[conn] = pc[conn]
    BY DEF Goto, TypeOK
  <2>3. \A a, label : Goto(a, label) /\ label \in {"closing", "gone", "abandoned"} =>
          pc'[conn] \in {"closing", "gone", "abandoned"}
    BY <2>1 DEF Goto, TypeOK
  <2>4. ASSUME NEW p \in Players, NEW cells \in Moves, PlayerPlaces(p, cells)
        PROVE  pc'[conn] = pc[conn]
    BY <2>2, <2>4 DEF PlayerPlaces, Place
  <2>5. ASSUME NEW a \in Actors, Handling(a)
        PROVE  pc'[conn] = pc[conn]
    BY <2>2, <2>5 DEF Handling, Collect, OfferDelta, BroadcastPanics, OffersRest
  <2>6. ASSUME NEW c \in Conns, Serving(c) \/ Fail(c)
        PROVE  pc'[conn] \in {"closing", "gone", "abandoned"}
    <3>1. CASE Register(c) \/ Welcome(c) \/ ReadSubscribe(c) \/ ReadUnsubscribe(c)
               \/ ReadPlace(c) \/ RefusePlace(c)
      BY <2>2, <3>1 DEF Register, Welcome, ReadSubscribe, ReadUnsubscribe, ReadPlace, RefusePlace,
                        Hears, Place, sending
    <3>2. CASE SendAck(c) \/ TakeChunks(c) \/ TakeFlag(c) \/ \E k \in Chunks : PackChunk(c, k)
      BY <2>2, <3>2 DEF SendAck, TakeChunks, TakeFlag, PackChunk, sending
    <3>3. CASE QueueSnapshot(c)
      <4>1. pc[c] \in {"pack", "repack"}
        BY <3>3 DEF QueueSnapshot, TypeOK
      <4> QED BY <2>2, <3>3, <4>1 DEF QueueSnapshot
    <3>4. CASE SendPanics(c) \/ RemoveSession(c) \/ Fail(c)
      BY <2>3, <3>4 DEF SendPanics, RemoveSession, Fail
    <3> QED BY <2>6, <3>1, <3>2, <3>3, <3>4 DEF Serving
  <2>7. ASSUME NEW k \in Chunks, Show(k) \/ Hide(k)
        PROVE  pc' = pc
    BY <2>7 DEF Show, Hide, sending
  <2>8. CASE Click \/ Receive \/ Lose
    BY <2>8 DEF Click, Receive, Lose, sending
  <2> QED BY <2>4, <2>5, <2>6, <2>7, <2>8 DEF Next
<1> QED BY <1>1, <1>2 DEF Served

(* What keeps the page's client as it was: nobody registers, and only what  *)
(* another connection did to it adds to its subscriptions.                  *)
LEMMA ClientKept ==
  ASSUME ClientOK, Served' => Served, conn' = conn, registered' = registered,
         \/ pc'[conn] = pc[conn]
         \/ pc[conn] # "register" /\ pc'[conn] # "flag",
         meddled' = meddled \/ registered = conn \/ meddled' = Chunks,
         registered = conn /\ pc'[conn] = "flag" =>
           /\ taken'[conn] = taken[conn] /\ todo'[conn] = todo[conn]
           /\ subs' \ meddled' \subseteq subs \ meddled
  PROVE  ClientOK'
<1>1. ASSUME Served', registered' # conn'
      PROVE  pc'[conn'] = "register" \/ meddled' = Chunks
  BY <1>1 DEF ClientOK
<1>2. ASSUME registered' = conn', pc'[conn'] = "flag"
      PROVE  taken'[conn'] = conn' /\ subs' \ meddled' \subseteq todo'[conn']
  BY <1>2 DEF ClientOK
<1> QED BY <1>1, <1>2 DEF ClientOK

(* A step that replaces the client by another one, or takes it out, spoils  *)
(* what the page has of it, unless it is the page's own.                    *)
LEMMA ClientReplaced ==
  ASSUME TypeOK, ClientOK, NEW c \in Conns, Register(c) \/ RemoveSession(c)
  PROVE  ClientOK'
<1>1. /\ conn' = conn /\ open' = open /\ Meddle(c, Chunks) /\ registered' \in {c, Nothing}
      /\ meddled \subseteq Chunks /\ conn \in Conns /\ Conns \subseteq Actors
  BY DEF Register, RemoveSession, client, TypeOK, Actors
<1>2. CASE c # conn
  <2>1. registered' # conn'
    BY <1>1, <1>2, DeliveryAssumption
  <2>2. pc'[conn] = pc[conn]
    BY <1>1, <1>2 DEF Register, RemoveSession, Goto, TypeOK
  <2>3. CASE registered = conn
    <3>1. meddled' = Chunks
      BY <1>1, <1>2, <2>3 DEF Meddle
    <3> QED BY <2>1, <3>1 DEF ClientOK
  <2>4. CASE registered # conn
    <3>1. meddled' = meddled
      BY <1>1, <2>4 DEF Meddle
    <3>2. Served' => Served
      BY <1>1, <2>2 DEF Served
    <3> QED BY <1>1, <2>1, <2>2, <2>4, <3>1, <3>2 DEF ClientOK
  <2> QED BY <2>3, <2>4
<1>3. CASE Register(c) /\ c = conn
  <2>1. pc'[conn'] = "welcome" /\ registered' = conn'
    BY <1>1, <1>3 DEF Register, Goto, TypeOK
  <2> QED BY <2>1 DEF ClientOK
<1>4. CASE RemoveSession(c) /\ c = conn
  <2>1. pc'[conn'] = "gone" /\ registered' # conn'
    BY <1>1, <1>4, DeliveryAssumption DEF RemoveSession, Goto, TypeOK
  <2> QED BY <2>1 DEF ClientOK, Served
<1> QED BY <1>2, <1>3, <1>4

(* So does every other step of a goroutine.                                 *)
LEMMA ClientServing ==
  ASSUME TypeOK, ClientOK, NEW c \in Conns, Serving(c) \/ Fail(c), Served' => Served
  PROVE  ClientOK'
<1>1. /\ conn \in Conns /\ Conns \subseteq Actors /\ conn' = conn
      /\ subs \subseteq Chunks /\ meddled \subseteq Chunks
  <2>1. conn' = conn
    <3>1. CASE Register(c) \/ Welcome(c) \/ ReadSubscribe(c) \/ ReadUnsubscribe(c)
               \/ ReadPlace(c) \/ RefusePlace(c)
      BY <3>1 DEF Register, Welcome, ReadSubscribe, ReadUnsubscribe, ReadPlace, RefusePlace, client
    <3>2. CASE ~(Register(c) \/ Welcome(c) \/ ReadSubscribe(c) \/ ReadUnsubscribe(c)
                 \/ ReadPlace(c) \/ RefusePlace(c))
      BY <3>2 DEF Serving, SendAck, QueueSnapshot, TakeChunks, TakeFlag, PackChunk,
                        SendPanics, RemoveSession, Fail, client
    <3> QED BY <3>1, <3>2
  <2> QED BY <2>1 DEF TypeOK, Actors
<1>2. \A label : Goto(c, label) => pc'[conn] = IF c = conn THEN label ELSE pc[conn]
  BY <1>1 DEF Goto, TypeOK
<1>3. CASE Register(c) \/ RemoveSession(c)
  BY <1>3, ClientReplaced
<1>4. CASE Welcome(c) \/ RefusePlace(c) \/ SendAck(c) \/ ReadPlace(c) \/ Fail(c)
  <2>1. UNCHANGED <<registered, subs, meddled, taken, todo>>
    BY <1>4 DEF Welcome, RefusePlace, SendAck, ReadPlace, Fail, hub, locals
  <2>2. \/ pc' = pc
        \/ pc[c] # "register" /\ \E label : label # "flag" /\ Goto(c, label)
    BY <1>4 DEF Welcome, RefusePlace, SendAck, ReadPlace, Fail, Place, Hears
  <2>3. \/ pc'[conn] = pc[conn]
        \/ pc[conn] # "register" /\ pc'[conn] # "flag"
    BY <1>2, <2>2
  <2> QED BY <1>1, <2>1, <2>3, ClientKept
<1>5. CASE ReadSubscribe(c)
  <2>1. registered' = registered /\ pc[c] = "ready"
    BY <1>5 DEF ReadSubscribe, hub, Hears
  <2>2. CASE registered = Nothing
    <3>1. UNCHANGED <<subs, meddled, taken, todo, pc>>
      BY <1>5, <2>2 DEF ReadSubscribe, hub
    <3> QED BY <1>1, <2>1, <3>1, ClientKept
  <2>3. CASE registered # Nothing
    <3>1. PICK k : k = Head(up[c]).chunk
      OBVIOUS
    <3>2. /\ subs' = subs \cup {k} /\ Meddle(c, {k}) /\ todo' = [todo EXCEPT ![c] = {k}]
          /\ Goto(c, "pack") /\ UNCHANGED taken
      BY <1>5, <2>3, <3>1 DEF ReadSubscribe
    <3>3. pc'[conn] = IF c = conn THEN "pack" ELSE pc[conn]
      BY <1>2, <3>2
    <3>4. meddled' = meddled \/ registered = conn
      BY <3>2 DEF Meddle
    <3>5. ASSUME registered = conn, pc'[conn] = "flag"
          PROVE  /\ taken'[conn] = taken[conn] /\ todo'[conn] = todo[conn]
                 /\ subs' \ meddled' \subseteq subs \ meddled
      <4>1. c # conn
        BY <3>3, <3>5
      <4>2. meddled' = meddled \cup {k}
        BY <3>2, <3>5, <4>1 DEF Meddle
      <4>3. todo'[conn] = todo[conn]
        BY <1>1, <3>2, <4>1 DEF TypeOK
      <4> QED BY <3>2, <4>2, <4>3
    <3> QED BY <1>1, <2>1, <3>3, <3>4, <3>5, ClientKept
  <2> QED BY <2>2, <2>3
<1>6. CASE ReadUnsubscribe(c)
  <2>1. PICK k : k = Head(up[c]).chunk
    OBVIOUS
  <2>2. /\ subs' = subs \ {k} /\ Meddle(c, {k}) /\ UNCHANGED <<registered, taken, todo, pc>>
        /\ pc[c] = "ready"
    BY <1>6, <2>1 DEF ReadUnsubscribe, sending, locals, Hears
  <2>3. meddled' = meddled \/ registered = conn
    BY <2>2 DEF Meddle
  <2>4. subs' \ meddled' \subseteq subs \ meddled
    BY <2>2 DEF Meddle
  <2> QED BY <1>1, <2>2, <2>3, <2>4, ClientKept
<1>7. CASE QueueSnapshot(c) \/ SendPanics(c) \/ \E k \in Chunks : PackChunk(c, k)
  <2>1. UNCHANGED <<registered, subs, meddled, taken>>
    BY <1>7 DEF QueueSnapshot, SendPanics, PackChunk, hub
  <2>2. pc[c] \notin {"register", "flag"}
    BY <1>7 DEF QueueSnapshot, SendPanics, PackChunk, TypeOK
  <2>3. pc' = pc \/ \E label : label # "flag" /\ Goto(c, label)
    BY <1>7 DEF QueueSnapshot, SendPanics, PackChunk, sending
  <2>4. \/ pc'[conn] = pc[conn]
        \/ pc[conn] # "register" /\ pc'[conn] # "flag"
    BY <1>2, <2>2, <2>3
  <2>5. pc'[conn] = "flag" => c # conn
    BY <1>2, <2>2, <2>3
  <2>6. \A d \in Conns \ {c} : todo'[d] = todo[d]
    BY <1>7 DEF QueueSnapshot, SendPanics, PackChunk, TypeOK
  <2> QED BY <1>1, <2>1, <2>4, <2>5, <2>6, ClientKept
<1>8. CASE TakeChunks(c)
  <2>1. /\ UNCHANGED <<registered, subs, meddled>> /\ pc[c] = "take"
        /\ taken' = [taken EXCEPT ![c] = registered] /\ todo' = [todo EXCEPT ![c] = subs]
        /\ Goto(c, IF registered = Nothing THEN "ready" ELSE "flag")
    BY <1>8 DEF TakeChunks, hub
  <2>2. CASE c = conn
    <3>1. taken'[conn] = registered /\ todo'[conn] = subs /\ pc'[conn] # "register"
      BY <1>1, <1>2, <2>1, <2>2 DEF TypeOK
    <3>2. ASSUME Served', registered' # conn'
          PROVE  meddled' = Chunks
      BY <1>1, <2>1, <2>2, <3>2 DEF ClientOK
    <3>3. registered' = conn' => taken'[conn'] = conn' /\ subs' \ meddled' \subseteq todo'[conn']
      BY <1>1, <2>1, <3>1
    <3> QED BY <3>2, <3>3 DEF ClientOK
  <2>3. CASE c # conn
    <3>1. taken'[conn] = taken[conn] /\ todo'[conn] = todo[conn] /\ pc'[conn] = pc[conn]
      BY <1>1, <1>2, <2>1, <2>3 DEF TypeOK
    <3> QED BY <1>1, <2>1, <3>1, ClientKept
  <2> QED BY <2>2, <2>3
<1>9. CASE TakeFlag(c)
  <2>1. /\ UNCHANGED <<registered, subs>> /\ pc[c] = "flag"
        /\ meddled' \in {meddled, Chunks}
        /\ taken' = [taken EXCEPT ![c] = Nothing]
        /\ \A d \in Conns \ {c} : todo'[d] = todo[d]
        /\ \E label : label # "flag" /\ Goto(c, label)
    BY <1>9 DEF TakeFlag, TypeOK
  <2>2. \/ pc'[conn] = pc[conn]
        \/ pc[conn] # "register" /\ pc'[conn] # "flag"
    BY <1>2, <2>1
  <2>3. pc'[conn] = "flag" => c # conn
    BY <1>2, <2>1
  <2>4. c # conn => taken'[conn] = taken[conn] /\ todo'[conn] = todo[conn]
    BY <1>1, <2>1 DEF TypeOK
  <2> QED BY <1>1, <2>1, <2>2, <2>3, <2>4, ClientKept
<1> QED BY <1>3, <1>4, <1>5, <1>6, <1>7, <1>8, <1>9 DEF Serving

(* Every step keeps the page's client.                                      *)
LEMMA ClientNext ==
  ASSUME TypeOK, ControlOK, ClientOK, [Next]_vars
  PROVE  ClientOK'
<1>1. CASE UNCHANGED vars
  BY <1>1 DEF vars, sending, hub, locals, client, ClientOK, Served
<1>2. ASSUME NEW c \in Conns, Reconnect(c)
      PROVE  ClientOK'
  <2>1. conn' = c /\ pc[c] = "none" /\ Goto(c, "register") /\ registered' = registered
    BY <1>2 DEF Reconnect, Unused
  <2>2. registered' # conn' /\ pc'[conn'] = "register"
    BY <2>1 DEF ControlOK, Goto, TypeOK, Actors
  <2> QED BY <2>2 DEF ClientOK
<1>3. ASSUME Next, \A c \in Conns : ~Reconnect(c)
      PROVE  ClientOK'
  <2>1. Served' => Served
    BY <1>3, ServedBefore
  <2>2. ASSUME NEW c \in Conns, Serving(c) \/ Fail(c)
        PROVE  ClientOK'
    BY <2>1, <2>2, ClientServing
  <2>3. CASE UNCHANGED <<hub, locals, conn>> /\ pc' = pc
    BY <2>1, <2>3, ClientKept DEF hub, locals
  <2>4. ASSUME NEW a \in Actors, NEW label, label # "flag", Goto(a, label), pc[a] # "register",
               UNCHANGED <<hub, locals, conn>>
        PROVE  ClientOK'
    <3>1. pc'[conn] = pc[conn] \/ (pc[conn] # "register" /\ pc'[conn] # "flag")
      BY <2>4, GotoPage
    <3> QED BY <2>1, <2>4, <3>1, ClientKept DEF hub, locals
  <2>5. ASSUME NEW p \in Players, NEW cells \in Moves, PlayerPlaces(p, cells)
        PROVE  ClientOK'
    BY <2>4, <2>5 DEF PlayerPlaces, Place, client, Actors
  <2>6. ASSUME NEW a \in Actors, Handling(a)
        PROVE  ClientOK'
    <3>1. PICK label \in {"offer", AfterOffer(a), AfterPanic(a)} : Goto(a, label)
      BY <2>6 DEF Handling, Collect, OfferDelta, BroadcastPanics, OffersRest
    <3>2. pc[a] # "register" /\ UNCHANGED <<hub, locals, conn>>
      BY <2>6 DEF Handling, Collect, OfferDelta, BroadcastPanics, client
    <3>3. label # "flag"
      BY <3>1 DEF AfterOffer, AfterPanic
    <3> QED BY <2>4, <3>1, <3>2, <3>3
  <2>7. ASSUME NEW k \in Chunks, Show(k) \/ Hide(k)
        PROVE  ClientOK'
    BY <2>3, <2>7 DEF Show, Hide, sending
  <2>8. CASE Click \/ Receive \/ Lose
    BY <2>3, <2>8 DEF Click, Receive, Lose, sending
  <2> QED BY <1>3, <2>2, <2>5, <2>6, <2>7, <2>8 DEF Next
<1> QED BY <1>1, <1>2, <1>3

-----------------------------------------------------------------------------
(* Versions                                                                  *)

(* Frames that go away change nothing for the others.                       *)
LEMMA VersionsKept ==
  ASSUME VersionsOK, UNCHANGED server, \A c \in Conns : packed'[c] \in {packed[c], Nothing},
         \A a \in Actors : delta'[a] \in {delta[a], Nothing}
  PROVE  VersionsOK'
<1>1. \A k \in Chunks : version'[k] <= commits'
  BY DEF VersionsOK, server
<1>2. \A c \in Conns : packed'[c] # Nothing => packed'[c].ver <= version'[packed'[c].chunk]
  BY DEF VersionsOK, server
<1>3. \A a \in Actors : delta'[a] # Nothing =>
        \A k \in DOMAIN delta'[a].ver : delta'[a].ver[k] <= version'[k]
  BY DEF VersionsOK, server
<1>4. \A a \in Actors, q \in Cells : Carries(a, q)' =>
        delta'[a].cells[q] = board'[q] \/ delta'[a].ver[ChunkOf[q]] < version'[ChunkOf[q]]
  BY DEF VersionsOK, Carries, server
<1> QED BY <1>1, <1>2, <1>3, <1>4 DEF VersionsOK

(* A delta has the colour the board has, until another placement writes     *)
(* the cell, which makes its version one of the past.                       *)
LEMMA VersionsPlace ==
  ASSUME TypeOK, VersionsOK, NEW a \in Actors, NEW cells \in Moves, Place(a, cells),
         UNCHANGED packed
  PROVE  VersionsOK'
<1>1. /\ \A k \in Chunks : version'[k] <= commits' /\ version[k] <= version'[k]
      /\ version' \in [Chunks -> 0 .. MaxCommits] /\ version \in [Chunks -> 0 .. MaxCommits]
      /\ \A k \in Touched(cells) : k \in Chunks /\ version'[k] = version[k] + 1
      /\ delta'[a] # Nothing /\ delta'[a].cells = [q \in cells |-> TeamOf[a]]
      /\ delta'[a].ver = [k \in Touched(cells) |-> version'[k]]
      /\ \A b \in Actors \ {a} : delta'[b] = delta[b]
      /\ cells \in SUBSET Cells
  <2>1. \A k \in Chunks : version[k] <= commits
    BY DEF VersionsOK
  <2>2. version \in [Chunks -> 0 .. MaxCommits]
    BY DEF TypeOK
  <2> QED BY <2>1, <2>2, PlaceType
<1>2. \A q \in Cells : board'[q] = IF q \in cells THEN TeamOf[a] ELSE board[q]
  BY DEF Place, Write
<1>3. \A q \in Cells : ChunkOf[q] \in Chunks /\ (q \in cells => ChunkOf[q] \in Touched(cells))
  BY <1>1, DeliveryAssumption DEF Touched
<1>4. ASSUME NEW c \in Conns, packed'[c] # Nothing
      PROVE  packed'[c].ver <= version'[packed'[c].chunk]
  <2>1. packed[c] \in Snapshots /\ packed'[c] = packed[c]
    BY <1>4 DEF TypeOK
  <2>2. packed[c].chunk \in Chunks /\ packed[c].ver \in 0 .. MaxCommits
        /\ packed[c].ver <= version[packed[c].chunk]
    BY <2>1, <1>4, SnapshotType DEF VersionsOK
  <2> QED BY <1>1, <2>1, <2>2
<1>5. ASSUME NEW b \in Actors, b # a, delta'[b] # Nothing
      PROVE  /\ delta'[b] = delta[b] /\ delta[b] \in Deltas
             /\ \A k \in DOMAIN delta[b].ver :
                  /\ k \in Chunks /\ delta[b].ver[k] \in 0 .. MaxCommits
                  /\ delta[b].ver[k] <= version[k]
             /\ \A q \in DOMAIN delta[b].cells :
                  /\ q \in Cells /\ ChunkOf[q] \in DOMAIN delta[b].ver
  <2>1. delta'[b] = delta[b] /\ delta[b] \in Deltas
    BY <1>1, <1>5 DEF TypeOK
  <2>2. /\ DOMAIN delta[b].cells \in SUBSET Cells
        /\ DOMAIN delta[b].ver = Touched(DOMAIN delta[b].cells)
        /\ delta[b].ver \in [DOMAIN delta[b].ver -> 0 .. MaxCommits]
    BY <2>1, DeltaType
  <2>3. \A q \in DOMAIN delta[b].cells : q \in Cells /\ ChunkOf[q] \in DOMAIN delta[b].ver
    BY <2>2 DEF Touched
  <2>4. \A k \in DOMAIN delta[b].ver : k \in Chunks
    BY <2>2, DeliveryAssumption DEF Touched
  <2>5. \A k \in DOMAIN delta[b].ver : delta[b].ver[k] <= version[k]
    BY <1>5, <2>1 DEF VersionsOK
  <2> QED BY <2>1, <2>2, <2>3, <2>4, <2>5
<1>6. ASSUME NEW b \in Actors, delta'[b] # Nothing, NEW k \in DOMAIN delta'[b].ver
      PROVE  delta'[b].ver[k] <= version'[k]
  <2>1. CASE b = a
    BY <2>1, <1>1, <1>6
  <2>2. CASE b # a
    <3>1. /\ k \in Chunks /\ delta'[b].ver[k] \in 0 .. MaxCommits
          /\ delta'[b].ver[k] <= version[k]
      BY <1>5, <1>6, <2>2
    <3> QED BY <1>1, <3>1
  <2> QED BY <2>1, <2>2
<1>7. ASSUME NEW b \in Actors, NEW q \in Cells, Carries(b, q)'
      PROVE  delta'[b].cells[q] = board'[q] \/ delta'[b].ver[ChunkOf[q]] < version'[ChunkOf[q]]
  <2>1. delta'[b] # Nothing /\ q \in DOMAIN delta'[b].cells
    BY <1>7 DEF Carries
  <2>2. CASE b = a
    BY <2>1, <2>2, <1>1, <1>2
  <2>3. CASE b # a
    <3>1. /\ delta'[b] = delta[b] /\ ChunkOf[q] \in Chunks
          /\ delta[b].ver[ChunkOf[q]] \in 0 .. MaxCommits
          /\ delta[b].ver[ChunkOf[q]] <= version[ChunkOf[q]]
      BY <1>3, <1>5, <2>1, <2>3
    <3>2. delta[b].cells[q] = board[q] \/ delta[b].ver[ChunkOf[q]] < version[ChunkOf[q]]
      BY <2>1, <3>1 DEF VersionsOK, Carries
    <3>3. q \in cells => delta[b].ver[ChunkOf[q]] < version'[ChunkOf[q]]
      BY <3>1, <1>1, <1>3
    <3>4. version[ChunkOf[q]] \in 0 .. MaxCommits /\ version'[ChunkOf[q]] \in 0 .. MaxCommits
          /\ version[ChunkOf[q]] <= version'[ChunkOf[q]]
      BY <1>1, <3>1
    <3>5. q \notin cells => board'[q] = board[q]
      BY <1>2
    <3> QED BY <3>1, <3>2, <3>3, <3>4, <3>5
  <2> QED BY <2>2, <2>3
<1> QED BY <1>1, <1>4, <1>6, <1>7 DEF VersionsOK

(* Every step keeps the versions in order.                                  *)
LEMMA VersionsNext ==
  ASSUME TypeOK, VersionsOK, [Next]_vars
  PROVE  VersionsOK'
<1>1. ASSUME NEW p \in Players, NEW cells \in Moves, PlayerPlaces(p, cells)
      PROVE  VersionsOK'
  BY <1>1, VersionsPlace DEF PlayerPlaces, Actors, locals
<1>2. ASSUME NEW a \in Actors, Handling(a)
      PROVE  VersionsOK'
  <2>1. \A b \in Actors : delta'[b] \in {delta[b], Nothing}
    BY <1>2 DEF Handling, Collect, OfferDelta, BroadcastPanics, OffersRest, TypeOK
  <2> QED BY <1>2, <2>1, VersionsKept
          DEF Handling, Collect, OfferDelta, BroadcastPanics, locals
<1>3. ASSUME NEW c \in Conns, Serving(c) \/ Fail(c)
      PROVE  VersionsOK'
  <2>1. CASE Register(c) \/ Welcome(c) \/ ReadSubscribe(c) \/ ReadUnsubscribe(c) \/ RefusePlace(c)
    BY <2>1, VersionsKept
       DEF Register, Welcome, ReadSubscribe, ReadUnsubscribe, RefusePlace, sending, locals
  <2>2. CASE ReadPlace(c)
    BY <2>2, VersionsPlace DEF ReadPlace, Actors, locals
  <2>3. CASE SendAck(c) \/ TakeChunks(c) \/ TakeFlag(c) \/ RemoveSession(c) \/ Fail(c)
    BY <2>3, VersionsKept DEF SendAck, TakeChunks, TakeFlag, RemoveSession, Fail, locals
  <2>4. CASE QueueSnapshot(c) \/ SendPanics(c)
    <3>1. \A d \in Conns : packed'[d] \in {packed[d], Nothing}
      BY <2>4 DEF QueueSnapshot, SendPanics, TypeOK
    <3> QED BY <2>4, <3>1, VersionsKept DEF QueueSnapshot, SendPanics
  <2>5. ASSUME NEW k \in Chunks, PackChunk(c, k)
        PROVE  VersionsOK'
    <3>1. PICK cells : cells = [q \in CellsOf(k) |-> board[q]]
      OBVIOUS
    <3>2. packed' = [packed EXCEPT ![c] = Snapshot(k, cells, version[k])]
          /\ UNCHANGED <<server, delta>>
      BY <2>5, <3>1 DEF PackChunk, sending
    <3>3. packed'[c].ver = version[k] /\ packed'[c].chunk = k /\ version[k] \in 0 .. MaxCommits
          /\ \A d \in Conns \ {c} : packed'[d] = packed[d]
      BY <3>2 DEF Snapshot, TypeOK
    <3>4. \A d \in Conns : packed'[d] # Nothing => packed'[d].ver <= version'[packed'[d].chunk]
      BY <3>2, <3>3 DEF VersionsOK, server
    <3> QED BY <3>2, <3>4 DEF VersionsOK, server, Carries
  <2> QED BY <1>3, <2>1, <2>2, <2>3, <2>4, <2>5 DEF Serving
<1>4. ASSUME NEW k \in Chunks, Show(k) \/ Hide(k)
      PROVE  VersionsOK'
  BY <1>4, VersionsKept DEF Show, Hide, sending, locals
<1>5. CASE Click \/ Receive \/ Lose
  BY <1>5, VersionsKept DEF Click, Receive, Lose, sending, locals
<1>6. ASSUME NEW c \in Conns, Reconnect(c)
      PROVE  VersionsOK'
  BY <1>6, VersionsKept DEF Reconnect, locals
<1>7. CASE UNCHANGED vars
  BY <1>7, VersionsKept DEF vars, sending, locals
<1> QED BY <1>1, <1>2, <1>3, <1>4, <1>5, <1>6, <1>7 DEF Next

(* The four hold together at the beginning.                                 *)
LEMMA CoreInit == Init => TypeOK /\ ControlOK /\ ClientOK /\ VersionsOK
<1> SUFFICES ASSUME Init PROVE TypeOK /\ ControlOK /\ ClientOK /\ VersionsOK
  OBVIOUS
<1>1. TypeOK
  BY InitType
<1>2. Conns \subseteq Actors /\ Players \subseteq Actors /\ First \in Conns /\ First \notin Players
      /\ Nothing \notin Conns
  BY DeliveryAssumption DEF Actors
<1>3. ControlOK
  BY <1>2 DEF Init, ControlOK
<1>4. pc[conn] = "register" /\ registered # conn
  BY <1>2 DEF Init
<1>5. ClientOK
  BY <1>4 DEF ClientOK
<1>6. VersionsOK
  BY <1>2 DEF Init, VersionsOK, Carries
<1> QED BY <1>1, <1>3, <1>5, <1>6

(* Each of the four is kept by every step that starts with all of them.     *)
LEMMA CoreNext ==
  ASSUME TypeOK, ControlOK, ClientOK, VersionsOK, [Next]_vars
  PROVE  TypeOK' /\ ControlOK' /\ ClientOK' /\ VersionsOK'
BY TypeNext, ControlNext, ClientNext, VersionsNext DEF VersionsOK

(* Every variable has its type, and no queue holds more than Capacity, in   *)
(* every behaviour.                                                        *)
THEOREM TypeOKCorrect == Spec => []TypeOK
<1> DEFINE Core == TypeOK /\ ControlOK /\ ClientOK /\ VersionsOK
<1>1. Core /\ [Next]_vars => Core'
  BY CoreNext
<1>2. Init => Core
  BY CoreInit
<1>3. Core => TypeOK
  OBVIOUS
<1> HIDE DEF Core
<1> QED BY <1>1, <1>2, <1>3, PTL DEF Spec

-----------------------------------------------------------------------------
(* Subscriptions                                                             *)

(* A step that neither reads nor sends a message of the page keeps them.    *)
LEMMA AsksKept ==
  ASSUME AsksOK, Served' => Served, conn' = conn, wanted' = wanted, up'[conn] = up[conn],
         \A k \in Chunks : k \notin meddled' => k \notin meddled /\ (Has(k)' <=> Has(k))
  PROVE  AsksOK'
<1> SUFFICES ASSUME Served', NEW k \in Chunks
             PROVE  /\ LastAsk(up[conn], k)'
                    /\ NoAsk(up[conn], k)' /\ k \notin meddled' => (k \in wanted' <=> Has(k)')
  BY DEF AsksOK
<1>1. /\ LastAsk(up[conn], k)
      /\ NoAsk(up[conn], k) /\ k \notin meddled => (k \in wanted <=> Has(k))
  BY DEF AsksOK
<1>2. LastAsk(up[conn], k)'
  BY <1>1 DEF LastAsk
<1>3. NoAsk(up[conn], k)' => NoAsk(up[conn], k)
  BY DEF NoAsk
<1> QED BY <1>1, <1>2, <1>3

(* Reading a message makes the hub's subscriptions what the message says,   *)
(* or a chunk of another connection's making.                              *)
LEMMA AsksRead ==
  ASSUME up[conn] \in Seq(Message), up[conn] # <<>>, AsksOK, Served' => Served,
         conn' = conn, wanted' = wanted, up'[conn] = Tail(up[conn]),
         \A k \in Chunks : k \notin meddled' =>
           IF AsksFor(Head(up[conn]), k) THEN Has(k)' <=> Head(up[conn]).kind = "subscribe"
           ELSE k \notin meddled /\ (Has(k)' <=> Has(k))
  PROVE  AsksOK'
<1> SUFFICES ASSUME Served', NEW k \in Chunks
             PROVE  /\ LastAsk(up[conn], k)'
                    /\ NoAsk(up[conn], k)' /\ k \notin meddled' => (k \in wanted' <=> Has(k)')
  BY DEF AsksOK
<1>1. PICK asks, rest : asks = up[conn] /\ rest = up'[conn]
  OBVIOUS
<1>2. /\ rest \in Seq(Message) /\ Len(rest) = Len(asks) - 1 /\ Head(asks) = asks[1]
      /\ Len(asks) \in Nat \ {0}
      /\ \A i \in 1 .. Len(asks) - 1 : rest[i] = asks[i + 1]
  BY <1>1, TailType
<1>3. DOMAIN asks = 1 .. Len(asks) /\ DOMAIN rest = 1 .. Len(asks) - 1
  BY <1>1, <1>2
<1>4. /\ \A i \in DOMAIN asks :
           AsksFor(asks[i], k) /\ (\A j \in i + 1 .. Len(asks) : ~AsksFor(asks[j], k))
             => (k \in wanted <=> asks[i].kind = "subscribe")
      /\ (\A i \in DOMAIN asks : ~AsksFor(asks[i], k)) /\ k \notin meddled =>
           (k \in wanted <=> Has(k))
  BY <1>1 DEF AsksOK, LastAsk, NoAsk
<1>5. ASSUME NEW i \in DOMAIN rest, AsksFor(rest[i], k),
             \A j \in i + 1 .. Len(rest) : ~AsksFor(rest[j], k)
      PROVE  k \in wanted <=> rest[i].kind = "subscribe"
  <2>1. i \in 1 .. Len(asks) - 1 /\ i + 1 \in DOMAIN asks /\ rest[i] = asks[i + 1]
    BY <1>2, <1>3
  <2>2. ASSUME NEW j \in (i + 1) + 1 .. Len(asks)
        PROVE  ~AsksFor(asks[j], k)
    <3>1. PICK n : n = j - 1
      OBVIOUS
    <3>2. n \in i + 1 .. Len(rest) /\ n \in 1 .. Len(asks) - 1 /\ j = n + 1
      BY <1>2, <2>1, <3>1
    <3> QED BY <1>2, <1>5, <3>2
  <2> QED BY <1>4, <1>5, <2>1, <2>2
<1>6. ASSUME \A i \in DOMAIN rest : ~AsksFor(rest[i], k), k \notin meddled'
      PROVE  k \in wanted <=> Has(k)'
  <2>1. ASSUME NEW j \in 2 .. Len(asks)
        PROVE  ~AsksFor(asks[j], k)
    <3>1. PICK n : n = j - 1
      OBVIOUS
    <3>2. n \in 1 .. Len(asks) - 1 /\ j = n + 1
      BY <1>2, <3>1
    <3> QED BY <1>2, <1>3, <1>6, <3>2
  <2>2. CASE AsksFor(Head(asks), k)
    <3>1. k \in wanted <=> asks[1].kind = "subscribe"
      BY <1>2, <1>3, <1>4, <2>1, <2>2
    <3>2. Has(k)' <=> Head(asks).kind = "subscribe"
      BY <1>1, <1>6, <2>2
    <3> QED BY <1>2, <3>1, <3>2
  <2>3. CASE ~AsksFor(Head(asks), k)
    <3>1. \A i \in DOMAIN asks : ~AsksFor(asks[i], k)
      BY <1>2, <1>3, <2>1, <2>3
    <3>2. k \notin meddled /\ (Has(k)' <=> Has(k))
      BY <1>1, <1>6, <2>3
    <3> QED BY <1>4, <3>1, <3>2
  <2> QED BY <2>2, <2>3
<1>7. LastAsk(up[conn], k)'
  BY <1>1, <1>5 DEF LastAsk
<1>8. NoAsk(up[conn], k)' => \A i \in DOMAIN rest : ~AsksFor(rest[i], k)
  BY <1>1 DEF NoAsk
<1> QED BY <1>6, <1>7, <1>8

(* A message that is sent says what the page now wants.                     *)
LEMMA AsksSend ==
  ASSUME TypeOK, AsksOK, NEW m \in Message, Send(m),
         UNCHANGED <<hub, conn, open, pc>>,
         \A k \in Chunks : IF AsksFor(m, k)
                           THEN k \in wanted' <=> m.kind = "subscribe"
                           ELSE k \in wanted' <=> k \in wanted
  PROVE  AsksOK'
<1> SUFFICES ASSUME Served', NEW k \in Chunks
             PROVE  /\ LastAsk(up[conn], k)'
                    /\ NoAsk(up[conn], k)' /\ k \notin meddled' => (k \in wanted' <=> Has(k)')
  BY DEF AsksOK
<1>1. Served /\ open
  BY DEF Served
<1>2. PICK asks, more : asks = up[conn] /\ more = up'[conn]
  OBVIOUS
<1>3. asks \in Seq(Message) /\ more = Append(asks, m)
  BY <1>1, <1>2, SendType DEF TypeOK
<1>4. /\ DOMAIN asks = 1 .. Len(asks) /\ DOMAIN more = 1 .. Len(asks) + 1
      /\ Len(more) = Len(asks) + 1
      /\ \A i \in 1 .. Len(asks) : more[i] = asks[i]
      /\ more[Len(asks) + 1] = m /\ Len(asks) \in Nat
  BY <1>3
<1>5. /\ \A i \in DOMAIN asks :
           AsksFor(asks[i], k) /\ (\A j \in i + 1 .. Len(asks) : ~AsksFor(asks[j], k))
             => (k \in wanted <=> asks[i].kind = "subscribe")
      /\ (\A i \in DOMAIN asks : ~AsksFor(asks[i], k)) /\ k \notin meddled =>
           (k \in wanted <=> Has(k))
  BY <1>1, <1>2 DEF AsksOK, LastAsk, NoAsk
<1>6. ASSUME NEW i \in DOMAIN more, AsksFor(more[i], k),
             \A j \in i + 1 .. Len(more) : ~AsksFor(more[j], k)
      PROVE  k \in wanted' <=> more[i].kind = "subscribe"
  <2>1. CASE i = Len(asks) + 1
    BY <1>4, <1>6, <2>1
  <2>2. CASE i # Len(asks) + 1
    <3>1. i \in 1 .. Len(asks) /\ more[i] = asks[i]
      BY <1>4, <2>2
    <3>2. ~AsksFor(m, k)
      BY <1>4, <1>6, <3>1
    <3>3. \A j \in i + 1 .. Len(asks) : ~AsksFor(asks[j], k)
      BY <1>4, <1>6, <3>1
    <3> QED BY <1>4, <1>5, <1>6, <3>1, <3>2, <3>3
  <2> QED BY <2>1, <2>2
<1>7. ASSUME \A i \in DOMAIN more : ~AsksFor(more[i], k), k \notin meddled'
      PROVE  k \in wanted' <=> Has(k)'
  <2>1. ~AsksFor(m, k) /\ \A i \in DOMAIN asks : ~AsksFor(asks[i], k)
    BY <1>4, <1>7
  <2>2. k \notin meddled /\ (Has(k)' <=> Has(k))
    BY <1>7 DEF hub, Has
  <2> QED BY <1>5, <2>1, <2>2
<1>8. LastAsk(up[conn], k)'
  BY <1>2, <1>6 DEF LastAsk
<1>9. NoAsk(up[conn], k)' => \A i \in DOMAIN more : ~AsksFor(more[i], k)
  BY <1>2 DEF NoAsk
<1> QED BY <1>7, <1>8, <1>9

(* Reading a message keeps them: of the page's own connection as it says,   *)
(* of an earlier one it changes only what is counted as meddled with.       *)
LEMMA AsksReading ==
  ASSUME TypeOK, ClientOK, AsksOK, Served' => Served, NEW c \in Conns,
         ReadSubscribe(c) \/ ReadUnsubscribe(c) \/ ReadPlace(c) \/ RefusePlace(c)
  PROVE  AsksOK'
<1>1. PICK kind \in {"subscribe", "unsubscribe", "place"} : Hears(c, kind) /\ Read(c)
  BY DEF ReadSubscribe, ReadUnsubscribe, ReadPlace, RefusePlace
<1>2. PICK m : m = Head(up[c])
  OBVIOUS
<1>3. /\ m \in Message /\ m.kind = kind /\ up[c] # <<>> /\ up'[c] = Tail(up[c])
      /\ \A d \in Conns \ {c} : up'[d] = up[d]
      /\ pc[c] = "ready"
  BY <1>1, <1>2, ReadType
<1>4. conn' = conn /\ wanted' = wanted /\ conn \in Conns /\ up[conn] \in Seq(Message)
      /\ meddled \subseteq Chunks
  BY DEF ReadSubscribe, ReadUnsubscribe, ReadPlace, RefusePlace, client, TypeOK
<1>5. /\ registered' = registered
      /\ kind = "place" \/ registered = Nothing => UNCHANGED meddled
      /\ kind = "place" => UNCHANGED subs
      /\ kind \in {"subscribe", "unsubscribe"} /\ registered # Nothing =>
           /\ Meddle(c, {m.chunk})
           /\ subs' = IF kind = "subscribe" THEN subs \cup {m.chunk} ELSE subs \ {m.chunk}
  <2>1. CASE ReadSubscribe(c)
    BY <1>2, <1>3, <2>1 DEF ReadSubscribe, Hears, hub
  <2>2. CASE ReadUnsubscribe(c)
    <3>1. kind = "unsubscribe"
      BY <1>2, <1>3, <2>2 DEF ReadUnsubscribe, Hears
    <3>2. Nothing # conn
      BY <1>4, DeliveryAssumption
    <3> QED BY <1>2, <2>2, <3>1, <3>2 DEF ReadUnsubscribe, Meddle
  <2>3. CASE ReadPlace(c) \/ RefusePlace(c)
    BY <1>2, <1>3, <2>3 DEF ReadPlace, RefusePlace, Hears, hub
  <2> QED BY <2>1, <2>2, <2>3
<1>6. CASE c # conn
  <2>1. up'[conn] = up[conn]
    BY <1>3, <1>4, <1>6
  <2>2. ASSUME NEW k \in Chunks, k \notin meddled'
        PROVE  k \notin meddled /\ (Has(k)' <=> Has(k))
    <3>1. CASE kind = "place"
      BY <1>4, <1>5, <2>2, <3>1 DEF Has
    <3>2. CASE kind # "place" /\ registered # conn
      <4>1. meddled' = meddled
        BY <1>5, <3>2 DEF Meddle
      <4> QED BY <1>4, <1>5, <2>2, <3>2, <4>1 DEF Has
    <3>3. CASE kind # "place" /\ registered = conn
      <4>1. registered # Nothing
        BY <1>4, <3>3, DeliveryAssumption
      <4>2. meddled' = meddled \cup {m.chunk}
        BY <1>5, <1>6, <3>3, <4>1 DEF Meddle
      <4> QED BY <1>4, <1>5, <2>2, <3>3, <4>1, <4>2 DEF Has
    <3> QED BY <3>1, <3>2, <3>3
  <2> QED BY <1>4, <2>1, <2>2, AsksKept
<1>7. CASE c = conn
  <2>1. up[conn] # <<>> /\ up'[conn] = Tail(up[conn]) /\ Head(up[conn]) = m
    BY <1>2, <1>3, <1>7
  <2>2. ASSUME NEW k \in Chunks, k \notin meddled', Served'
        PROVE  IF AsksFor(m, k) THEN Has(k)' <=> m.kind = "subscribe"
               ELSE k \notin meddled /\ (Has(k)' <=> Has(k))
    <3>1. CASE kind = "place"
      BY <1>3, <1>4, <1>5, <2>2, <3>1 DEF Has, AsksFor
    <3>2. CASE kind # "place" /\ registered # conn
      <4>1. meddled' = meddled
        BY <1>5, <3>2 DEF Meddle
      <4>2. meddled = Chunks
        BY <1>3, <1>7, <2>2, <3>2 DEF ClientOK
      <4> QED BY <2>2, <4>1, <4>2
    <3>3. CASE kind # "place" /\ registered = conn
      <4>1. registered # Nothing
        BY <1>4, <3>3, DeliveryAssumption
      <4>2. meddled' = meddled \ {m.chunk}
        BY <1>5, <1>7, <3>3, <4>1 DEF Meddle
      <4>3. subs' = IF kind = "subscribe" THEN subs \cup {m.chunk} ELSE subs \ {m.chunk}
        BY <1>5, <3>3, <4>1
      <4> QED BY <1>3, <1>4, <1>5, <2>2, <3>3, <4>2, <4>3 DEF Has, AsksFor
    <3> QED BY <3>1, <3>2, <3>3
  <2>3. CASE ~Served'
    BY <2>3 DEF AsksOK
  <2>4. CASE Served'
    BY <1>4, <2>1, <2>2, <2>4, AsksRead
  <2> QED BY <2>3, <2>4
<1> QED BY <1>6, <1>7

(* So does every other step of a goroutine: a client that is registered has *)
(* no subscriptions, and the page's own goroutine removes a session only    *)
(* when it no longer serves the page.                                      *)
LEMMA AsksServing ==
  ASSUME TypeOK, ControlOK, ClientOK, AsksOK, Served' => Served, NEW c \in Conns,
         Serving(c) \/ Fail(c)
  PROVE  AsksOK'
<1>1. conn \in Conns /\ c \in Actors /\ meddled \subseteq Chunks /\ Nothing # conn
  BY DeliveryAssumption DEF TypeOK, Actors
<1>2. CASE ReadSubscribe(c) \/ ReadUnsubscribe(c) \/ ReadPlace(c) \/ RefusePlace(c)
  BY <1>2, AsksReading
<1>3. CASE Register(c)
  <2>1. /\ conn' = conn /\ wanted' = wanted /\ up' = up /\ registered' = c /\ subs' = {}
        /\ Meddle(c, Chunks) /\ pc[c] = "register"
    BY <1>3 DEF Register, client
  <2>2. ASSUME NEW k \in Chunks, k \notin meddled'
        PROVE  k \notin meddled /\ ~Has(k)' /\ ~Has(k)
    <3>1. registered # conn
      <4>1. c = conn => registered # conn
        BY <2>1 DEF ControlOK
      <4>2. c # conn /\ registered = conn => meddled' = Chunks
        BY <1>1, <2>1 DEF Meddle
      <4> QED BY <2>2, <4>1, <4>2
    <3>2. meddled' = meddled
      BY <2>1, <3>1 DEF Meddle
    <3> QED BY <2>1, <2>2, <3>1, <3>2 DEF Has
  <2> QED BY <2>1, <2>2, AsksKept
<1>4. CASE RemoveSession(c)
  <2>1. /\ conn' = conn /\ wanted' = wanted /\ up' = [up EXCEPT ![c] = <<>>]
        /\ registered' = Nothing /\ Meddle(c, Chunks) /\ Goto(c, "gone")
    BY <1>4 DEF RemoveSession, client
  <2>2. CASE c = conn
    <3>1. pc'[conn'] = "gone"
      BY <1>1, <2>1, <2>2 DEF Goto, TypeOK
    <3> QED BY <3>1 DEF AsksOK, Served
  <2>3. CASE c # conn
    <3>1. up'[conn] = up[conn]
      BY <2>1, <2>3, <1>1 DEF TypeOK
    <3>2. ASSUME NEW k \in Chunks, k \notin meddled'
          PROVE  k \notin meddled /\ ~Has(k)' /\ ~Has(k)
      <4>1. registered # conn
        BY <1>1, <2>1, <2>3, <3>2 DEF Meddle
      <4>2. meddled' = meddled
        BY <2>1, <4>1 DEF Meddle
      <4> QED BY <1>1, <2>1, <3>2, <4>1, <4>2 DEF Has
    <3> QED BY <2>1, <3>1, <3>2, AsksKept
  <2> QED BY <2>2, <2>3
<1>5. CASE TakeFlag(c)
  <2>1. /\ conn' = conn /\ wanted' = wanted /\ up' = up /\ UNCHANGED <<registered, subs>>
        /\ meddled' \in {meddled, Chunks}
    BY <1>5 DEF TakeFlag, client
  <2>2. \A k \in Chunks : k \notin meddled' => k \notin meddled /\ (Has(k)' <=> Has(k))
    BY <2>1 DEF Has
  <2> QED BY <2>1, <2>2, AsksKept
<1>6. CASE \/ Welcome(c) \/ SendAck(c) \/ QueueSnapshot(c) \/ TakeChunks(c)
           \/ (\E k \in Chunks : PackChunk(c, k)) \/ SendPanics(c) \/ Fail(c)
  <2>1. UNCHANGED <<hub, conn, wanted, up>>
    BY <1>6 DEF Welcome, SendAck, QueueSnapshot, TakeChunks, PackChunk, SendPanics, Fail, client
  <2>2. \A k \in Chunks : k \notin meddled' => k \notin meddled /\ (Has(k)' <=> Has(k))
    BY <2>1 DEF Has, hub
  <2> QED BY <2>1, <2>2, AsksKept
<1> QED BY <1>2, <1>3, <1>4, <1>5, <1>6 DEF Serving

(* Every step keeps the subscriptions in order.                             *)
LEMMA AsksNext ==
  ASSUME TypeOK, ControlOK, ClientOK, AsksOK, [Next]_vars
  PROVE  AsksOK'
<1>1. CASE UNCHANGED <<hub, conn, wanted, up>> /\ (Served' => Served)
  <2>1. \A k \in Chunks : k \notin meddled' => k \notin meddled /\ (Has(k)' <=> Has(k))
    BY <1>1 DEF Has, hub
  <2> QED BY <1>1, <2>1, AsksKept
<1>2. CASE UNCHANGED vars
  BY <1>1, <1>2 DEF vars, client, sending, Served
<1>3. ASSUME NEW c \in Conns, Reconnect(c)
      PROVE  AsksOK'
  <2>1. conn' = c /\ UNCHANGED <<wanted, registered>> /\ pc[c] = "none"
    BY <1>3 DEF Reconnect, Unused
  <2>2. registered' # conn'
    BY <2>1 DEF ControlOK
  <2>3. PICK asks : asks = up'[c]
    OBVIOUS
  <2>4. /\ \A i \in DOMAIN asks : asks[i].kind = "subscribe" /\ asks[i].chunk \in wanted
        /\ \A k \in wanted : \E i \in DOMAIN asks : asks[i] = Ask("subscribe", k)
    BY <1>3, <2>3, ReconnectAsks
  <2>5. \A k \in wanted : \E i \in DOMAIN asks : AsksFor(asks[i], k)
    BY <2>4 DEF AsksFor, Ask
  <2>6. \A i \in DOMAIN asks, k \in Chunks :
          AsksFor(asks[i], k) => k \in wanted /\ asks[i].kind = "subscribe"
    BY <2>4 DEF AsksFor
  <2>7. ASSUME NEW k \in Chunks
        PROVE  /\ LastAsk(up[conn], k)'
               /\ NoAsk(up[conn], k)' => (k \in wanted' <=> Has(k)')
    <3>1. LastAsk(up[conn], k)'
      BY <2>1, <2>3, <2>6 DEF LastAsk
    <3>2. NoAsk(up[conn], k)' => k \notin wanted
      BY <2>1, <2>3, <2>5 DEF NoAsk
    <3>3. ~Has(k)'
      BY <2>2 DEF Has
    <3>4. k \in wanted => \E i \in DOMAIN asks : AsksFor(asks[i], k)
      BY <2>5
    <3> QED BY <2>1, <3>1, <3>2, <3>3
  <2> QED BY <2>7 DEF AsksOK
<1>4. ASSUME Next, \A c \in Conns : ~Reconnect(c)
      PROVE  AsksOK'
  <2>1. Served' => Served
    BY <1>4, ServedBefore
  <2>2. ASSUME NEW p \in Players, NEW cells \in Moves, PlayerPlaces(p, cells)
        PROVE  AsksOK'
    BY <1>1, <2>1, <2>2 DEF PlayerPlaces, client
  <2>3. ASSUME NEW a \in Actors, Handling(a)
        PROVE  AsksOK'
    BY <1>1, <2>1, <2>3 DEF Handling, Collect, OfferDelta, BroadcastPanics, client
  <2>4. ASSUME NEW c \in Conns, Serving(c) \/ Fail(c)
        PROVE  AsksOK'
    BY <2>1, <2>4, AsksServing
  <2>5. ASSUME NEW k \in Chunks, Show(k)
        PROVE  AsksOK'
    <3>1. PICK m \in Message : m = Ask("subscribe", k)
      BY MessageType
    <3>2. Send(m) /\ wanted' = wanted \cup {k} /\ UNCHANGED <<hub, conn, open, pc>>
      BY <2>5, <3>1 DEF Show, sending
    <3>3. \A j \in Chunks : IF AsksFor(m, j) THEN j \in wanted' <=> m.kind = "subscribe"
                            ELSE j \in wanted' <=> j \in wanted
      BY <3>1, <3>2 DEF AsksFor, Ask
    <3> QED BY <3>2, <3>3, AsksSend
  <2>6. ASSUME NEW k \in Chunks, Hide(k)
        PROVE  AsksOK'
    <3>1. PICK m \in Message : m = Ask("unsubscribe", k)
      BY MessageType
    <3>2. Send(m) /\ wanted' = wanted \ {k} /\ UNCHANGED <<hub, conn, open, pc>>
      BY <2>6, <3>1 DEF Hide, sending
    <3>3. \A j \in Chunks : IF AsksFor(m, j) THEN j \in wanted' <=> m.kind = "subscribe"
                            ELSE j \in wanted' <=> j \in wanted
      BY <3>1, <3>2 DEF AsksFor, Ask
    <3> QED BY <3>2, <3>3, AsksSend
  <2>7. CASE Click
    <3>1. PICK m \in Message : m = [kind |-> "place"]
      BY MessageType
    <3>2. Send(m) /\ wanted' = wanted /\ UNCHANGED <<hub, conn, open, pc>>
      BY <2>7, <3>1 DEF Click, sending
    <3>3. \A j \in Chunks : IF AsksFor(m, j) THEN j \in wanted' <=> m.kind = "subscribe"
                            ELSE j \in wanted' <=> j \in wanted
      BY <3>1, <3>2 DEF AsksFor
    <3> QED BY <3>2, <3>3, AsksSend
  <2>8. CASE Receive \/ Lose
    BY <1>1, <2>1, <2>8 DEF Receive, Lose
  <2> QED BY <1>4, <2>2, <2>3, <2>4, <2>5, <2>6, <2>7, <2>8 DEF Next
<1> QED BY <1>2, <1>3, <1>4

(* At the beginning nobody wants a chunk, and the hub has nobody.           *)
LEMMA AsksInit == Init => AsksOK
<1> SUFFICES ASSUME Init PROVE AsksOK
  OBVIOUS
<1>1. wanted = {} /\ subs = {} /\ up[conn] = <<>>
  BY DeliveryAssumption DEF Init
<1> QED BY <1>1 DEF AsksOK, LastAsk, NoAsk, Has

(* Without a message about a chunk under way, the hub and a page that is    *)
(* served agree on its subscription, in every behaviour, unless another     *)
(* connection of the page changed it (hub.go:66-117).                      *)
THEOREM SubscriptionsAgreeCorrect == Spec => []SubscriptionsAgree
<1> DEFINE Inv == TypeOK /\ ControlOK /\ ClientOK /\ VersionsOK /\ AsksOK
<1>1. Inv /\ [Next]_vars => Inv'
  BY CoreNext, AsksNext
<1>2. Init => Inv
  BY CoreInit, AsksInit
<1>3. Inv => SubscriptionsAgree
  <2> SUFFICES ASSUME Inv, NEW k \in Chunks \ meddled, Served, NoAskFor(k)
               PROVE  k \in wanted <=> registered = conn /\ k \in subs
    BY DEF SubscriptionsAgree
  <2>1. NoAsk(up[conn], k)
    BY DEF NoAskFor, NoAsk, AsksFor
  <2> QED BY <2>1 DEF AsksOK, Has
<1> HIDE DEF Inv
<1> QED BY <1>1, <1>2, <1>3, PTL DEF Spec

-----------------------------------------------------------------------------
(* Frames under way                                                          *)

(* The deltas about cell q that are to be offered stay the same.            *)
Unmoved(q) ==
  \A a \in Actors : (Pending(a, q)' <=> Pending(a, q)) /\ (Pending(a, q) => delta'[a] = delta[a])

(* A cell a pending delta wrote is one of a chunk it has a version for.     *)
LEMMA PendingType ==
  ASSUME TypeOK, NEW a \in Actors, NEW q, Pending(a, q)
  PROVE  /\ delta[a] \in Deltas /\ q \in Cells /\ ChunkOf[q] \in Chunks
         /\ ChunkOf[q] \in DOMAIN delta[a].ver /\ delta[a].ver[ChunkOf[q]] \in Nat
<1>1. delta[a] \in Deltas /\ q \in DOMAIN delta[a].cells
  BY DEF TypeOK, Pending, Carries
<1>2. /\ DOMAIN delta[a].cells \in SUBSET Cells
      /\ DOMAIN delta[a].ver = Touched(DOMAIN delta[a].cells)
      /\ delta[a].ver \in [DOMAIN delta[a].ver -> 0 .. MaxCommits]
  BY <1>1, DeltaType
<1>3. q \in Cells /\ ChunkOf[q] \in Chunks /\ ChunkOf[q] \in DOMAIN delta[a].ver
  BY <1>1, <1>2, DeliveryAssumption DEF Touched
<1>4. delta[a].ver[ChunkOf[q]] \in 0 .. MaxCommits
  BY <1>2, <1>3
<1> QED BY <1>1, <1>3, <1>4, DeliveryAssumption

(* Which cells a frame writes: a snapshot its chunk, a delta cells of the   *)
(* chunks it has versions for.                                              *)
LEMMA FrameWrites ==
  ASSUME NEW frame \in Frame, NEW q \in Cells
  PROVE  /\ ChunkOf[q] \in Chunks /\ q \in CellsOf(ChunkOf[q])
         /\ frame \in {Ack, Greeting} => ~Writes(frame, q)
         /\ frame \in Snapshots =>
              /\ frame.kind = "snapshot" /\ frame.cells # Nothing
              /\ Writes(frame, q) <=> frame.chunk = ChunkOf[q]
         /\ frame \in Deltas =>
              /\ frame.kind = "delta"
              /\ Writes(frame, q) => ChunkOf[q] \in DOMAIN frame.ver
         /\ frame \in {Ack, Greeting} \/ frame \in Snapshots \/ frame \in Deltas
<1>1. ChunkOf[q] \in Chunks /\ q \in CellsOf(ChunkOf[q])
  BY DeliveryAssumption DEF CellsOf
<1>2. frame \in {Ack, Greeting} => ~Writes(frame, q)
  BY DEF Ack, Greeting, Writes
<1>3. ASSUME frame \in Snapshots
      PROVE  /\ frame.kind = "snapshot" /\ frame.cells # Nothing
             /\ Writes(frame, q) <=> frame.chunk = ChunkOf[q]
  <2>1. /\ frame.kind = "snapshot" /\ frame.cells # Nothing
        /\ frame.cells \in [CellsOf(frame.chunk) -> Colours]
    BY <1>3, SnapshotType DEF Image
  <2>2. DOMAIN frame.cells = CellsOf(frame.chunk)
    BY <2>1
  <2> QED BY <2>1, <2>2 DEF Writes, CellsOf
<1>4. ASSUME frame \in Deltas
      PROVE  /\ frame.kind = "delta"
             /\ Writes(frame, q) => ChunkOf[q] \in DOMAIN frame.ver
  BY <1>4, DeltaType DEF Writes, Touched
<1>5. frame \in {Ack, Greeting} \/ frame \in Snapshots \/ frame \in Deltas
  BY DEF Frame
<1> QED BY <1>1, <1>2, <1>3, <1>4, <1>5

(* The conditions on a chunk, with what the board and the versions will be  *)
(* as constants.                                                            *)
LEMMA ChunkGoal ==
  ASSUME NEW k,
         Fresh(k)' => /\ Loaded(k)'
                      /\ \A q \in CellsOf(k) : \A colour, n :
                           colour = board'[q] /\ n = newest'[k] => CellOK(q, colour, n)'
  PROVE  ChunkOK(k)'
BY DEF ChunkOK, CellOK, Shows, Ordered

(* The same for the condition on the packed snapshot.                       *)
LEMMA PackedGoal ==
  ASSUME \A snap : snap = packed'[conn'] /\ Usable' =>
           \A q \in CellsOf(snap.chunk) : \A shown, colour, n :
             shown = snap.cells[q] /\ colour = board'[q] /\ n = snap.ver
               => PackedCell(q, shown, colour, n)'
  PROVE  PackedOK'
BY DEF PackedOK, PackedCell, Newer, Ordered

(* What is pending for a cell stays when its deltas stay.                   *)
LEMMA PendingSame ==
  ASSUME NEW q, Unmoved(q), NEW colour, NEW n
  PROVE  /\ (\E a \in Actors : Pending(a, q)') <=> (\E a \in Actors : Pending(a, q))
         /\ Newer(q, n)' <=> Newer(q, n)
         /\ Ordered(q, colour, n) => Ordered(q, colour, n)'
<1> USE DEF Unmoved
<1>1. \A m : Newer(q, m)' <=> Newer(q, m)
  BY DEF Newer
<1>2. ASSUME Ordered(q, colour, n), NEW a \in Actors, Pending(a, q)'
      PROVE  \/ delta'[a].cells[q] = colour
             \/ delta'[a].ver[ChunkOf[q]] < n
             \/ Newer(q, delta[a].ver[ChunkOf[q]])
  BY <1>2 DEF Ordered
<1>3. ASSUME Ordered(q, colour, n), NEW a \in Actors, Pending(a, q)'
      PROVE  \/ delta'[a].cells[q] = colour
             \/ delta'[a].ver[ChunkOf[q]] < n
             \/ Newer(q, delta[a].ver[ChunkOf[q]])'
  <2>1. PICK m : m = delta[a].ver[ChunkOf[q]]
    OBVIOUS
  <2>2. delta'[a].ver[ChunkOf[q]] = m
    BY <2>1, <1>3
  <2>3. Newer(q, m) => \E b \in Actors : Pending(b, q)' /\ delta'[b].ver[ChunkOf[q]] > m
    BY DEF Newer
  <2>4. (\E b \in Actors : Pending(b, q)' /\ delta'[b].ver[ChunkOf[q]] > m)
          => Newer(q, delta[a].ver[ChunkOf[q]])'
    BY <2>2 DEF Newer
  <2>5. Newer(q, m) <=> Newer(q, delta[a].ver[ChunkOf[q]])
    BY <2>1
  <2> QED BY <1>2, <1>3, <2>3, <2>4, <2>5
<1> QED BY <1>1, <1>3 DEF Ordered

(* A frame that is queued is read last.                                     *)
LEMMA ShowsAppended ==
  ASSUME queue \in Seq(Frame), NEW frame \in Frame, queue' = Append(queue, frame),
         UNCHANGED cache, NEW q, NEW colour
  PROVE  /\ Writes(frame, q) /\ frame.cells[q] = colour => Shows(q, colour)'
         /\ ~Writes(frame, q) /\ Shows(q, colour) => Shows(q, colour)'
<1>1. /\ DOMAIN queue = 1 .. Len(queue) /\ DOMAIN queue' = 1 .. Len(queue) + 1
      /\ Len(queue') = Len(queue) + 1
      /\ \A i \in 1 .. Len(queue) : queue'[i] = queue[i]
      /\ queue'[Len(queue) + 1] = frame /\ Len(queue) \in Nat
  OBVIOUS
<1>2. ASSUME Writes(frame, q), frame.cells[q] = colour
      PROVE  Shows(q, colour)'
  <2>1. Len(queue) + 1 \in DOMAIN queue'
        /\ \A j \in (Len(queue) + 1) + 1 .. Len(queue') : FALSE
    BY <1>1
  <2> QED BY <1>1, <1>2, <2>1 DEF Shows, Writes
<1>3. ASSUME ~Writes(frame, q), Shows(q, colour)
      PROVE  Shows(q, colour)'
  <2>1. ASSUME NEW i \in DOMAIN queue, Writes(queue[i], q), queue[i].cells[q] = colour,
               \A j \in i + 1 .. Len(queue) : ~Writes(queue[j], q)
        PROVE  Shows(q, colour)'
    <3>1. i \in DOMAIN queue' /\ queue'[i] = queue[i]
      BY <1>1
    <3>2. \A j \in i + 1 .. Len(queue') : ~Writes(queue'[j], q)
      BY <1>1, <1>3, <2>1
    <3> QED BY <2>1, <3>1, <3>2 DEF Shows, Writes
  <2>2. ASSUME \A i \in DOMAIN queue : ~Writes(queue[i], q),
               cache[ChunkOf[q]] # Nothing, cache[ChunkOf[q]][q] = colour
        PROVE  Shows(q, colour)'
    <3>1. \A i \in DOMAIN queue' : ~Writes(queue'[i], q)
      BY <1>1, <1>3, <2>2
    <3> QED BY <2>2, <3>1 DEF Shows, Writes
  <2> QED BY <1>3, <2>1, <2>2 DEF Shows
<1> QED BY <1>2, <1>3

(* A chunk that is cached, or has a snapshot queued, stays so when a frame  *)
(* is queued; a snapshot of it makes it so.                                 *)
LEMMA LoadedAppended ==
  ASSUME queue \in Seq(Frame), NEW frame \in Frame, queue' = Append(queue, frame),
         UNCHANGED cache, NEW k
  PROVE  Loaded(k) \/ Replaces(frame, k) => Loaded(k)'
<1>1. /\ DOMAIN queue = 1 .. Len(queue) /\ DOMAIN queue' = 1 .. Len(queue) + 1
      /\ \A i \in 1 .. Len(queue) : queue'[i] = queue[i]
      /\ queue'[Len(queue) + 1] = frame /\ Len(queue) \in Nat
  OBVIOUS
<1> QED BY <1>1 DEF Loaded, Replaces

(* What a goroutine without a delta does moves none.                        *)
LEMMA Idle ==
  ASSUME TypeOK, NEW c \in Actors, delta[c] = Nothing, pc' = pc \/ \E label : Goto(c, label),
         UNCHANGED <<delta, copied, conn>>
  PROVE  \A q : Unmoved(q)
<1>1. \A a \in Actors \ {c} : pc'[a] = pc[a]
  BY DEF Goto, TypeOK
<1> QED BY <1>1 DEF Unmoved, Pending, Carries

-----------------------------------------------------------------------------
(* What the steps do to the frames under way                                 *)

(* Nothing is asked of a connection without a client of its own, or of one  *)
(* whose client is marked.                                                  *)
LEMMA Untended ==
  ASSUME \A k : Tended(k)' => needSnap'[conn']
  PROVE  QueuedOK' /\ PackedOK'
BY DEF QueuedOK, ChunkOK, Fresh, PackedOK, Usable

(* A chunk keeps its condition when nothing of it moves.                    *)
LEMMA ChunkSame ==
  ASSUME UNCHANGED <<board, queue, cache>>, NEW k,
         Fresh(k)' => /\ Fresh(k) /\ newest'[k] = newest[k]
                      /\ \A q \in CellsOf(k) : Unmoved(q),
         ChunkOK(k)
  PROVE  ChunkOK(k)'
<1> SUFFICES ASSUME Fresh(k)'
             PROVE  /\ Loaded(k)'
                    /\ \A q \in CellsOf(k) : \A colour, n :
                         colour = board'[q] /\ n = newest'[k] => CellOK(q, colour, n)'
  BY ChunkGoal
<1>1. Loaded(k) /\ \A q \in CellsOf(k) : CellOK(q, board[q], newest[k])
  BY DEF ChunkOK
<1>2. Loaded(k)'
  BY <1>1 DEF Loaded
<1>3. ASSUME NEW q \in CellsOf(k), NEW colour, NEW n, colour = board'[q], n = newest'[k]
      PROVE  CellOK(q, colour, n)'
  <2>1. CellOK(q, colour, n) /\ Unmoved(q)
    BY <1>1, <1>3
  <2>2. /\ (\E a \in Actors : Pending(a, q)') <=> (\E a \in Actors : Pending(a, q))
        /\ Ordered(q, colour, n) => Ordered(q, colour, n)'
    BY <2>1, PendingSame
  <2>3. Shows(q, colour) => Shows(q, colour)'
    BY DEF Shows
  <2> QED BY <2>1, <2>2, <2>3 DEF CellOK
<1> QED BY <1>2, <1>3

(* So does the packed snapshot.                                             *)
LEMMA PackedSame ==
  ASSUME board' = board, PackedOK,
         Usable' => /\ Usable /\ packed'[conn'] = packed[conn]
                    /\ \A q \in CellsOf(packed[conn].chunk) : Unmoved(q)
  PROVE  PackedOK'
<1> SUFFICES ASSUME NEW snap, snap = packed'[conn'], Usable', NEW q \in CellsOf(snap.chunk),
                    NEW shown, NEW colour, NEW n,
                    shown = snap.cells[q], colour = board'[q], n = snap.ver
             PROVE  PackedCell(q, shown, colour, n)'
  BY PackedGoal
<1>1. Usable /\ snap = packed[conn] /\ Unmoved(q)
  OBVIOUS
<1>2. PackedCell(q, shown, colour, n)
  BY <1>1 DEF PackedOK
<1>3. /\ Newer(q, n)' <=> Newer(q, n)
      /\ Ordered(q, colour, n) => Ordered(q, colour, n)'
  BY <1>1, PendingSame
<1> QED BY <1>2, <1>3 DEF PackedCell

(* So do all of them when a step leaves the frames alone and makes no chunk *)
(* fresh and no snapshot usable.                                            *)
LEMMA AllSame ==
  ASSUME QueuedOK, PackedOK, UNCHANGED <<board, queue, cache, newest>>, \A q : Unmoved(q),
         \A k \in Chunks : Fresh(k)' => Fresh(k),
         Usable' => Usable /\ packed'[conn'] = packed[conn]
  PROVE  QueuedOK' /\ PackedOK'
<1>1. \A k \in Chunks : ChunkOK(k)'
  BY ChunkSame DEF QueuedOK
<1>2. PackedOK'
  BY PackedSame
<1> QED BY <1>1, <1>2 DEF QueuedOK

(* A step of another connection's goroutine makes none, as long as all it   *)
(* adds to the subscriptions of the page's client counts as meddled with.   *)
LEMMA OthersSame ==
  ASSUME TypeOK, QueuedOK, PackedOK, NEW c \in Conns, c # conn, delta[c] = Nothing,
         pc' = pc \/ \E label : Goto(c, label),
         UNCHANGED <<board, delta, copied, conn, open, queue, cache, newest, disturbed, registered>>,
         needSnap'[conn] = needSnap[conn], todo'[conn] = todo[conn], packed'[conn] = packed[conn],
         registered = conn => subs' \ meddled' \subseteq subs \ meddled
  PROVE  QueuedOK' /\ PackedOK'
<1>1. conn \in Actors /\ c \in Actors
  BY DEF TypeOK, Actors
<1>2. pc'[conn] = pc[conn]
  BY <1>1 DEF Goto, TypeOK
<1>3. \A q : Unmoved(q)
  BY <1>1, Idle
<1>4. \A k : Tended(k)' => Tended(k)
  BY DEF Tended
<1>5. \A k : Fresh(k)' => Fresh(k)
  BY <1>2, <1>4 DEF Fresh, Loading
<1>6. Usable' => Usable
  BY <1>4 DEF Usable
<1> QED BY <1>3, <1>5, <1>6, AllSame

(* A step of the page's own goroutine that has no snapshot packed.          *)
LEMMA OwnSame ==
  ASSUME TypeOK, QueuedOK, PackedOK, delta[conn] = Nothing,
         pc' = pc \/ \E label : Goto(conn, label),
         pc[conn] \notin {"pack", "repack"}, packed'[conn] = packed[conn],
         UNCHANGED <<board, delta, copied, conn, queue, cache, newest>>,
         \A k \in Chunks : Fresh(k)' =>
           open /\ registered = conn /\ k \in subs \ meddled /\ ~needSnap[conn] /\ disturbed[k] = {}
  PROVE  QueuedOK' /\ PackedOK'
<1>1. conn \in Actors /\ packed[conn] = Nothing
  BY DEF TypeOK, Actors
<1>2. \A q : Unmoved(q)
  BY <1>1, Idle
<1>3. \A k \in Chunks : Fresh(k)' => Fresh(k)
  BY DEF Fresh, Loading, Tended
<1>4. ~Usable'
  BY <1>1 DEF Usable
<1> QED BY <1>2, <1>3, <1>4, AllSame

(* A placement: the cells it writes have a delta to come that is newer than *)
(* everything else.                                                         *)
LEMMA PlacedPending ==
  ASSUME TypeOK, VersionsOK, NEW a \in Actors, NEW cells \in Moves, Place(a, cells),
         pc[a] = "ready", conn' = conn, NEW q \in Cells
  PROVE  /\ q \in cells =>
              /\ Pending(a, q)' /\ board'[q] = TeamOf[a]
              /\ \A n \in Nat : n <= version[ChunkOf[q]] => Newer(q, n)'
              /\ \A n : Ordered(q, TeamOf[a], n)'
         /\ q \notin cells =>
              /\ board'[q] = board[q]
              /\ Unmoved(q)
<1>1. /\ version' \in [Chunks -> 0 .. MaxCommits]
      /\ \A k \in Touched(cells) : k \in Chunks /\ version'[k] = version[k] + 1
      /\ delta'[a] # Nothing /\ delta'[a].cells = [p \in cells |-> TeamOf[a]]
      /\ delta'[a].ver = [k \in Touched(cells) |-> version'[k]]
      /\ \A b \in Actors \ {a} : delta'[b] = delta[b] /\ pc'[b] = pc[b]
      /\ pc'[a] = "collect" /\ copied' = copied
      /\ cells \in SUBSET Cells
  <2>1. \A k \in Chunks : version[k] <= commits
    BY DEF VersionsOK
  <2>2. pc' = [pc EXCEPT ![a] = "collect"]
    BY <2>1, PlaceType
  <2>3. pc'[a] = "collect" /\ \A b \in Actors \ {a} : pc'[b] = pc[b]
    BY <2>2 DEF TypeOK
  <2> QED BY <2>1, <2>3, PlaceType
<1>2. board'[q] = IF q \in cells THEN TeamOf[a] ELSE board[q]
  BY DEF Place, Write
<1>3. ~Pending(a, q)
  BY DEF TypeOK, Pending, Carries
<1>4. Pending(a, q)' <=> q \in cells
  BY <1>1 DEF Pending, Carries
<1>5. \A b \in Actors \ {a} : Pending(b, q)' <=> Pending(b, q)
  BY <1>1 DEF Pending, Carries
<1>6. ASSUME q \in cells
      PROVE  /\ \A n \in Nat : n <= version[ChunkOf[q]] => Newer(q, n)'
             /\ \A n : Ordered(q, TeamOf[a], n)'
  <2>1. /\ ChunkOf[q] \in Touched(cells) /\ ChunkOf[q] \in Chunks
        /\ version[ChunkOf[q]] \in Nat
        /\ delta'[a].ver[ChunkOf[q]] = version[ChunkOf[q]] + 1
    BY <1>1, <1>6, DeliveryAssumption DEF Touched, TypeOK
  <2>2. \A n \in Nat : n <= version[ChunkOf[q]] => Newer(q, n)'
    BY <1>4, <1>6, <2>1 DEF Newer
  <2>3. ASSUME NEW n, NEW b \in Actors, Pending(b, q)'
        PROVE  delta'[b].cells[q] = TeamOf[a] \/ Newer(q, delta[b].ver[ChunkOf[q]])'
    <3>1. CASE b = a
      BY <1>1, <1>6, <3>1
    <3>2. CASE b # a
      <4>1. Pending(b, q) /\ delta'[b] = delta[b]
        BY <1>1, <1>5, <2>3, <3>2
      <4>2. PICK m : m = delta[b].ver[ChunkOf[q]]
        OBVIOUS
      <4>3. m \in Nat
        BY <4>1, <4>2, PendingType
      <4>4. delta[b] # Nothing /\ ChunkOf[q] \in DOMAIN delta[b].ver
        BY <4>1, PendingType DEF Pending, Carries
      <4>5. m <= version[ChunkOf[q]]
        BY <4>2, <4>4 DEF VersionsOK
      <4>6. Newer(q, m)'
        BY <2>2, <4>3, <4>5
      <4> QED BY <4>1, <4>2, <4>6 DEF Newer
    <3> QED BY <3>1, <3>2
  <2> QED BY <2>2, <2>3 DEF Ordered
<1>7. ASSUME q \notin cells
      PROVE  Unmoved(q)
  BY <1>1, <1>3, <1>4, <1>5, <1>7 DEF Unmoved
<1> QED BY <1>2, <1>4, <1>6, <1>7

(* A placement keeps the conditions on the chunks and on the packed         *)
(* snapshot: where it wrote, its own delta is still to come.                *)
LEMMA PlaceQueued ==
  ASSUME TypeOK, VersionsOK, QueuedOK, PackedOK,
         NEW a \in Actors, NEW cells \in Moves, Place(a, cells), pc[a] = "ready",
         UNCHANGED <<hub, conn, open, queue, needSnap, todo, packed, cache, newest, disturbed>>
  PROVE  QueuedOK' /\ PackedOK'
<1>1. \A k : Tended(k)' = Tended(k) /\ Loading(k)' = Loading(k)
  BY DEF Place, Goto, TypeOK, Actors, Tended, Loading, hub
<1>2. ASSUME NEW k \in Chunks
      PROVE  ChunkOK(k)'
  <2> SUFFICES ASSUME Fresh(k)'
               PROVE  /\ Loaded(k)'
                      /\ \A q \in CellsOf(k) : \A colour, n :
                           colour = board'[q] /\ n = newest'[k] => CellOK(q, colour, n)'
    BY ChunkGoal
  <2>1. Fresh(k)
    BY <1>1 DEF Fresh
  <2>2. Loaded(k) /\ \A q \in CellsOf(k) : CellOK(q, board[q], newest[k])
    BY <2>1 DEF QueuedOK, ChunkOK
  <2>3. Loaded(k)'
    BY <2>2 DEF Loaded
  <2>4. ASSUME NEW q \in CellsOf(k), NEW colour, NEW n, colour = board'[q], n = newest'[k]
        PROVE  CellOK(q, colour, n)'
    <3>1. q \in Cells
      BY DEF CellsOf
    <3>2. CASE q \in cells
      <4>1. Pending(a, q)' /\ board'[q] = TeamOf[a] /\ Ordered(q, TeamOf[a], n)'
        BY <3>1, <3>2, PlacedPending
      <4>2. Ordered(q, colour, n)'
        BY <2>4, <4>1
      <4> QED BY <4>1, <4>2 DEF CellOK
    <3>3. CASE q \notin cells
      <4>1. board'[q] = board[q] /\ Unmoved(q)
        BY <3>1, <3>3, PlacedPending
      <4>2. CellOK(q, colour, n)
        BY <2>2, <2>4, <4>1
      <4>3. /\ (\E b \in Actors : Pending(b, q)') <=> (\E b \in Actors : Pending(b, q))
            /\ Ordered(q, colour, n) => Ordered(q, colour, n)'
        BY <4>1, PendingSame
      <4>4. Shows(q, colour) => Shows(q, colour)'
        BY DEF Shows
      <4> QED BY <4>2, <4>3, <4>4 DEF CellOK
    <3> QED BY <3>2, <3>3
  <2> QED BY <2>3, <2>4
<1>3. PackedOK'
  <2> SUFFICES ASSUME NEW snap, snap = packed'[conn'], Usable', NEW q \in CellsOf(snap.chunk),
                      NEW shown, NEW colour, NEW n,
                      shown = snap.cells[q], colour = board'[q], n = snap.ver
               PROVE  PackedCell(q, shown, colour, n)'
    BY PackedGoal
  <2>1. snap = packed[conn] /\ snap # Nothing /\ Usable /\ conn \in Conns
    BY <1>1 DEF Usable, TypeOK
  <2>2. q \in Cells /\ snap.chunk = ChunkOf[q]
    BY DEF CellsOf
  <2>3. snap \in Snapshots
    BY <2>1 DEF TypeOK
  <2>4. n \in Nat /\ n <= version[ChunkOf[q]]
    <3>1. snap.ver <= version[snap.chunk]
      BY <2>1 DEF VersionsOK
    <3> QED BY <2>2, <2>3, <3>1, SnapshotType, DeliveryAssumption
  <2>5. PackedCell(q, shown, board[q], n)
    BY <2>1 DEF PackedOK
  <2>6. CASE q \in cells
    <3>1. board'[q] = TeamOf[a] /\ Newer(q, n)' /\ Ordered(q, TeamOf[a], n)'
      BY <2>2, <2>4, <2>6, PlacedPending
    <3>2. Ordered(q, colour, n)'
      BY <3>1
    <3> QED BY <3>1, <3>2 DEF PackedCell
  <2>7. CASE q \notin cells
    <3>1. board'[q] = board[q] /\ Unmoved(q)
      BY <2>2, <2>7, PlacedPending
    <3>2. PackedCell(q, shown, colour, n)
      BY <2>2, <2>5, <3>1
    <3>3. /\ Newer(q, n)' <=> Newer(q, n)
          /\ Ordered(q, colour, n) => Ordered(q, colour, n)'
      BY <3>1, PendingSame
    <3> QED BY <3>2, <3>3 DEF PackedCell
  <2> QED BY <2>6, <2>7
<1> QED BY <1>2, <1>3 DEF QueuedOK

(* A delta nobody is subscribed to is dropped: it is about no fresh chunk   *)
(* and about no chunk whose snapshot is packed.  One that is to be offered  *)
(* goes to the page's client if that is subscribed to one of its chunks.    *)
LEMMA CollectQueued ==
  ASSUME TypeOK, QueuedOK, PackedOK, NEW a \in Actors, Collect(a)
  PROVE  QueuedOK' /\ PackedOK'
<1>1. UNCHANGED <<board, hub, conn, open, queue, needSnap, todo, packed, cache, newest, disturbed>>
      /\ pc[a] = "collect" /\ conn \in Actors
  BY DEF Collect, server, client, frames, locals, TypeOK, Actors
<1>2. pc'[conn] \in {"pack", "repack"} <=> pc[conn] \in {"pack", "repack"}
  <2>1. PICK label \in {"offer", AfterOffer(a), AfterPanic(a)} : Goto(a, label)
    BY DEF Collect, OffersRest
  <2>2. label \notin {"pack", "repack"}
    BY <2>1 DEF AfterOffer, AfterPanic
  <2> QED BY <1>1, <2>1, <2>2 DEF Goto, TypeOK
<1>3. \A k : Tended(k)' => Tended(k)
  BY <1>1 DEF Tended, hub
<1>4. \A k : Fresh(k)' => Fresh(k)
  BY <1>1, <1>2, <1>3 DEF Fresh, Loading
<1>5. Usable' => Usable
  BY <1>1, <1>3 DEF Usable
<1>6. ASSUME NEW k, Tended(k), NEW q \in CellsOf(k)
      PROVE  Unmoved(q)
  <2>1. q \in Cells /\ ChunkOf[q] = k /\ k \in subs /\ registered = conn
    BY <1>6 DEF CellsOf, Tended
  <2>2. \A b \in Actors \ {a} : delta'[b] = delta[b] /\ copied'[b] = copied[b] /\ pc'[b] = pc[b]
    BY DEF Collect, OffersRest, Goto, TypeOK
  <2>3. \A b \in Actors \ {a} : Pending(b, q)' <=> Pending(b, q)
    BY <1>1, <2>2 DEF Pending, Carries
  <2>4. CASE DOMAIN delta[a].ver \cap subs # {}
    <3>1. Goto(a, "offer") /\ copied' = [copied EXCEPT ![a] = registered] /\ delta' = delta
      BY <2>4 DEF Collect
    <3>2. copied'[a] = conn
      BY <2>1, <3>1 DEF TypeOK
    <3>3. Pending(a, q)' <=> Pending(a, q)
      BY <1>1, <3>1, <3>2 DEF Pending, Carries
    <3> QED BY <2>3, <3>1, <3>3 DEF Unmoved
  <2>5. CASE DOMAIN delta[a].ver \cap subs = {}
    <3>1. delta' = [delta EXCEPT ![a] = Nothing]
      BY <2>5 DEF Collect, OffersRest
    <3>2. ~Pending(a, q)
      BY <2>1, <2>5, PendingType
    <3>3. ~Pending(a, q)'
      BY <3>1 DEF Pending, Carries, TypeOK
    <3> QED BY <2>2, <2>3, <3>2, <3>3 DEF Unmoved
  <2> QED BY <2>4, <2>5
<1>7. ASSUME NEW k \in Chunks
      PROVE  ChunkOK(k)'
  <2>1. Fresh(k)' => Fresh(k) /\ newest'[k] = newest[k] /\ \A q \in CellsOf(k) : Unmoved(q)
    BY <1>1, <1>4, <1>6 DEF Fresh
  <2> QED BY <1>1, <2>1, ChunkSame DEF QueuedOK
<1>8. PackedOK'
  <2>1. Usable => \A q \in CellsOf(packed[conn].chunk) : Unmoved(q)
    BY <1>6 DEF Usable
  <2> QED BY <1>1, <1>5, <2>1, PackedSame
<1> QED BY <1>7, <1>8 DEF QueuedOK

(* The goroutine of a drops its delta, which had the versions ver and was   *)
(* to be offered to the page's client.                                     *)
Dropped(a, ver) ==
  /\ pc[a] = "offer" /\ copied[a] = conn /\ ver = delta[a].ver
  /\ delta' = [delta EXCEPT ![a] = Nothing] /\ copied' = [copied EXCEPT ![a] = Nothing]
  /\ \E label \in {AfterOffer(a), AfterPanic(a)} : Goto(a, label)
  /\ UNCHANGED <<board, hub, conn, open, todo, packed, cache>> /\ needSnap'[conn] = needSnap[conn]

(* Both ends of the offer drop it.                                          *)
LEMMA OfferDrops ==
  ASSUME TypeOK, NEW a \in Actors, copied[a] = conn, NEW ver, ver = delta[a].ver,
         (OfferDelta(a) /\ ~Full) \/ BroadcastPanics(a)
  PROVE  Dropped(a, ver) /\ newest' = Raised(ver)
<1>1. CASE BroadcastPanics(a)
  BY <1>1 DEF BroadcastPanics, Dropped, server, client, locals
<1>2. CASE OfferDelta(a) /\ ~Full
  <2>1. needSnap' = [needSnap EXCEPT ![conn] = needSnap[conn]]
    BY <1>2 DEF OfferDelta, Marked, TypeOK
  <2>2. needSnap'[conn] = needSnap[conn]
    BY <2>1 DEF TypeOK
  <2> QED BY <1>2, <2>2 DEF OfferDelta, OffersRest, Dropped, server, client, locals
<1> QED BY <1>1, <1>2

(* What is left when it does.                                               *)
LEMMA DroppedRest ==
  ASSUME TypeOK, NEW a \in Actors, NEW ver, Dropped(a, ver)
  PROVE  /\ delta[a] \in Deltas /\ delta[a] \in Frame /\ delta[a].kind = "delta"
         /\ \A k \in DOMAIN ver : ver[k] \in Nat
         /\ \A q : ~Pending(a, q)'
         /\ \A b \in Actors \ {a} : \A q :
              (Pending(b, q)' <=> Pending(b, q)) /\ (Pending(b, q) => delta'[b] = delta[b])
         /\ \A q : ~Pending(a, q) => Unmoved(q)
         /\ \A q : Pending(a, q) => /\ q \in Cells /\ ChunkOf[q] \in Chunks
                                    /\ ChunkOf[q] \in DOMAIN ver /\ ver[ChunkOf[q]] \in Nat
         /\ \A k : Tended(k)' <=> Tended(k)
         /\ \A k : Loading(k)' <=> Loading(k)
         /\ \A k \in Chunks : newest[k] \in Nat
<1>1. delta[a] \in Deltas /\ pc[a] = "offer" /\ ver = delta[a].ver
  BY DEF Dropped, TypeOK
<1>2. delta[a] \in Frame /\ delta[a].kind = "delta" /\ \A k \in DOMAIN ver : ver[k] \in Nat
  BY <1>1, DeltaType, DeliveryAssumption
<1>3. /\ delta'[a] = Nothing
      /\ \A b \in Actors \ {a} : delta'[b] = delta[b] /\ copied'[b] = copied[b] /\ pc'[b] = pc[b]
  BY DEF Dropped, Goto, TypeOK
<1>4. conn' = conn
  BY DEF Dropped
<1>5. \A q : ~Pending(a, q)'
  BY <1>3 DEF Pending, Carries
<1>6. \A b \in Actors \ {a} : \A q :
        (Pending(b, q)' <=> Pending(b, q)) /\ (Pending(b, q) => delta'[b] = delta[b])
  BY <1>3, <1>4 DEF Pending, Carries
<1>7. \A q : ~Pending(a, q) => Unmoved(q)
  BY <1>5, <1>6 DEF Unmoved
<1>8. \A q : Pending(a, q) => /\ q \in Cells /\ ChunkOf[q] \in Chunks
                              /\ ChunkOf[q] \in DOMAIN ver /\ ver[ChunkOf[q]] \in Nat
  BY <1>1, PendingType
<1>9. \A k : Tended(k)' <=> Tended(k)
  BY DEF Dropped, Tended, hub
<1>10. \A k : Loading(k)' <=> Loading(k)
  <2>1. PICK label \in {"ready", "ack", "closing"} : Goto(a, label)
    BY AfterType DEF Dropped
  <2>2. conn \in Actors
    BY DEF TypeOK, Actors
  <2>3. pc'[conn] \in {"pack", "repack"} <=> pc[conn] \in {"pack", "repack"}
    BY <1>1, <2>1, <2>2 DEF Goto, TypeOK
  <2> QED BY <1>4, <2>3 DEF Loading, Dropped
<1>11. \A k \in Chunks : newest[k] \in Nat
  BY DeliveryAssumption DEF TypeOK
<1> QED BY <1>1, <1>2, <1>5, <1>6, <1>7, <1>8, <1>9, <1>10, <1>11

(* A cell the delta wrote, seen from a version n that is not before the     *)
(* delta's: the deltas that are still to come are in order.                 *)
LEMMA DroppedOrdered ==
  ASSUME TypeOK, NEW a \in Actors, NEW ver, Dropped(a, ver),
         NEW q, Pending(a, q), NEW colour, NEW n \in Nat, ver[ChunkOf[q]] <= n,
         NEW m, m = n \/ (m \in Nat /\ m <= ver[ChunkOf[q]]), Ordered(q, colour, m)
  PROVE  Ordered(q, colour, n)'
<1> SUFFICES ASSUME NEW b \in Actors, Pending(b, q)'
             PROVE  \/ delta'[b].cells[q] = colour
                    \/ delta'[b].ver[ChunkOf[q]] < n
                    \/ Newer(q, delta[b].ver[ChunkOf[q]])'
  BY DEF Ordered
<1>1. b # a /\ Pending(b, q) /\ delta'[b] = delta[b] /\ ver = delta[a].ver
  BY DroppedRest DEF Dropped
<1>2. PICK v : v = delta[b].ver[ChunkOf[q]]
  OBVIOUS
<1>3. v \in Nat /\ ver[ChunkOf[q]] \in Nat
  BY <1>1, <1>2, PendingType
<1>4. delta[b].cells[q] = colour \/ v < m \/ Newer(q, v)
  BY <1>1, <1>2 DEF Ordered
<1>5. CASE delta[b].cells[q] = colour
  BY <1>1, <1>5
<1>6. CASE v < m
  <2>1. v < n
    BY <1>3, <1>6
  <2> QED BY <1>1, <1>2, <2>1
<1>7. CASE Newer(q, v)
  <2>1. PICK c \in Actors : Pending(c, q) /\ delta[c].ver[ChunkOf[q]] > v
    BY <1>7 DEF Newer
  <2>2. CASE c = a
    <3>1. v < n
      BY <1>1, <1>3, <2>1, <2>2
    <3> QED BY <1>1, <1>2, <3>1
  <2>3. CASE c # a
    <3>1. Pending(c, q)' /\ delta'[c] = delta[c]
      BY <2>1, <2>3, DroppedRest
    <3>2. delta'[b].ver[ChunkOf[q]] = v /\ delta'[c].ver[ChunkOf[q]] > v
      BY <1>1, <1>2, <2>1, <3>1
    <3> QED BY <3>1, <3>2 DEF Newer
  <2> QED BY <2>2, <2>3
<1> QED BY <1>4, <1>5, <1>6, <1>7

(* A snapshot that is still usable is not older than the delta.             *)
LEMMA DroppedPacked ==
  ASSUME TypeOK, PackedOK, NEW a \in Actors, NEW ver, Dropped(a, ver), newest' = Raised(ver)
  PROVE  PackedOK'
<1> SUFFICES ASSUME NEW snap, snap = packed'[conn'], Usable', NEW q \in CellsOf(snap.chunk),
                    NEW shown, NEW colour, NEW n,
                    shown = snap.cells[q], colour = board'[q], n = snap.ver
             PROVE  PackedCell(q, shown, colour, n)'
  BY PackedGoal
<1>1. /\ snap = packed[conn] /\ snap # Nothing /\ conn \in Conns /\ board' = board
      /\ Tended(snap.chunk) /\ ~needSnap[conn] /\ newest'[snap.chunk] <= n
      /\ ver = delta[a].ver
  BY DroppedRest DEF Usable, Dropped, TypeOK
<1>2. PICK k : k = snap.chunk
  OBVIOUS
<1>3. q \in Cells /\ ChunkOf[q] = k /\ k \in Chunks /\ n \in Nat
  <2>1. snap \in Snapshots
    BY <1>1 DEF TypeOK
  <2> QED BY <1>2, <2>1, SnapshotType, DeliveryAssumption DEF CellsOf
<1>4. newest'[k] = IF k \in DOMAIN ver /\ ver[k] > newest[k] THEN ver[k] ELSE newest[k]
  BY <1>3 DEF Raised
<1>5. newest[k] <= n /\ (k \in DOMAIN ver => ver[k] <= n)
  <2>1. newest[k] \in Nat /\ (k \in DOMAIN ver => ver[k] \in Nat)
    BY <1>3, DroppedRest
  <2>2. newest'[k] <= n
    BY <1>1, <1>2
  <2> QED BY <1>3, <1>4, <2>1, <2>2
<1>6. PackedCell(q, shown, colour, n)
  <2>1. Usable
    BY <1>1, <1>2, <1>5 DEF Usable
  <2> QED BY <1>1, <2>1 DEF PackedOK
<1>7. CASE Pending(a, q)
  <2>1. ver[ChunkOf[q]] <= n /\ ver[ChunkOf[q]] \in Nat
    BY <1>3, <1>5, <1>7, DroppedRest
  <2>2. Ordered(q, colour, n)'
    BY <1>3, <1>6, <1>7, <2>1, DroppedOrdered DEF PackedCell
  <2>3. Newer(q, n) => Newer(q, n)'
    <3>1. ASSUME NEW c \in Actors, Pending(c, q), delta[c].ver[ChunkOf[q]] > n
          PROVE  Pending(c, q)' /\ delta'[c].ver[ChunkOf[q]] > n
      <4>1. c # a
        BY <1>1, <1>3, <2>1, <3>1
      <4>2. Pending(c, q)' /\ delta'[c] = delta[c]
        BY <3>1, <4>1, DroppedRest
      <4> QED BY <3>1, <4>2
    <3> QED BY <3>1 DEF Newer
  <2> QED BY <1>6, <2>2, <2>3 DEF PackedCell
<1>8. CASE ~Pending(a, q)
  <2>1. Unmoved(q)
    BY <1>8, DroppedRest
  <2>2. /\ Newer(q, n)' <=> Newer(q, n)
        /\ Ordered(q, colour, n) => Ordered(q, colour, n)'
    BY <2>1, PendingSame
  <2> QED BY <1>6, <2>2 DEF PackedCell
<1> QED BY <1>7, <1>8

(* A delta that is offered is queued, where it is read after all others, or *)
(* dropped, which leaves the mark; one that comes after a newer one of its  *)
(* chunk disturbs it.                                                       *)
LEMMA OfferQueued ==
  ASSUME TypeOK, QueuedOK, PackedOK, NEW a \in Actors, OfferDelta(a)
  PROVE  QueuedOK' /\ PackedOK'
<1>1. CASE copied[a] # conn
  <2>1. registered' # conn'
    BY <1>1 DEF OfferDelta, Closed, hub, client
  <2> QED BY <2>1, Untended DEF Tended
<1>2. CASE copied[a] = conn /\ Full
  <2>1. needSnap' = [needSnap EXCEPT ![conn] = TRUE] /\ conn' = conn
    BY <1>2 DEF OfferDelta, Marked, client
  <2>2. needSnap'[conn']
    BY <2>1 DEF TypeOK
  <2> QED BY <2>2, Untended
<1>3. CASE copied[a] = conn /\ ~Full
  <2>1. PICK ver : ver = delta[a].ver
    OBVIOUS
  <2>2. Dropped(a, ver) /\ newest' = Raised(ver)
    BY <1>3, <2>1, OfferDrops
  <2>3. /\ queue' = Append(queue, delta[a]) /\ queue \in Seq(Frame) /\ UNCHANGED <<board, cache>>
        /\ disturbed' = [k \in Chunks |-> IF k \in DOMAIN ver /\ ver[k] < newest[k]
                             THEN disturbed[k] \cup {"reordered"} ELSE disturbed[k]]
    BY <1>3, <2>1 DEF OfferDelta, Push, server, client, TypeOK
  <2>4. /\ delta[a] \in Deltas /\ delta[a] \in Frame /\ delta[a].kind = "delta"
        /\ \A k \in DOMAIN ver : ver[k] \in Nat
        /\ \A k \in Chunks : newest[k] \in Nat
    BY <2>2, DroppedRest
  <2>5. ASSUME NEW k \in Chunks, Fresh(k)'
        PROVE  Fresh(k) /\ (k \in DOMAIN ver => newest[k] <= ver[k])
    <3>1. Tended(k) /\ ~Loading(k) /\ ~needSnap[conn] /\ disturbed'[k] = {}
      BY <2>2, <2>5, DroppedRest DEF Fresh, Dropped
    <3>2. disturbed'[k] = IF k \in DOMAIN ver /\ ver[k] < newest[k]
                          THEN disturbed[k] \cup {"reordered"} ELSE disturbed[k]
      BY <2>3
    <3>3. ~(k \in DOMAIN ver /\ ver[k] < newest[k]) /\ disturbed[k] = {}
      BY <3>1, <3>2
    <3> QED BY <2>4, <3>1, <3>3 DEF Fresh
  <2>6. \A q \in Cells : Writes(delta[a], q) <=> Pending(a, q)
    BY <1>3, <2>4, DeltaType DEF Writes, Pending, Carries
  <2>7. ASSUME NEW k \in Chunks
        PROVE  ChunkOK(k)'
    <3> SUFFICES ASSUME Fresh(k)'
                 PROVE  /\ Loaded(k)'
                        /\ \A q \in CellsOf(k) : \A colour, n :
                             colour = board'[q] /\ n = newest'[k] => CellOK(q, colour, n)'
      BY ChunkGoal
    <3>1. Fresh(k) /\ (k \in DOMAIN ver => newest[k] <= ver[k])
      BY <2>5
    <3>2. Loaded(k) /\ \A q \in CellsOf(k) : CellOK(q, board[q], newest[k])
      BY <3>1 DEF QueuedOK, ChunkOK
    <3>3. Loaded(k)'
      BY <2>3, <2>4, <3>2, LoadedAppended
    <3>4. newest'[k] = (IF k \in DOMAIN ver THEN ver[k] ELSE newest[k]) /\ newest'[k] \in Nat
      <4>1. newest'[k] = IF k \in DOMAIN ver /\ ver[k] > newest[k] THEN ver[k] ELSE newest[k]
        BY <2>2 DEF Raised
      <4> QED BY <2>4, <3>1, <4>1
    <3>5. ASSUME NEW q \in CellsOf(k), NEW colour, NEW n, colour = board'[q], n = newest'[k]
          PROVE  CellOK(q, colour, n)'
      <4>1. q \in Cells /\ ChunkOf[q] = k
        BY DEF CellsOf
      <4>2. PICK m : m = newest[k]
        OBVIOUS
      <4>3. CellOK(q, colour, m) /\ m \in Nat
        BY <2>3, <2>4, <3>2, <3>5, <4>2
      <4>4. CASE Pending(a, q)
        <5>1. k \in DOMAIN ver /\ n = ver[k] /\ n \in Nat /\ m <= n
          BY <2>2, <3>1, <3>4, <3>5, <4>1, <4>2, <4>4, DroppedRest
        <5>2. Ordered(q, colour, n)'
          BY <2>2, <4>1, <4>3, <4>4, <5>1, DroppedOrdered DEF CellOK
        <5>3. delta[a].cells[q] = colour \/ Newer(q, ver[k])
          <6>1. \/ delta[a].cells[q] = colour \/ delta[a].ver[ChunkOf[q]] < m
                \/ Newer(q, delta[a].ver[ChunkOf[q]])
            BY <4>3, <4>4 DEF CellOK, Ordered
          <6>2. delta[a].ver[ChunkOf[q]] = ver[k]
            BY <2>1, <4>1
          <6> QED BY <4>3, <5>1, <6>1, <6>2
        <5>4. CASE delta[a].cells[q] = colour
          <6>1. Shows(q, colour)'
            BY <2>3, <2>4, <2>6, <4>1, <4>4, <5>4, ShowsAppended
          <6> QED BY <5>2, <6>1 DEF CellOK
        <5>5. CASE Newer(q, ver[k])
          <6>1. PICK c \in Actors : Pending(c, q) /\ delta[c].ver[ChunkOf[q]] > ver[k]
            BY <5>5 DEF Newer
          <6>2. c # a
            BY <2>1, <4>1, <5>1, <6>1
          <6>3. Pending(c, q)'
            BY <2>2, <6>1, <6>2, DroppedRest
          <6> QED BY <5>2, <6>3 DEF CellOK
        <5> QED BY <5>3, <5>4, <5>5
      <4>5. CASE ~Pending(a, q)
        <5>1. Unmoved(q)
          BY <2>2, <4>5, DroppedRest
        <5>2. /\ (\E b \in Actors : Pending(b, q)') <=> (\E b \in Actors : Pending(b, q))
              /\ Ordered(q, colour, m) => Ordered(q, colour, m)'
          BY <5>1, PendingSame
        <5>3. m <= n /\ n \in Nat
          BY <2>4, <3>1, <3>4, <3>5, <4>2, <4>3
        <5>4. Ordered(q, colour, m)' => Ordered(q, colour, n)'
          <6>1. \A b \in Actors : Pending(b, q)' => delta'[b].ver[ChunkOf[q]] \in Nat
            <7>1. ASSUME NEW b \in Actors, Pending(b, q)'
                  PROVE  delta'[b].ver[ChunkOf[q]] \in Nat
              <8>1. Pending(b, q) /\ delta'[b] = delta[b]
                BY <5>1, <7>1 DEF Unmoved
              <8> QED BY <8>1, PendingType
            <7> QED BY <7>1
          <6> QED BY <4>3, <5>3, <6>1 DEF Ordered
        <5>5. Shows(q, colour) => Shows(q, colour)'
          BY <2>3, <2>4, <2>6, <4>1, <4>5, ShowsAppended
        <5> QED BY <4>3, <5>2, <5>4, <5>5 DEF CellOK
      <4> QED BY <4>4, <4>5
    <3> QED BY <3>3, <3>5
  <2>8. PackedOK'
    BY <2>2, DroppedPacked
  <2> QED BY <2>7, <2>8 DEF QueuedOK
<1> QED BY <1>1, <1>2, <1>3

(* A broadcast that panics before the turn of the page's client disturbs    *)
(* the chunks of its delta, and no other is the worse for it.               *)
LEMMA PanicQueued ==
  ASSUME TypeOK, QueuedOK, PackedOK, NEW a \in Actors, BroadcastPanics(a)
  PROVE  QueuedOK' /\ PackedOK'
<1>1. /\ UNCHANGED <<board, hub, needSnap, todo, packed, queue, cache, conn, open>>
      /\ pc[a] = "offer" /\ Goto(a, AfterPanic(a)) /\ conn \in Actors
      /\ delta' = [delta EXCEPT ![a] = Nothing] /\ copied' = [copied EXCEPT ![a] = Nothing]
  BY DEF BroadcastPanics, server, locals, client, TypeOK, Actors
<1>2. PICK ver : ver = delta[a].ver
  OBVIOUS
<1>3. CASE copied[a] = conn
  <2>1. Dropped(a, ver) /\ newest' = Raised(ver)
    BY <1>2, <1>3, OfferDrops
  <2>2. disturbed' = [k \in Chunks |-> IF k \in DOMAIN ver THEN disturbed[k] \cup {"aborted"}
                                       ELSE disturbed[k]]
    BY <1>2, <1>3 DEF BroadcastPanics
  <2>3. ASSUME NEW k \in Chunks, Fresh(k)'
        PROVE  Fresh(k) /\ newest'[k] = newest[k] /\ \A q \in CellsOf(k) : Unmoved(q)
    <3>1. Tended(k) /\ ~Loading(k) /\ ~needSnap[conn] /\ disturbed'[k] = {}
      BY <2>1, <2>3, DroppedRest DEF Fresh, Dropped
    <3>2. k \notin DOMAIN ver /\ disturbed[k] = {}
      BY <2>2, <3>1
    <3>3. newest'[k] = newest[k]
      BY <2>1, <3>2 DEF Raised
    <3>4. \A q \in CellsOf(k) : ~Pending(a, q)
      BY <2>1, <3>2, DroppedRest DEF CellsOf
    <3>5. \A q \in CellsOf(k) : Unmoved(q)
      BY <2>1, <3>4, DroppedRest
    <3> QED BY <3>1, <3>2, <3>3, <3>5 DEF Fresh
  <2>4. \A k \in Chunks : ChunkOK(k)'
    BY <1>1, <2>3, ChunkSame DEF QueuedOK
  <2>5. PackedOK'
    BY <2>1, DroppedPacked
  <2> QED BY <2>4, <2>5 DEF QueuedOK
<1>4. CASE copied[a] # conn
  <2>1. UNCHANGED <<newest, disturbed>>
    BY <1>4 DEF BroadcastPanics, frames
  <2>2. pc'[conn] \in {"pack", "repack"} <=> pc[conn] \in {"pack", "repack"}
    BY <1>1 DEF Goto, AfterPanic, TypeOK
  <2>3. ASSUME NEW q PROVE Unmoved(q)
    <3>1. ~Pending(a, q) /\ ~Pending(a, q)'
      BY <1>1, <1>4 DEF Pending, Carries, TypeOK
    <3>2. \A b \in Actors \ {a} : delta'[b] = delta[b] /\ copied'[b] = copied[b] /\ pc'[b] = pc[b]
      BY <1>1 DEF Goto, TypeOK
    <3>3. \A b \in Actors \ {a} : Pending(b, q)' <=> Pending(b, q)
      BY <1>1, <3>2 DEF Pending, Carries
    <3> QED BY <3>1, <3>2, <3>3 DEF Unmoved
  <2>4. \A k : Fresh(k)' => Fresh(k)
    BY <1>1, <2>1, <2>2 DEF Fresh, Loading, Tended, hub
  <2>5. Usable' => Usable /\ packed'[conn'] = packed[conn]
    BY <1>1, <2>1 DEF Usable, Tended, hub
  <2> QED BY <1>1, <2>1, <2>3, <2>4, <2>5, AllSame
<1> QED BY <1>3, <1>4

(* A snapshot that is queued makes its chunk fresh, unless it is late; one  *)
(* that is dropped disturbs it.                                             *)
LEMMA SnapshotQueued ==
  ASSUME TypeOK, ControlOK, QueuedOK, PackedOK, QueueSnapshot(conn)
  PROVE  QueuedOK' /\ PackedOK'
<1>1. PICK snap : snap = packed[conn]
  OBVIOUS
<1>2. /\ snap \in Snapshots /\ queue \in Seq(Frame) /\ packed'[conn] = Nothing
      /\ conn \in Conns /\ conn \in Actors /\ registered = conn
  BY <1>1 DEF QueueSnapshot, Closed, TypeOK, Actors
<1>3. PICK k0 : k0 = snap.chunk
  OBVIOUS
<1>4. /\ snap \in Frame /\ snap.kind = "snapshot" /\ k0 \in Chunks
      /\ snap.ver \in Nat
  BY <1>2, <1>3, SnapshotType, DeliveryAssumption
<1>5. UNCHANGED <<board, delta, copied, hub, conn, open, needSnap, cache>>
  BY DEF QueueSnapshot, server, client
<1>6. todo'[conn] = todo[conn] \ {k0} /\ k0 \in todo[conn] /\ pc[conn] \in {"pack", "repack"}
  BY <1>1, <1>2, <1>3 DEF QueueSnapshot, ControlOK, TypeOK
<1>7. ASSUME NEW k \in Chunks, k # k0, Fresh(k)'
      PROVE  Fresh(k)
  <2>1. disturbed'[k] = disturbed[k]
    BY <1>1, <1>3, <1>7 DEF QueueSnapshot, TypeOK
  <2>2. ASSUME k \in todo[conn]
        PROVE  FALSE
    <3>1. k \in todo'[conn] /\ todo'[conn] # {}
      BY <1>6, <1>7, <2>2
    <3>2. pc[conn] # "pack"
      BY <1>2, <1>6, <1>7, <2>2 DEF ControlOK
    <3>3. pc'[conn] = "repack"
      BY <1>2, <1>6, <3>1, <3>2 DEF QueueSnapshot, Goto, TypeOK
    <3> QED BY <1>5, <1>7, <3>1, <3>3 DEF Fresh, Loading
  <2> QED BY <1>5, <1>7, <2>1, <2>2 DEF Fresh, Loading, Tended, hub
<1>8. ASSUME NEW k \in Chunks, k # k0
      PROVE  newest'[k] = newest[k]
  BY <1>1, <1>3, <1>8 DEF QueueSnapshot, TypeOK
<1>9. ASSUME NEW q, NEW colour, NEW n
      PROVE  /\ (\E a \in Actors : Pending(a, q)') <=> (\E a \in Actors : Pending(a, q))
             /\ Newer(q, n)' <=> Newer(q, n)
             /\ Ordered(q, colour, n) => Ordered(q, colour, n)'
  <2>1. delta[conn] = Nothing /\ \E label : Goto(conn, label)
    BY <1>2, <1>6 DEF QueueSnapshot, TypeOK
  <2>2. Unmoved(q)
    BY <1>2, <1>5, <2>1, Idle
  <2> QED BY <2>2, PendingSame
<1>10. ASSUME NEW k \in Chunks, k # k0
      PROVE  ChunkOK(k)'
  <2> SUFFICES ASSUME Fresh(k)'
               PROVE  /\ Loaded(k)'
                      /\ \A q \in CellsOf(k) : \A colour, n :
                           colour = board'[q] /\ n = newest'[k] => CellOK(q, colour, n)'
    BY ChunkGoal
  <2>1. Loaded(k) /\ \A q \in CellsOf(k) : CellOK(q, board[q], newest[k])
    BY <1>7, <1>10 DEF QueuedOK, ChunkOK
  <2>2. queue' = queue \/ queue' = Append(queue, snap)
    BY <1>1 DEF QueueSnapshot, Enqueue, Push
  <2>3. Loaded(k)'
    <3>1. CASE queue' = queue
      BY <1>5, <2>1, <3>1 DEF Loaded
    <3>2. CASE queue' = Append(queue, snap)
      BY <1>2, <1>4, <1>5, <2>1, <3>2, LoadedAppended
    <3> QED BY <2>2, <3>1, <3>2
  <2>4. ASSUME NEW q \in CellsOf(k), NEW colour, NEW n, colour = board'[q], n = newest'[k]
        PROVE  CellOK(q, colour, n)'
    <3>1. q \in Cells /\ ChunkOf[q] = k
      BY DEF CellsOf
    <3>2. CellOK(q, colour, n)
      BY <1>5, <1>8, <1>10, <2>1, <2>4
    <3>3. Shows(q, colour) => Shows(q, colour)'
      <4>1. ~Writes(snap, q)
        BY <1>2, <1>3, <1>4, <1>10, <3>1, FrameWrites
      <4>2. CASE queue' = queue
        BY <1>5, <4>2 DEF Shows
      <4>3. CASE queue' = Append(queue, snap)
        BY <1>2, <1>4, <1>5, <4>1, <4>3, ShowsAppended
      <4> QED BY <2>2, <4>2, <4>3
    <3> QED BY <1>9, <3>2, <3>3 DEF CellOK
  <2> QED BY <2>3, <2>4
<1>11. ChunkOK(k0)'
  <2> SUFFICES ASSUME Fresh(k0)'
               PROVE  /\ Loaded(k0)'
                      /\ \A q \in CellsOf(k0) : \A colour, n :
                           colour = board'[q] /\ n = newest'[k0] => CellOK(q, colour, n)'
    BY ChunkGoal
  <2>1. disturbed'[k0] = {} /\ ~needSnap[conn] /\ Tended(k0)
    BY <1>5 DEF Fresh, Tended, hub
  <2>2. ~Full
    <3> SUFFICES ASSUME Full PROVE FALSE
      OBVIOUS
    <3>1. disturbed' = [disturbed EXCEPT ![k0] = disturbed[k0] \cup {"unsent"}]
      BY <1>1, <1>3 DEF QueueSnapshot
    <3> QED BY <1>4, <2>1, <3>1 DEF TypeOK
  <2>3. ~(snap.ver < newest[k0])
    <3> SUFFICES ASSUME snap.ver < newest[k0] PROVE FALSE
      OBVIOUS
    <3>1. disturbed' = [disturbed EXCEPT ![k0] = {"crossed"}]
      BY <1>1, <1>3, <2>2 DEF QueueSnapshot
    <3> QED BY <1>4, <2>1, <3>1 DEF TypeOK
  <2>4. newest[k0] \in Nat /\ newest[k0] <= snap.ver
    BY <1>4, <2>3, DeliveryAssumption DEF TypeOK
  <2>5. newest'[k0] = snap.ver
    <3>1. newest' = [newest EXCEPT ![k0] = IF snap.ver > newest[k0] THEN snap.ver
                                           ELSE newest[k0]]
      BY <1>1, <1>3, <2>2 DEF QueueSnapshot
    <3>2. newest'[k0] = IF snap.ver > newest[k0] THEN snap.ver ELSE newest[k0]
      BY <1>4, <3>1 DEF TypeOK
    <3> QED BY <1>4, <2>4, <3>2
  <2>6. queue' = Append(queue, snap)
    BY <1>1, <2>2 DEF QueueSnapshot, Enqueue, Push
  <2>7. Loaded(k0)'
    <3>1. Replaces(snap, k0)
      BY <1>3, <1>4 DEF Replaces
    <3> QED BY <1>2, <1>4, <1>5, <2>6, <3>1, LoadedAppended
  <2>8. Usable
    BY <1>1, <1>3, <2>1, <2>4 DEF QueueSnapshot, Usable
  <2>9. \A q \in CellsOf(k0) : PackedCell(q, snap.cells[q], board[q], snap.ver)
    BY <1>1, <1>3, <2>8 DEF PackedOK
  <2>10. ASSUME NEW q \in CellsOf(k0), NEW colour, NEW n, colour = board'[q], n = newest'[k0]
         PROVE  CellOK(q, colour, n)'
    <3>1. q \in Cells /\ ChunkOf[q] = k0
      BY DEF CellsOf
    <3>2. PackedCell(q, snap.cells[q], colour, n)
      BY <1>5, <2>5, <2>9, <2>10
    <3>3. Writes(snap, q)
      BY <1>2, <1>3, <1>4, <3>1, FrameWrites
    <3>4. snap.cells[q] = colour => Shows(q, colour)'
      BY <1>2, <1>4, <1>5, <2>6, <3>3, ShowsAppended
    <3>5. Newer(q, n) => \E a \in Actors : Pending(a, q)
      BY DEF Newer
    <3> QED BY <1>9, <3>2, <3>4, <3>5 DEF CellOK, PackedCell
  <2> QED BY <2>7, <2>10
<1>12. PackedOK'
  BY <1>2, <1>5 DEF PackedOK, Usable
<1> QED BY <1>10, <1>11, <1>12 DEF QueuedOK

(* A snapshot that is packed is the board, and every delta that is to come  *)
(* is one of it or of the past.                                             *)
LEMMA PackQueued ==
  ASSUME TypeOK, VersionsOK, QueuedOK, NEW k \in Chunks, PackChunk(conn, k)
  PROVE  QueuedOK' /\ PackedOK'
<1>1. /\ UNCHANGED <<board, version, pc, delta, copied, hub, conn, open, queue, needSnap, todo,
                      cache, newest, disturbed>>
      /\ conn \in Conns /\ conn \in Actors /\ pc[conn] \in {"pack", "repack"}
  BY DEF PackChunk, server, sending, client, frames, TypeOK, Actors
<1>2. \A q : Unmoved(q)
  BY <1>1 DEF Unmoved, Pending, Carries
<1>3. QueuedOK'
  <2>1. \A j : Fresh(j)' => Fresh(j)
    BY <1>1 DEF Fresh, Loading, Tended, hub
  <2> QED BY <1>1, <1>2, <2>1, ChunkSame DEF QueuedOK
<1>4. /\ packed'[conn'].chunk = k /\ packed'[conn'].ver = version[k]
      /\ packed'[conn'].cells = [q \in CellsOf(k) |-> board[q]]
  <2>1. PICK cells : cells = [q \in CellsOf(k) |-> board[q]]
    OBVIOUS
  <2>2. packed' = [packed EXCEPT ![conn] = Snapshot(k, cells, version[k])]
    BY <2>1 DEF PackChunk
  <2>3. packed'[conn'] = Snapshot(k, cells, version[k])
    BY <1>1, <2>2 DEF TypeOK
  <2> QED BY <2>1, <2>3 DEF Snapshot
<1>5. PackedOK'
  <2> SUFFICES ASSUME NEW snap, snap = packed'[conn'], Usable', NEW q \in CellsOf(snap.chunk),
                      NEW shown, NEW colour, NEW n,
                      shown = snap.cells[q], colour = board'[q], n = snap.ver
               PROVE  PackedCell(q, shown, colour, n)'
    BY PackedGoal
  <2>1. q \in Cells /\ ChunkOf[q] = k /\ q \in CellsOf(k)
    BY <1>4 DEF CellsOf
  <2>2. shown = colour /\ colour = board[q] /\ n = version[k]
    BY <1>1, <1>4, <2>1
  <2>3. Ordered(q, colour, n)
    BY <2>1, <2>2 DEF VersionsOK, Ordered, Pending
  <2>4. Ordered(q, colour, n)'
    BY <1>2, <2>3, PendingSame
  <2> QED BY <2>2, <2>4 DEF PackedCell
<1> QED BY <1>3, <1>5

(* An ack or a greeting moves no chunk.                                     *)
LEMMA AckQueued ==
  ASSUME TypeOK, QueuedOK, PackedOK, NEW c \in Conns, delta[c] = Nothing, packed[c] = Nothing,
         NEW label, label \notin {"pack", "repack"}, Goto(c, label), pc[c] \notin {"pack", "repack"},
         NEW frame \in {Ack, Greeting}, Enqueue(c, frame),
         UNCHANGED <<board, delta, copied, hub, conn, open, needSnap, todo, packed, cache, frames>>
  PROVE  QueuedOK' /\ PackedOK'
<1>1. \A q : Unmoved(q)
  BY Idle DEF Actors
<1>2. \A k : Fresh(k)' => Fresh(k)
  BY DEF Fresh, Loading, Tended, hub, frames, Goto, TypeOK, Actors
<1>3. Usable' => Usable
  BY DEF Usable, Tended, hub, frames
<1>4. CASE queue' = queue
  BY <1>1, <1>2, <1>3, <1>4, AllSame DEF frames
<1>5. CASE queue' = Append(queue, frame)
  <2>1. frame \in Frame /\ queue \in Seq(Frame)
    BY DEF Frame, TypeOK
  <2>2. ASSUME NEW k \in Chunks
        PROVE  ChunkOK(k)'
    <3> SUFFICES ASSUME Fresh(k)'
                 PROVE  /\ Loaded(k)'
                        /\ \A q \in CellsOf(k) : \A colour, n :
                             colour = board'[q] /\ n = newest'[k] => CellOK(q, colour, n)'
      BY ChunkGoal
    <3>1. Loaded(k) /\ \A q \in CellsOf(k) : CellOK(q, board[q], newest[k])
      BY <1>2 DEF QueuedOK, ChunkOK
    <3>2. Loaded(k)'
      BY <1>5, <2>1, <3>1, LoadedAppended
    <3>3. ASSUME NEW q \in CellsOf(k), NEW colour, NEW n, colour = board'[q], n = newest'[k]
          PROVE  CellOK(q, colour, n)'
      <4>1. CellOK(q, colour, n)
        BY <3>1, <3>3 DEF frames
      <4>2. ~Writes(frame, q)
        BY DEF Writes, Ack, Greeting
      <4>3. Shows(q, colour) => Shows(q, colour)'
        BY <1>5, <2>1, <4>2, ShowsAppended
      <4>4. /\ (\E a \in Actors : Pending(a, q)') <=> (\E a \in Actors : Pending(a, q))
            /\ Ordered(q, colour, n) => Ordered(q, colour, n)'
        BY <1>1, PendingSame
      <4> QED BY <4>1, <4>3, <4>4 DEF CellOK
    <3> QED BY <3>2, <3>3
  <2>3. PackedOK'
    BY <1>1, <1>3, PackedSame
  <2> QED BY <2>2, <2>3 DEF QueuedOK
<1> QED BY <1>4, <1>5 DEF Enqueue, Push

(* A frame that is no snapshot of a cached chunk leaves it cached and       *)
(* writes what it has of its cells.                                         *)
LEMMA ReceiveApplied ==
  ASSUME TypeOK, NEW k \in Chunks, NEW frame \in Frame, ~Replaces(frame, k),
         cache[k] # Nothing
  PROVE  /\ Applied(frame, k) # Nothing
         /\ \A q \in CellsOf(k) :
              Applied(frame, k)[q] =
                IF frame.kind = "delta" /\ k \in DOMAIN frame.ver /\ q \in DOMAIN frame.cells
                THEN frame.cells[q] ELSE cache[k][q]
<1>1. cache[k] \in [CellsOf(k) -> Colours]
  BY DEF TypeOK, Image
<1>2. CASE frame.kind = "delta" /\ k \in DOMAIN frame.ver
  <2>1. frame \in Deltas
    BY <1>2, SnapshotType DEF Frame, Ack, Greeting
  <2>2. frame.cells \in [DOMAIN frame.cells -> Colours]
    BY <2>1, DeltaType
  <2>3. Applied(frame, k) = [q \in CellsOf(k) |-> IF q \in DOMAIN frame.cells
                                                   THEN frame.cells[q] ELSE cache[k][q]]
    BY <1>2 DEF Applied
  <2>4. Applied(frame, k) \in Image(k)
    BY <1>1, <2>2, <2>3 DEF Image
  <2>5. Applied(frame, k) # Nothing
    BY <2>4, DeliveryAssumption DEF Images
  <2> QED BY <1>2, <2>3, <2>5
<1>3. CASE ~(frame.kind = "delta" /\ k \in DOMAIN frame.ver)
  BY <1>3 DEF Applied, Replaces
<1> QED BY <1>2, <1>3

(* A chunk that is cached or has a snapshot queued stays so when the page   *)
(* reads a frame.                                                           *)
LEMMA ReceiveLoaded ==
  ASSUME TypeOK, Receive, open, NEW k \in Chunks, Loaded(k)
  PROVE  Loaded(k)'
<1>1. /\ queue' = Tail(queue) /\ queue # <<>> /\ queue \in Seq(Frame)
      /\ cache'[k] = Applied(Head(queue), k)
  BY DEF Receive, TypeOK
<1>2. PICK frame : frame = Head(queue)
  OBVIOUS
<1>3. /\ frame \in Frame /\ Len(queue) \in Nat \ {0} /\ frame = queue[1]
      /\ DOMAIN queue = 1 .. Len(queue) /\ DOMAIN queue' = 1 .. Len(queue) - 1
      /\ \A i \in 1 .. Len(queue) - 1 : queue'[i] = queue[i + 1]
  BY <1>1, <1>2, TailType
<1>4. CASE Replaces(frame, k)
  <2>1. frame \in Snapshots
    BY <1>3, <1>4, DeltaType DEF Frame, Ack, Greeting, Replaces
  <2>2. cache'[k] = frame.cells /\ frame.cells # Nothing
    BY <1>1, <1>2, <1>4, <2>1, SnapshotType DEF Applied, Replaces
  <2> QED BY <2>2 DEF Loaded
<1>5. CASE ~Replaces(frame, k)
  <2>1. CASE cache[k] # Nothing
    <3>1. cache'[k] # Nothing
      BY <1>1, <1>2, <1>3, <1>5, <2>1, ReceiveApplied
    <3> QED BY <3>1 DEF Loaded
  <2>2. ASSUME NEW i \in DOMAIN queue, Replaces(queue[i], k)
        PROVE  Loaded(k)'
    <3>1. i # 1
      BY <1>3, <1>5, <2>2
    <3>2. PICK m : m = i - 1
      OBVIOUS
    <3>3. m \in DOMAIN queue' /\ queue'[m] = queue[i]
      <4>1. m \in 1 .. Len(queue) - 1 /\ i = m + 1
        BY <1>3, <3>1, <3>2
      <4> QED BY <1>3, <4>1
    <3> QED BY <2>2, <3>3 DEF Loaded, Replaces
  <2> QED BY <2>1, <2>2 DEF Loaded
<1> QED BY <1>4, <1>5

(* The frame the page reads goes from the queue into its cache: what the    *)
(* page will show in the end stays the same.                                *)
LEMMA ReceiveShows ==
  ASSUME TypeOK, Receive, open, NEW q \in Cells, NEW colour, Loaded(ChunkOf[q])
  PROVE  Shows(q, colour) => Shows(q, colour)'
<1>1. /\ queue' = Tail(queue) /\ queue # <<>> /\ queue \in Seq(Frame)
      /\ \A j \in Chunks : cache'[j] = Applied(Head(queue), j)
  BY DEF Receive, TypeOK
<1>2. PICK frame : frame = Head(queue)
  OBVIOUS
<1>3. /\ frame \in Frame /\ Len(queue) \in Nat \ {0} /\ frame = queue[1]
      /\ DOMAIN queue = 1 .. Len(queue) /\ DOMAIN queue' = 1 .. Len(queue) - 1
      /\ Len(queue') = Len(queue) - 1
      /\ \A i \in 1 .. Len(queue) - 1 : queue'[i] = queue[i + 1]
  BY <1>1, <1>2, TailType
<1>4. \A i \in 2 .. Len(queue) : i - 1 \in 1 .. Len(queue) - 1 /\ queue'[i - 1] = queue[i]
  <2>1. ASSUME NEW i \in 2 .. Len(queue)
        PROVE  i - 1 \in 1 .. Len(queue) - 1 /\ queue'[i - 1] = queue[i]
    <3>1. PICK m : m = i - 1
      OBVIOUS
    <3>2. m \in 1 .. Len(queue) - 1 /\ i = m + 1
      BY <1>3, <3>1
    <3> QED BY <1>3, <3>1, <3>2
  <2> QED BY <2>1
<1>5. PICK k : k = ChunkOf[q]
  OBVIOUS
<1>6. /\ k \in Chunks /\ q \in CellsOf(k)
      /\ frame \in {Ack, Greeting} => ~Writes(frame, q)
      /\ frame \in Snapshots =>
           /\ frame.kind = "snapshot" /\ frame.cells # Nothing
           /\ Writes(frame, q) <=> frame.chunk = k
      /\ frame \in Deltas =>
           /\ frame.kind = "delta"
           /\ Writes(frame, q) => k \in DOMAIN frame.ver
      /\ frame \in {Ack, Greeting} \/ frame \in Snapshots \/ frame \in Deltas
  BY <1>3, <1>5, FrameWrites
<1>7. cache'[k] = Applied(frame, k)
  BY <1>1, <1>2, <1>6
\* a snapshot of the chunk, a delta on a cached chunk, anything else
<1>8. CASE frame \in Snapshots /\ frame.chunk = k
  <2>1. cache'[k] = frame.cells /\ cache'[k] # Nothing /\ Writes(frame, q)
    BY <1>6, <1>7, <1>8 DEF Applied
  <2>2. ASSUME Shows(q, colour)
        PROVE  Shows(q, colour)'
    <3>1. ~ \A i \in DOMAIN queue : ~Writes(queue[i], q)
      BY <1>3, <2>1
    <3>2. PICK i \in DOMAIN queue :
            /\ Writes(queue[i], q) /\ queue[i].cells[q] = colour
            /\ \A j \in i + 1 .. Len(queue) : ~Writes(queue[j], q)
      BY <2>2, <3>1 DEF Shows
    <3>3. CASE i = 1
      <4>1. \A j \in DOMAIN queue' : ~Writes(queue'[j], q)
        BY <1>3, <3>2, <3>3
      <4>2. cache'[ChunkOf[q]] # Nothing /\ cache'[ChunkOf[q]][q] = colour
        BY <1>3, <1>5, <2>1, <3>2, <3>3
      <4> QED BY <4>1, <4>2 DEF Shows, Writes
    <3>4. CASE i # 1
      <4>1. PICK m : m = i - 1
        OBVIOUS
      <4>2. m \in DOMAIN queue' /\ queue'[m] = queue[i] /\ i = m + 1
        BY <1>3, <1>4, <3>4, <4>1
      <4>3. \A j \in m + 1 .. Len(queue') : ~Writes(queue'[j], q)
        BY <1>3, <3>2, <4>2
      <4> QED BY <3>2, <4>2, <4>3 DEF Shows, Writes
    <3> QED BY <3>3, <3>4
  <2> QED BY <2>2
<1>9. CASE ~(frame \in Snapshots /\ frame.chunk = k)
  <2>1. Writes(frame, q) => frame \in Deltas /\ k \in DOMAIN frame.ver
    BY <1>6, <1>9
  <2>2. ~Replaces(frame, k)
    BY <1>6, <1>9 DEF Replaces, Ack, Greeting
  <2>3. ASSUME Shows(q, colour)
        PROVE  Shows(q, colour)'
    <3>1. ASSUME NEW i \in DOMAIN queue, Writes(queue[i], q), queue[i].cells[q] = colour,
                 \A j \in i + 1 .. Len(queue) : ~Writes(queue[j], q), i # 1
          PROVE  Shows(q, colour)'
      <4>1. PICK m : m = i - 1
        OBVIOUS
      <4>2. m \in DOMAIN queue' /\ queue'[m] = queue[i] /\ i = m + 1
        BY <1>3, <1>4, <3>1, <4>1
      <4>3. \A j \in m + 1 .. Len(queue') : ~Writes(queue'[j], q)
        BY <1>3, <3>1, <4>2
      <4> QED BY <3>1, <4>2, <4>3 DEF Shows, Writes
    <3>2. ASSUME Writes(frame, q), frame.cells[q] = colour,
                 \A j \in 2 .. Len(queue) : ~Writes(queue[j], q)
          PROVE  Shows(q, colour)'
      <4>1. \A j \in DOMAIN queue' : ~Writes(queue'[j], q)
        BY <1>3, <3>2
      <4>2. cache[k] # Nothing
        <5>1. ASSUME NEW i \in DOMAIN queue, Replaces(queue[i], k)
              PROVE  FALSE
          <6>1. queue[i] \in Frame
            BY <1>1, <1>3
          <6>2. queue[i] \in Snapshots
            BY <5>1, <6>1, FrameWrites DEF Replaces, Ack, Greeting
          <6>3. Writes(queue[i], q)
            BY <1>5, <5>1, <6>1, <6>2, FrameWrites DEF Replaces
          <6>4. i = 1
            BY <1>3, <3>2, <6>3
          <6> QED BY <1>3, <2>2, <5>1, <6>4
        <5> QED BY <1>5, <5>1 DEF Loaded
      <4>3. cache'[k] # Nothing /\ cache'[k][q] = colour
        BY <1>3, <1>6, <1>7, <2>1, <2>2, <3>2, <4>2, ReceiveApplied DEF Writes
      <4> QED BY <1>5, <4>1, <4>3 DEF Shows, Writes
    <3>3. ASSUME \A i \in DOMAIN queue : ~Writes(queue[i], q),
                 cache[k] # Nothing, cache[k][q] = colour
          PROVE  Shows(q, colour)'
      <4>1. \A j \in DOMAIN queue' : ~Writes(queue'[j], q)
        BY <1>3, <3>3
      <4>2. ~Writes(frame, q)
        BY <1>3, <3>3
      <4>3. cache'[k] # Nothing /\ cache'[k][q] = colour
        BY <1>3, <1>6, <1>7, <2>2, <3>3, <4>2, ReceiveApplied DEF Writes
      <4> QED BY <1>5, <4>1, <4>3 DEF Shows, Writes
    <3> QED BY <1>3, <1>5, <2>3, <3>1, <3>2, <3>3 DEF Shows
  <2> QED BY <2>3
<1> QED BY <1>8, <1>9

(* Reading a frame keeps the conditions on the chunks.                      *)
LEMMA ReceiveQueued ==
  ASSUME TypeOK, QueuedOK, PackedOK, Receive
  PROVE  QueuedOK' /\ PackedOK'
<1>1. UNCHANGED <<board, pc, delta, copied, hub, conn, open, needSnap, todo, packed, newest, disturbed>>
  BY DEF Receive, server, sending, locals, frames
<1>2. CASE ~open
  BY <1>1, <1>2, Untended DEF Tended
<1>3. CASE open
  <2>1. \A q : Unmoved(q)
    BY <1>1 DEF Unmoved, Pending, Carries
  <2>2. ASSUME NEW k \in Chunks
        PROVE  ChunkOK(k)'
    <3> SUFFICES ASSUME Fresh(k)'
                 PROVE  /\ Loaded(k)'
                        /\ \A q \in CellsOf(k) : \A colour, n :
                             colour = board'[q] /\ n = newest'[k] => CellOK(q, colour, n)'
      BY ChunkGoal
    <3>1. Fresh(k)
      BY <1>1 DEF Fresh, Loading, Tended, hub
    <3>2. Loaded(k) /\ \A q \in CellsOf(k) : CellOK(q, board[q], newest[k])
      BY <3>1 DEF QueuedOK, ChunkOK
    <3>3. Loaded(k)'
      BY <1>3, <3>2, ReceiveLoaded
    <3>4. ASSUME NEW q \in CellsOf(k), NEW colour, NEW n, colour = board'[q], n = newest'[k]
          PROVE  CellOK(q, colour, n)'
      <4>1. q \in Cells /\ ChunkOf[q] = k
        BY DEF CellsOf
      <4>2. CellOK(q, colour, n)
        BY <1>1, <3>2, <3>4
      <4>3. Shows(q, colour) => Shows(q, colour)'
        BY <1>3, <3>2, <4>1, ReceiveShows
      <4>4. /\ (\E a \in Actors : Pending(a, q)') <=> (\E a \in Actors : Pending(a, q))
            /\ Ordered(q, colour, n) => Ordered(q, colour, n)'
        BY <2>1, PendingSame
      <4> QED BY <4>2, <4>3, <4>4 DEF CellOK
    <3> QED BY <3>3, <3>4
  <2>3. Usable' => Usable
    BY <1>1 DEF Usable, Tended, hub
  <2>4. PackedOK'
    BY <1>1, <2>1, <2>3, PackedSame
  <2> QED BY <2>2, <2>4 DEF QueuedOK
<1> QED BY <1>2, <1>3

(* Registering and removing a session leave the page without a client or    *)
(* with one that has no subscriptions.                                     *)
LEMMA ConnectionQueued ==
  ASSUME TypeOK, QueuedOK, PackedOK, NEW c \in Conns,
         Register(c) \/ Welcome(c) \/ Fail(c) \/ SendPanics(c) \/ RemoveSession(c)
  PROVE  QueuedOK' /\ PackedOK'
<1>1. conn \in Conns /\ Nothing # conn /\ Conns \subseteq Actors
  BY DeliveryAssumption DEF TypeOK, Actors
<1>2. CASE Register(c) \/ RemoveSession(c)
  <2>1. \A k : ~Tended(k)'
    BY <1>1, <1>2 DEF Register, RemoveSession, Tended, client
  <2> QED BY <2>1, Untended
<1>3. CASE Welcome(c)
  <2>1. /\ UNCHANGED <<board, delta, copied, hub, conn, open, needSnap, todo, packed, cache, newest,
                       disturbed>>
        /\ pc[c] = "welcome" /\ delta[c] = Nothing /\ packed[c] = Nothing
    BY <1>1, <1>3 DEF Welcome, server, locals, client, frames, TypeOK
  <2>2. CASE Closed(c)
    <3>1. queue' = queue /\ Goto(c, "abandoned")
      BY <1>3, <2>2 DEF Welcome
    <3>2. CASE c = conn
      BY <2>1, <3>1, <3>2, OwnSame DEF Fresh, Tended, hub
    <3>3. CASE c # conn
      BY <2>1, <3>1, <3>3, OthersSame DEF hub
    <3> QED BY <3>2, <3>3
  <2>3. CASE ~Closed(c)
    <3>1. Goto(c, "ready") /\ Enqueue(c, Greeting)
      BY <1>3, <2>3 DEF Welcome
    <3> QED BY <2>1, <3>1, AckQueued DEF frames
  <2> QED BY <2>2, <2>3
<1>4. CASE Fail(c)
  <2>1. /\ UNCHANGED <<board, delta, copied, hub, conn, open, needSnap, todo, packed, cache, newest,
                       disturbed, queue>>
        /\ pc[c] = "ready" /\ delta[c] = Nothing /\ Goto(c, "closing")
    BY <1>1, <1>4 DEF Fail, server, locals, client, frames, TypeOK
  <2>2. CASE c = conn
    BY <2>1, <2>2, OwnSame DEF Fresh, Tended, hub
  <2>3. CASE c # conn
    BY <2>1, <2>3, OthersSame DEF hub
  <2> QED BY <2>2, <2>3
<1>5. CASE SendPanics(c)
  <2>1. CASE c = conn
    BY <1>5, <2>1, Untended DEF SendPanics, Closed, Tended, hub, client
  <2>2. CASE c # conn
    <3>1. UNCHANGED <<board, delta, copied, hub, conn, open, needSnap, cache, newest, disturbed, queue>>
          /\ Goto(c, "closing")
      BY <1>5 DEF SendPanics, server, client, frames
    <3>2. delta[c] = Nothing
      BY <1>1, <1>5 DEF SendPanics, TypeOK
    <3>3. todo'[conn] = todo[conn] /\ packed'[conn] = packed[conn]
      BY <1>1, <1>5, <2>2 DEF SendPanics, TypeOK
    <3> QED BY <2>2, <3>1, <3>2, <3>3, OthersSame DEF hub
  <2> QED BY <2>1, <2>2
<1> QED BY <1>2, <1>3, <1>4, <1>5

(* Messages that are read make no chunk fresh: the subscription the page    *)
(* asked for is to be sent, one another connection brought is meddled with. *)
LEMMA ReadingQueued ==
  ASSUME TypeOK, VersionsOK, QueuedOK, PackedOK, NEW c \in Conns,
         ReadSubscribe(c) \/ ReadUnsubscribe(c) \/ ReadPlace(c) \/ RefusePlace(c)
  PROVE  QueuedOK' /\ PackedOK'
<1>1. /\ conn \in Conns /\ Nothing # conn /\ Conns \subseteq Actors
      /\ UNCHANGED <<conn, open, cache, needSnap, packed, queue>> \/ RefusePlace(c)
  BY DeliveryAssumption
     DEF TypeOK, Actors, ReadSubscribe, ReadUnsubscribe, ReadPlace, client, locals
<1>2. pc[c] = "ready" /\ delta[c] = Nothing /\ packed[c] = Nothing
  BY <1>1 DEF ReadSubscribe, ReadUnsubscribe, ReadPlace, RefusePlace, Hears, TypeOK
<1>3. CASE registered' # conn' /\ ~RefusePlace(c)
  BY <1>3, Untended DEF Tended
<1>4. CASE ReadSubscribe(c) /\ registered' = conn'
  <2>1. PICK k0 : k0 = Head(up[c]).chunk
    OBVIOUS
  <2>2. /\ UNCHANGED <<board, delta, copied, conn, open, needSnap, packed, cache, newest, disturbed,
                       queue, registered>>
        /\ registered = conn /\ registered # Nothing
    BY <1>1, <1>4 DEF ReadSubscribe, server, client, frames, hub
  <2>3. /\ subs' = subs \cup {k0} /\ Meddle(c, {k0}) /\ todo' = [todo EXCEPT ![c] = {k0}]
        /\ Goto(c, "pack")
    BY <1>4, <2>1, <2>2 DEF ReadSubscribe
  <2>4. CASE c = conn
    <3>1. meddled' = meddled \ {k0}
      BY <2>2, <2>3, <2>4 DEF Meddle
    <3>2. pc'[conn] = "pack" /\ todo'[conn] = {k0}
      BY <1>1, <2>3, <2>4 DEF Goto, TypeOK
    <3>3. ASSUME NEW k \in Chunks, Fresh(k)'
          PROVE  k \in subs \ meddled /\ open /\ ~needSnap[conn] /\ disturbed[k] = {}
      <4>1. k # k0
        BY <2>2, <3>2, <3>3 DEF Fresh, Loading
      <4> QED BY <2>2, <2>3, <3>1, <3>3, <4>1 DEF Fresh, Tended
    <3> QED BY <1>2, <2>2, <2>3, <2>4, <3>3, OwnSame
  <2>5. CASE c # conn
    <3>1. meddled' = meddled \cup {k0}
      BY <2>2, <2>3, <2>5 DEF Meddle
    <3>2. todo'[conn] = todo[conn]
      BY <1>1, <2>3, <2>5 DEF TypeOK
    <3>3. subs' \ meddled' \subseteq subs \ meddled
      BY <2>3, <3>1
    <3> QED BY <1>2, <2>2, <2>3, <2>5, <3>2, <3>3, OthersSame
  <2> QED BY <2>4, <2>5
<1>5. CASE ReadUnsubscribe(c) /\ registered' = conn'
  <2>1. PICK k0 : k0 = Head(up[c]).chunk
    OBVIOUS
  <2>2. /\ UNCHANGED <<board, delta, copied, conn, open, needSnap, packed, cache, newest, disturbed,
                       queue, registered, pc, todo>>
        /\ registered = conn /\ subs' = subs \ {k0} /\ Meddle(c, {k0})
    BY <1>5, <2>1 DEF ReadUnsubscribe, server, sending, locals, client, frames
  <2>3. subs' \ meddled' \subseteq subs \ meddled
    BY <2>2 DEF Meddle
  <2>4. CASE c = conn
    BY <1>2, <2>2, <2>3, <2>4, OwnSame DEF Fresh, Tended
  <2>5. CASE c # conn
    BY <1>2, <2>2, <2>3, <2>5, OthersSame
  <2> QED BY <2>4, <2>5
<1>6. CASE ReadPlace(c)
  <2>1. UNCHANGED <<hub, conn, open, queue, needSnap, todo, packed, cache, newest, disturbed>>
    BY <1>6 DEF ReadPlace, client, frames, locals
  <2>2. PICK cells \in Moves : Place(c, cells)
    BY <1>6 DEF ReadPlace
  <2>3. c \in Actors
    BY <1>1
  <2> QED BY <1>2, <2>1, <2>2, <2>3, PlaceQueued
<1>7. CASE RefusePlace(c)
  <2>1. UNCHANGED <<board, delta, copied, hub, conn, open, needSnap, todo, packed, cache, frames>>
    BY <1>7 DEF RefusePlace, server, client, locals
  <2>2. CASE Goto(c, "ack") /\ queue' = queue
    <3>1. CASE c = conn
      BY <1>2, <2>1, <2>2, <3>1, OwnSame DEF Fresh, Tended, hub, frames
    <3>2. CASE c # conn
      BY <1>2, <2>1, <2>2, <3>2, OthersSame DEF hub, frames
    <3> QED BY <3>1, <3>2
  <2>3. CASE Enqueue(c, Ack) /\ pc' = pc
    <3>1. Goto(c, "ready")
      BY <1>2, <2>3 DEF Goto, TypeOK
    <3> QED BY <1>2, <2>1, <2>3, <3>1, AckQueued
  <2> QED BY <1>7, <2>2, <2>3 DEF RefusePlace
<1> QED BY <1>3, <1>4, <1>5, <1>6, <1>7

(* What a goroutine sends keeps them; what it takes of the mark of the      *)
(* page's client is to be sent, or counts as meddled with.                  *)
LEMMA SendingQueued ==
  ASSUME TypeOK, ControlOK, ClientOK, VersionsOK, QueuedOK, PackedOK, NEW c \in Conns,
         \/ SendAck(c) \/ QueueSnapshot(c) \/ TakeChunks(c) \/ TakeFlag(c)
         \/ \E k \in Chunks : PackChunk(c, k)
  PROVE  QueuedOK' /\ PackedOK'
<1>1. conn \in Conns /\ Nothing # conn /\ Conns \subseteq Actors
  BY DeliveryAssumption DEF TypeOK, Actors
<1>2. \A label : Goto(c, label) => pc'[c] = label
  BY <1>1 DEF Goto, TypeOK
<1>3. delta[c] = Nothing
  BY <1>1 DEF SendAck, QueueSnapshot, TakeChunks, TakeFlag, PackChunk, TypeOK
<1>4. CASE SendAck(c)
  <2>1. UNCHANGED <<board, delta, copied, hub, conn, open, needSnap, todo, packed, cache, frames>>
        /\ pc[c] = "ack" /\ Enqueue(c, Ack) /\ Goto(c, "take")
    BY <1>4 DEF SendAck, server, client, locals
  <2>2. packed[c] = Nothing
    BY <2>1 DEF TypeOK
  <2> QED BY <1>3, <2>1, <2>2, AckQueued
<1>5. CASE QueueSnapshot(c)
  <2>1. CASE c = conn
    BY <1>5, <2>1, SnapshotQueued
  <2>2. CASE c # conn
    <3>1. /\ UNCHANGED <<board, delta, copied, hub, conn, open, needSnap, cache, newest, disturbed,
                         queue>>
          /\ \E label : Goto(c, label)
      BY <1>5, <2>2 DEF QueueSnapshot, Enqueue, server, client, frames
    <3>2. todo'[conn] = todo[conn] /\ packed'[conn] = packed[conn]
      BY <1>1, <1>5, <2>2 DEF QueueSnapshot, TypeOK
    <3> QED BY <1>3, <2>2, <3>1, <3>2, OthersSame DEF hub
  <2> QED BY <2>1, <2>2
<1>6. CASE TakeChunks(c)
  <2>1. /\ UNCHANGED <<board, delta, copied, hub, conn, open, needSnap, packed, cache, newest,
                       disturbed, queue>>
        /\ pc[c] = "take" /\ \E label : Goto(c, label)
    BY <1>6 DEF TakeChunks, server, client, frames
  <2>2. CASE c = conn
    BY <1>3, <2>1, <2>2, OwnSame DEF Fresh, Tended, hub
  <2>3. CASE c # conn
    <3>1. todo'[conn] = todo[conn]
      BY <1>1, <1>6, <2>3 DEF TakeChunks, TypeOK
    <3> QED BY <1>3, <2>1, <2>3, <3>1, OthersSame DEF hub
  <2> QED BY <2>2, <2>3
<1>7. CASE TakeFlag(c)
  <2>1. PICK d : d = taken[c]
    OBVIOUS
  <2>2. /\ UNCHANGED <<board, delta, copied, registered, subs, conn, open, packed, cache, newest,
                       disturbed, queue>>
        /\ pc[c] = "flag" /\ (\E label : Goto(c, label))
        /\ needSnap' = [needSnap EXCEPT ![d] = FALSE]
        /\ meddled' = IF c # conn /\ d = conn /\ needSnap[d] THEN Chunks ELSE meddled
    BY <1>7, <2>1 DEF TakeFlag, server, client, frames
  <2>3. CASE registered # conn
    BY <2>2, <2>3, Untended DEF Tended
  <2>4. CASE c = conn /\ registered = conn
    <3>1. d = conn /\ subs \ meddled \subseteq todo[conn]
      BY <2>1, <2>2, <2>4 DEF ClientOK
    <3>2. /\ meddled' = meddled
          /\ todo' = [todo EXCEPT ![c] = IF needSnap[d] THEN todo[c] ELSE {}]
          /\ Goto(c, IF todo'[c] = {} THEN "ready" ELSE "repack")
      BY <1>7, <2>1, <2>2, <2>4 DEF TakeFlag
    <3>3. CASE needSnap[conn]
      <4>1. todo'[conn] = todo[conn]
        BY <1>1, <2>4, <3>1, <3>2, <3>3 DEF TypeOK
      <4>2. ASSUME NEW k \in Chunks, Fresh(k)'
            PROVE  FALSE
        <5>1. k \in todo'[conn]
          BY <2>2, <3>1, <3>2, <4>1, <4>2 DEF Fresh, Tended
        <5>2. pc'[conn] = "repack"
          BY <1>2, <2>4, <3>2, <5>1
        <5> QED BY <2>2, <4>2, <5>1, <5>2 DEF Fresh, Loading
      <4>3. conn \in Conns /\ pc[conn] \notin {"pack", "repack"} /\ delta[conn] = Nothing
            /\ (\E label : Goto(conn, label))
        BY <1>1, <1>3, <2>2, <2>4
      <4> QED BY <2>2, <4>2, <4>3, OwnSame
    <3>4. CASE ~needSnap[conn]
      <4>1. conn \in Conns /\ pc[conn] \notin {"pack", "repack"} /\ delta[conn] = Nothing
            /\ (\E label : Goto(conn, label))
        BY <1>1, <1>3, <2>2, <2>4
      <4>2. \A k \in Chunks : Fresh(k)' => k \in subs \ meddled /\ open /\ disturbed[k] = {}
        BY <2>2, <3>2 DEF Fresh, Tended
      <4> QED BY <2>2, <2>4, <3>4, <4>1, <4>2, OwnSame
    <3> QED BY <3>3, <3>4
  <2>5. CASE c # conn /\ registered = conn
    <3>1. CASE d = conn /\ needSnap[conn]
      <4>1. meddled' = Chunks /\ subs' \subseteq Chunks
        BY <2>2, <2>5, <3>1 DEF TypeOK
      <4> QED BY <4>1, Untended DEF Tended
    <3>2. CASE ~(d = conn /\ needSnap[conn])
      <4>1. meddled' = meddled
        BY <2>2, <3>2
      <4>2. needSnap'[conn] = needSnap[conn]
        BY <1>1, <2>2, <3>2 DEF TypeOK
      <4>3. todo'[conn] = todo[conn]
        BY <1>1, <1>7, <2>5 DEF TakeFlag, TypeOK
      <4> QED BY <1>3, <2>2, <2>5, <4>1, <4>2, <4>3, OthersSame
    <3> QED BY <3>1, <3>2
  <2> QED BY <2>3, <2>4, <2>5
<1>8. ASSUME NEW k \in Chunks, PackChunk(c, k)
      PROVE  QueuedOK' /\ PackedOK'
  <2>1. CASE c = conn
    BY <1>8, <2>1, PackQueued
  <2>2. CASE c # conn
    <3>1. /\ UNCHANGED <<board, delta, copied, hub, conn, open, needSnap, todo, cache, newest,
                         disturbed, queue, pc>>
      BY <1>8 DEF PackChunk, server, sending, client, frames
    <3>2. packed'[conn] = packed[conn]
      BY <1>1, <1>8, <2>2 DEF PackChunk, TypeOK
    <3> QED BY <1>3, <2>2, <3>1, <3>2, OthersSame DEF hub
  <2> QED BY <2>1, <2>2
<1> QED BY <1>4, <1>5, <1>6, <1>7, <1>8

(* Every step keeps them.                                                   *)
LEMMA QueuedNext ==
  ASSUME TypeOK, ControlOK, ClientOK, VersionsOK, QueuedOK, PackedOK, [Next]_vars
  PROVE  QueuedOK' /\ PackedOK'
<1>1. ASSUME NEW p \in Players, NEW cells \in Moves, PlayerPlaces(p, cells)
      PROVE  QueuedOK' /\ PackedOK'
  <2>1. UNCHANGED <<hub, conn, open, queue, needSnap, todo, packed, cache, newest, disturbed>>
        /\ pc[p] = "ready" /\ Place(p, cells) /\ p \in Actors
    BY <1>1 DEF PlayerPlaces, client, frames, locals, Actors
  <2> QED BY <2>1, PlaceQueued
<1>2. ASSUME NEW a \in Actors, Handling(a)
      PROVE  QueuedOK' /\ PackedOK'
  BY <1>2, CollectQueued, OfferQueued, PanicQueued DEF Handling
<1>3. ASSUME NEW c \in Conns, Serving(c) \/ Fail(c)
      PROVE  QueuedOK' /\ PackedOK'
  BY <1>3, ConnectionQueued, ReadingQueued, SendingQueued DEF Serving
<1>4. CASE UNCHANGED <<board, pc, delta, copied, hub, conn, open, queue, needSnap, todo, packed,
                       cache, newest, disturbed>>
  <2>1. \A q : Unmoved(q)
    BY <1>4 DEF Unmoved, Pending, Carries
  <2>2. \A k : Fresh(k)' => Fresh(k)
    BY <1>4 DEF Fresh, Loading, Tended, hub
  <2>3. Usable' => Usable /\ packed'[conn'] = packed[conn]
    BY <1>4 DEF Usable, Tended, hub
  <2> QED BY <1>4, <2>1, <2>2, <2>3, AllSame
<1>5. ASSUME NEW k \in Chunks, Show(k) \/ Hide(k)
      PROVE  QueuedOK' /\ PackedOK'
  BY <1>4, <1>5 DEF Show, Hide, server, sending, locals, frames
<1>6. CASE Click \/ UNCHANGED vars
  BY <1>4, <1>6 DEF Click, vars, server, sending, locals, client, frames
<1>7. CASE Receive
  BY <1>7, ReceiveQueued
<1>8. CASE Lose
  BY <1>8, Untended DEF Lose, Tended
<1>9. ASSUME NEW c \in Conns, Reconnect(c)
      PROVE  QueuedOK' /\ PackedOK'
  <2>1. registered' # conn'
    BY <1>9 DEF Reconnect, Unused, ControlOK
  <2> QED BY <2>1, Untended DEF Tended
<1> QED BY <1>1, <1>2, <1>3, <1>5, <1>6, <1>7, <1>8, <1>9 DEF Next

-----------------------------------------------------------------------------
(* The theorem                                                               *)

(* The frames that are under way to the page, what it has and the marks of  *)
(* the server agree, in every behaviour: also while earlier connections of  *)
(* the page are still served, and after a broadcast that panicked.          *)
THEOREM DeliveryConsistent == Spec => []DeliveryInv
<1>1. Init => DeliveryInv
  <2> SUFFICES ASSUME Init PROVE DeliveryInv
    OBVIOUS
  <2>1. \A k : ~Tended(k)
    BY DEF Init, Tended
  <2>2. QueuedOK /\ PackedOK
    BY <2>1 DEF QueuedOK, ChunkOK, Fresh, PackedOK, Usable
  <2> QED BY <2>2, CoreInit, AsksInit DEF DeliveryInv
<1>2. DeliveryInv /\ [Next]_vars => DeliveryInv'
  BY CoreNext, AsksNext, QueuedNext DEF DeliveryInv
<1> QED BY <1>1, <1>2, PTL DEF Spec

(* With nothing about a chunk under way, no mark left, and nothing done to  *)
(* it against which there is no provision, the page has the board.          *)
LEMMA QuietIsUpToDate ==
  ASSUME DeliveryInv, NEW k \in wanted \ meddled, Served, Quiet(k), ~needSnap[conn],
         disturbed[k] = {}
  PROVE  UpToDate(k)
<1>1. k \in Chunks /\ TypeOK /\ open
  BY DEF DeliveryInv, TypeOK, Served
<1>2. Has(k)
  <2>1. NoAsk(up[conn], k)
    BY DEF Quiet, NoAskFor, NoAsk, AsksFor
  <2> QED BY <1>1, <2>1 DEF DeliveryInv, AsksOK
<1>3. Fresh(k)
  BY <1>1, <1>2 DEF Fresh, Loading, Tended, Has, Quiet
<1>4. Loaded(k) /\ \A q \in CellsOf(k) : CellOK(q, board[q], newest[k])
  BY <1>1, <1>3 DEF DeliveryInv, QueuedOK, ChunkOK
<1>5. cache[k] # Nothing
  BY <1>4 DEF Loaded, Replaces, Quiet, About
<1>6. cache[k] \in [CellsOf(k) -> Colours]
  BY <1>1, <1>5 DEF TypeOK, Image
<1>7. ASSUME NEW q \in CellsOf(k)
      PROVE  cache[k][q] = board[q]
  <2>1. q \in Cells /\ ChunkOf[q] = k
    BY DEF CellsOf
  <2>2. ASSUME NEW a \in Actors, Pending(a, q)
        PROVE  FALSE
    <3>1. delta[a] # Nothing /\ delta[a].kind = "delta" /\ k \in DOMAIN delta[a].ver
      BY <1>1, <2>1, <2>2, PendingType, DeltaType DEF Pending, Carries
    <3> QED BY <3>1 DEF Quiet, About
  <2>3. ASSUME NEW i \in DOMAIN queue
        PROVE  ~Writes(queue[i], q)
    <3>1. queue[i] \in Frame
      BY <1>1 DEF TypeOK
    <3>2. ~About(k, queue[i])
      BY DEF Quiet
    <3> QED BY <2>1, <3>1, <3>2, FrameWrites DEF About
  <2>4. Shows(q, board[q])
    BY <1>4, <2>2 DEF CellOK
  <2> QED BY <2>1, <2>3, <2>4 DEF Shows
<1> QED BY <1>6, <1>7 DEF UpToDate

(* What the page shows of a chunk when nothing about it is under way is the *)
(* board, or the server has marked that it is not, or one of the five       *)
(* things happened that StaleIsMarked names - in every behaviour, for any   *)
(* players, connections, cells, chunks and queue, through dropped frames,   *)
(* new subscriptions, panics, lost and overlapping connections and the two  *)
(* steps of TakeResnapshot.                                                *)
THEOREM StaleIsMarkedCorrect == Spec => []StaleIsMarked
<1>1. DeliveryInv => StaleIsMarked
  BY QuietIsUpToDate DEF StaleIsMarked
<1> QED BY <1>1, DeliveryConsistent, PTL
=============================================================================
