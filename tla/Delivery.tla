------------------------------- MODULE Delivery -------------------------------
(***************************************************************************)
(* What one browser sees of the board: placements are committed under the  *)
(* chunk locks and broadcast afterwards (main.go), snapshots are packed     *)
(* under a lock and queued afterwards, a queue that is full drops frames,  *)
(* and the page applies what arrives to its chunk cache (client/src).      *)
(*                                                                         *)
(* The browser has one page, which opens a connection after the other.     *)
(* Each is served by a goroutine of its own, which may go on after the     *)
(* page has lost the connection and opened the next: the hub knows the     *)
(* session, not the connection, so what such a goroutine still does is     *)
(* done to the client of the newer one.  The page may place stones as      *)
(* well.  The other players are only their goroutines; the channels of     *)
(* their clients may be closed at any time (Hub.tla has how).              *)
(***************************************************************************)
EXTENDS Integers, FiniteSets, SequencesExt

CONSTANTS
  Players,     \* the other players
  Conns,       \* the connections of the page, one run of serveWS each
  First,       \* the first of them: it is open, its goroutine has not begun
  Colours,     \* the colours of stones
  TeamOf,      \* TeamOf[a]: the colour of the stones of actor a
  Cells,       \* the cells of the board placements write
  Chunks,
  ChunkOf,     \* ChunkOf[cell]: its chunk
  StartBoards, \* what may be on them at the beginning
  Moves,       \* the sets of cells a placement may write
  Capacity,    \* DefaultOutboundBuffer: the room in Client.Outbound (256)
  Nothing,     \* stands for what is absent
  MaxCommits,  \* bound: placements
  MaxMessages  \* bound: messages of the page, but for those of a new connection

Actors == Players \cup Conns
Touched(cells) == {ChunkOf[q] : q \in cells}
CellsOf(k)     == {q \in Cells : ChunkOf[q] = k}

Snapshot(k, cells, ver) == [kind |-> "snapshot", chunk |-> k, cells |-> cells, ver |-> ver]
Delta(cells, ver)       == [kind |-> "delta", cells |-> cells, ver |-> ver]
Ack                     == [kind |-> "ack"]
Greeting                == [kind |-> "welcome"]

(* A snapshot has every cell of its chunk, a delta the versions of the      *)
(* chunks of its cells.                                                    *)
Image(k)  == [CellsOf(k) -> Colours]
Images    == UNION {Image(k) : k \in Chunks}
Snapshots == UNION {{Snapshot(k, cells, ver) : cells \in Image(k), ver \in 0 .. MaxCommits} :
                      k \in Chunks}
Deltas    == UNION {{Delta(colours, ver) : colours \in [cells -> Colours],
                                           ver \in [Touched(cells) -> 0 .. MaxCommits]} :
                      cells \in SUBSET Cells}
Frame     == Snapshots \cup Deltas \cup {Ack, Greeting}

Ask(kind, k) == [kind |-> kind, chunk |-> k]
Message      == {Ask(kind, k) : kind \in {"subscribe", "unsubscribe"}, k \in Chunks}
                  \cup {[kind |-> "place"]}

ASSUME DeliveryAssumption ==
  /\ Players \cap Conns = {} /\ First \in Conns /\ Nothing \notin Conns
  /\ TeamOf \in [Actors -> Colours]
  /\ IsFiniteSet(Chunks)
  /\ ChunkOf \in [Cells -> Chunks]
  /\ StartBoards \subseteq [Cells -> Colours]
  /\ Moves \subseteq (SUBSET Cells) \ {{}}
  /\ Capacity \in Nat \ {0}
  /\ MaxCommits \in Nat /\ MaxMessages \in Nat
  /\ Nothing \notin Images \cup Snapshots \cup Deltas

VARIABLES
  board,      \* Board.cells
  version,    \* version[k]: ChunkMeta.version
  commits,    \* number of placements, bounded
  pc,         \* what the goroutine of each actor does next
  delta,      \* its delta frame, while it broadcasts it
  copied,     \* the client of the page that is in its copy of the subscribers
  registered, \* the connection whose client the hub has for the session
  subs,       \* the subscriptions of that client
  needSnap,   \* needSnap[c]: Client.NeedResnapshot
  taken,      \* the client TakeResnapshot found
  todo,       \* todo[c]: the chunks the goroutine of c is to send
  packed,     \* packed[c]: the snapshot it has packed and not yet queued
  messages,   \* number of messages of the page, bounded
  up,         \* up[c]: those sent on connection c that the server has not read
  conn,       \* the newest connection of the page
  queue,      \* Client.Outbound of that connection
  open,       \* the page's socket is open
  wanted,     \* WebSocketClient.subscribedChunks
  cache,      \* the chunk cache of the page
  pending,    \* the page waits for the ack of a placement: lastPlace
  newest,     \* history: newest[k]: the newest version of k offered on this connection
  disturbed,  \* history: disturbed[k]: what went wrong with k since its last good snapshot
  meddled,    \* history: chunks another connection's goroutine changed for this client
  unanswered  \* history: the pending placement or its ack was lost

server  == <<board, version, commits>>
sending == <<pc, delta, copied>>
hub     == <<registered, subs, meddled>>
locals  == <<taken, todo, packed>>
client  == <<conn, open, messages, wanted, cache, pending>>
frames  == <<newest, disturbed>>
vars    == <<server, sending, hub, needSnap, locals, up, queue, client, frames, unanswered>>

Goto(a, label) == pc' = [pc EXCEPT ![a] = label]

Init ==
  /\ board \in StartBoards
  /\ version = [k \in Chunks |-> 0]
  /\ commits = 0
  /\ pc = [a \in Actors |-> IF a \in Players THEN "ready"
                           ELSE IF a = First THEN "register" ELSE "none"]
  /\ delta = [a \in Actors |-> Nothing] /\ copied = [a \in Actors |-> Nothing]
  /\ registered = Nothing /\ subs = {}
  /\ needSnap = [c \in Conns |-> FALSE]
  /\ taken = [c \in Conns |-> Nothing]
  /\ todo = [c \in Conns |-> {}] /\ packed = [c \in Conns |-> Nothing]
  /\ messages = 0 /\ up = [c \in Conns |-> <<>>]
  /\ conn = First /\ queue = <<>> /\ open = TRUE
  /\ wanted = {} /\ cache = [k \in Chunks |-> Nothing] /\ pending = FALSE
  /\ newest = [k \in Chunks |-> 0] /\ disturbed = [k \in Chunks |-> {}]
  /\ meddled = {} /\ unanswered = FALSE

FullLate == Len(queue) > Capacity       \* mutant: one frame too many
Full     == Len(queue) >= Capacity
Push(frame) == queue' = IF Full THEN queue ELSE Append(queue, frame)

(* The channel of connection c was closed when its client was taken out of  *)
(* the hub or replaced.  The enqueue of serveWS; nobody reads what is       *)
(* queued for a connection the page has given up.                          *)
Closed(c)          == registered # c
Enqueue(c, frame)  == IF c = conn THEN Push(frame) ELSE UNCHANGED queue
AckIsLost(c)       == unanswered' = (unanswered \/ (c = conn /\ Full))

(* The goroutine of c has the hub change what it has of the chunks ks for   *)
(* the page's connection: its own goroutine puts them in order.             *)
Meddle(c, ks) ==
  meddled' = IF registered # conn THEN meddled
             ELSE IF c = conn THEN meddled \ ks ELSE meddled \cup ks

-----------------------------------------------------------------------------
(* handlePlace: Game.Place commits; the hub copies the subscribers and     *)
(* offers them the delta; the ack follows.                                 *)

Write(cells, colour) == [q \in Cells |-> IF q \in cells THEN colour ELSE board[q]]

Place(a, cells) ==
  /\ commits < MaxCommits
  /\ commits' = commits + 1
  /\ board' = Write(cells, TeamOf[a])
  /\ version' = [k \in Chunks |-> IF k \in Touched(cells) THEN version[k] + 1 ELSE version[k]]
  /\ delta' = [delta EXCEPT ![a] = Delta([q \in cells |-> TeamOf[a]],
                                         [k \in Touched(cells) |-> version'[k]])]
  /\ Goto(a, "collect")
  /\ UNCHANGED copied

PlayerPlaces(p, cells) ==
  /\ pc[p] = "ready"
  /\ Place(p, cells)
  /\ UNCHANGED <<hub, needSnap, locals, up, queue, client, frames, unanswered>>

\* once the delta is offered
NoAck(a)      == IF a \in Conns THEN "take" ELSE "ready"    \* mutant
AfterOffer(a) == IF a \in Conns THEN "ack" ELSE "ready"
\* once the send on a closed channel has panicked: closeAll is deferred
AfterPanic(a) == IF a \in Conns THEN "closing" ELSE "ready"

(* The rest of the loop over the copy: every other subscriber is offered    *)
(* the delta, or one of them has a closed channel.                          *)
OffersRest(a) ==
  /\ \E label \in {AfterOffer(a), AfterPanic(a)} : Goto(a, label)
  /\ delta' = [delta EXCEPT ![a] = Nothing]
  /\ copied' = [copied EXCEPT ![a] = Nothing]

Collect(a) ==
  /\ pc[a] = "collect"
  /\ IF DOMAIN delta[a].ver \cap subs # {}
     THEN Goto(a, "offer") /\ copied' = [copied EXCEPT ![a] = registered] /\ UNCHANGED delta
     ELSE OffersRest(a)
  /\ UNCHANGED <<server, hub, needSnap, locals, up, queue, client, frames, unanswered>>

\* the newest versions offered, with those of a delta
Raised(ver) == [k \in Chunks |-> IF k \in DOMAIN ver /\ ver[k] > newest[k] THEN ver[k]
                                 ELSE newest[k]]

NoMark(d) == needSnap[d]                \* mutant: a drop leaves no mark
Marked(d) == needSnap[d] \/ Full

(* The turn of the page's client in the loop, its channel being open; the   *)
(* one of a connection the page has given up may be full or not.            *)
OfferDelta(a) ==
  LET ver == delta[a].ver
      d   == copied[a] IN
  /\ pc[a] = "offer" /\ ~Closed(d)
  /\ IF d = conn
     THEN /\ Push(delta[a])
          /\ needSnap' = [needSnap EXCEPT ![d] = Marked(d)]
          /\ IF Full THEN UNCHANGED frames
             ELSE /\ newest' = Raised(ver)
                  /\ disturbed' = [k \in Chunks |-> IF k \in DOMAIN ver /\ ver[k] < newest[k]
                                     THEN disturbed[k] \cup {"reordered"} ELSE disturbed[k]]
     ELSE /\ \E mark \in {needSnap[d], TRUE} : needSnap' = [needSnap EXCEPT ![d] = mark]
          /\ UNCHANGED <<queue, frames>>
  /\ OffersRest(a)
  /\ UNCHANGED <<server, hub, locals, up, client, unanswered>>

(* Its channel is closed, or that of a subscriber whose turn came before.   *)
BroadcastPanics(a) ==
  LET ver == delta[a].ver IN
  /\ pc[a] = "offer"
  /\ IF copied[a] = conn
     THEN /\ newest' = Raised(ver)
          /\ disturbed' = [k \in Chunks |-> IF k \in DOMAIN ver THEN disturbed[k] \cup {"aborted"}
                                             ELSE disturbed[k]]
     ELSE UNCHANGED frames
  /\ Goto(a, AfterPanic(a))
  /\ delta' = [delta EXCEPT ![a] = Nothing]
  /\ copied' = [copied EXCEPT ![a] = Nothing]
  /\ UNCHANGED <<server, hub, needSnap, locals, up, queue, client, unanswered>>

-----------------------------------------------------------------------------
(* The goroutine of connection c on the server: it registers, greets the   *)
(* page and reads its messages.                                            *)

Register(c) ==
  /\ pc[c] = "register"
  /\ registered' = c /\ subs' = {}
  /\ Meddle(c, Chunks)
  /\ Goto(c, "welcome")
  /\ UNCHANGED <<server, delta, copied, needSnap, locals, up, queue, client, frames, unanswered>>

(* closeAll is deferred after the welcome: a panic leaves the socket open.  *)
Welcome(c) ==
  /\ pc[c] = "welcome"
  /\ IF Closed(c)
     THEN /\ Goto(c, "abandoned")
          /\ unanswered' = (unanswered \/ (c = conn /\ pending))
          /\ UNCHANGED queue
     ELSE Goto(c, "ready") /\ Enqueue(c, Greeting) /\ UNCHANGED unanswered
  /\ UNCHANGED <<server, delta, copied, hub, needSnap, locals, up, client, frames>>

Hears(c, kind) == pc[c] = "ready" /\ up[c] # <<>> /\ Head(up[c]).kind = kind
Read(c)        == up' = [up EXCEPT ![c] = Tail(@)]

(* The hub takes the subscription, for the client it has for the session,   *)
(* before the snapshot is packed.  Without a client there is no snapshot.   *)
ReadSubscribe(c) ==
  LET k == Head(up[c]).chunk IN
  /\ Hears(c, "subscribe") /\ Read(c)
  /\ IF registered = Nothing THEN UNCHANGED <<hub, todo, pc>>
     ELSE /\ subs' = subs \cup {k} /\ UNCHANGED registered
          /\ Meddle(c, {k})
          /\ todo' = [todo EXCEPT ![c] = {k}]
          /\ Goto(c, "pack")
  /\ UNCHANGED <<server, delta, copied, needSnap, taken, packed, queue, client, frames, unanswered>>

ReadUnsubscribe(c) ==
  LET k == Head(up[c]).chunk IN
  /\ Hears(c, "unsubscribe") /\ Read(c)
  /\ subs' = subs \ {k} /\ UNCHANGED registered
  /\ Meddle(c, {k})
  /\ UNCHANGED <<server, sending, needSnap, locals, queue, client, frames, unanswered>>

ReadPlace(c) ==
  /\ Hears(c, "place") /\ Read(c)
  /\ \E cells \in Moves : Place(c, cells)
  /\ UNCHANGED <<hub, needSnap, locals, queue, client, frames, unanswered>>

(* Refused by the rules; or by the rate limit, after which there is no      *)
(* resnapshot.                                                             *)
RefusePlace(c) ==
  /\ Hears(c, "place") /\ Read(c)
  /\ \/ Goto(c, "ack") /\ UNCHANGED <<queue, unanswered>>
     \/ ~Closed(c) /\ Enqueue(c, Ack) /\ AckIsLost(c) /\ UNCHANGED pc
  /\ UNCHANGED <<server, delta, copied, hub, needSnap, locals, client, frames>>

SendAck(c) ==
  /\ pc[c] = "ack" /\ ~Closed(c)
  /\ Enqueue(c, Ack) /\ AckIsLost(c)
  /\ Goto(c, "take")
  /\ UNCHANGED <<server, delta, copied, hub, needSnap, locals, up, client, frames>>

(* sendChunkSnapshot packs under the read lock of the chunk ...            *)
PackChunk(c, k) ==
  /\ pc[c] \in {"pack", "repack"} /\ packed[c] = Nothing
  /\ k \in todo[c]
  /\ packed' = [packed EXCEPT ![c] = Snapshot(k, [q \in CellsOf(k) |-> board[q]], version[k])]
  /\ UNCHANGED <<server, sending, hub, needSnap, taken, todo, up, queue, client, frames, unanswered>>

(* ... and queues the frame, or drops it, later.                           *)
QueueSnapshot(c) ==
  LET k == packed[c].chunk IN
  /\ packed[c] # Nothing /\ ~Closed(c)
  /\ Enqueue(c, packed[c])
  /\ todo' = [todo EXCEPT ![c] = @ \ {k}]
  /\ IF c # conn THEN UNCHANGED frames
     ELSE IF Full
     THEN disturbed' = [disturbed EXCEPT ![k] = @ \cup {"unsent"}] /\ UNCHANGED newest
     ELSE /\ disturbed' = [disturbed EXCEPT ![k] =
                              IF packed[c].ver < newest[k] THEN {"crossed"} ELSE {}]
          /\ newest' = [newest EXCEPT ![k] = IF packed[c].ver > @ THEN packed[c].ver ELSE @]
  /\ packed' = [packed EXCEPT ![c] = Nothing]
  /\ Goto(c, IF pc[c] = "pack" THEN "take" ELSE IF todo'[c] = {} THEN "ready" ELSE "repack")
  /\ UNCHANGED <<server, delta, copied, hub, needSnap, taken, up, client, unanswered>>

(* TakeResnapshot reads the subscriptions of the client the hub has, then   *)
(* the mark of that client.                                                *)
TakeChunks(c) ==
  /\ pc[c] = "take"
  /\ taken' = [taken EXCEPT ![c] = registered]
  /\ todo' = [todo EXCEPT ![c] = subs]
  /\ Goto(c, IF registered = Nothing THEN "ready" ELSE "flag")
  /\ UNCHANGED <<server, delta, copied, hub, needSnap, packed, up, queue, client, frames, unanswered>>

TakeFlag(c) ==
  LET d == taken[c] IN
  /\ pc[c] = "flag"
  /\ todo' = [todo EXCEPT ![c] = IF needSnap[d] THEN @ ELSE {}]
  /\ needSnap' = [needSnap EXCEPT ![d] = FALSE]
  /\ taken' = [taken EXCEPT ![c] = Nothing]
  /\ meddled' = IF c # conn /\ d = conn /\ needSnap[d] THEN Chunks ELSE meddled
  /\ Goto(c, IF todo'[c] = {} THEN "ready" ELSE "repack")
  /\ UNCHANGED <<server, delta, copied, registered, subs, packed, up, queue, client, frames, unanswered>>

-----------------------------------------------------------------------------
(* The end of a connection on the server                                    *)

(* The reader gets an error or a close frame; or a pong, or the refusal of  *)
(* a placement, meets the closed channel.                                  *)
Fail(c) ==
  /\ pc[c] = "ready"
  /\ Goto(c, "closing")
  /\ UNCHANGED <<server, delta, copied, hub, needSnap, locals, up, queue, client, frames, unanswered>>

(* The goroutine's own frame meets the closed channel.                      *)
SendPanics(c) ==
  /\ Closed(c)
  /\ pc[c] = "ack" \/ packed[c] # Nothing
  /\ packed' = [packed EXCEPT ![c] = Nothing]
  /\ todo' = [todo EXCEPT ![c] = {}]
  /\ Goto(c, "closing")
  /\ UNCHANGED <<server, delta, copied, hub, needSnap, taken, up, queue, client, frames, unanswered>>

(* closeAll removes the session, whatever client the hub has for it, and    *)
(* closes the socket.                                                      *)
RemoveSession(c) ==
  /\ pc[c] = "closing"
  /\ registered' = Nothing /\ subs' = {}
  /\ Meddle(c, Chunks)
  /\ up' = [up EXCEPT ![c] = <<>>]
  /\ Goto(c, "gone")
  /\ UNCHANGED <<server, delta, copied, needSnap, locals, queue, client, frames, unanswered>>

-----------------------------------------------------------------------------
(* The page *)

\* WebSocketClient.send: without an open socket the message is dropped
Send(message) ==
  /\ messages < MaxMessages
  /\ messages' = messages + 1
  /\ up' = IF open THEN [up EXCEPT ![conn] = Append(@, message)] ELSE up

Show(k) ==
  /\ k \notin wanted
  /\ wanted' = wanted \cup {k}
  /\ Send(Ask("subscribe", k))
  /\ UNCHANGED <<server, sending, hub, needSnap, locals, queue, conn, open, cache, pending,
                 frames, unanswered>>

Hide(k) ==
  /\ k \in wanted
  /\ wanted' = wanted \ {k}
  /\ Send(Ask("unsubscribe", k))
  /\ UNCHANGED <<server, sending, hub, needSnap, locals, queue, conn, open, cache, pending,
                 frames, unanswered>>

Click ==
  /\ ~pending
  /\ pending' = TRUE
  /\ Send([kind |-> "place"])
  /\ unanswered' = (~open \/ pc[conn] = "abandoned")
  /\ UNCHANGED <<server, sending, hub, needSnap, locals, queue, conn, open, wanted, cache, frames>>

(* A snapshot replaces what the cache has of the chunk; the entries of a    *)
(* delta are written into the chunks the cache has.                        *)
Applied(frame, k) ==
  IF frame.kind = "snapshot" /\ frame.chunk = k THEN frame.cells
  ELSE IF frame.kind = "delta" /\ k \in DOMAIN frame.ver /\ cache[k] # Nothing
       THEN [q \in CellsOf(k) |-> IF q \in DOMAIN frame.cells THEN frame.cells[q] ELSE cache[k][q]]
       ELSE cache[k]

(* The writer goroutine empties a closed channel as well; a socket the page *)
(* has lost takes the frames nowhere.                                       *)
Receive ==
  /\ queue # <<>>
  /\ queue' = Tail(queue)
  /\ IF open THEN /\ cache' = [k \in Chunks |-> Applied(Head(queue), k)]
                  /\ pending' = (pending /\ Head(queue).kind # "ack")
     ELSE UNCHANGED <<cache, pending>>
  /\ UNCHANGED <<server, sending, hub, needSnap, locals, messages, up, conn, open, wanted, frames,
                 unanswered>>

(* The page loses its connection, which the server may hear of later, or    *)
(* hears that the server has closed it.  The last of Conns is lost only so: *)
(* the bound of the model.                                                  *)
Unused == {c \in Conns : pc[c] = "none"}

Lose ==
  /\ open
  /\ Unused # {} \/ pc[conn] = "gone"
  /\ open' = FALSE
  /\ unanswered' = pending
  /\ UNCHANGED <<server, sending, hub, needSnap, locals, messages, up, queue, conn, wanted, cache,
                 pending, frames>>

(* handleOpen subscribes again to what it was subscribed to.  The cache is  *)
(* kept, and so is lastPlace.                                              *)
NoneAgain(ks) == {}                     \* mutant: the subscriptions are not renewed
Again(ks)     == ks

Reconnect(c) ==
  /\ ~open /\ c \in Unused
  /\ open' = TRUE /\ conn' = c /\ queue' = <<>>
  /\ Goto(c, "register")
  /\ \E order \in SetToSeqs(Again(wanted)) :
       up' = [up EXCEPT ![c] = [i \in DOMAIN order |-> Ask("subscribe", order[i])]]
  /\ newest' = [k \in Chunks |-> 0] /\ disturbed' = [k \in Chunks |-> {}]
  /\ meddled' = {}
  /\ UNCHANGED <<server, delta, copied, registered, subs, needSnap, locals, messages, wanted, cache,
                 pending, unanswered>>

-----------------------------------------------------------------------------
Handling(a) ==
  \/ Collect(a) \/ OfferDelta(a) \/ BroadcastPanics(a)

Serving(c) ==
  \/ Register(c) \/ Welcome(c)
  \/ ReadSubscribe(c) \/ ReadUnsubscribe(c) \/ ReadPlace(c) \/ RefusePlace(c)
  \/ SendAck(c) \/ QueueSnapshot(c) \/ TakeChunks(c) \/ TakeFlag(c)
  \/ \E k \in Chunks : PackChunk(c, k)
  \/ SendPanics(c) \/ RemoveSession(c)

Next ==
  \/ \E p \in Players, cells \in Moves : PlayerPlaces(p, cells)
  \/ \E a \in Actors : Handling(a)
  \/ \E c \in Conns : Serving(c) \/ Fail(c) \/ Reconnect(c)
  \/ \E k \in Chunks : Show(k) \/ Hide(k)
  \/ Click \/ Receive \/ Lose

Spec == Init /\ [][Next]_vars

(* The goroutine of the page's connection runs when it can, the page reads  *)
(* what arrives, and it hears of a connection the server has closed.        *)
Fairness ==
  /\ WF_vars(Handling(conn) \/ Serving(conn))
  /\ WF_vars(Receive)
  /\ WF_vars(pc[conn] = "gone" /\ Lose)

FairSpec == Spec /\ Fairness

-----------------------------------------------------------------------------
(* Properties *)

Label == {"ready", "collect", "offer", "ack", "take", "flag", "pack", "repack",
          "none", "register", "welcome", "closing", "gone", "abandoned"}

Trouble == {"reordered", "crossed", "unsent", "aborted"}

(* Every variable has its type; a queue never holds more than Capacity.    *)
TypeOK ==
  /\ board \in [Cells -> Colours]
  /\ version \in [Chunks -> 0 .. MaxCommits] /\ newest \in [Chunks -> 0 .. MaxCommits]
  /\ commits \in 0 .. MaxCommits
  /\ pc \in [Actors -> Label]
  /\ delta \in [Actors -> Deltas \cup {Nothing}]
  /\ \A a \in Actors : delta[a] # Nothing <=> pc[a] \in {"collect", "offer"}
  /\ copied \in [Actors -> Conns \cup {Nothing}]
  /\ registered \in Conns \cup {Nothing} /\ conn \in Conns
  /\ subs \subseteq Chunks /\ wanted \subseteq Chunks /\ meddled \subseteq Chunks
  /\ needSnap \in [Conns -> BOOLEAN]
  /\ taken \in [Conns -> Conns \cup {Nothing}] /\ todo \in [Conns -> SUBSET Chunks]
  /\ packed \in [Conns -> Snapshots \cup {Nothing}]
  /\ \A c \in Conns : packed[c] # Nothing => pc[c] \in {"pack", "repack"}
  /\ up \in [Conns -> Seq(Message)] /\ messages \in 0 .. MaxMessages
  /\ queue \in Seq(Frame) /\ Len(queue) <= Capacity
  /\ open \in BOOLEAN /\ pending \in BOOLEAN /\ unanswered \in BOOLEAN
  /\ cache \in [Chunks -> Images \cup {Nothing}]
  /\ \A k \in Chunks : cache[k] # Nothing => cache[k] \in Image(k)
  /\ disturbed \in [Chunks -> SUBSET Trouble]

About(k, frame) ==
  \/ frame.kind = "snapshot" /\ frame.chunk = k
  \/ frame.kind = "delta" /\ k \in DOMAIN frame.ver

(* The page has its connection and a goroutine serves it.                  *)
Served == open /\ pc[conn] \notin {"closing", "gone", "abandoned"}

NoAskFor(k) == \A i \in DOMAIN up[conn] : up[conn][i].kind = "place" \/ up[conn][i].chunk # k

(* Nothing about chunk k is under way to the page.                         *)
Quiet(k) ==
  /\ \A a \in Actors : delta[a] = Nothing \/ ~About(k, delta[a])
  /\ \A i \in DOMAIN queue : ~About(k, queue[i])
  /\ NoAskFor(k)
  /\ pc[conn] \in {"pack", "repack"} => k \notin todo[conn]

UpToDate(k) == cache[k] = [q \in CellsOf(k) |-> board[q]]

(* When nothing about a chunk the page shows is under way on a connection   *)
(* that is served, the page has the board, or the hub remembers that it has *)
(* not (NeedResnapshot, hub.go:164) - through dropped frames, new           *)
(* subscriptions, new connections and the two steps of TakeResnapshot -     *)
(* unless one of five things happened against which there is no provision:  *)
(* the frames of two placements queued out of order (main.go:618), a        *)
(* snapshot packed before a delta and queued after it (main.go:363), a      *)
(* snapshot dropped by the connection's own enqueue (main.go:495), a        *)
(* broadcast that panicked before it came to the page's client              *)
(* (hub.go:129), or an earlier connection of the page that ended, was       *)
(* registered or read its last messages only after this one was registered  *)
(* (meddled: main.go:480, hub.go:66).                                       *)
StaleIsMarked ==
  \A k \in wanted \ meddled :
    Served /\ Quiet(k) /\ ~UpToDate(k) => needSnap[conn] \/ disturbed[k] # {}

(* With no subscribe or unsubscribe of a chunk under way on a connection    *)
(* that is served the hub's and the page's idea of the subscription are the *)
(* same, through lost and overlapping connections - unless an earlier       *)
(* connection of the page changed it since, by a late message, a late       *)
(* registration or the late removal of the session.                        *)
SubscriptionsAgree ==
  \A k \in Chunks \ meddled :
    Served /\ NoAskFor(k) => (k \in wanted <=> registered = conn /\ k \in subs)

(* A click is answered: the page, which takes no other click before that    *)
(* (app.ts:258), gets an ack - unless the placement or its ack was lost    *)
(* with the connection, in a full queue or for want of an open socket, or   *)
(* the connection was abandoned before its welcome (main.go:514).           *)
ClicksAnswered == pending ~> ~pending \/ unanswered
=============================================================================
