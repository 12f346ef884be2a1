---------------------------------- MODULE Hub ----------------------------------
(***************************************************************************)
(* The websocket hub (server/internal/net) and the goroutines around it    *)
(* (cmd/mmothello): the reader and the writer of every connection and the  *)
(* score broadcaster.                                                      *)
(*                                                                         *)
(* The hub's maps change under its mutex, one operation at a time.  Queues *)
(* are offered to after the mutex is released, one client at a time, and a *)
(* client's channel may have been closed in between: a send on a closed    *)
(* channel panics.  net/http recovers a panic of a handler, which then     *)
(* runs its deferred calls; a panic of any other goroutine ends the        *)
(* process.                                                                *)
(*                                                                         *)
(* A connection and the Client made for it are one identity.  Frames are   *)
(* counted, not told apart: what they tell the client is the subject of    *)
(* Delivery.tla.                                                           *)
(***************************************************************************)
EXTENDS Integers, FiniteSets

CONSTANTS
  Conns,       \* connections, one run of serveWS each
  Sessions,    \* sessions: connections with the same cookie share one
  SessionOf,   \* SessionOf[c]: the session of connection c
  Chunks,      \* chunk ids
  Placements,  \* the sets of chunks a placement may touch
  Asks,        \* Asks[c]: the kinds of messages the peer of connection c sends
  Capacity,    \* DefaultOutboundBuffer: the room in Client.Outbound (256)
  None         \* no client

Message == {"ping", "place", "subscribe", "unsubscribe"}

ASSUME HubAssumption ==
  /\ None \notin Conns
  /\ SessionOf \in [Conns -> Sessions]
  /\ Placements \subseteq (SUBSET Chunks) \ {{}}
  /\ Asks \in [Conns -> SUBSET Message]
  /\ Capacity \in Nat \ {0}

VARIABLES
  clients,     \* clients[s]: Hub.clients
  chunkSubs,   \* chunkSubs[k][s]: Hub.chunkSubs
  subscribed,  \* subscribed[c]: Client.subscribedChunk
  queued,      \* queued[c]: the number of frames in Client.Outbound
  closed,      \* closed[c]: how many times Client.Outbound was closed
  needSnap,    \* needSnap[c]: Client.NeedResnapshot
  reader,      \* what the reader goroutine of c does next
  writer,      \* the writer goroutine of c: none, running or done
  wire,        \* the TCP connection: up, down (the peer left) or shut (by us)
  chunks,      \* reader's locals: the chunks of a placement, or to be sent
  taken,       \* the client TakeResnapshot found
  seen,        \* clients a broadcast of c has still to offer its frame to
  scoreSeen,   \* the same for the score broadcaster
  crashed      \* a goroutine outside net/http panicked: the process is gone

hub     == <<clients, chunkSubs, subscribed>>
locals  == <<chunks, taken, seen>>
score   == <<scoreSeen, crashed>>
vars    == <<clients, chunkSubs, subscribed, queued, closed, needSnap, reader, writer,
             wire, chunks, taken, seen, scoreSeen, crashed>>

Goto(c, label) == reader' = [reader EXCEPT ![c] = label]

Init ==
  /\ clients = [s \in Sessions |-> None]
  /\ chunkSubs = [k \in Chunks |-> [s \in Sessions |-> None]]
  /\ subscribed = [c \in Conns |-> {}]
  /\ queued = [c \in Conns |-> 0]
  /\ closed = [c \in Conns |-> 0]
  /\ needSnap = [c \in Conns |-> FALSE]
  /\ reader = [c \in Conns |-> "dialing"]
  /\ writer = [c \in Conns |-> "none"]
  /\ wire = [c \in Conns |-> "up"]
  /\ chunks = [c \in Conns |-> {}]
  /\ taken = [c \in Conns |-> None]
  /\ seen = [c \in Conns |-> {}]
  /\ scoreSeen = {}
  /\ crashed = FALSE

-----------------------------------------------------------------------------
(* Operations of the hub, each under its mutex *)

Known(s) == clients[s] # None

\* the subscriptions left when the client of session s is taken out
WithoutSession(s) ==
  [k \in Chunks |-> IF Known(s) /\ k \in subscribed[clients[s]]
                    THEN [chunkSubs[k] EXCEPT ![s] = None] ELSE chunkSubs[k]]

LeaveOpen(s) == UNCHANGED closed   \* mutant: no close of the channel
CloseOutbound(s) ==
  closed' = [c \in Conns |-> IF c = clients[s] THEN closed[c] + 1 ELSE closed[c]]

KeptSubs(s)    == chunkSubs            \* mutant: the old client's stay
DroppedSubs(s) == WithoutSession(s)

RegisterSession(c) ==
  LET s == SessionOf[c] IN
  /\ CloseOutbound(s)
  /\ chunkSubs' = DroppedSubs(s)
  /\ clients' = [clients EXCEPT ![s] = c]
  /\ UNCHANGED subscribed

LeftInPlace(s) == clients                             \* mutant: no delete(h.clients)
Forgotten(s)   == [clients EXCEPT ![s] = None]

RemoveSession(s) ==
  /\ CloseOutbound(s)
  /\ chunkSubs' = WithoutSession(s)
  /\ clients' = Forgotten(s)
  /\ UNCHANGED subscribed

Subscribe(s, k) ==
  /\ Known(s)
  /\ chunkSubs' = [chunkSubs EXCEPT ![k][s] = clients[s]]
  /\ subscribed' = [subscribed EXCEPT ![clients[s]] = @ \cup {k}]
  /\ UNCHANGED clients

Unsubscribe(s, k) ==
  /\ Known(s)
  /\ chunkSubs' = [chunkSubs EXCEPT ![k][s] = None]
  /\ subscribed' = [subscribed EXCEPT ![clients[s]] = @ \ {k}]
  /\ UNCHANGED clients

SubscribersOf(ks)  == {chunkSubs[k][s] : k \in ks, s \in Sessions} \ {None}
RegisteredClients  == {clients[s] : s \in Sessions} \ {None}

-----------------------------------------------------------------------------
(* Queues *)

OverFull(c) == queued[c] > Capacity   \* mutant: one frame too many
Full(c)     == queued[c] >= Capacity
Pushed(c)   == [queued EXCEPT ![c] = IF Full(c) THEN @ ELSE @ + 1]

(* Client.enqueue on an open channel: a frame there is no room for leaves a *)
(* mark.                                                                    *)
Offer(d) ==
  /\ queued' = Pushed(d)
  /\ needSnap' = [needSnap EXCEPT ![d] = @ \/ Full(d)]

(* The enqueue of serveWS drops a frame there is no room for.               *)
SendOwn(c) ==
  /\ queued' = Pushed(c)
  /\ UNCHANGED needSnap

-----------------------------------------------------------------------------
(* A connection begins *)

Connect(c) ==
  /\ reader[c] = "dialing" /\ ~crashed
  /\ RegisterSession(c)
  /\ writer' = [writer EXCEPT ![c] = "running"]
  /\ Goto(c, "welcome")
  /\ UNCHANGED <<queued, needSnap, wire, locals, score>>

Welcome(c) ==
  /\ reader[c] = "welcome" /\ closed[c] = 0
  /\ SendOwn(c)
  /\ Goto(c, "up")
  /\ UNCHANGED <<hub, closed, writer, wire, locals, score>>

-----------------------------------------------------------------------------
(* The reader loop: one action per kind of message *)

Hears(c, kind) == reader[c] = "up" /\ kind \in Asks[c]

(* A ping, or a placement over the rate limit: one frame in answer.         *)
ReceivePing(c) ==
  /\ Hears(c, "ping") /\ closed[c] = 0
  /\ SendOwn(c)
  /\ UNCHANGED <<hub, closed, reader, writer, wire, locals, score>>

(* The hub knows the session, not the connection: the client it subscribes  *)
(* is the newest one of the session.                                        *)
ReceiveSubscribe(c, k) ==
  /\ Hears(c, "subscribe")
  /\ Subscribe(SessionOf[c], k)
  /\ chunks' = [chunks EXCEPT ![c] = {k}]
  /\ Goto(c, "snapshot")
  /\ UNCHANGED <<queued, closed, needSnap, writer, wire, taken, seen, score>>

ReceiveUnsubscribe(c, k) ==
  /\ Hears(c, "unsubscribe")
  /\ Unsubscribe(SessionOf[c], k)
  /\ UNCHANGED <<queued, closed, needSnap, reader, writer, wire, locals, score>>

(* sendChunkSnapshot, for a subscription and for TakeResnapshot.            *)
Snapshot(c, k) ==
  /\ reader[c] \in {"snapshot", "resnapshot"} /\ closed[c] = 0
  /\ k \in chunks[c]
  /\ SendOwn(c)
  /\ chunks' = [chunks EXCEPT ![c] = @ \ {k}]
  /\ Goto(c, IF reader[c] = "snapshot" THEN "take"
             ELSE IF chunks'[c] = {} THEN "up" ELSE "resnapshot")
  /\ UNCHANGED <<hub, closed, writer, wire, taken, seen, score>>

(* A placement that Place refuses is answered at once.                      *)
RefusePlace(c) ==
  /\ Hears(c, "place") /\ closed[c] = 0
  /\ SendOwn(c)
  /\ Goto(c, "take")
  /\ UNCHANGED <<hub, closed, writer, wire, locals, score>>

(* A placement on the chunks ks is made; Broadcast copies the subscribers,  *)
(* lets go of the mutex and offers them the delta one by one.               *)
ReceivePlace(c, ks) ==
  /\ Hears(c, "place")
  /\ chunks' = [chunks EXCEPT ![c] = ks]
  /\ seen' = [seen EXCEPT ![c] = SubscribersOf(ks)]
  /\ Goto(c, "offer")
  /\ UNCHANGED <<hub, queued, closed, needSnap, writer, wire, taken, score>>

OfferDelta(c, d) ==
  /\ reader[c] = "offer"
  /\ d \in seen[c]
  /\ closed[d] = 0
  /\ Offer(d)
  /\ seen' = [seen EXCEPT ![c] = @ \ {d}]
  /\ UNCHANGED <<hub, closed, reader, writer, wire, chunks, taken, score>>

PlaceAck(c) ==
  /\ reader[c] = "offer" /\ closed[c] = 0
  /\ seen[c] = {}
  /\ SendOwn(c)
  /\ chunks' = [chunks EXCEPT ![c] = {}]
  /\ Goto(c, "take")
  /\ UNCHANGED <<hub, closed, writer, wire, taken, seen, score>>

(* The reader sends on a closed channel: its own, or that of a subscriber.  *)
(* The call that closes the connection is deferred only after the welcome.  *)
SendPanics(c) ==
  /\ \/ reader[c] \in {"welcome", "snapshot", "resnapshot"} /\ closed[c] > 0
     \/ reader[c] = "up" /\ Asks[c] \cap {"ping", "place"} # {} /\ closed[c] > 0
     \/ reader[c] = "offer" /\ seen[c] = {} /\ closed[c] > 0
     \/ reader[c] = "offer" /\ \E d \in seen[c] : closed[d] > 0
  /\ chunks' = [chunks EXCEPT ![c] = {}]
  /\ seen' = [seen EXCEPT ![c] = {}]
  /\ Goto(c, IF reader[c] = "welcome" THEN "abandoned" ELSE "closing")
  /\ UNCHANGED <<hub, queued, closed, needSnap, writer, wire, taken, score>>

-----------------------------------------------------------------------------
(* TakeResnapshot: the chunks are copied under the hub's mutex, the mark is *)
(* read and wiped under the client's, later.                                *)

TakeChunks(c) ==
  LET client == clients[SessionOf[c]] IN
  /\ reader[c] = "take"
  /\ taken' = [taken EXCEPT ![c] = client]
  /\ chunks' = [chunks EXCEPT ![c] = IF client = None THEN {} ELSE subscribed[client]]
  /\ Goto(c, IF client = None THEN "up" ELSE "flag")
  /\ UNCHANGED <<hub, queued, closed, needSnap, writer, wire, seen, score>>

TakeFlag(c) ==
  /\ reader[c] = "flag"
  /\ LET wanted == IF needSnap[taken[c]] THEN chunks[c] ELSE {} IN
     /\ chunks' = [chunks EXCEPT ![c] = wanted]
     /\ Goto(c, IF wanted = {} THEN "up" ELSE "resnapshot")
  /\ needSnap' = [needSnap EXCEPT ![taken[c]] = FALSE]
  /\ taken' = [taken EXCEPT ![c] = None]
  /\ UNCHANGED <<hub, queued, closed, writer, wire, seen, score>>

-----------------------------------------------------------------------------
(* The score broadcaster *)

ScoreCollect ==
  /\ scoreSeen = {} /\ ~crashed
  /\ scoreSeen' = RegisteredClients
  /\ UNCHANGED <<hub, queued, closed, needSnap, reader, writer, wire, locals, crashed>>

OfferScore(d) ==
  /\ d \in scoreSeen
  /\ closed[d] = 0
  /\ Offer(d)
  /\ scoreSeen' = scoreSeen \ {d}
  /\ UNCHANGED <<hub, closed, reader, writer, wire, locals, crashed>>

(* The process is gone, with every goroutine and every connection.          *)
ScorePanics ==
  /\ \E d \in scoreSeen : closed[d] > 0
  /\ crashed' = TRUE
  /\ scoreSeen' = {}
  /\ reader' = [c \in Conns |-> IF reader[c] = "dialing" THEN "dialing" ELSE "gone"]
  /\ writer' = [c \in Conns |-> "gone"]
  /\ wire' = [c \in Conns |-> "shut"]
  /\ UNCHANGED <<hub, queued, closed, needSnap, locals>>

-----------------------------------------------------------------------------
(* A connection ends *)

PeerLeaves(c) ==
  /\ wire[c] = "up" /\ reader[c] # "dialing"
  /\ wire' = [wire EXCEPT ![c] = "down"]
  /\ UNCHANGED <<hub, queued, closed, needSnap, reader, writer, locals, score>>

ReadFails(c) ==
  /\ reader[c] = "up" /\ wire[c] # "up"
  /\ Goto(c, "closing")
  /\ UNCHANGED <<hub, queued, closed, needSnap, writer, wire, locals, score>>

(* closeAll, run by the deferred call of serveWS: RemoveSession of whatever *)
(* client the session has by now, and conn.Close.                           *)
CloseAll(c) ==
  /\ reader[c] = "closing"
  /\ RemoveSession(SessionOf[c])
  /\ wire' = [wire EXCEPT ![c] = "shut"]
  /\ Goto(c, "waiting")
  /\ UNCHANGED <<queued, needSnap, writer, locals, score>>

(* <-writerDone *)
Done(c) ==
  /\ reader[c] = "waiting"
  /\ writer[c] = "done"
  /\ Goto(c, "done")
  /\ UNCHANGED <<hub, queued, closed, needSnap, writer, wire, locals, score>>

-----------------------------------------------------------------------------
(* The writer *)

WriterSends(c) ==
  /\ writer[c] = "running"
  /\ queued[c] > 0 /\ wire[c] # "shut"
  /\ queued' = [queued EXCEPT ![c] = @ - 1]
  /\ UNCHANGED <<hub, closed, needSnap, reader, writer, wire, locals, score>>

(* A write error, or the channel closed and drained.                        *)
WriterEnds(c) ==
  /\ writer[c] = "running"
  /\ \/ queued[c] > 0 /\ wire[c] # "up" /\ queued' = [queued EXCEPT ![c] = @ - 1]
     \/ queued[c] = 0 /\ closed[c] > 0 /\ UNCHANGED queued
  /\ writer' = [writer EXCEPT ![c] = "done"]
  /\ UNCHANGED <<hub, closed, needSnap, reader, wire, locals, score>>

-----------------------------------------------------------------------------
Handling(c) ==
  \/ Welcome(c) \/ PlaceAck(c) \/ TakeChunks(c) \/ TakeFlag(c)
  \/ \E k \in Chunks : Snapshot(c, k)
  \/ \E d \in Conns : OfferDelta(c, d)
  \/ reader[c] # "up" /\ SendPanics(c)
  \/ ReadFails(c) \/ CloseAll(c) \/ Done(c)

Receiving(c) ==
  \/ ReceivePing(c) \/ RefusePlace(c)
  \/ \E ks \in Placements : ReceivePlace(c, ks)
  \/ \E k \in Chunks : ReceiveSubscribe(c, k) \/ ReceiveUnsubscribe(c, k)
  \/ reader[c] = "up" /\ SendPanics(c)

ConnStep(c) ==
  \/ Connect(c) \/ Receiving(c) \/ Handling(c)
  \/ PeerLeaves(c) \/ WriterSends(c) \/ WriterEnds(c)

Next ==
  \/ \E c \in Conns : ConnStep(c) \/ OfferScore(c)
  \/ ScoreCollect \/ ScorePanics

Spec == Init /\ [][Next]_vars

(* Goroutines that can run do.  Nothing makes a peer send or leave, nor     *)
(* take what is written to it, and nobody need connect; but a peer that has *)
(* left has sent finitely many messages, so that the reader finds the end.  *)
Fairness ==
  \A c \in Conns :
    WF_vars(Handling(c)) /\ SF_vars(ReadFails(c)) /\ WF_vars(WriterEnds(c))

FairSpec == Spec /\ Fairness

-----------------------------------------------------------------------------
ReaderLabel == {"dialing", "welcome", "up", "snapshot", "offer", "take", "flag",
                "resnapshot", "closing", "waiting", "done", "abandoned", "gone"}

(* Every variable has its type; a queue never holds more than Capacity.     *)
TypeOK ==
  /\ clients \in [Sessions -> Conns \cup {None}]
  /\ chunkSubs \in [Chunks -> [Sessions -> Conns \cup {None}]]
  /\ subscribed \in [Conns -> SUBSET Chunks]
  /\ queued \in [Conns -> 0 .. Capacity]
  /\ closed \in [Conns -> Nat]
  /\ needSnap \in [Conns -> BOOLEAN]
  /\ reader \in [Conns -> ReaderLabel]
  /\ writer \in [Conns -> {"none", "running", "done", "gone"}]
  /\ wire \in [Conns -> {"up", "down", "shut"}]
  /\ chunks \in [Conns -> SUBSET Chunks]
  /\ taken \in [Conns -> Conns \cup {None}]
  /\ seen \in [Conns -> SUBSET Conns]
  /\ scoreSeen \in SUBSET Conns
  /\ crashed \in BOOLEAN

(* No channel is closed twice, though RegisterSession and the RemoveSession *)
(* of any connection of the session close it: that too would panic.         *)
ClosedOnce == \A c \in Conns : closed[c] <= 1

(* The hub keeps exactly the clients whose channel is open, so a connection *)
(* that has left the hub cannot be found by a later broadcast.              *)
OpenIffRegistered ==
  \A c \in Conns : (reader[c] # "dialing" /\ closed[c] = 0) <=> clients[SessionOf[c]] = c

(* The two sides of a subscription agree, through replaced and removed      *)
(* clients: a broadcast reaches the registered clients that subscribed.     *)
SubsAgree ==
  \A k \in Chunks, s \in Sessions, c \in Conns :
    chunkSubs[k][s] = c <=> clients[s] = c /\ k \in subscribed[c]

(* A connection whose peer has left comes to its end: the reader notices,   *)
(* the channel is closed and the writer, for which the reader waits, stops. *)
DeparturesEnd ==
  \A c \in Conns :
    wire[c] = "down" ~> (reader[c] \in {"done", "abandoned"} /\ writer[c] = "done") \/ crashed

-----------------------------------------------------------------------------
(* The server does not crash. *)
NeverCrashes == ~crashed
================================================================================
