------------------------------- MODULE HubProofs -------------------------------
(***************************************************************************)
(* Theorems about Hub, for any number of connections, sessions and chunks, *)
(* any way connections share sessions and any queue length.                *)
(***************************************************************************)
EXTENDS Hub, TLAPS

-----------------------------------------------------------------------------
(* Types *)

(* The maps of the hub are well typed.                                      *)
HubTypes ==
  /\ clients \in [Sessions -> Conns \cup {None}]
  /\ chunkSubs \in [Chunks -> [Sessions -> Conns \cup {None}]]
  /\ subscribed \in [Conns -> SUBSET Chunks]
  /\ closed \in [Conns -> Nat]

GoroutineTypes ==
  /\ queued \in [Conns -> 0 .. Capacity]
  /\ needSnap \in [Conns -> BOOLEAN]
  /\ reader \in [Conns -> ReaderLabel]
  /\ writer \in [Conns -> {"none", "running", "done", "gone"}]
  /\ wire \in [Conns -> {"up", "down", "shut"}]
  /\ chunks \in [Conns -> SUBSET Chunks]
  /\ taken \in [Conns -> Conns \cup {None}]
  /\ seen \in [Conns -> SUBSET Conns]
  /\ scoreSeen \in SUBSET Conns
  /\ crashed \in BOOLEAN

(* At the start every variable has its type.                                *)
LEMMA InitType == Init => TypeOK
<1> SUFFICES ASSUME Init PROVE TypeOK
  OBVIOUS
<1>1. HubTypes
  BY DEF Init, HubTypes
<1>2. GoroutineTypes
  <2>1. 0 \in 0 .. Capacity
    BY HubAssumption
  <2> QED BY <2>1 DEF Init, GoroutineTypes, ReaderLabel
<1> QED BY <1>1, <1>2 DEF TypeOK, HubTypes, GoroutineTypes

(* Operations of the hub keep its maps well typed.                          *)
LEMMA HubOperationType ==
  ASSUME TypeOK, NEW c \in Conns,
         \/ RegisterSession(c)
         \/ RemoveSession(SessionOf[c])
  PROVE  HubTypes'
<1> DEFINE s == SessionOf[c]
<1>1. s \in Sessions
  BY HubAssumption
<1>2. CloseOutbound(s) /\ chunkSubs' = WithoutSession(s) /\ subscribed' = subscribed
  BY DEF RegisterSession, RemoveSession, DroppedSubs
<1>3. clients' \in [Sessions -> Conns \cup {None}]
  BY <1>1 DEF RegisterSession, RemoveSession, Forgotten, TypeOK
<1>4. chunkSubs' \in [Chunks -> [Sessions -> Conns \cup {None}]]
  BY <1>2 DEF WithoutSession, TypeOK
<1>5. closed' \in [Conns -> Nat]
  BY <1>2 DEF CloseOutbound, TypeOK
<1> QED BY <1>2, <1>3, <1>4, <1>5 DEF HubTypes, TypeOK

(* A queue with a frame more, or less, is a queue.                          *)
LEMMA QueueType ==
  ASSUME TypeOK, NEW c \in Conns
  PROVE  /\ Pushed(c) \in [Conns -> 0 .. Capacity]
         /\ queued[c] > 0 => [queued EXCEPT ![c] = @ - 1] \in [Conns -> 0 .. Capacity]
<1>1. queued \in [Conns -> 0 .. Capacity] /\ Capacity \in Nat
  BY HubAssumption DEF TypeOK
<1>2. ~Full(c) => queued[c] + 1 \in 0 .. Capacity
  BY <1>1 DEF Full
<1>3. queued[c] > 0 => queued[c] - 1 \in 0 .. Capacity
  BY <1>1
<1> QED BY <1>1, <1>2, <1>3 DEF Pushed

(* A connection that begins or ends.                                        *)
LEMMA LifeType ==
  ASSUME TypeOK, NEW c \in Conns,
         \/ Connect(c) \/ PeerLeaves(c) \/ ReadFails(c) \/ CloseAll(c) \/ Done(c) \/ SendPanics(c)
  PROVE  TypeOK'
<1>1. CASE Connect(c)
  <2>1. HubTypes'
    BY <1>1, HubOperationType DEF Connect
  <2>2. GoroutineTypes'
    BY <1>1 DEF Connect, Goto, TypeOK, GoroutineTypes, ReaderLabel, locals, score
  <2> QED BY <2>1, <2>2 DEF TypeOK, HubTypes, GoroutineTypes
<1>2. CASE CloseAll(c)
  <2>1. HubTypes'
    BY <1>2, HubOperationType DEF CloseAll
  <2>2. GoroutineTypes'
    BY <1>2 DEF CloseAll, Goto, TypeOK, GoroutineTypes, ReaderLabel, locals, score
  <2> QED BY <2>1, <2>2 DEF TypeOK, HubTypes, GoroutineTypes
<1>3. CASE PeerLeaves(c) \/ ReadFails(c) \/ Done(c) \/ SendPanics(c)
  <2>1. HubTypes'
    BY <1>3 DEF PeerLeaves, ReadFails, Done, SendPanics, TypeOK, HubTypes, hub
  <2>2. GoroutineTypes'
    BY <1>3 DEF PeerLeaves, ReadFails, Done, SendPanics, Goto, TypeOK, GoroutineTypes,
                ReaderLabel, locals, score
  <2> QED BY <2>1, <2>2 DEF TypeOK, HubTypes, GoroutineTypes
<1> QED BY <1>1, <1>2, <1>3

(* A message, and the frames sent for it.                                   *)
LEMMA MessageType ==
  ASSUME TypeOK, NEW c \in Conns,
         \/ Welcome(c) \/ ReceivePing(c) \/ RefusePlace(c) \/ PlaceAck(c)
         \/ \E k \in Chunks : Snapshot(c, k)
  PROVE  TypeOK'
<1>1. CASE Welcome(c) \/ ReceivePing(c) \/ RefusePlace(c) \/ PlaceAck(c)
  <2>1. HubTypes'
    BY <1>1 DEF Welcome, ReceivePing, RefusePlace, PlaceAck, SendOwn, TypeOK, HubTypes, hub
  <2>2. queued' \in [Conns -> 0 .. Capacity]
    BY <1>1, QueueType DEF Welcome, ReceivePing, RefusePlace, PlaceAck, SendOwn
  <2>3. reader' \in [Conns -> ReaderLabel]
    BY <1>1 DEF Welcome, ReceivePing, RefusePlace, PlaceAck, Goto, TypeOK, ReaderLabel
  <2>4. chunks' \in [Conns -> SUBSET Chunks]
    BY <1>1 DEF Welcome, ReceivePing, RefusePlace, PlaceAck, TypeOK, locals
  <2>5. UNCHANGED <<needSnap, writer, wire, taken, seen, score>>
    BY <1>1 DEF Welcome, ReceivePing, RefusePlace, PlaceAck, SendOwn, locals
  <2>6. GoroutineTypes'
    BY <2>2, <2>3, <2>4, <2>5 DEF TypeOK, GoroutineTypes, score
  <2> QED BY <2>1, <2>6 DEF TypeOK, HubTypes, GoroutineTypes
<1>2. ASSUME NEW k \in Chunks, Snapshot(c, k)
      PROVE  TypeOK'
  <2>1. HubTypes'
    BY <1>2 DEF Snapshot, SendOwn, TypeOK, HubTypes, hub
  <2>2. GoroutineTypes'
    BY <1>2, QueueType DEF Snapshot, SendOwn, Goto, TypeOK, GoroutineTypes, ReaderLabel, score
  <2> QED BY <2>1, <2>2 DEF TypeOK, HubTypes, GoroutineTypes
<1> QED BY <1>1, <1>2

(* A subscription is entered on both sides, or struck from both.            *)
LEMMA SubscriptionType ==
  ASSUME TypeOK, NEW c \in Conns, NEW k \in Chunks,
         ReceiveSubscribe(c, k) \/ ReceiveUnsubscribe(c, k)
  PROVE  TypeOK'
<1> DEFINE s == SessionOf[c]
<1>1. s \in Sessions /\ clients[s] \in Conns
  BY HubAssumption DEF ReceiveSubscribe, ReceiveUnsubscribe, Subscribe, Unsubscribe, Known, TypeOK
<1>2. clients' = clients /\ closed' = closed
  BY DEF ReceiveSubscribe, ReceiveUnsubscribe, Subscribe, Unsubscribe
<1>3. chunkSubs' \in [Chunks -> [Sessions -> Conns \cup {None}]]
  <2>1. [chunkSubs[k] EXCEPT ![s] = clients[s]] \in [Sessions -> Conns \cup {None}]
    BY <1>1 DEF TypeOK
  <2>2. [chunkSubs[k] EXCEPT ![s] = None] \in [Sessions -> Conns \cup {None}]
    BY <1>1 DEF TypeOK
  <2> QED BY <1>1, <2>1, <2>2
      DEF ReceiveSubscribe, ReceiveUnsubscribe, Subscribe, Unsubscribe, TypeOK
<1>4. subscribed' \in [Conns -> SUBSET Chunks]
  BY <1>1 DEF ReceiveSubscribe, ReceiveUnsubscribe, Subscribe, Unsubscribe, TypeOK
<1>5. HubTypes'
  BY <1>2, <1>3, <1>4 DEF HubTypes, TypeOK
<1>6. GoroutineTypes'
  BY DEF ReceiveSubscribe, ReceiveUnsubscribe, Goto, TypeOK, GoroutineTypes, ReaderLabel, locals, score
<1> QED BY <1>5, <1>6 DEF TypeOK, HubTypes, GoroutineTypes

(* Broadcasts of a placement and of the score.                              *)
LEMMA BroadcastType ==
  ASSUME TypeOK, NEW c \in Conns,
         \/ \E ks \in Placements : ReceivePlace(c, ks)
         \/ \E d \in Conns : OfferDelta(c, d)
         \/ OfferScore(c) \/ ScoreCollect \/ ScorePanics
  PROVE  TypeOK'
<1>1. ASSUME NEW ks \in Placements, ReceivePlace(c, ks)
      PROVE  TypeOK'
  <2>1. ks \in SUBSET Chunks /\ SubscribersOf(ks) \in SUBSET Conns
    BY HubAssumption DEF SubscribersOf, TypeOK
  <2>2. HubTypes'
    BY <1>1 DEF ReceivePlace, TypeOK, HubTypes, hub
  <2>3. GoroutineTypes'
    BY <1>1, <2>1 DEF ReceivePlace, Goto, TypeOK, GoroutineTypes, ReaderLabel, score
  <2> QED BY <2>2, <2>3 DEF TypeOK, HubTypes, GoroutineTypes
<1>2. ASSUME NEW d \in Conns, OfferDelta(c, d)
      PROVE  TypeOK'
  <2>1. HubTypes'
    BY <1>2 DEF OfferDelta, Offer, TypeOK, HubTypes, hub
  <2>2. GoroutineTypes'
    BY <1>2, QueueType DEF OfferDelta, Offer, Full, TypeOK, GoroutineTypes, score
  <2> QED BY <2>1, <2>2 DEF TypeOK, HubTypes, GoroutineTypes
<1>3. CASE OfferScore(c)
  <2>1. HubTypes'
    BY <1>3 DEF OfferScore, Offer, TypeOK, HubTypes, hub
  <2>2. GoroutineTypes'
    BY <1>3, QueueType DEF OfferScore, Offer, Full, TypeOK, GoroutineTypes, locals
  <2> QED BY <2>1, <2>2 DEF TypeOK, HubTypes, GoroutineTypes
<1>4. CASE ScoreCollect \/ ScorePanics
  <2>1. RegisteredClients \in SUBSET Conns
    BY DEF RegisteredClients, TypeOK
  <2>2. HubTypes'
    BY <1>4 DEF ScoreCollect, ScorePanics, TypeOK, HubTypes, hub
  <2>3. reader' \in [Conns -> ReaderLabel]
    BY <1>4 DEF ScoreCollect, ScorePanics, TypeOK, ReaderLabel
  <2>4. writer' \in [Conns -> {"none", "running", "done", "gone"}]
    BY <1>4 DEF ScoreCollect, ScorePanics, TypeOK
  <2>5. wire' \in [Conns -> {"up", "down", "shut"}]
    BY <1>4 DEF ScoreCollect, ScorePanics, TypeOK
  <2>6. scoreSeen' \in SUBSET Conns /\ crashed' \in BOOLEAN
    BY <1>4, <2>1 DEF ScoreCollect, ScorePanics, TypeOK
  <2>7. UNCHANGED <<queued, needSnap, chunks, taken, seen>>
    BY <1>4 DEF ScoreCollect, ScorePanics, locals
  <2>8. GoroutineTypes'
    BY <2>3, <2>4, <2>5, <2>6, <2>7 DEF TypeOK, GoroutineTypes
  <2> QED BY <2>2, <2>8 DEF TypeOK, HubTypes, GoroutineTypes
<1> QED BY <1>1, <1>2, <1>3, <1>4

(* TakeResnapshot, and the writer.                                          *)
LEMMA TakeType ==
  ASSUME TypeOK, NEW c \in Conns,
         TakeChunks(c) \/ TakeFlag(c) \/ WriterSends(c) \/ WriterEnds(c)
  PROVE  TypeOK'
<1>1. HubTypes'
  BY DEF TakeChunks, TakeFlag, WriterSends, WriterEnds, TypeOK, HubTypes, hub
<1>2. CASE TakeChunks(c)
  <2>1. clients[SessionOf[c]] \in Conns \cup {None}
    BY HubAssumption DEF TypeOK
  <2>2. GoroutineTypes'
    BY <1>2, <2>1 DEF TakeChunks, Goto, TypeOK, GoroutineTypes, ReaderLabel, score
  <2> QED BY <1>1, <2>2 DEF TypeOK, HubTypes, GoroutineTypes
<1>3. CASE TakeFlag(c)
  <2>1. GoroutineTypes'
    BY <1>3 DEF TakeFlag, Goto, TypeOK, GoroutineTypes, ReaderLabel, score
  <2> QED BY <1>1, <2>1 DEF TypeOK, HubTypes, GoroutineTypes
<1>4. CASE WriterSends(c) \/ WriterEnds(c)
  <2>1. queued' \in [Conns -> 0 .. Capacity]
    BY <1>4, QueueType DEF WriterSends, WriterEnds, TypeOK
  <2>2. writer' \in [Conns -> {"none", "running", "done", "gone"}]
    BY <1>4 DEF WriterSends, WriterEnds, TypeOK
  <2>3. UNCHANGED <<needSnap, reader, wire, locals, score>>
    BY <1>4 DEF WriterSends, WriterEnds
  <2>4. GoroutineTypes'
    BY <2>1, <2>2, <2>3 DEF TypeOK, GoroutineTypes, locals, score
  <2> QED BY <1>1, <2>4 DEF TypeOK, HubTypes, GoroutineTypes
<1> QED BY <1>2, <1>3, <1>4

(* No step of any goroutine gives a variable a value of another type.       *)
LEMMA NextType ==
  ASSUME TypeOK, [Next]_vars
  PROVE  TypeOK'
<1>1. CASE UNCHANGED vars
  BY <1>1 DEF vars, TypeOK
<1>2. ASSUME NEW c \in Conns, ConnStep(c) \/ OfferScore(c)
      PROVE  TypeOK'
  BY <1>2, LifeType, MessageType, SubscriptionType, BroadcastType, TakeType
  DEF ConnStep, Receiving, Handling
<1>3. ASSUME ScoreCollect \/ ScorePanics
      PROVE  TypeOK'
  <2>1. CASE Conns = {}
    <3>1. RegisteredClients \in SUBSET Conns
      BY DEF RegisteredClients, TypeOK
    <3> QED BY <1>3, <2>1, <3>1
        DEF ScoreCollect, ScorePanics, TypeOK, ReaderLabel, hub, locals
  <2>2. CASE Conns # {}
    BY <1>3, <2>2, BroadcastType
  <2> QED BY <2>1, <2>2
<1> QED BY <1>1, <1>2, <1>3 DEF Next

(* Every variable keeps its type: in particular no queue outgrows Capacity. *)
THEOREM TypeCorrect == Spec => []TypeOK
BY InitType, NextType, PTL DEF Spec

-----------------------------------------------------------------------------
(* The hub's registry                                                       *)

(* A client is registered under the session of its connection only; one     *)
(* that was not made yet is nowhere.                                        *)
OwnSessionOK == \A s \in Sessions, c \in Conns : clients[s] = c => SessionOf[c] = s

UnmadeOK == \A c \in Conns : reader[c] = "dialing" => closed[c] = 0 /\ subscribed[c] = {}

HubInv == TypeOK /\ OwnSessionOK /\ UnmadeOK /\ ClosedOnce /\ OpenIffRegistered /\ SubsAgree

(* At the start the hub is empty and nobody has connected.                  *)
LEMMA HubInit == Init => HubInv
<1> SUFFICES ASSUME Init PROVE HubInv
  OBVIOUS
<1>1. OwnSessionOK /\ SubsAgree
  BY HubAssumption DEF Init, OwnSessionOK, SubsAgree
<1>2. UnmadeOK /\ ClosedOnce /\ OpenIffRegistered
  BY HubAssumption DEF Init, UnmadeOK, ClosedOnce, OpenIffRegistered
<1> QED BY <1>1, <1>2, InitType DEF HubInv

(* Steps that leave the hub and the channels alone.                         *)
LEMMA OtherStep ==
  ASSUME HubInv, TypeOK', UNCHANGED <<hub, closed>>,
         \A c \in Conns : reader'[c] = "dialing" <=> reader[c] = "dialing"
  PROVE  HubInv'
<1>1. UNCHANGED <<clients, chunkSubs, subscribed, closed>>
  BY DEF hub
<1>2. OwnSessionOK' /\ SubsAgree' /\ ClosedOnce'
  BY <1>1 DEF HubInv, OwnSessionOK, SubsAgree, ClosedOnce
<1>3. UnmadeOK' /\ OpenIffRegistered'
  BY <1>1 DEF HubInv, UnmadeOK, OpenIffRegistered
<1> QED BY <1>2, <1>3 DEF HubInv

(* What RegisterSession and RemoveSession do to the old client of the       *)
(* session: its channel is closed, for the first time, and it leaves the    *)
(* subscriptions.                                                           *)
LEMMA ClientLeaves ==
  ASSUME HubInv, NEW s \in Sessions, CloseOutbound(s)
  PROVE  /\ \A c \in Conns : closed'[c] = IF c = clients[s] THEN 1 ELSE closed[c]
         /\ \A k \in Chunks, t \in Sessions :
              WithoutSession(s)[k][t] = IF t = s THEN None ELSE chunkSubs[k][t]
<1>1. ASSUME NEW c \in Conns, c = clients[s]
      PROVE  closed[c] = 0
  BY <1>1 DEF HubInv, OwnSessionOK, OpenIffRegistered
<1>2. \A c \in Conns : closed'[c] = IF c = clients[s] THEN 1 ELSE closed[c]
  BY <1>1 DEF CloseOutbound
<1>3. ASSUME NEW k \in Chunks, NEW t \in Sessions
      PROVE  WithoutSession(s)[k][t] = IF t = s THEN None ELSE chunkSubs[k][t]
  <2>1. chunkSubs[k] \in [Sessions -> Conns \cup {None}] /\ clients[s] \in Conns \cup {None}
    BY DEF HubInv, TypeOK
  <2>2. CASE Known(s) /\ k \in subscribed[clients[s]]
    BY <2>1, <2>2 DEF WithoutSession
  <2>3. CASE ~(Known(s) /\ k \in subscribed[clients[s]])
    <3>1. chunkSubs[k][s] = None
      BY <2>1, <2>3, HubAssumption DEF HubInv, SubsAgree, Known
    <3> QED BY <2>1, <2>3, <3>1 DEF WithoutSession
  <2> QED BY <2>2, <2>3
<1> QED BY <1>2, <1>3

(* A connection takes over its session.                                     *)
LEMMA ConnectStep ==
  ASSUME HubInv, TypeOK', NEW c \in Conns, Connect(c)
  PROVE  HubInv'
<1> DEFINE s == SessionOf[c]
<1>1. s \in Sessions /\ c # None /\ clients[s] # c /\ closed[c] = 0 /\ subscribed[c] = {}
  BY HubAssumption DEF HubInv, UnmadeOK, OpenIffRegistered, Connect
<1>2. /\ reader[c] = "dialing" /\ reader'[c] = "welcome"
      /\ \A d \in Conns \ {c} : reader'[d] = reader[d]
  BY DEF Connect, Goto, HubInv, TypeOK
<1>3. /\ clients'[s] = c /\ subscribed' = subscribed /\ chunkSubs' = WithoutSession(s)
      /\ \A t \in Sessions \ {s} : clients'[t] = clients[t]
  BY <1>1 DEF Connect, RegisterSession, DroppedSubs, HubInv, TypeOK
<1>4. /\ \A d \in Conns : closed'[d] = IF d = clients[s] THEN 1 ELSE closed[d]
      /\ \A k \in Chunks, t \in Sessions :
           chunkSubs'[k][t] = IF t = s THEN None ELSE chunkSubs[k][t]
  BY <1>1, <1>3, ClientLeaves DEF Connect, RegisterSession
<1>5. OwnSessionOK'
  BY <1>1, <1>3 DEF HubInv, OwnSessionOK
<1>6. UnmadeOK'
  BY <1>1, <1>2, <1>3, <1>4 DEF HubInv, UnmadeOK, OpenIffRegistered, OwnSessionOK
<1>7. ClosedOnce'
  BY <1>4 DEF HubInv, ClosedOnce
<1>8. OpenIffRegistered'
  BY <1>1, <1>2, <1>3, <1>4, HubAssumption DEF HubInv, OpenIffRegistered, OwnSessionOK
<1>9. SubsAgree'
  BY <1>1, <1>3, <1>4, HubAssumption DEF HubInv, SubsAgree
<1> QED BY <1>5, <1>6, <1>7, <1>8, <1>9 DEF HubInv

(* A connection takes the client of its session, whoever's it is, out.      *)
LEMMA CloseAllStep ==
  ASSUME HubInv, TypeOK', NEW c \in Conns, CloseAll(c)
  PROVE  HubInv'
<1> DEFINE s == SessionOf[c]
<1>1. s \in Sessions
  BY HubAssumption
<1>2. \A d \in Conns : reader'[d] = "dialing" <=> reader[d] = "dialing"
  BY DEF CloseAll, Goto, HubInv, TypeOK
<1>3. /\ clients'[s] = None /\ subscribed' = subscribed /\ chunkSubs' = WithoutSession(s)
      /\ \A t \in Sessions \ {s} : clients'[t] = clients[t]
  BY <1>1 DEF CloseAll, RemoveSession, Forgotten, HubInv, TypeOK
<1>4. /\ \A d \in Conns : closed'[d] = IF d = clients[s] THEN 1 ELSE closed[d]
      /\ \A k \in Chunks, t \in Sessions :
           chunkSubs'[k][t] = IF t = s THEN None ELSE chunkSubs[k][t]
  BY <1>1, <1>3, ClientLeaves DEF CloseAll, RemoveSession
<1>5. OwnSessionOK'
  BY <1>1, <1>3, HubAssumption DEF HubInv, OwnSessionOK
<1>6. UnmadeOK'
  BY <1>1, <1>2, <1>3, <1>4, HubAssumption DEF HubInv, UnmadeOK, OpenIffRegistered, OwnSessionOK
<1>7. ClosedOnce'
  BY <1>4 DEF HubInv, ClosedOnce
<1>8. OpenIffRegistered'
  BY <1>1, <1>2, <1>3, <1>4, HubAssumption DEF HubInv, OpenIffRegistered, OwnSessionOK
<1>9. SubsAgree'
  BY <1>1, <1>3, <1>4, HubAssumption DEF HubInv, SubsAgree
<1> QED BY <1>5, <1>6, <1>7, <1>8, <1>9 DEF HubInv

(* A subscription is entered on both sides, or struck from both.            *)
LEMMA SubscriptionStep ==
  ASSUME HubInv, TypeOK', NEW c \in Conns, NEW k \in Chunks,
         ReceiveSubscribe(c, k) \/ ReceiveUnsubscribe(c, k)
  PROVE  HubInv'
<1> DEFINE s == SessionOf[c]
           d == clients[s]
<1>1. s \in Sessions /\ d \in Conns /\ d # None
  BY HubAssumption
  DEF ReceiveSubscribe, ReceiveUnsubscribe, Subscribe, Unsubscribe, Known, HubInv, TypeOK
<1>2. /\ clients' = clients /\ closed' = closed
      /\ \A e \in Conns : reader'[e] = "dialing" <=> reader[e] = "dialing"
  BY DEF ReceiveSubscribe, ReceiveUnsubscribe, Subscribe, Unsubscribe, Hears, Goto, HubInv, TypeOK
<1>3. OwnSessionOK' /\ ClosedOnce' /\ OpenIffRegistered'
  BY <1>2 DEF HubInv, OwnSessionOK, ClosedOnce, OpenIffRegistered
<1>4. /\ \A e \in Conns \ {d} : subscribed'[e] = subscribed[e]
      /\ \/ /\ subscribed'[d] = subscribed[d] \cup {k}
            /\ \A l \in Chunks, t \in Sessions :
                 chunkSubs'[l][t] = IF l = k /\ t = s THEN d ELSE chunkSubs[l][t]
         \/ /\ subscribed'[d] = subscribed[d] \ {k}
            /\ \A l \in Chunks, t \in Sessions :
                 chunkSubs'[l][t] = IF l = k /\ t = s THEN None ELSE chunkSubs[l][t]
  BY <1>1 DEF ReceiveSubscribe, ReceiveUnsubscribe, Subscribe, Unsubscribe, HubInv, TypeOK
<1>5. UnmadeOK'
  BY <1>1, <1>2, <1>4 DEF HubInv, UnmadeOK, OwnSessionOK, OpenIffRegistered
<1>6. SubsAgree'
  BY <1>1, <1>2, <1>4, HubAssumption DEF HubInv, SubsAgree, OwnSessionOK
<1> QED BY <1>3, <1>5, <1>6 DEF HubInv

(* No step of any goroutine breaks the registry.                            *)
LEMMA HubNext ==
  ASSUME HubInv, [Next]_vars
  PROVE  HubInv'
<1>1. TypeOK /\ TypeOK'
  BY NextType DEF HubInv
<1>2. CASE UNCHANGED vars
  BY <1>1, <1>2, OtherStep DEF vars, hub
<1>3. ASSUME NEW c \in Conns,
             \/ Welcome(c) \/ ReceivePing(c) \/ RefusePlace(c) \/ PlaceAck(c) \/ SendPanics(c)
             \/ \E k \in Chunks : Snapshot(c, k)
      PROVE  HubInv'
  <2>1. UNCHANGED <<hub, closed>>
    BY <1>3 DEF Welcome, ReceivePing, RefusePlace, PlaceAck, SendPanics, Snapshot
  <2>2. CASE Welcome(c) \/ ReceivePing(c) \/ RefusePlace(c) \/ PlaceAck(c)
    BY <1>1, <2>1, <2>2, OtherStep DEF Welcome, ReceivePing, RefusePlace, PlaceAck, Hears, Goto, TypeOK
  <2>3. CASE SendPanics(c)
    <3>1. reader[c] # "dialing"
      BY <2>3 DEF SendPanics
    <3>2. \A d \in Conns : reader'[d] = "dialing" <=> reader[d] = "dialing"
      BY <1>1, <2>3, <3>1 DEF SendPanics, Goto, TypeOK
    <3> QED BY <1>1, <2>1, <3>2, OtherStep
  <2>4. ASSUME NEW k \in Chunks, Snapshot(c, k)
        PROVE  HubInv'
    <3>1. reader[c] # "dialing"
      BY <2>4 DEF Snapshot
    <3>2. \A d \in Conns : reader'[d] = "dialing" <=> reader[d] = "dialing"
      BY <1>1, <2>4, <3>1 DEF Snapshot, Goto, TypeOK
    <3> QED BY <1>1, <2>1, <3>2, OtherStep
  <2> QED BY <1>3, <2>2, <2>3, <2>4
<1>4. ASSUME NEW c \in Conns,
             \/ \E ks \in Placements : ReceivePlace(c, ks)
             \/ \E d \in Conns : OfferDelta(c, d)
             \/ TakeChunks(c) \/ TakeFlag(c)
      PROVE  HubInv'
  <2>1. UNCHANGED <<hub, closed>>
    BY <1>4 DEF ReceivePlace, OfferDelta, TakeChunks, TakeFlag
  <2>2. \A d \in Conns : reader'[d] = "dialing" <=> reader[d] = "dialing"
    BY <1>1, <1>4 DEF ReceivePlace, OfferDelta, TakeChunks, TakeFlag, Hears, Goto, TypeOK
  <2> QED BY <1>1, <2>1, <2>2, OtherStep
<1>5. ASSUME NEW c \in Conns,
             \/ PeerLeaves(c) \/ ReadFails(c) \/ Done(c) \/ WriterSends(c) \/ WriterEnds(c)
             \/ OfferScore(c)
      PROVE  HubInv'
  <2>1. UNCHANGED <<hub, closed>>
    BY <1>5 DEF PeerLeaves, ReadFails, Done, WriterSends, WriterEnds, OfferScore
  <2>2. \A d \in Conns : reader'[d] = "dialing" <=> reader[d] = "dialing"
    BY <1>1, <1>5 DEF PeerLeaves, ReadFails, Done, WriterSends, WriterEnds, OfferScore, Goto, TypeOK
  <2> QED BY <1>1, <2>1, <2>2, OtherStep
<1>6. CASE ScoreCollect \/ ScorePanics
  BY <1>1, <1>6, OtherStep DEF ScoreCollect, ScorePanics
<1>7. ASSUME NEW c \in Conns, ConnStep(c)
      PROVE  HubInv'
  BY <1>1, <1>3, <1>4, <1>5, <1>7, ConnectStep, CloseAllStep, SubscriptionStep
  DEF ConnStep, Receiving, Handling
<1> QED BY <1>2, <1>5, <1>6, <1>7 DEF Next

(* The registry of the hub is consistent.                                   *)
THEOREM HubConsistent == Spec => []HubInv
BY HubInit, HubNext, PTL DEF Spec

(* No channel is ever closed a second time.                                 *)
THEOREM ClosedOnceCorrect == Spec => []ClosedOnce
<1>1. HubInv => ClosedOnce
  BY DEF HubInv
<1> QED BY <1>1, HubConsistent, PTL

(* The hub holds exactly the clients whose channel is open.                 *)
THEOREM OpenIffRegisteredCorrect == Spec => []OpenIffRegistered
<1>1. HubInv => OpenIffRegistered
  BY DEF HubInv
<1> QED BY <1>1, HubConsistent, PTL

(* A chunk's subscribers are the registered clients that subscribed it.     *)
THEOREM SubsAgreeCorrect == Spec => []SubsAgree
<1>1. HubInv => SubsAgree
  BY DEF HubInv
<1> QED BY <1>1, HubConsistent, PTL
================================================================================
