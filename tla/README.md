# A TLA+ verification of MMOthello

MMOthello is one Othello board of 1000x1000 cells that everybody plays on at
once: a Go server keeps the board, checks and applies placements, logs them, and
streams changes over websockets to browser clients, each of which caches the
chunks it looks at. These modules model the server from the bytes of a websocket
frame to the log on disk, and the part of the client that keeps a copy of the
board. Paths below are relative to the root of the repository.

1. [Inventory](#1-inventory)
2. [Modules and how they correspond to the code](#2-modules)
3. [Runs](#3-runs)
4. [What the runs found](#4-what-the-runs-found)
5. [Proofs](#5-proofs)
6. [Not modelled](#6-not-modelled)
7. [Plan](#7-plan)

## 1. Inventory

| component | state | operations | meets |
|---|---|---|---|
| board (`server/internal/board`) | `cells`, two bits per cell, four cells per byte; per chunk of 50x50 an `RWMutex`, a version, two counters of stones | `Get`, `Set`, `ComputeFlips`, `ApplyCellChange`, `BumpVersion`, `LockReadBox`, `LockChunksWrite`, `LockAllRead`, `ChunkCounts`, `PackChunk`, `Seed`, `RecountChunks` | every goroutine that reads or changes the board |
| game (`server/internal/game`) | per connection a `Session`: team, time of the last placement | `Place` | board; called by the reader of a connection |
| hub (`server/internal/net`) | `clients`, `sessions`, `chunkSubs` under one mutex; per `Client` a queue of 256 frames, its subscriptions, the mark `NeedResnapshot` under a mutex of its own | `RegisterSession`, `RemoveSession`, `Subscribe`, `Unsubscribe`, `Broadcast`, `BroadcastAll`, `TakeResnapshot` | readers and writers of connections, score broadcaster |
| connections (`serveWS`, `handlePlace` in `server/cmd/mmothello/main.go`) | the TCP connection, the client of the hub, a reader and a writer goroutine | welcome, reader loop, drain of the queue, deferred `closeAll` | hub, game, WAL, limits |
| score broadcaster (`main.go`) | none | sum of `ChunkCounts`, `BroadcastAll`, every second | board, hub |
| persistence (`server/internal/persist`, `snapshotWriter`, `walSyncer`, `restoreFromDisk`) | `snapshot-N.bin`, `meta.json`, `wal.log` with a buffer in memory | `WriteSnapshot`, `Append`, `Sync`, `CompactAfter`, `LoadLatestSnapshot`, `ReplayWAL` | board (all read locks), `handlePlace` |
| sessions and teams (`server/internal/auth`, `teamPicker`) | token -> record; session -> team, time of the last placement | `Generate`, `Validate`, `RotateIfExpired`; `assign`, `markPlayed` | `/session`, `/ws`, `/stats` |
| limits (`server/internal/ratelimit`) | a bucket per address; a count of connections per address | `Allow`, `SweepIdle`; `Acquire`, `Release` | `serveWS` |
| wire format (`server/internal/protocol`, `server/internal/wsframe`, `client/src/net/protocol.ts`) | none | encoders and decoders | connections, client |
| client (`client/src`) | chunk cache with versions, subscriptions, pending placement, reconnection timer | `setSnapshot`, `applyDelta`, `setSubscriptions`, click, `connect` | the server, through frames |
| rendering, scripts | none that matters to the server | | |

What is hard about it, and what makes each part correct:

- **Placement.** `Place` scans the board under read locks, lets go of them,
  takes write locks for what it found, and scans again. In between anything may
  have happened, and the second scan may leave the locked chunks. Correct
  would be: every change is one whole legal placement; counters and versions
  agree with the cells; readers never see half a placement; nobody deadlocks.
- **Packed bytes.** Fifty is not a multiple of four, so a byte can hold cells of
  two chunks, each with a lock of its own.
- **Hub.** Clients are keyed by session while connections come and go
  independently: two tabs, or a reconnection that overtakes the end of the old
  connection. Channels are closed under the hub's mutex and sent to outside it.
  Correct would be: a channel is closed once, the registry holds the open ones,
  no subscription outlives its client, every departure completes, a client that
  missed something is remembered, nothing panics.
- **Delivery.** Snapshots and deltas reach the client in the order of the queue,
  which is not the order of the changes; a full queue drops them, and what an old
  connection of the page still does is done to the client of the new one. Correct would
  be: what a page shows is the board, or the server knows that it is not.
- **Persistence.** Snapshot, log and compaction are separate steps with
  separate clocks, and any of them can be cut short by a crash. Correct would
  be: a restart brings back a board the game was in, with all that was synced.
- **Sessions.** A token is rotated in three steps while other tabs use it, and
  the answers race each other. Correct would be: a browser keeps its session and
  its colour.
- **Limits.** Slots and tokens belong to an address, the cooldown to a
  connection. Correct would be: nothing leaks, nobody is let through too early,
  nobody waits too long.
- **Wire.** Two goroutines write to one socket, and two languages must agree on
  every byte. Correct would be: what is sent is what is read.

`PROJECT.json` lists every hazard at its line with the properties that cover it,
or the reason why none does.

## 2. Modules

| module | what it is |
|---|---|
| `Othello` | geometry of the board and, as plain definitions, the rule of flips; constants for all sizes |
| `AtomicBoard` | what the game promises: the board changes by whole legal placements only |
| `Placement` | `Game.Place` and the readers of the board, step by step |
| `Hub` | hub, readers, writers and score broadcaster |
| `Delivery` | the frames of one page over its connections, from a placement to the chunk cache |
| `Packing` | the packed form of cells |
| `DurableBoard` | what persistence promises: a restart brings back a board of before, with what was secured |
| `Persistence` | handlers, `walSyncer`, `snapshotWriter`, the files, crash and restart |
| `Limits` | connection cap, token bucket and cooldown |
| `Sessions` | `/session`, tokens, cookies and teams |
| `Frames` | the encoders and decoders of server and client |
| `Wire` | websocket frames and the two goroutines that share a socket; extends `Frames` |
| `MCPlacement`, `MCHub`, `MCDelivery`, `MCPersistence`, `MCLimits`, `MCSessions`, `MCWire` | instances of these for TLC; boards are drawn in `MCPlacement` |
| `OthelloLemmas` | facts about the geometry, used by the proofs |
| `PlacementProofs` | types and locks of `Placement`; what the locks protect of the board; the scans, and that `Placement` implements `AtomicBoard` |
| `HubProofs` | types and registry of `Hub` |
| `DeliveryProofs` | what the page shows, in `Delivery` |
| `LimitsProofs` | slots, token buckets and the pace of placements in `Limits` |
| `SessionsProofs` | cookies, sessions and colours of `Sessions` |
| `PersistenceProofs` | snapshots and the log, and that `Persistence` implements `DurableBoard` |
| `WireProofs` | what is sent is what is read: the encodings of `Frames` and the streams of `Wire` |

The modules cut `serveWS` and `handlePlace` along the questions asked of them:
`Wire` has the socket, `Limits` the handshake and the rate, `Sessions` the cookie
and the colour, `Hub` the registration and the ends of goroutines, `Delivery`
the frames, `Placement` the locks and `Persistence` the log. Where a module
takes another's part as one step it says so in its head: `Delivery` and
`Persistence` have placements that are atomic, and `Placement` says how far that
holds (with one lock for the board it does; across chunks see section 4).

Constants that begin with `Max` and have the comment "bound" limit what TLC
explores. Definitions with the comment "mutant" are wrong on purpose: each is
put in the place of the definition after it to see that a property notices.

### Othello

`Flips(board, p, team)` says what a placement turns over: the runs of opposing
stones that start beside `p` and are closed by a stone of the team within
`MaxFlipDistance`. It is a definition to compare the code with, not a copy of
the loop; the loop is in `Placement`. `ReadBox`, `TouchedChunks`, `ChunkOf` and
`ByteOf` follow `LockReadBox`, `touchedChunks`, `ChunkOf` and the index
arithmetic of `Set`.

### Placement

One goroutine per connection (`Placers`) runs `Place`; `Readers` stand for
whoever only reads: a snapshot of one chunk to a client, `ChunkCounts`, the
snapshot of the whole board to disk. A step is one thing no other goroutine can
get into: one request, grant or release of a chunk lock, one cell read, one load
or one store of a counter, a version or a packed byte.

| label of `pc` | code |
|---|---|
| `rlock` | `LockReadBox`, one chunk after the other, ascending (`board.go:225`) |
| `probe`, `scan` | the first `ComputeFlips` (`game.go:81`): the cell itself, then ray by ray, cell by cell |
| `occ` | `occupied` (`game.go:82`) |
| `runlock` | `UnlockChunksRead`, descending; then `ErrOccupied`, `ErrNoFlips` or on |
| `lock` | `LockChunksWrite` of the touched chunks |
| `recheck`, `reprobe`, `rescan`, `decide` | the cell again, `ComputeFlips` again, `ErrNoFlips` again (`game.go:95-101`) |
| `prev` .. `setstore` | `ApplyCellChange` for the stone and each flip: the previous colour, the counters down and up, the byte loaded and stored |
| `bumpload`, `bumpstore` | `BumpVersion` of the updated chunks |
| `unlock` | the deferred `UnlockChunksWrite` |

The locks are modelled as `sync.RWMutex` works: a writer first keeps out
other writers and new readers, then waits for the readers it found; readers that
come later wait for its `Unlock`, and are then all let in. Reads and writes
of memory that no lock protects are treated as interleaved single accesses of one
byte or one counter; Go allows a compiler no more than that for accesses of one
machine word, and the findings need no stronger effect.

Four history variables let properties talk about what happened: `committed` is
the board with every placement that was decided on carried out in full,
`commits` counts placements per chunk, `strayed` says that the second scan of the
current call read a chunk it had not locked, `overwrote` that some placement wrote
bytes of such a chunk. No guard reads them.

A call that fails at once (out of bounds, cooldown) changes nothing and is a
stuttering step. The cooldown is a flag that time clears. The session mutex is
left out: every connection has a session of its own and one reader goroutine
that calls `Place`.

### Hub

A connection and the client made for it are one element of `Conns`; a session may
have several. The maps of the hub change in one step each (they are only touched
under its mutex). Outside it every enqueue is a step of its own, for every
client of a broadcast, because the hub may change in between. `TakeResnapshot`
is two steps, as its two mutexes make it. `reader[c]` is where the goroutine
of `serveWS` stands, `writer[c]` the goroutine that drains the queue.

Frames are counted and not told apart; what they say is the matter of
`Delivery`.

A send on a closed channel panics. In a handler `net/http` recovers that: the
deferred `closeAll` runs if the reader got far enough to register it (`closing`),
and does not if the welcome itself panics (`abandoned`). In the score
broadcaster it ends the process (`crashed`).

Frames whose handling changes nothing are stuttering steps (Hello, undecodable
frames, subscriptions to chunks that do not exist, websocket control frames).

### Delivery

One page of a browser, which opens one connection after the other (`Conns`), each
served by a run of `serveWS` of its own; `Players` are the goroutines of others that
place stones. `pc` is where each goroutine stands: `register`, `welcome` and `ready` in
`serveWS`, `collect`, `offer`, `ack` in `handlePlace`, `take` and `flag` in
`TakeResnapshot`, `pack` and `repack` in `sendChunkSnapshot`, `closing` before the deferred
`closeAll`, and `abandoned` where a panic of the welcome left it out.

A placement commits (`Place`), the hub copies the subscribers (`Collect`), offers the
delta (`OfferDelta`), and the acknowledgement follows (`SendAck`); a snapshot is packed under
the lock of its chunk (`PackChunk`) and queued later (`QueueSnapshot`). Other subscribers of a
broadcast have no state here: the loop may panic on one of them before the page's client has
its turn (`BroadcastPanics`) or after it (`OffersRest`). The page shows and hides chunks,
clicks, applies what arrives, loses its socket and gets a new one (`WebSocketClient.ts`,
`app.ts`, `ChunkCache.ts`).

The page loses a connection (`Lose`) and reconnects (`Reconnect`) without the server: the
goroutine of the old connection goes on reading what was sent on it, registers if it had not
yet, answers into a queue nobody reads, panics on its closed channel, and at its own time
removes the session (`RemoveSession`). The hub knows sessions and not connections, so
`registered`, `subs` and the mark are those of whichever client it has; `Closed(c)` says that
it is not that of `c`. Of the queue of an old connection only its being closed is kept.

Colours of cells and chunk versions are the data; versions are what the history
variables compare. `disturbed[k]` remembers which of four things happened to chunk `k` since
its last good snapshot that nothing in the code provides against: the deltas of two
placements were queued in the other order than they were committed
("reordered"), a snapshot was packed before a placement and queued after its
delta ("crossed"), a snapshot was dropped by the connection's own `enqueue`
("unsent"), a broadcast panicked before it came to the page's client ("aborted").
`meddled` is the fifth: the chunks for which the goroutine of an earlier connection changed
what the hub has for the present one, by a late message about the chunk, or for all of them by
a late registration, by taking the mark, or by the late removal; a message of the page
about the chunk on its own connection puts it in order again, if its client is still registered.
`unanswered` remembers that the pending click or its acknowledgement
was lost.

### Persistence

Files are sequences of units, `RecordUnits` of which make a record of the log
(21 bytes in the code), so that a write, a flush or the end of the buffer can
fall inside a record; `ReplayWAL` and `CompactAfter` read groups of that many, and
what a torn group is read as is any of `Garbage`. The handler commits, takes the
time and appends in three steps (`Commit`, `Stamp`, `AppendRecord`);
`snapshotWriter` goes through `TakeTime`, `EncodeBoard`, `WriteData`, `WriteMeta`,
`Compact`, `Truncate`, `Rewrite`. Any write may fail part of the way, and a
`bufio.Writer` that has failed refuses everything after (`broken`). `Crash`, the end of the process,
may come between any two steps: what was written to a file stays and memory is gone.
`CloseWAL` and `Exit` are the orderly end, during which handlers may still run.
`Restart` is `restoreFromDisk` on the files as they are: the snapshot that
`meta.json` names is unpacked with `Packing` and the log replayed on it with the
rule of `Othello`. A packed byte is built from its last cell to its first, each
shifting the digits of those after it (`Packing`, Horner's form of the shifts and ors of
`PackChunk` and `Set`).

`mishaps` remembers the four cases that restoring does not handle: a record with
the time of the snapshot whose image lacks it ("same time", `store.go:212`), a
record that overtook another on its way to the log ("overtaken"), a compaction
cut between truncation and rewriting ("log cut", `store.go:169`), a torn end
under new records ("torn", `store.go:104`). A rewriting that fails inside a record is
both of the last two: the process goes on and appends behind half a record.

### Limits

`pc[c]` is where `serveWS` of a connection stands: `upgrading` with its slot taken,
`open`, `placing` once the rate limit has let a placement through, `closing` with
the deferred `Release` to come. Tokens are counted in ticks of which `Refill` make
a token, so that the arithmetic is exact; the code has floating point.
`SweepIdle` may run at any time. Each connection has a `game.Session` of its own.

### Sessions

The handler of `/session` is one process per tab: the look-up (`Reuse`,
`FindExpired`, `NewSession`), `Generate` and `DeleteOld` are separate steps because
`RotateIfExpired` takes its lock three times; the answer sets the cookie of the
browser when it arrives (`Receive`), which may be late or never (`LoseAnswer`).
`Connect` is `Validate` and `assign` of `serveWS`, `Play` is `markPlayed`, `Stats` the
pruning by `/stats`. `Restart` forgets everything but the cookies.

### Frames and Wire

`Frames` has each layout as a table of offsets and widths, once from the
encoder and once from the decoder, once from Go and once from TypeScript, and
the two lists of variable length (`Delta`, `Error`) as operators. A field of fixed width is
its bytes, in the same order on both sides: the tables compare offsets and widths, and only
the counts of the two lists exercise the byte order. `Wire` sends such
messages through websocket frames: a header is written byte for byte, a payload
as one piece after it, by the writer and by the reader, which answers pings,
under `writeMu`. What the peer sends arrives frame by frame, and the reader decides
by the header (`Rejects`, `LengthIn`) what becomes of it. Of the history variables `sent`
is the frames of both goroutines in the order they were done, to compare `got` with, and
`due` the pongs that the pings read so far ask for. The 64-bit form of a length is modelled
by its three low bytes: the longest ping in use is shorter than 2^24.

## 3. Runs

No run has an action or state constraint. The state spaces are finite because
boards fill up, connections end, or a `Max...` constant bounds time, placements,
losses, lives or messages; a bound is the guard of the action that it stops.

| run | instance | asks |
|---|---|---|
| `PlacementAtomic` | 4x4 cells, one chunk, reach 2; the seeded board and 27 fillings of a line of three cells beside the target; two players | `TypeOK`; does the scan find what the rule says (`ScanFollowsRule`)? is `AtomicBoard` implemented (`Atomic`)? |
| `PlacementChunks` | 4x4 cells in four chunks, reach 2; two players whose flips cross the borders; readers of one chunk or of all | `ScanUnderReadLock`, `ScanFollowsRule`, `CountsMatchCells`, `VersionsCountPlacements`, `WholePlacements`, `NoTornReads`, `LockedPlacementsLegal` |
| `PlacementReturns` | the same board with a knot of flips: one player locks four chunks, the other two of them, a reader the last | `LockOrder`, `NoLockCycle`; under fairness `EveryCallReturns` |
| `PlacementStraddle` | 6x6 cells in four chunks, two cells to a byte | `CountsAgree`, violated |
| `HubSessions` | two connections of one session, of which both play and watch; one chunk, queue of one frame | `TypeOK`, `ClosedOnce`, `OpenIffRegistered`, `SubsAgree`; under fairness `DeparturesEnd` |
| `HubCrash` | two connections with sessions of their own | `NeverCrashes`, violated |
| `DeliveryStale` | a player and a page with two connections, the second opened while the first is still served; one cell, queue of one frame, two placements, two messages of the page beside those of a new connection | `TypeOK`, `StaleIsMarked`, `SubscriptionsAgree`; under fairness `ClicksAnswered` |
| `PersistenceRestore` | 3x3 cells, two handlers, a record of two units and a buffer of three, a log that was there before (none, whole or torn), two lives, time to 3 | `TypeOK`, `NothingFallsBetween`, `NothingInvented`, `Durable` |
| `PersistenceFresh` | the same | `PreservesBoard`, violated |
| `LimitsRates` | three connections of two players from one address, cap 2, burst 1, two ticks to a token, cooldown 2, time to 6 | `TypeOK`, `SlotsCounted`, `BucketExact`, `Cadence` |
| `SessionsRotate` | one browser with two tabs, tokens that last one tick, time to 3, three tokens, one fault, one placement | `TypeOK`, `CookieHolds`, `LiveExact`, `KeepsSession`, `ColourSticks` |
| `WireFrames` | a message of every kind in both directions, messages a byte too short or too long, pings of 0, 125, 126, 65535, 65536 and 65537 bytes | `TypeOK`, `FramesWhole`, `ClientReads`, `ServerHears`, `PingsAnswered` |

Deadlock is checked in the placement runs. In the others everything comes to an
end (connections leave, time and messages are bounded), so it is not.
Placement runs have `CountModulus` = 256 in place of 2^32.

**Why the bounds are enough.** A chunk of four cells has every cell on two
borders, so that reads, flips, counters and locks cross chunks in nearly every
placement; reach 2 lets rays end at the cap, at the edge, at an empty cell
and at a stone. `PlacementChunks` contains the placement that needs a chunk
the first scan did not show (drawn in `MCPlacement`), so `strayed` and
`overwrote` do become true. A queue of one frame is full after one:
every enqueue meets both cases. Two connections are what a reconnection or a
second tab needs. Two placements, one of each colour on the same cell, and two messages of the
page (a subscription and a click, a subscription and its end) make every order of
snapshot and delta that the history variables of `Delivery` name, and bring every step of an old
goroutine beside every step of the new one; a third message only repeats one of these. A smaller
board is no loss there: chunks meet only in a delta that touches two of them, and the proofs have
any number. The last connection of an instance ends only when the
server ends it: a page without any has nothing to show. In `Persistence` a buffer of a record and a half overflows at the
second record and inside it; one snapshot per life and two lives have a restart
after every step of it, and the second life starts on what the first left. In
`Limits` the clock covers three refills, and in `Sessions` a token can expire, be
rotated, and its successor expire. The sizes in `Wire` are those of the code.
The mutants in `PROJECT.json` show that each property fails when the code is
wrong. For the properties that are proved (section 5) no bound matters.

**Conditions in the properties.** Several properties hold of this code only
outside cases that the code does not provide for. Each case is a history
variable, and the property names it, so that it says exactly where the promise
ends:

- `CountsMatchCells`, `VersionsCountPlacements`, `WholePlacements` and `NoTornReads`
  hold as long as `~overwrote`, `LockedPlacementsLegal` where `~strayed`: what
  the chunk locks protect.
- `StaleIsMarked` leaves out chunks that are `disturbed`, by frames in the wrong
  order, snapshots the connection itself dropped and broadcasts that panicked, and both
  it and `SubscriptionsAgree` those that are `meddled`, which a goroutine of an earlier
  connection changed. Both speak of a connection that is `Served`: open for the page, with a
  goroutine that has not begun to end it.
- `ClicksAnswered` leaves out clicks that are `unanswered`: the page then waits
  forever.
- `NothingFallsBetween` and `NothingInvented` leave out some of the `mishaps`,
  `Durable` all of them and restarts without a snapshot. In those cases a synced
  placement can be missing after a restart, or come back as another.
- `CookieHolds` and `KeepsSession` leave out browsers that are `cut`: an answer was
  lost or overtaken, or the server was started anew, and the cookie names a
  token nobody knows; the next `/session` makes a new session.
- `Cadence` promises the interval of the rate limit for one address only, and the
  cooldown for one connection only: that is all a player who changes both is
  held to.
- `PingsAnswered` leaves out a ping of 65536 bytes.

**Fairness.** `Placement`: a goroutine that can take a step takes one (the Go
scheduler is preemptive), and a writer for which the mutex of a chunk is free
again and again gets it (`sync.Mutex` hands itself over to a waiter of more than a
millisecond), hence strong fairness of `AwaitLock`. Clients are never obliged to
ask. `Hub`: handlers finish what they started; a writer whose write fails or
whose channel is closed stops; strong fairness of `ReadFails` says that a peer
that has left sent only finitely much before. Nothing makes a peer read, send or
leave, so a peer that merely stops reading is not assumed to go away.
`Delivery`: the goroutine that serves the page's present connection runs when it can, the page
takes in what arrives, and it hears of a connection the server has closed; nothing is assumed of
the goroutines of earlier connections or of the other players, nobody has to click or place, and no connection has to last or come back. The
other modules claim no liveness.

## 4. What the runs found

Three runs expect a violation:

- `PlacementStraddle` (`CountsAgree`): two placements in neighbouring chunks,
  each within its own locks, load the same byte; the second store loses the
  first stone, and the counters of the chunk are wrong from then on.
  `server/internal/game/integration_test.go:14-15` calls the agreement "the
  invariant". On the real board it happens at chunk borders at an odd
  multiple of 50: the byte of columns 48 to 51 belongs to two chunks.
- `HubCrash` (`NeverCrashes`): the broadcaster of scores copies the clients,
  one of them leaves, its channel is closed, and the send panics in a goroutine
  that nobody recovers. `PLAN.md:44` wants the server to survive the load test
  "without crashing".
- `PersistenceFresh` (`PreservesBoard`): a server that is stopped by a signal
  before its first snapshot has every placement in `wal.log`, and starts again
  with a fresh board, because `restoreFromDisk` returns before the replay when there is
  no snapshot (`main.go:302`). `PLAN.md:44`: "preserves board state across
  restart".

Other behaviours that the models have, and that the conditions of section 3
mark, disagree with a comment or with what the code is meant to do:

- The comment at `server/internal/game/game.go:77-79` says the read locks are
  "still preventing torn reads". They do not where a concurrent placement writes
  into a chunk it has not locked: the second `ComputeFlips` (`game.go:98`) may
  return flips in chunks outside `touched`, and they are applied all the same
  (`overwrote`).
- Black and White at the two ends of a row can each close its line with the
  stone that the other is about to turn over. In either order only the first
  would be legal; both are made (`strayed`). `README.md:3`: "all placement
  legality is enforced server-side using strict Othello flip rules".
- A connection of a page that ends after the page has reconnected removes the new client
  with its subscriptions (`closeAll`, `main.go:480-485`; `RemoveSession` takes a session id,
  `hub.go:66-83`). The page's socket stays open, its frames stop, and nothing tells it
  (`meddled` in `Delivery`); the next pong or acknowledgement the server queues for it panics, and then the
  page reconnects.
- A broadcast that meets the closed channel of one subscriber panics (`hub.go:129-131`): the
  subscribers after it, in the random order of a map, get neither the delta nor the mark
  `NeedResnapshot` ("aborted" in `disturbed`).
- A snapshot that finds the queue full is dropped, and the mark that would cause
  another one is only set by broadcasts; the comment at
  `server/cmd/mmothello/main.go:499-500` has it that they "already mark the
  client" ("unsent" in `disturbed`).
- `wsframe.go:3` supports "payloads up to 64 KiB" and `MaxPayload` is 65536, which
  `Read` takes and `Write` refuses.

## 5. Proofs

All proofs are checked by TLAPS for every value of the constants that the
named assumptions allow: `GeometryAssumption` (`Othello`: positive sizes, whole
chunks, rows that start on a byte), `PlacementAssumption` (players and readers
are different, boards are boards, targets are cells), `HubAssumption` (`Hub`),
`DeliveryAssumption` (`Delivery`: players and connections are different, finitely many chunks,
capacities of at least one, and the constant for an absent value is no frame, no image and
no connection),
`LimitsAssumption` (`Limits`: finitely many connections, a bucket that is swept has
had the time to fill, and the constant for an absent value is neither a number
nor a bucket), `PersistenceAssumption` (`Persistence`: placements on cells of the board, a
record fits in the buffer, and a log that was there before is torn or of older records),
`WireAssumption` (`Wire`: the fields of a message fill their places with bytes, the lengths of
those of variable length fit in two bytes, and a ping is shorter than 2^24) and
`SessionsAssumption` (`Sessions`: every tab belongs to a browser,
ages and windows are positive, and the constant for an absent value is neither a
number nor an answer). Neither the number of goroutines, players, browsers or
connections nor the size of the board, of a queue, of a buffer or of a record is bounded;
the `Max...` bounds may have any value. `Wire` is the exception: its sizes are the code's.

**Types of `Placement`** (`PlacementProofs!TypeOKCorrect`). `TypeOK` is not
inductive: a step may only append to a run, or take the least of `need`,
where the code has seen to it that there is one. `TypeInv` adds that (`ControlOK`): readers and players keep to
their own labels, `need` is not empty where a lock or a version is next, `todo` is
not empty while a cell is changed, the colour whose counter goes down is a
stone, and the byte about to be stored was loaded.
`OthelloLemmas` supplies the geometry: chunk ids are in range, a read box is a
nonempty set of chunks, every nonempty set of chunks has a least and a greatest
element.

**Locks of `Placement`** (`PlacementProofs`, second part). `LockInv` says for every
lock who may be in it: a reader of chunk `c` that is still taking read locks
needs only `c` and greater chunks; a goroutine that waits in `c` has `c` as its
next chunk; the writer of `c` is on the writing side of `Place` and, while it is
still locking, needs only `c` and greater chunks; it shares `c` with readers only
while `c` is its next chunk. From it follow `LockOrder` directly and
`NoLockCycle` by the greatest chunk anybody of the supposed circle waits for:
whoever is in the way there is the owner, a reader, or the first in line, and
each of them waits for a still greater chunk or for nothing.

**The board of `Placement`** (`PlacementProofs`, third part). The cells, the versions and the
counters agree with `committed` and `commits` only when nobody is in the middle of
a placement, so none of the four properties is inductive. `BoardInv` says at every
label how they differ, as long as `~overwrote`: whoever is past `rlock` has the
read locks of its whole box, and whoever is past `lock` the write locks of what it
touches (`HoldsOK`); while it changes cells its flips lie in those chunks
(`FootOK`); a cell differs from `committed` only if it is in some caller's `todo`,
and a byte that is about to be stored has its other cells as they are (`CellsOK`); the version of a chunk lags `commits` by one exactly while a caller
has yet to bump it (`VersionOK`); and each counter is the number of stones less
what the caller that holds the chunk has taken off or not yet put on, modulo
`CountModulus` (`CountOK`). The arithmetic is in lemmas about what one cell does to
the number of stones of a chunk. `CountsMatchCells`, `VersionsCountPlacements`,
`WholePlacements` and `NoTornReads` follow, because a chunk that nobody has
write-locked is in nobody's hands. `ScanUnderReadLock` needs the locks only: a
lemma of geometry says that a ray of `MaxFlipDistance` cells stays in the
box (`LockReadBox`).

**The scans of `Placement`** (`PlacementProofs`, fourth part). `ScanInv` adds what a scan
knows: of the ray it is on, the cells it has passed are opposing stones *still*
(`SeenTo`), and what it has collected is what the rule says of the rays it has
finished (`RaysDone`). Both stay true because the cells lie in chunks it has
locked and, by `BoardInv`, nobody else changes those. At the end of the scan that
is `ScanFollowsRule`; at `Commit` it makes the placement a legal one on `committed`
(`LockedPlacementsLegal`). From it comes the implementation of `AtomicBoard`: every step
of `Placement` is a step of it or leaves `committed` alone, in each behaviour in
which placements are decided on within their locks (`AtomicWithinLocks`), and
without any such condition where one chunk is the board (`AtomicUnderOneLock`,
the property `Atomic` of the run).

**Types and registry of `Hub`** (`HubProofs`). `HubInv` is the conjunction of
`TypeOK`, `ClosedOnce`, `OpenIffRegistered` and `SubsAgree` with two facts: a
client is registered under the session of its own connection only, and a
connection that has not begun has no subscription and no closed channel. None of
the four is inductive by itself: that a channel is closed only once depends on
its being taken out of the registry in the same step, and that depends on the
session it is registered under.

**What the page shows** (`DeliveryProofs`). `StaleIsMarked` speaks of the moment at
which nothing about a chunk is under way; to carry it there `DeliveryInv` follows
every frame. A chunk is `Fresh` when the hub has it for the page's client as the page's own
messages left it (`Tended`: registered, subscribed, not `meddled`), there is no mark, no snapshot
of it is still to be sent, and it is not `disturbed`. For such a chunk the page has an image
cached or a snapshot in the queue (`Loaded`), and each of its
cells, read off what the page will show once the queue is read, is that of the board
(`Shows`), or a delta that changes it is still to be offered (`Pending`); and a pending
delta brings the colour of the board, is older than what was queued last, or is not the
newest that is pending (`Ordered`). The other parts are what these rest on: where a
goroutine is, what it has in hand and that its client is not the hub's before it registers
(`ControlOK`); a page whose client is not the hub's has not registered yet or lost it to
another connection, and takes the marks of its own client (`ClientOK`); no frame has a
version the board has
not, and a delta with the version of the board has its colours (`VersionsOK`); the last
message of the page about a chunk that is still under way says whether the page wants
it, and with none under way the hub has what the page wants unless the chunk is `meddled`
(`AsksOK`, from which `SubscriptionsAgree`); and a snapshot that is packed and not queued yet
has the board, or a newer delta is to come (`PackedOK`). Every part was an invariant of a TLC
run first. The proof has one lemma per action and part.

**Slots, buckets and pace of `Limits`** (`LimitsProofs`). `LimitsInv` is the
conjunction of `TypeOK` and `SlotsCounted` with three facts. Whoever holds a slot
has an address, so that the deferred `Release` gives back the slot that was taken.
`lastSeen` is the time of the last refill, so that what is swept would be full, as
a bucket that does not exist is. And `Exact`: the tokens of an address are the
least of a burst and, for each of its grants, what that grant and those after it
leave. Two lemmas about integers carry it through time (`LeastTick`: every bound of
a grant grows by one and the burst caps) and through a grant (`LeastGrant`: every
bound loses a token and the new one is a burst less a token); a refused request
and a sweep change no tokens (`WrittenTokens`, `SameBuckets`). `BucketExact` follows
because the least element of a set of integers is its `Min`.
The half of `Cadence` about the cooldown is the guard of `handlePlace`. The half about
addresses needs `CadenceInv`: with a burst of one, the request that a connection
handles and the one a player placed last are grants of their address, and two such
requests of one address are a refill apart. A new grant keeps it so because
the bucket is exact: an address with a token had none granted for a refill
(`GrantsRest`). `CadenceInv` was checked by TLC on the instance of `LimitsRates` first.

**Cookies, sessions and colours** (`SessionsProofs`). `CookieHolds` is not inductive:
`DeleteOld` takes a token out of the table, and it must be no other browser's. So
`SessionsInv` says that no two browsers have a token in common, in a jar, a request or an
answer (`OwnTokens`); a token that was made for a tab is in the table, with the
session of the answer, and nobody has it yet (`FreshOK`); an answer has
its token from `Generate` on (`AnswersOK`). Then the tab that deletes is the witness that
`CookieHolds` asks for, and the tab that brings a fresh token ends the need for one.
For `KeepsSession` there is `IdentityOK`: the record of a cookie that nothing happened to is
of the session of its browser, and so is every answer to a request that was sent with that
cookie, unless another tab is about to replace it. `ColourSticks` is a property
of `assign`. `LiveExact` needs `PlayedOK`: `lastPlayed` is the true time of the last
placement, and whoever is missing in it placed longer ago than the window, which
stays so as time goes on; pruning at twice the window is what makes it so.

**Files, log and restart** (`PersistenceProofs`). The restart is a computation on what is on
disk, folds over cells and over groups of the log. A fold has no induction theorem here
that the provers could instantiate, so each of them is compared with a *run*: a function
that lists the values after each step, whose existence and end follow from `NatInduction` on
a set (`IsFold`, `FoldRun`). Thus `DecodeEncode`: the board that `decodeBoard` makes of an encoded board is that
board, for every size and every number of cells in a byte. Thus also what a compaction keeps
(`Filters`: the records of a later time, in order) and what the replay of one more record
adds (`ReplayTo`).

On these rest four invariants, each in a part of its own. `Stages` says how far
`snapshotWriter` is: which file has the image, which one `meta.json` names, and that the
times of snapshots only grow. `Streams` says of the log with the buffer behind it that it is whole
records, none from the future, unless it is "torn"; `Present`, that what was logged or
pictured was placed. `Safe` is `NothingFallsBetween` one step ahead: what was synced is
found again in the snapshot that would be loaded or in a record of the log that would not be skipped, and
what was appended in the log with its buffer; while a snapshot is under way both are found
with its image as well, and while the log is rewritten, in what is kept, so that the
renaming of `meta.json` and the truncation each only exchange one for the other. A
record whose time a snapshot covers is of a stone the snapshot has (`Covered`): "same
time" is exactly where that fails.

`NothingInvented` needs the content of the replay. Whether a record is replayed depends on the
board so far, and a record that was illegal once may be legal when replayed; so
`Known` does not say that the replay is right, but that from some record on the log names only
stones the board has, and that the board replayed up to there has only these (`Shows`). A new
snapshot does not disturb this, since what it skips is of the board too (`Late`).

`Durable` needs more: that the replayed board *is* a board of the game. `Story` says that, with no mishap,
the log tells a tale of the history `trail` (`Tale`): the first `K` records are
old and lead from the snapshot to board `m`; each later one is the placement that led to
board `birth[i]`, in order and without a gap behind `m`; what is missing at the end is in the hands of
handlers that have yet to append (`Goes`); and what was secured is among them (`Saves`).
While a snapshot is under way its image is a later board of the trail and skips nothing born after
it (`Pictures`), so that once `meta.json` names it the same records tell the same tale from there
(`Retold`). `TaleReplayed` replays the tale: board by board, by induction on its
length. With it, every step of `Persistence` is a step of `DurableBoard` or leaves it
alone (`BoardIsDurable`).
Each of these invariants was an invariant of a TLC run before it was proved. One proof
that failed showed a flaw of an earlier form of the model, which did not count a rewriting that
breaks inside a record as "torn": three placements and a clock up to 4, more than the run has,
give a log whose later records are read from the middle of one.

**Messages and frames of `Wire`** (`WireProofs`). First the messages, for any content: the bytes of
a field are where it was put (`FilledFields`, from a statement about each layout that its fields lie side by
side), the decoder looks there (`FilledFound`), a number of two bytes is read back, and so
is a list of any length (`DeltaRoundTrip`, `ErrorRoundTrip`). Together: both decoders return
what the server encoded (`AnswersReadBack`), the server's returns what the client encoded, and
nothing if a byte is missing or left over (`ResizedIsNothing`). Then the headers: each
form of the length is read as it was written (`PeerHeader`, `ServerHeader`). Then the streams,
with the invariant `WireInv`. `InOrder` says where in `out` each frame lies that was done and not
received: one after the other from the first place on, and behind the last at most a lone header,
which is that of the goroutine past its header, and only one can be there because it
has the mutex. A frame that is done extends the places (`LaidMore`), one that is
received shifts them (`LaidShorter`); `FramesWhole` is a part of it, and `ClientReads` follows with
`AnswersReadBack`. `AllHeard` says the same of the other direction: what the server will
make of the frames in the connection is what the peer meant by them, so that each read hears the
next thing said. `PongsDue` has the account of the pongs: between a ping and its
pong exactly that pong is owed, if it can be written at all, and a write that fails on an open
connection is one that could not. All the parts were checked by TLC first.

**Only model-checked:** the liveness properties `EveryCallReturns`, `DeparturesEnd` and
`ClicksAnswered`; temporal proofs under fairness are beyond the prover's backends. Every
invariant and every action property of a passing run is proved; `Atomic` for boards that one
lock covers, as in its run, and beyond that under the condition of `AtomicWithinLocks`.

## 6. Not modelled

- The sum of `scoreBroadcaster` and of `Board.Score`: no module adds the counters
  up. `ChunkCounts` is a reader of one chunk in `Placement`.
- `recountChunkCounts` runs before any other goroutine exists: its result is the
  initial state of `Placement`.
- A crash of the machine, and failures of the disk, that lose what was written: `WriteSnapshot`
  and `meta.json` are never synced (`persist/store.go:41-75`), so that a snapshot may name
  data that is not there. `Crash` is a crash of the process.
- Files that cannot be read. A `meta.json` or snapshot file that fails to load ends
  `restoreFromDisk`, and the server goes on with the seeded board; an image of the wrong size
  is logged and skipped, and the log is still replayed, on the seeded board (`main.go:286-310`).
- A failure of `rand.Read`; the age of the cookie in the browser; the fetch of
  `/session` happens when a page loads and never again, so that a page that stays
  open over a restart of the server is refused until it is reloaded
  (`client/src/app.ts:85-91`): in `Sessions` its `Connect` is disabled.
- Floating-point rounding in the token bucket. The address is whatever
  `X-Forwarded-For` says.
- The capacity of the page's cache (`trim`), its pings and its clock;
  `disconnect()`, which nothing calls.
- Websocket masking, text frames (handled like binary ones), unknown opcodes
  (skipped); `encodeHello`, which nothing calls.
- `FlushOutbound` is only used by a test. Rendering, page layout and the scripts
  hold no state the server depends on.

## 7. Plan

Done: every component that holds state the game depends on has a module; their
runs; the proofs of section 5.

Left:

1. The score: a sum over counters that are read one after the other, and when it
   is right.
2. `Delivery` with two pages of one browser that stay open beside each other, whose
   snapshots go to different queues.
