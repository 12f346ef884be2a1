------------------------------ MODULE Placement ------------------------------
(***************************************************************************)
(* Game.Place (server/internal/game) run by many connections at once, and  *)
(* the goroutines that read the board beside them, at the granularity at   *)
(* which they really interleave: one chunk lock taken or released, one     *)
(* cell read, one load or one store of a counter or of a packed byte.      *)
(*                                                                         *)
(* Place first scans the board for flips holding the read locks of every   *)
(* chunk the scan can reach, drops them, takes the write locks of the      *)
(* chunks those flips touch, scans again, and applies what the second scan *)
(* found.  The second scan may read, and its result may lie in, chunks the *)
(* write locks do not cover; and a packed byte may hold cells of two       *)
(* chunks.  The history variables strayed and overwrote record whether     *)
(* that happened, so that the properties can say exactly what the locks    *)
(* protect.                                                                *)
(***************************************************************************)
EXTENDS Othello

CONSTANTS
  Placers,       \* connections: each has its own game.Session and goroutine
  Readers,       \* goroutines that only read: snapshots to clients and disk, scores
  TeamOf,        \* TeamOf[p]: the team of the session of connection p
  StartBoards,   \* the boards a server may start from: seeded or restored
  Targets,       \* the coordinates clients ask for
  ReadGoals,     \* the sets of chunks readers lock together: one chunk, or all
  CountModulus,  \* the counters of stones wrap here (2^32)
  NoWriter       \* stands for the absence of a writer

Proc == Placers \cup Readers

ASSUME PlacementAssumption ==
  /\ Placers \cap Readers = {}
  /\ NoWriter \notin Proc
  /\ TeamOf \in [Placers -> Team]
  /\ StartBoards \subseteq [Coord -> Cell]
  /\ Targets \subseteq Coord
  /\ ReadGoals \subseteq (SUBSET Chunk) \ {{}}
  /\ CountModulus \in Nat \ {0}

VARIABLES
  cells,      \* Board.cells, unpacked
  counts,     \* counts[c][t]: ChunkMeta.blackCount and whiteCount of chunk c
  version,    \* ChunkMeta.version
  locks,      \* ChunkMeta.mu
  pc,         \* what each goroutine does next
  need,       \* chunks a goroutine has still to lock, or to bump
  job,        \* the local variables of a call of Place
  cooling,    \* the session placed and its cooldown has not passed
  strayed,    \* history: the second scan of this call read an unlocked chunk
  committed,  \* history: the board with every placement decided on completed
  commits,    \* history: placements committed per chunk
  overwrote   \* history: a placement wrote bytes of a chunk it had not locked

board   == <<cells, counts, version>>
history == <<strayed, committed, commits, overwrote>>
vars    == <<cells, counts, version, locks, pc, need, job, cooling,
             strayed, committed, commits, overwrote>>

Goto(p, label) == pc' = [pc EXCEPT ![p] = label]

-----------------------------------------------------------------------------
(* sync.RWMutex.  A writer first excludes other writers, then waits for    *)
(* the readers it found; readers that come after it wait until it unlocks, *)
(* and are then all let in.                                                *)

Unlocked == [readers |-> {}, writer |-> NoWriter, waiting |-> {}]

ReadHeld(p)  == {c \in Chunk : p \in locks[c].readers}
WriteHeld(p) == {c \in Chunk : locks[c].writer = p /\ locks[c].readers = {}}

RLockRequest(p, c) ==
  /\ p \notin locks[c].readers \cup locks[c].waiting
  /\ locks' = IF locks[c].writer = NoWriter
              THEN [locks EXCEPT ![c].readers = @ \cup {p}]
              ELSE [locks EXCEPT ![c].waiting = @ \cup {p}]

RUnlock(p, c) == locks' = [locks EXCEPT ![c].readers = @ \ {p}]

LockRequest(p, c) ==
  /\ locks[c].writer = NoWriter
  /\ locks' = [locks EXCEPT ![c].writer = p]

Unlock(p, c) ==
  locks' = [locks EXCEPT ![c] = [readers |-> locks[c].waiting,
                                 writer  |-> NoWriter,
                                 waiting |-> {}]]

-----------------------------------------------------------------------------
(* Init *)

NoRay == [dir |-> 1, step |-> 1, run |-> <<>>]
NoJob == [at |-> <<0, 0>>, ray |-> NoRay, flips |-> <<>>, occupied |-> FALSE,
          touched |-> {}, todo |-> <<>>, prev |-> Empty, loaded |-> 0, image |-> <<>>]

Init ==
  /\ cells \in StartBoards
  /\ counts = [c \in Chunk |-> [t \in Team |-> Tally(cells, c, t) % CountModulus]]
  /\ version = [c \in Chunk |-> 0]
  /\ locks = [c \in Chunk |-> Unlocked]
  /\ pc = [p \in Proc |-> "idle"]
  /\ need = [p \in Proc |-> {}]
  /\ job = [p \in Placers |-> NoJob]
  /\ cooling = [p \in Placers |-> FALSE]
  /\ strayed = [p \in Placers |-> FALSE]
  /\ committed = cells
  /\ commits = [c \in Chunk |-> 0]
  /\ overwrote = FALSE

-----------------------------------------------------------------------------
(* The head of Place.  A call that returns ErrOutOfBounds or ErrCooldown   *)
(* changes nothing, so it is a stuttering step.                            *)

ShortRadius == MaxFlipDistance - 1   \* mutant: the box ends one cell early
ReadRadius  == MaxFlipDistance

BeginPlace(p, q) ==
  /\ pc[p] = "idle"
  /\ InBounds(q)
  /\ ~cooling[p]
  /\ job' = [job EXCEPT ![p] = [NoJob EXCEPT !.at = q]]
  /\ need' = [need EXCEPT ![p] = ReadBox(q, ReadRadius)]
  /\ strayed' = [strayed EXCEPT ![p] = FALSE]
  /\ Goto(p, "rlock")
  /\ UNCHANGED <<board, locks, cooling, committed, commits, overwrote>>

(* now.Sub(last) reaches Cooldown. *)
CooldownPasses(p) ==
  /\ cooling[p]
  /\ cooling' = [cooling EXCEPT ![p] = FALSE]
  /\ UNCHANGED <<board, locks, pc, need, job, history>>

(* LockChunkRead and ChunkCounts read one chunk, LockAllRead all of them.  *)
BeginRead(r, goal) ==
  /\ pc[r] = "idle"
  /\ need' = [need EXCEPT ![r] = goal]
  /\ Goto(r, "rlock")
  /\ UNCHANGED <<board, locks, job, cooling, history>>

-----------------------------------------------------------------------------
(* Read locks: taken in ascending, released in descending order. *)

NextReadLock(p) == Min(need[p])

AwaitRLock(p) ==
  /\ pc[p] = "rlock"
  /\ RLockRequest(p, NextReadLock(p))
  /\ UNCHANGED <<board, pc, need, job, cooling, history>>

RLocked(p) ==
  /\ pc[p] = "rlock"
  /\ NextReadLock(p) \in ReadHeld(p)
  /\ need' = [need EXCEPT ![p] = @ \ {NextReadLock(p)}]
  /\ IF need'[p] # {} THEN UNCHANGED pc
     ELSE Goto(p, IF p \in Placers THEN "probe" ELSE "reading")
  /\ UNCHANGED <<board, locks, job, cooling, history>>

DoneReading(r) ==
  /\ pc[r] = "reading"
  /\ Goto(r, "runlock")
  /\ UNCHANGED <<board, locks, need, job, cooling, history>>

RUnlockOne(p) ==
  /\ pc[p] = "runlock"
  /\ ReadHeld(p) # {}
  /\ RUnlock(p, Max(ReadHeld(p)))
  /\ UNCHANGED <<board, pc, need, job, cooling, history>>

(* All read locks are released: a reader is done; Place returns ErrOccupied *)
(* or ErrNoFlips, or goes on to lock the chunks of the flips it found.      *)
ReadReturns(p) ==
  /\ pc[p] = "runlock"
  /\ ReadHeld(p) = {}
  /\ p \in Placers => job[p].occupied \/ job[p].flips = <<>>
  /\ job' = [q \in Placers |-> IF q = p THEN NoJob ELSE job[q]]
  /\ Goto(p, "idle")
  /\ UNCHANGED <<board, locks, need, cooling, history>>

KeptLocks(p)   == TRUE              \* mutant: the read locks are kept
AllReleased(p)  == ReadHeld(p) = {}

ReadSucceeds(p) ==
  /\ pc[p] = "runlock"
  /\ AllReleased(p)
  /\ ~job[p].occupied /\ job[p].flips # <<>>
  /\ LET touched == TouchedChunks(job[p].at, job[p].flips) IN
     /\ job' = [job EXCEPT ![p].touched = touched]
     /\ need' = [need EXCEPT ![p] = touched]
  /\ Goto(p, "lock")
  /\ UNCHANGED <<board, locks, cooling, history>>

-----------------------------------------------------------------------------
(* ComputeFlips, run twice: as "probe" and "scan" under the read locks, as *)
(* "reprobe" and "rescan" under the write locks.                           *)

ScanLabel(label) == IF label = "probe" THEN "scan" ELSE "rescan"
ExitLabel(label) == IF label \in {"probe", "scan"} THEN "occ" ELSE "decide"

Probe(p) ==
  /\ pc[p] \in {"probe", "reprobe"}
  /\ job' = [job EXCEPT ![p].flips = <<>>, ![p].ray = NoRay]
  /\ Goto(p, IF cells[job[p].at] = Empty THEN ScanLabel(pc[p]) ELSE ExitLabel(pc[p]))
  /\ UNCHANGED <<board, locks, need, cooling, history>>

Scanning(p)   == pc[p] \in {"scan", "rescan"} /\ job[p].ray.dir \in DOMAIN Directions
RayCell(p)    == Along(job[p].at, Directions[job[p].ray.dir], job[p].ray.step)
KeptRun(ray)  == [ray EXCEPT !.dir = @ + 1, !.step = 1]   \* mutant: no run[:0]
NextRay(ray)  == [dir |-> ray.dir + 1, step |-> 1, run |-> <<>>]
EndlessRay(ray, q) == [ray EXCEPT !.step = @ + 1, !.run = Append(@, q)]   \* mutant
LongerRay(ray, q)  == IF ray.step = MaxFlipDistance THEN NextRay(ray)
                      ELSE [ray EXCEPT !.step = @ + 1, !.run = Append(@, q)]

(* The second scan looks at a chunk whether or not it is locked. *)
Stray(p) ==
  strayed' = [strayed EXCEPT ![p] =
                @ \/ (pc[p] = "rescan" /\ ChunkOf(RayCell(p)) \notin job[p].touched)]

RayLeavesBoard(p) ==
  /\ Scanning(p)
  /\ ~InBounds(RayCell(p))
  /\ job' = [job EXCEPT ![p].ray = NextRay(@)]
  /\ UNCHANGED <<board, locks, pc, need, cooling, history>>

RayMeetsEmpty(p) ==
  /\ Scanning(p)
  /\ InBounds(RayCell(p)) /\ cells[RayCell(p)] = Empty
  /\ job' = [job EXCEPT ![p].ray = NextRay(@)]
  /\ Stray(p)
  /\ UNCHANGED <<board, locks, pc, need, cooling, committed, commits, overwrote>>

RayMeetsOpponent(p) ==
  /\ Scanning(p)
  /\ InBounds(RayCell(p)) /\ cells[RayCell(p)] = Opponent(TeamOf[p])
  /\ job' = [job EXCEPT ![p].ray = LongerRay(@, RayCell(p))]
  /\ Stray(p)
  /\ UNCHANGED <<board, locks, pc, need, cooling, committed, commits, overwrote>>

RayMeetsTeam(p) ==
  /\ Scanning(p)
  /\ InBounds(RayCell(p)) /\ cells[RayCell(p)] = TeamOf[p]
  /\ job' = [job EXCEPT ![p].ray = NextRay(@), ![p].flips = @ \o job[p].ray.run]
  /\ Stray(p)
  /\ UNCHANGED <<board, locks, pc, need, cooling, committed, commits, overwrote>>

ScanEnds(p) ==
  /\ pc[p] \in {"scan", "rescan"}
  /\ job[p].ray.dir \notin DOMAIN Directions
  /\ Goto(p, ExitLabel(pc[p]))
  /\ UNCHANGED <<board, locks, need, job, cooling, history>>

(* occupied := g.Board.Get(x, y) != CellEmpty *)
ReadOccupied(p) ==
  /\ pc[p] = "occ"
  /\ job' = [job EXCEPT ![p].occupied = cells[job[p].at] # Empty]
  /\ Goto(p, "runlock")
  /\ UNCHANGED <<board, locks, need, cooling, history>>

-----------------------------------------------------------------------------
(* Write locks *)

DescendingLock(p) == Max(need[p])   \* mutant: the order of the ids is lost
NextWriteLock(p) == Min(need[p])

AwaitLock(p) ==
  /\ pc[p] = "lock"
  /\ LockRequest(p, NextWriteLock(p))
  /\ UNCHANGED <<board, pc, need, job, cooling, history>>

\* mutant: a writer does not wait for the readers it found
OnlyWriter(p) == locks[NextWriteLock(p)].writer = p
Alone(p)      == NextWriteLock(p) \in WriteHeld(p)

Locked(p) ==
  /\ pc[p] = "lock"
  /\ Alone(p)
  /\ need' = [need EXCEPT ![p] = @ \ {NextWriteLock(p)}]
  /\ IF need'[p] # {} THEN UNCHANGED pc ELSE Goto(p, "recheck")
  /\ UNCHANGED <<board, locks, job, cooling, history>>

(* Get again: ErrOccupied, or scan again. *)
StaleRecheck(p) == IF cells[job[p].at] = Empty THEN "decide" ELSE "unlock"   \* mutant
AfterRecheck(p) == IF cells[job[p].at] = Empty THEN "reprobe" ELSE "unlock"

Recheck(p) ==
  /\ pc[p] = "recheck"
  /\ Goto(p, AfterRecheck(p))
  /\ UNCHANGED <<board, locks, need, job, cooling, history>>

UnlockOne(p) ==
  /\ pc[p] = "unlock"
  /\ WriteHeld(p) # {}
  /\ Unlock(p, Max(WriteHeld(p)))
  /\ UNCHANGED <<board, pc, need, job, cooling, history>>

WriteReturns(p) ==
  /\ pc[p] = "unlock"
  /\ WriteHeld(p) = {}
  /\ job' = [job EXCEPT ![p] = NoJob]
  /\ Goto(p, "idle")
  /\ UNCHANGED <<board, locks, need, cooling, history>>

-----------------------------------------------------------------------------
(* Applying a placement, cell by cell *)

\* the cells the placement sets, and the chunks that share a byte with one
Stones(p)    == {job[p].at} \cup Range(job[p].flips)
Footprint(p) == {ChunkOf(q) : q \in UNION {ByteOf(s) : s \in Stones(p)}}

(* The second scan found nothing to flip: ErrNoFlips. *)
NoFlips(p) ==
  /\ pc[p] = "decide"
  /\ job[p].flips = <<>>
  /\ Goto(p, "unlock")
  /\ UNCHANGED <<board, locks, need, job, cooling, history>>

ForgetStone(p) == job[p].flips                   \* mutant: the placed stone is not set
Changes(p)     == <<job[p].at>> \o job[p].flips

Commit(p) ==
  /\ pc[p] = "decide"
  /\ job[p].flips # <<>>
  /\ job' = [job EXCEPT ![p].todo = Changes(p)]
  /\ committed' = [q \in Coord |->
       IF q \in Stones(p) THEN TeamOf[p] ELSE committed[q]]
  /\ commits' = [c \in Chunk |->
       commits[c] + IF c \in TouchedChunks(job[p].at, job[p].flips) THEN 1 ELSE 0]
  /\ overwrote' = (overwrote \/ ~(Footprint(p) \subseteq job[p].touched))
  /\ Goto(p, "prev")
  /\ UNCHANGED <<board, locks, need, cooling, strayed>>

Applying(p) == Head(job[p].todo)

(* ApplyCellChange: nothing to do when the cell has the colour already. *)
OnlyGains(p, prev) == IF prev = TeamOf[p] THEN "prev" ELSE "incload"   \* mutant: no count--
AfterPrev(p, prev) == CASE prev = TeamOf[p] -> "prev"
                        [] prev = Empty     -> "incload"
                        [] OTHER            -> "decload"

ReadPrev(p) ==
  /\ pc[p] = "prev"
  /\ job[p].todo # <<>>
  /\ LET prev == cells[Applying(p)] IN
     /\ job' = [job EXCEPT ![p].prev = prev,
                           ![p].todo = IF prev = TeamOf[p] THEN Tail(@) ELSE @]
     /\ Goto(p, AfterPrev(p, prev))
  /\ UNCHANGED <<board, locks, need, cooling, history>>

(* The counters of the chunk: count-- for prev, count++ for next. *)
Counter(p) == IF pc[p] \in {"decload", "decstore"} THEN job[p].prev ELSE TeamOf[p]

LoadCount(p) ==
  /\ pc[p] \in {"decload", "incload"}
  /\ job' = [job EXCEPT ![p].loaded = counts[ChunkOf(Applying(p))][Counter(p)]]
  /\ Goto(p, IF pc[p] = "decload" THEN "decstore" ELSE "incstore")
  /\ UNCHANGED <<board, locks, need, cooling, history>>

StoreCount(p) ==
  /\ pc[p] \in {"decstore", "incstore"}
  /\ counts' = [counts EXCEPT ![ChunkOf(Applying(p))][Counter(p)] =
       (job[p].loaded + IF pc[p] = "decstore" THEN CountModulus - 1 ELSE 1) % CountModulus]
  /\ Goto(p, IF pc[p] = "decstore" THEN "incload" ELSE "setload")
  /\ UNCHANGED <<cells, version, locks, need, job, cooling, history>>

(* Set: the byte is read, one cell of it replaced, and the byte stored. *)
LoadByte(p) ==
  /\ pc[p] = "setload"
  /\ job' = [job EXCEPT ![p].image = [q \in ByteOf(Applying(p)) |-> cells[q]]]
  /\ Goto(p, "setstore")
  /\ UNCHANGED <<board, locks, need, cooling, history>>

StoreByte(p) ==
  /\ pc[p] = "setstore"
  /\ cells' = [q \in Coord |-> IF q = Applying(p) THEN TeamOf[p]
                               ELSE IF q \in ByteOf(Applying(p)) THEN job[p].image[q]
                               ELSE cells[q]]
  /\ job' = [job EXCEPT ![p].todo = Tail(@), ![p].image = <<>>]
  /\ Goto(p, "prev")
  /\ UNCHANGED <<counts, version, locks, need, cooling, history>>

OwnChunk(p) == {ChunkOf(job[p].at)}                    \* mutant: only the stone's chunk
Updated(p)  == TouchedChunks(job[p].at, job[p].flips)

Applied(p) ==
  /\ pc[p] = "prev"
  /\ job[p].todo = <<>>
  /\ need' = [need EXCEPT ![p] = Updated(p)]
  /\ Goto(p, "bumpload")
  /\ UNCHANGED <<board, locks, job, cooling, history>>

(* BumpVersion of the updated chunks; then LastPlaceUnix and placed. *)
LoadVersion(p) ==
  /\ pc[p] = "bumpload"
  /\ job' = [job EXCEPT ![p].loaded = version[Min(need[p])]]
  /\ Goto(p, "bumpstore")
  /\ UNCHANGED <<board, locks, need, cooling, history>>

StoreVersion(p) ==
  /\ pc[p] = "bumpstore"
  /\ version' = [version EXCEPT ![Min(need[p])] = job[p].loaded + 1]
  /\ need' = [need EXCEPT ![p] = @ \ {Min(@)}]
  /\ Goto(p, IF need'[p] = {} THEN "unlock" ELSE "bumpload")
  /\ cooling' = [cooling EXCEPT ![p] = need'[p] = {}]
  /\ UNCHANGED <<cells, counts, locks, job, history>>

-----------------------------------------------------------------------------
LockStep(p) == AwaitRLock(p) \/ RLocked(p) \/ RUnlockOne(p) \/ ReadReturns(p)

PlaceStep(p) ==
  \/ LockStep(p) \/ ReadSucceeds(p)
  \/ Probe(p) \/ RayLeavesBoard(p) \/ RayMeetsEmpty(p) \/ RayMeetsOpponent(p)
  \/ RayMeetsTeam(p) \/ ScanEnds(p) \/ ReadOccupied(p)
  \/ AwaitLock(p) \/ Locked(p) \/ Recheck(p) \/ UnlockOne(p) \/ WriteReturns(p)
  \/ NoFlips(p) \/ Commit(p) \/ ReadPrev(p) \/ LoadCount(p) \/ StoreCount(p)
  \/ LoadByte(p) \/ StoreByte(p) \/ Applied(p) \/ LoadVersion(p) \/ StoreVersion(p)

ReadStep(r) == LockStep(r) \/ DoneReading(r)

Next ==
  \/ \E p \in Placers : \/ \E q \in Targets : BeginPlace(p, q)
                        \/ CooldownPasses(p)
                        \/ PlaceStep(p)
  \/ \E r \in Readers : \/ \E goal \in ReadGoals : BeginRead(r, goal)
                        \/ ReadStep(r)

Spec == Init /\ [][Next]_vars

(* The Go scheduler runs every goroutine that can run, and sync.Mutex hands *)
(* itself to a writer that has waited for long, so a writer that finds the  *)
(* mutex free again and again gets it.  Clients need not ask for anything.  *)
Fairness ==
  /\ \A p \in Placers : WF_vars(PlaceStep(p)) /\ SF_vars(AwaitLock(p))
  /\ \A r \in Readers : WF_vars(ReadStep(r))

FairSpec == Spec /\ Fairness

-----------------------------------------------------------------------------
Label == {"idle", "rlock", "probe", "scan", "occ", "runlock", "lock", "recheck",
          "reprobe", "rescan", "decide", "prev", "decload", "decstore", "incload",
          "incstore", "setload", "setstore", "bumpload", "bumpstore", "unlock",
          "reading"}

RayType == [dir : 1 .. Len(Directions) + 1, step : 1 .. MaxFlipDistance, run : Seq(Coord)]

\* an image is the content of one byte; between two stores there is none
Image == {<<>>} \cup UNION {[ByteOf(q) -> Cell] : q \in Coord}

JobType == [at : Coord, ray : RayType, flips : Seq(Coord), occupied : BOOLEAN,
            touched : SUBSET Chunk, todo : Seq(Coord), prev : Cell, loaded : Nat, image : Image]

LockType == [readers : SUBSET Proc, writer : Proc \cup {NoWriter}, waiting : SUBSET Proc]

(* Every variable has its type; counters never leave 0 .. CountModulus - 1. *)
TypeOK ==
  /\ cells \in [Coord -> Cell]
  /\ counts \in [Chunk -> [Team -> 0 .. CountModulus - 1]]
  /\ version \in [Chunk -> Nat]
  /\ locks \in [Chunk -> LockType]
  /\ pc \in [Proc -> Label]
  /\ need \in [Proc -> SUBSET Chunk]
  /\ job \in [Placers -> JobType]
  /\ cooling \in [Placers -> BOOLEAN]
  /\ strayed \in [Placers -> BOOLEAN]
  /\ committed \in [Coord -> Cell]
  /\ commits \in [Chunk -> Nat]
  /\ overwrote \in BOOLEAN

-----------------------------------------------------------------------------
(* Locks *)

Wanted(p) == IF pc[p] = "rlock" THEN {NextReadLock(p)}
             ELSE IF pc[p] = "lock" THEN {NextWriteLock(p)} ELSE {}

Held(p) == ReadHeld(p) \cup WriteHeld(p)

(* Locks are taken in one order: a goroutine that is about to lock a chunk, *)
(* or waits for it, holds only chunks with smaller ids (LockReadBox,        *)
(* LockAllRead and LockChunksWrite all lock in ascending order, and Place   *)
(* lets go of its read locks before it takes write locks).                  *)
LockOrder ==
  \A p \in Proc : \A c \in Wanted(p) : \A d \in Held(p) \ {c} : d < c

\* p waits until q lets go of chunk c, or q is first in line for it
BlockedAt(p, q, c) ==
  /\ c \in Wanted(p) \ Held(p)
  /\ q # p
  /\ \/ q \in locks[c].readers /\ locks[c].writer = p
     \/ q = locks[c].writer

(* No circular wait: among any goroutines there is one that waits for none  *)
(* of the others.  An RWMutex makes this hard: a writer that only waits     *)
(* already keeps new readers out.                                           *)
NoLockCycle ==
  \A S \in (SUBSET Proc) \ {{}} :
    \E p \in S : \A q \in S, c \in Chunk : ~BlockedAt(p, q, c)

(* The first scan reads no cell outside the chunks LockReadBox locked.      *)
ScanUnderReadLock ==
  \A p \in Placers :
    (pc[p] = "scan" /\ Scanning(p) /\ InBounds(RayCell(p)))
      => ChunkOf(RayCell(p)) \in ReadHeld(p)

(* Every call of Place and every read returns (no deadlock and no starving). *)
EveryCallReturns == \A p \in Proc : (pc[p] # "idle") ~> (pc[p] = "idle")

-----------------------------------------------------------------------------
(* What the locks protect *)

Quiet == {c \in Chunk : \A p \in Placers : c \notin WriteHeld(p)}

(* What ComputeFlips returns is what the rule says of the board, for the    *)
(* first scan and for a second scan that stayed in the write-locked chunks. *)
ScanFollowsRule ==
  ~overwrote =>
    \A p \in Placers :
      (pc[p] = "occ" \/ (pc[p] = "decide" /\ ~strayed[p])) =>
        Range(job[p].flips) = Flips(cells, job[p].at, TeamOf[p])

CountsAgree ==
  \A c \in Quiet, t \in Team : counts[c][t] = Tally(cells, c, t) % CountModulus

(* The counts that /stats and the score frames add up are the stones of the *)
(* chunk, whenever nobody holds its write lock, as long as no placement     *)
(* wrote bytes of a chunk it had not locked.                                *)
CountsMatchCells == ~overwrote => CountsAgree

(* The version a snapshot carries counts the placements that changed the    *)
(* chunk, and the snapshot holds all of each of them.                       *)
VersionsCountPlacements ==
  ~overwrote => \A c \in Quiet : version[c] = commits[c]

WholePlacements ==
  ~overwrote => \A q \in Coord : ChunkOf(q) \in Quiet => cells[q] = committed[q]

\* a chunk read-locked by one goroutine before and after a step keeps its cells
ReadLockedCellsStay ==
  \A q \in Coord :
    (\E p \in Proc : ChunkOf(q) \in ReadHeld(p) \cap ReadHeld(p)') => cells'[q] = cells[q]

(* A read-locked chunk does not change under its reader, as long as no      *)
(* placement wrote bytes of a chunk it had not locked.                      *)
NoTornReads == [][~overwrote' => ReadLockedCellsStay]_vars

-----------------------------------------------------------------------------
(* Placements are atomic and legal *)

AB == INSTANCE AtomicBoard WITH board <- committed

(* The server implements AtomicBoard: seen from outside, the board changes  *)
(* only by whole legal placements.                                          *)
Atomic == AB!Spec

(* A placement whose second scan stayed inside the chunks it had locked is  *)
(* one legal placement on the board as it is when it is decided on.         *)
LockedPlacementsLegal ==
  [][\A p \in Placers :
       (pc[p] = "decide" /\ pc'[p] = "prev" /\ ~strayed[p] /\ ~overwrote')
         => AB!Place(job[p].at, TeamOf[p])]_vars

=============================================================================
