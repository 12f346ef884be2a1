--------------------------- MODULE PlacementProofs ---------------------------
(***************************************************************************)
(* Theorems about Placement, for any board, chunk and byte size, any teams *)
(* and any number of connections and readers: types; the order of locks;   *)
(* what the chunk locks protect of the board, as long as no placement      *)
(* writes bytes of a chunk it has not locked; and therefore that what       *)
(* ComputeFlips finds is what the rule says, because nobody else changes    *)
(* the cells it has looked at, and that a placement is one legal placement  *)
(* on the board as it is when it is decided on.  Where one lock covers the *)
(* board every placement is, and Placement implements AtomicBoard.         *)
(***************************************************************************)
EXTENDS Placement, OthelloLemmas

-----------------------------------------------------------------------------
(* Type correctness.  TypeOK is not inductive: a call uses its locals where *)
(* the code has just set them, and ControlOK says where that is.            *)

CellLabel == {"decload", "decstore", "incload", "incstore", "setload", "setstore"}

LabelsOK ==
  /\ \A r \in Readers : pc[r] \in {"idle", "rlock", "reading", "runlock"}
  /\ \A p \in Placers : pc[p] # "reading"

NeedOK ==
  \A p \in Proc : pc[p] \in {"rlock", "lock", "bumpload", "bumpstore"} => need[p] # {}

LocalsOK ==
  \A p \in Placers :
    /\ pc[p] \in CellLabel => job[p].todo # <<>>
    /\ pc[p] \in {"decload", "decstore"} => job[p].prev \in Team
    /\ pc[p] = "setstore" => job[p].image \in [ByteOf(Applying(p)) -> Cell]

ControlOK == LabelsOK /\ NeedOK /\ LocalsOK

TypeInv == TypeOK /\ ControlOK

(* There are eight directions. *)
LEMMA EightDirections == Len(Directions) = 8 /\ DOMAIN Directions = 1 .. 8
BY DEF Directions

(* Moving on to the next direction, or one step further, leaves a ray.      *)
LEMMA RayTypes ==
  ASSUME NEW ray \in RayType, ray.dir \in DOMAIN Directions, NEW q \in Coord
  PROVE  NextRay(ray) \in RayType /\ LongerRay(ray, q) \in RayType
<1>1. NextRay(ray) \in RayType
  BY EightDirections, GeometryAssumption DEF NextRay, RayType
<1>2. CASE ray.step = MaxFlipDistance
  BY <1>1, <1>2 DEF LongerRay
<1>3. CASE ray.step # MaxFlipDistance
  <2>1. ray.step + 1 \in 1 .. MaxFlipDistance
    BY <1>3, GeometryAssumption DEF RayType
  <2>2. Append(ray.run, q) \in Seq(Coord)
    BY DEF RayType
  <2>3. [ray EXCEPT !.step = @ + 1, !.run = Append(@, q)] \in RayType
    BY <2>1, <2>2 DEF RayType
  <2> QED BY <1>1, <1>3, <2>3 DEF LongerRay
<1> QED BY <1>2, <1>3

(* A call starts with no locals, scanning from the first direction.         *)
LEMMA JobTypes ==
  NoRay \in RayType /\ NoJob \in JobType
<1>1. NoRay \in RayType
  BY EightDirections, GeometryAssumption DEF NoRay, RayType
<1>2. <<0, 0>> \in Coord
  BY GeometryAssumption DEF Coord, Axis
<1>3. <<>> \in Image /\ <<>> \in Seq(Coord) /\ Empty \in Cell
  BY DEF Image, Cell
<1>4. NoJob \in JobType
  BY <1>1, <1>2, <1>3 DEF NoJob, JobType
<1> QED BY <1>1, <1>4

(* The lock a goroutine takes next is that of a chunk.                      *)
LEMMA NextLockType ==
  ASSUME TypeInv, NEW p \in Proc, pc[p] \in {"rlock", "lock", "bumpload", "bumpstore"}
  PROVE  /\ need[p] \in SUBSET Chunk /\ need[p] # {}
         /\ Min(need[p]) \in need[p] /\ Min(need[p]) \in Chunk
         /\ NextReadLock(p) = Min(need[p]) /\ NextWriteLock(p) = Min(need[p])
<1>1. need[p] \in SUBSET Chunk /\ need[p] # {}
  BY DEF TypeInv, TypeOK, ControlOK, NeedOK
<1> QED BY <1>1, MinExists DEF NextReadLock, NextWriteLock

(* At the start every variable has its type.                                *)
LEMMA InitType == Init => TypeInv
<1> SUFFICES ASSUME Init PROVE TypeInv
  OBVIOUS
<1>1. \A c \in Chunk, t \in Team : Tally(cells, c, t) % CountModulus \in 0 .. CountModulus - 1
  BY TallyType, PlacementAssumption
<1>2. counts \in [Chunk -> [Team -> 0 .. CountModulus - 1]]
  BY <1>1 DEF Init
<1>3. cells \in [Coord -> Cell]
  BY PlacementAssumption DEF Init
<1>4. TypeOK
  BY <1>2, <1>3, JobTypes DEF Init, TypeOK, Unlocked, LockType, Label
<1>5. ControlOK
  BY PlacementAssumption DEF Init, ControlOK, LabelsOK, NeedOK, LocalsOK, Proc, CellLabel
<1> QED BY <1>4, <1>5 DEF TypeInv

-----------------------------------------------------------------------------
(* The steps of the lock phases, of connections and readers alike, keep the *)
(* types.                                                                   *)
LEMMA LockStepType ==
  ASSUME TypeInv, NEW p \in Proc, LockStep(p)
  PROVE  TypeInv'
<1> USE DEF TypeInv
<1>1. CASE AwaitRLock(p)
  <2>1. TypeOK'
    <3> DEFINE c == NextReadLock(p)
    <3>1. c \in Chunk
      BY <1>1, NextLockType DEF AwaitRLock
    <3>2. /\ [locks[c] EXCEPT !.readers = @ \cup {p}] \in LockType
          /\ [locks[c] EXCEPT !.waiting = @ \cup {p}] \in LockType
      BY <3>1 DEF TypeOK, LockType
    <3>3. locks' \in [Chunk -> LockType]
      BY <1>1, <3>1, <3>2 DEF AwaitRLock, RLockRequest, TypeOK
    <3> QED BY <1>1, <3>3 DEF AwaitRLock, TypeOK, board, history
  <2>2. ControlOK'
    BY <1>1 DEF AwaitRLock, ControlOK, LabelsOK, NeedOK, LocalsOK, Applying
  <2> QED BY <2>1, <2>2
<1>2. CASE RLocked(p)
  <2>1. TypeOK'
    BY <1>2 DEF RLocked, Goto, TypeOK, Label, board, history
  <2>2. \/ need'[p] # {} /\ pc' = pc
        \/ p \in Placers /\ pc' = [pc EXCEPT ![p] = "probe"]
        \/ p \in Readers /\ p \notin Placers /\ pc' = [pc EXCEPT ![p] = "reading"]
    BY <1>2 DEF RLocked, Goto, Proc
  <2>3. job' = job /\ \A q \in Proc \ {p} : need'[q] = need[q]
    BY <1>2 DEF RLocked, TypeOK
  <2>4. LabelsOK'
    BY <2>2, PlacementAssumption DEF TypeOK, ControlOK, LabelsOK, Proc
  <2>5. NeedOK'
    BY <2>2, <2>3 DEF TypeOK, ControlOK, NeedOK
  <2>6. LocalsOK'
    BY <2>2, <2>3 DEF TypeOK, ControlOK, LocalsOK, Applying, CellLabel, Proc
  <2> QED BY <2>1, <2>4, <2>5, <2>6 DEF ControlOK
<1>3. CASE RUnlockOne(p)
  <2>1. TypeOK'
    BY <1>3 DEF RUnlockOne, RUnlock, TypeOK, LockType, board, history
  <2>2. ControlOK'
    BY <1>3 DEF RUnlockOne, ControlOK, LabelsOK, NeedOK, LocalsOK, Applying
  <2> QED BY <2>1, <2>2
<1>4. CASE ReadReturns(p)
  <2>1. TypeOK'
    BY <1>4, JobTypes DEF ReadReturns, Goto, TypeOK, Label, board, history
  <2>2. ControlOK'
    BY <1>4 DEF ReadReturns, Goto, TypeOK, ControlOK, LabelsOK, NeedOK, LocalsOK, Applying, CellLabel, Proc
  <2> QED BY <2>1, <2>2
<1> QED BY <1>1, <1>2, <1>3, <1>4 DEF LockStep


-----------------------------------------------------------------------------
(* Steps of a call of Place.                                                *)

(* The two scans. *)
LEMMA ScanType ==
  ASSUME TypeInv, NEW p \in Placers,
         \/ Probe(p) \/ ScanEnds(p) \/ ReadOccupied(p) \/ ReadSucceeds(p)
  PROVE  TypeInv'
<1> USE DEF TypeInv
<1>1. CASE Probe(p)
  <2>1. job[p] \in JobType /\ NoRay \in RayType /\ <<>> \in Seq(Coord)
    BY JobTypes DEF TypeOK
  <2>2. [job[p] EXCEPT !.flips = <<>>, !.ray = NoRay] \in JobType
    BY <2>1 DEF JobType
  <2>3. TypeOK'
    BY <1>1, <2>1, <2>2 DEF Probe, ScanLabel, ExitLabel, Goto, TypeOK, Label, JobType, board, history
  <2>4. ControlOK'
    BY <1>1, <2>1, <2>2, PlacementAssumption DEF Probe, ScanLabel, ExitLabel, Goto, TypeOK, ControlOK, LabelsOK, NeedOK, LocalsOK, Applying, CellLabel, Proc
  <2> QED BY <2>3, <2>4
<1>2. CASE ScanEnds(p)
  <2>1. TypeOK'
    BY <1>2 DEF ScanEnds, ExitLabel, Goto, TypeOK, Label, JobType, board, history
  <2>2. ControlOK'
    BY <1>2, PlacementAssumption DEF ScanEnds, ExitLabel, Goto, TypeOK, ControlOK, LabelsOK, NeedOK, LocalsOK, Applying, CellLabel, Proc
  <2> QED BY <2>1, <2>2
<1>3. CASE ReadOccupied(p)
  <2>1. [job[p] EXCEPT !.occupied = cells[job[p].at] # Empty] \in JobType
    BY DEF TypeOK, JobType
  <2>2. TypeOK'
    BY <1>3, <2>1 DEF ReadOccupied, Goto, TypeOK, Label, JobType, board, history
  <2>3. ControlOK'
    BY <1>3, <2>1, PlacementAssumption DEF ReadOccupied, Goto, TypeOK, ControlOK, LabelsOK, NeedOK, LocalsOK, Applying, CellLabel, Proc
  <2> QED BY <2>2, <2>3
<1>4. CASE ReadSucceeds(p)
  <2>1. TouchedChunks(job[p].at, job[p].flips) \in (SUBSET Chunk) \ {{}}
    BY TouchedType DEF TypeOK, JobType
  <2>2. [job[p] EXCEPT !.touched = TouchedChunks(job[p].at, job[p].flips)] \in JobType
    BY <2>1 DEF TypeOK, JobType
  <2>3. TypeOK'
    BY <1>4, <2>1, <2>2 DEF ReadSucceeds, Goto, TypeOK, Label, JobType, board, history
  <2>4. ControlOK'
    BY <1>4, <2>1, <2>2, PlacementAssumption DEF ReadSucceeds, Goto, TypeOK, ControlOK, LabelsOK, NeedOK, LocalsOK, Applying, CellLabel, Proc
  <2> QED BY <2>3, <2>4
<1> QED BY <1>1, <1>2, <1>3, <1>4

(* The four ways a ray goes on.                                              *)
LEMMA RayStepType ==
  ASSUME TypeInv, NEW p \in Placers,
         \/ RayLeavesBoard(p) \/ RayMeetsEmpty(p)
         \/ RayMeetsOpponent(p) \/ RayMeetsTeam(p)
  PROVE  TypeInv'
<1> USE DEF TypeInv
<1>1. CASE RayLeavesBoard(p)
  <2>1. job[p] \in JobType /\ job[p].ray.dir \in DOMAIN Directions
    BY <1>1 DEF RayLeavesBoard, Scanning, TypeOK
  <2>2. NextRay(job[p].ray) \in RayType
    BY <2>1, RayTypes, JobTypes DEF JobType, NoJob
  <2>3. TypeOK'
    BY <1>1, <2>1, <2>2 DEF RayLeavesBoard, Scanning, Goto, TypeOK, Label, JobType, board, history
  <2>4. ControlOK'
    BY <1>1, <2>1, <2>2, PlacementAssumption DEF RayLeavesBoard, Scanning, Goto, TypeOK, ControlOK, LabelsOK, NeedOK, LocalsOK, Applying, CellLabel, Proc
  <2> QED BY <2>3, <2>4
<1>2. CASE RayMeetsEmpty(p)
  <2>1. job[p] \in JobType /\ RayCell(p) \in Coord /\ job[p].ray.dir \in DOMAIN Directions
    BY <1>2 DEF RayMeetsEmpty, Scanning, RayCell, InBounds, Coord, Along, TypeOK
  <2>2. NextRay(job[p].ray) \in RayType /\ LongerRay(job[p].ray, RayCell(p)) \in RayType
    BY <2>1, RayTypes DEF JobType
  <2>3. TypeOK'
    BY <1>2, <2>1, <2>2 DEF RayMeetsEmpty, Scanning, Stray, Goto, TypeOK, Label, JobType, board, history
  <2>4. ControlOK'
    BY <1>2, <2>1, <2>2, PlacementAssumption DEF RayMeetsEmpty, Scanning, Goto, TypeOK, ControlOK, LabelsOK, NeedOK, LocalsOK, Applying, CellLabel, Proc
  <2> QED BY <2>3, <2>4
<1>3. CASE RayMeetsOpponent(p)
  <2>1. job[p] \in JobType /\ RayCell(p) \in Coord /\ job[p].ray.dir \in DOMAIN Directions
    BY <1>3 DEF RayMeetsOpponent, Scanning, RayCell, InBounds, Coord, Along, TypeOK
  <2>2. NextRay(job[p].ray) \in RayType /\ LongerRay(job[p].ray, RayCell(p)) \in RayType
    BY <2>1, RayTypes DEF JobType
  <2>3. TypeOK'
    BY <1>3, <2>1, <2>2 DEF RayMeetsOpponent, Scanning, Stray, Goto, TypeOK, Label, JobType, board, history
  <2>4. ControlOK'
    BY <1>3, <2>1, <2>2, PlacementAssumption DEF RayMeetsOpponent, Scanning, Goto, TypeOK, ControlOK, LabelsOK, NeedOK, LocalsOK, Applying, CellLabel, Proc
  <2> QED BY <2>3, <2>4
<1>4. CASE RayMeetsTeam(p)
  <2>1. job[p] \in JobType /\ RayCell(p) \in Coord /\ job[p].ray.dir \in DOMAIN Directions
    BY <1>4 DEF RayMeetsTeam, Scanning, RayCell, InBounds, Coord, Along, TypeOK
  <2>2. NextRay(job[p].ray) \in RayType /\ LongerRay(job[p].ray, RayCell(p)) \in RayType
    BY <2>1, RayTypes DEF JobType
  <2>3. job[p].flips \o job[p].ray.run \in Seq(Coord)
    BY <2>1 DEF JobType, RayType
  <2>4. TypeOK'
    BY <1>4, <2>1, <2>2, <2>3 DEF RayMeetsTeam, Scanning, Stray, Goto, TypeOK, Label, JobType, board, history
  <2>5. ControlOK'
    BY <1>4, <2>1, <2>2, <2>3, PlacementAssumption DEF RayMeetsTeam, Scanning, Goto, TypeOK, ControlOK, LabelsOK, NeedOK, LocalsOK, Applying, CellLabel, Proc
  <2> QED BY <2>4, <2>5
<1> QED BY <1>1, <1>2, <1>3, <1>4

(* Taking and releasing write locks. *)
LEMMA WriteLockType ==
  ASSUME TypeInv, NEW p \in Placers,
         \/ AwaitLock(p) \/ Locked(p) \/ Recheck(p) \/ UnlockOne(p) \/ WriteReturns(p)
  PROVE  TypeInv'
<1> USE DEF TypeInv
<1>1. CASE AwaitLock(p)
  <2>1. NextWriteLock(p) \in Chunk
    BY <1>1, NextLockType DEF AwaitLock, Proc
  <2>2. locks[NextWriteLock(p)] \in LockType /\ p \in Proc
    BY <2>1 DEF TypeOK, Proc
  <2>3. [locks[NextWriteLock(p)] EXCEPT !.writer = p] \in LockType
    BY <2>2 DEF LockType
  <2>4. TypeOK'
    BY <1>1, <2>1, <2>2, <2>3 DEF AwaitLock, LockRequest, Goto, TypeOK, Label, JobType, board, history
  <2>5. ControlOK'
    BY <1>1, <2>1, <2>2, <2>3, PlacementAssumption DEF AwaitLock, Goto, TypeOK, ControlOK, LabelsOK, NeedOK, LocalsOK, Applying, CellLabel, Proc
  <2> QED BY <2>4, <2>5
<1>2. CASE Locked(p)
  <2>1. \/ need'[p] # {} /\ pc' = pc
        \/ pc' = [pc EXCEPT ![p] = "recheck"]
    BY <1>2 DEF Locked, Goto
  <2>2. job' = job /\ \A q \in Proc \ {p} : need'[q] = need[q]
    BY <1>2 DEF Locked, TypeOK
  <2>3. TypeOK'
    BY <1>2, <2>1, <2>2 DEF Locked, Goto, TypeOK, Label, JobType, board, history
  <2>4. ControlOK'
    BY <1>2, <2>1, <2>2, PlacementAssumption DEF Locked, Goto, TypeOK, ControlOK, LabelsOK, NeedOK, LocalsOK, Applying, CellLabel, Proc
  <2> QED BY <2>3, <2>4
<1>3. CASE Recheck(p)
  <2>1. TypeOK'
    BY <1>3 DEF Recheck, AfterRecheck, Goto, TypeOK, Label, JobType, board, history
  <2>2. ControlOK'
    BY <1>3, PlacementAssumption DEF Recheck, AfterRecheck, Goto, TypeOK, ControlOK, LabelsOK, NeedOK, LocalsOK, Applying, CellLabel, Proc
  <2> QED BY <2>1, <2>2
<1>4. CASE UnlockOne(p)
  <2>1. TypeOK'
    BY <1>4 DEF UnlockOne, Unlock, LockType, Goto, TypeOK, Label, JobType, board, history
  <2>2. ControlOK'
    BY <1>4, PlacementAssumption DEF UnlockOne, Goto, TypeOK, ControlOK, LabelsOK, NeedOK, LocalsOK, Applying, CellLabel, Proc
  <2> QED BY <2>1, <2>2
<1>5. CASE WriteReturns(p)
  <2>1. TypeOK'
    BY <1>5, JobTypes DEF WriteReturns, Goto, TypeOK, Label, JobType, board, history
  <2>2. ControlOK'
    BY <1>5, PlacementAssumption DEF WriteReturns, Goto, TypeOK, ControlOK, LabelsOK, NeedOK, LocalsOK, Applying, CellLabel, Proc
  <2> QED BY <2>1, <2>2
<1> QED BY <1>1, <1>2, <1>3, <1>4, <1>5

(* Deciding and applying a placement. *)
LEMMA ApplyType ==
  ASSUME TypeInv, NEW p \in Placers,
         \/ NoFlips(p) \/ Commit(p) \/ ReadPrev(p) \/ LoadCount(p) \/ StoreCount(p)
         \/ LoadByte(p) \/ StoreByte(p) \/ Applied(p) \/ LoadVersion(p) \/ StoreVersion(p)
  PROVE  TypeInv'
<1> USE DEF TypeInv
<1>1. CASE NoFlips(p)
  <2>1. TypeOK'
    BY <1>1 DEF NoFlips, Goto, TypeOK, Label, JobType, board, history
  <2>2. ControlOK'
    BY <1>1, PlacementAssumption DEF NoFlips, Goto, TypeOK, ControlOK, LabelsOK, NeedOK, LocalsOK, Applying, CellLabel, Proc
  <2> QED BY <2>1, <2>2
<1>2. CASE Commit(p)
  <2>1. Changes(p) \in Seq(Coord) /\ Changes(p) # <<>>
    BY DEF Changes, TypeOK, JobType
  <2>2. [job[p] EXCEPT !.todo = Changes(p)] \in JobType
    BY <2>1 DEF TypeOK, JobType
  <2>3. TeamOf[p] \in Cell
    BY PlacementAssumption DEF Cell
  <2>4. committed' \in [Coord -> Cell]
    BY <1>2, <2>3 DEF Commit, TypeOK
  <2>5. commits' \in [Chunk -> Nat]
    BY <1>2 DEF Commit, TypeOK
  <2>6. overwrote' \in BOOLEAN
    BY <1>2 DEF Commit, TypeOK
  <2>7. TypeOK'
    BY <1>2, <2>1, <2>2, <2>3, <2>4, <2>5, <2>6 DEF Commit, Goto, TypeOK, Label, JobType, board, history
  <2>8. ControlOK'
    BY <1>2, <2>1, <2>2, <2>3, <2>4, <2>5, <2>6, PlacementAssumption DEF Commit, Goto, TypeOK, ControlOK, LabelsOK, NeedOK, LocalsOK, Applying, CellLabel, Proc
  <2> QED BY <2>7, <2>8
<1>3. CASE ReadPrev(p)
  <2>1. job[p] \in JobType /\ job[p].todo # <<>>
    BY <1>3 DEF ReadPrev, TypeOK
  <2>2. Applying(p) \in Coord /\ Tail(job[p].todo) \in Seq(Coord)
    BY <2>1 DEF Applying, JobType
  <2>3. cells[Applying(p)] \in Cell
    BY <2>2 DEF TypeOK
  <2>4. \/ pc' = [pc EXCEPT ![p] = "prev"]
        \/ /\ pc' = [pc EXCEPT ![p] = "incload"]
           /\ job' = [job EXCEPT ![p].prev = cells[Applying(p)]]
        \/ /\ pc' = [pc EXCEPT ![p] = "decload"]
           /\ job' = [job EXCEPT ![p].prev = cells[Applying(p)]]
           /\ cells[Applying(p)] \in Team
    <3>1. CASE cells[Applying(p)] = TeamOf[p]
      BY <1>3, <3>1, PlacementAssumption DEF ReadPrev, AfterPrev, Goto, Team, Black, White, Empty
    <3>2. CASE cells[Applying(p)] # TeamOf[p]
      <4>1. job' = [job EXCEPT ![p].prev = cells[Applying(p)]]
        BY <1>3, <3>2, <2>1 DEF ReadPrev, JobType, TypeOK
      <4> QED BY <1>3, <3>2, <4>1, <2>3 DEF ReadPrev, AfterPrev, Goto, Cell
    <3> QED BY <3>1, <3>2
  <2>5. need' = need /\ \A q \in Placers \ {p} : job'[q] = job[q]
    BY <1>3 DEF ReadPrev, TypeOK
  <2>6. LabelsOK' /\ NeedOK'
    BY <2>4, <2>5, PlacementAssumption DEF TypeOK, ControlOK, LabelsOK, NeedOK, Proc
  <2>7. LocalsOK'
    <3>1. \A q \in Placers \ {p} : pc'[q] = pc[q] /\ job'[q] = job[q]
      BY <2>4, <2>5 DEF TypeOK, Proc
    <3>2. p \in Placers /\ pc \in [Proc -> Label] /\ job \in [Placers -> JobType] /\ p \in Proc
      BY DEF TypeOK, Proc
    <3>3. /\ pc'[p] \in CellLabel => job'[p].todo # <<>>
          /\ pc'[p] \in {"decload", "decstore"} => job'[p].prev \in Team
          /\ pc'[p] # "setstore"
      BY <2>1, <2>4, <3>2 DEF CellLabel, JobType
    <3> QED BY <3>1, <3>3 DEF ControlOK, LocalsOK, Applying
  <2>8. TypeOK'
    BY <1>3, <2>1, <2>2, <2>3, <2>4 DEF ReadPrev, TypeOK, Label, JobType, Cell, board, history
  <2> QED BY <2>6, <2>7, <2>8 DEF ControlOK
<1>4. CASE LoadCount(p)
  <2>1. job[p] \in JobType /\ job[p].todo # <<>>
    BY <1>4 DEF LoadCount, TypeOK, ControlOK, LocalsOK, CellLabel
  <2>2. Applying(p) \in Coord /\ Tail(job[p].todo) \in Seq(Coord)
    BY <2>1 DEF Applying, JobType
  <2>3. Counter(p) \in Team
    BY <1>4, PlacementAssumption DEF LoadCount, Counter, ControlOK, LocalsOK
  <2>4. counts[ChunkOf(Applying(p))][Counter(p)] \in Nat
    BY <2>2, <2>3, ChunkOfType, PlacementAssumption DEF TypeOK
  <2>5. TypeOK'
    BY <1>4, <2>1, <2>2, <2>3, <2>4 DEF LoadCount, Goto, TypeOK, Label, JobType, board, history
  <2>6. ControlOK'
    BY <1>4, <2>1, <2>2, <2>3, <2>4, PlacementAssumption DEF LoadCount, Goto, TypeOK, ControlOK, LabelsOK, NeedOK, LocalsOK, Applying, CellLabel, Proc
  <2> QED BY <2>5, <2>6
<1>5. CASE StoreCount(p)
  <2>1. job[p] \in JobType /\ job[p].todo # <<>>
    BY <1>5 DEF StoreCount, TypeOK, ControlOK, LocalsOK, CellLabel
  <2>2. (job[p].loaded + IF pc[p] = "decstore" THEN CountModulus - 1 ELSE 1) % CountModulus
          \in 0 .. CountModulus - 1
    BY <2>1, PlacementAssumption DEF JobType
  <2>3. TypeOK'
    BY <1>5, <2>1, <2>2 DEF StoreCount, Goto, TypeOK, Label, JobType, board, history
  <2>4. ControlOK'
    BY <1>5, <2>1, <2>2, PlacementAssumption DEF StoreCount, Goto, TypeOK, ControlOK, LabelsOK, NeedOK, LocalsOK, Applying, CellLabel, Proc
  <2> QED BY <2>3, <2>4
<1>6. CASE LoadByte(p)
  <2>1. job[p] \in JobType /\ job[p].todo # <<>>
    BY <1>6 DEF LoadByte, TypeOK, ControlOK, LocalsOK, CellLabel
  <2>2. Applying(p) \in Coord /\ Tail(job[p].todo) \in Seq(Coord)
    BY <2>1 DEF Applying, JobType
  <2>3. [q \in ByteOf(Applying(p)) |-> cells[q]] \in [ByteOf(Applying(p)) -> Cell]
    BY <2>2, ByteOfType DEF TypeOK
  <2>4. [q \in ByteOf(Applying(p)) |-> cells[q]] \in Image
    BY <2>2, <2>3 DEF Image
  <2>5. TypeOK'
    BY <1>6, <2>1, <2>2, <2>3, <2>4 DEF LoadByte, Goto, TypeOK, Label, JobType, board, history
  <2>6. ControlOK'
    BY <1>6, <2>1, <2>2, <2>3, <2>4, PlacementAssumption DEF LoadByte, Goto, TypeOK, ControlOK, LabelsOK, NeedOK, LocalsOK, Applying, CellLabel, Proc
  <2> QED BY <2>5, <2>6
<1>7. CASE StoreByte(p)
  <2>1. job[p] \in JobType /\ job[p].todo # <<>>
    BY <1>7 DEF StoreByte, TypeOK, ControlOK, LocalsOK, CellLabel
  <2>2. Applying(p) \in Coord /\ Tail(job[p].todo) \in Seq(Coord)
    BY <2>1 DEF Applying, JobType
  <2>3. job[p].image \in [ByteOf(Applying(p)) -> Cell]
    BY <1>7 DEF StoreByte, ControlOK, LocalsOK
  <2>4. cells' \in [Coord -> Cell]
    BY <1>7, <2>3, PlacementAssumption DEF StoreByte, Cell, TypeOK
  <2>5. <<>> \in Image
    BY DEF Image
  <2>6. TypeOK'
    BY <1>7, <2>1, <2>2, <2>3, <2>4, <2>5 DEF StoreByte, Goto, TypeOK, Label, JobType, board, history
  <2>7. ControlOK'
    BY <1>7, <2>1, <2>2, <2>3, <2>4, <2>5, PlacementAssumption DEF StoreByte, Goto, TypeOK, ControlOK, LabelsOK, NeedOK, LocalsOK, Applying, CellLabel, Proc
  <2> QED BY <2>6, <2>7
<1>8. CASE Applied(p)
  <2>1. Updated(p) \in (SUBSET Chunk) \ {{}}
    BY TouchedType DEF Updated, TypeOK, JobType
  <2>2. TypeOK'
    BY <1>8, <2>1 DEF Applied, Goto, TypeOK, Label, JobType, board, history
  <2>3. ControlOK'
    BY <1>8, <2>1, PlacementAssumption DEF Applied, Goto, TypeOK, ControlOK, LabelsOK, NeedOK, LocalsOK, Applying, CellLabel, Proc
  <2> QED BY <2>2, <2>3
<1>9. CASE LoadVersion(p)
  <2>1. version[Min(need[p])] \in Nat
    BY <1>9, NextLockType DEF LoadVersion, TypeOK, Proc
  <2>2. [job[p] EXCEPT !.loaded = version[Min(need[p])]] \in JobType
    BY <2>1 DEF TypeOK, JobType
  <2>3. TypeOK'
    BY <1>9, <2>1, <2>2 DEF LoadVersion, Goto, TypeOK, Label, JobType, board, history
  <2>4. ControlOK'
    BY <1>9, <2>1, <2>2, PlacementAssumption DEF LoadVersion, Goto, TypeOK, ControlOK, LabelsOK, NeedOK, LocalsOK, Applying, CellLabel, Proc
  <2> QED BY <2>3, <2>4
<1>10. CASE StoreVersion(p)
  <2>1. job[p].loaded + 1 \in Nat
    BY DEF TypeOK, JobType
  <2>2. TypeOK'
    BY <1>10, <2>1 DEF StoreVersion, Goto, TypeOK, Label, JobType, board, history
  <2>3. ControlOK'
    BY <1>10, <2>1, PlacementAssumption DEF StoreVersion, Goto, TypeOK, ControlOK, LabelsOK, NeedOK, LocalsOK, Applying, CellLabel, Proc
  <2> QED BY <2>2, <2>3
<1> QED BY <1>1, <1>2, <1>3, <1>4, <1>5, <1>6, <1>7, <1>8, <1>9, <1>10

(* Requests, and what time does.                                            *)
LEMMA RequestType ==
  ASSUME TypeInv,
         \/ \E p \in Placers, q \in Targets : BeginPlace(p, q)
         \/ \E p \in Placers : CooldownPasses(p)
         \/ \E r \in Readers, goal \in ReadGoals : BeginRead(r, goal)
         \/ \E r \in Readers : DoneReading(r)
  PROVE  TypeInv'
<1> USE DEF TypeInv
<1>1. ASSUME NEW p \in Placers, NEW q \in Targets, BeginPlace(p, q)
      PROVE  TypeInv'
  <2>1. q \in Coord /\ ReadBox(q, ReadRadius) \in (SUBSET Chunk) \ {{}}
    BY <1>1, PlacementAssumption, GeometryAssumption, ReadBoxType, ReadBoxHolds DEF ReadRadius
  <2>2. [NoJob EXCEPT !.at = q] \in JobType
    BY <2>1, JobTypes DEF JobType
  <2>3. TypeOK'
    BY <1>1, <2>1, <2>2 DEF BeginPlace, Goto, TypeOK, Label, board
  <2>4. ControlOK'
    BY <1>1, <2>1, PlacementAssumption
    DEF BeginPlace, Goto, TypeOK, ControlOK, LabelsOK, NeedOK, LocalsOK, Applying, CellLabel, Proc
  <2> QED BY <2>3, <2>4
<1>2. ASSUME NEW p \in Placers, CooldownPasses(p)
      PROVE  TypeInv'
  <2>1. TypeOK'
    BY <1>2 DEF CooldownPasses, TypeOK, board, history
  <2>2. ControlOK'
    BY <1>2 DEF CooldownPasses, ControlOK, LabelsOK, NeedOK, LocalsOK, Applying
  <2> QED BY <2>1, <2>2
<1>3. ASSUME NEW r \in Readers, NEW goal \in ReadGoals, BeginRead(r, goal)
      PROVE  TypeInv'
  <2>1. goal \in (SUBSET Chunk) \ {{}}
    BY PlacementAssumption
  <2>2. TypeOK'
    BY <1>3, <2>1 DEF BeginRead, Goto, TypeOK, Label, board, history
  <2>3. ControlOK'
    BY <1>3, <2>1, PlacementAssumption
    DEF BeginRead, Goto, TypeOK, ControlOK, LabelsOK, NeedOK, LocalsOK, Applying, CellLabel, Proc
  <2> QED BY <2>2, <2>3
<1>4. ASSUME NEW r \in Readers, DoneReading(r)
      PROVE  TypeInv'
  <2>1. TypeOK'
    BY <1>4 DEF DoneReading, Goto, TypeOK, Label, board, history
  <2>2. ControlOK'
    BY <1>4, PlacementAssumption
    DEF DoneReading, Goto, TypeOK, ControlOK, LabelsOK, NeedOK, LocalsOK, Applying, CellLabel, Proc
  <2> QED BY <2>1, <2>2
<1> QED BY <1>1, <1>2, <1>3, <1>4

(* No step of any goroutine gives a variable a value of another type.       *)
LEMMA NextType ==
  ASSUME TypeInv, [Next]_vars
  PROVE  TypeInv'
<1>1. ASSUME NEW p \in Placers, PlaceStep(p) PROVE TypeInv'
  <2>1. p \in Proc
    BY DEF Proc
  <2> QED BY <1>1, <2>1, LockStepType, ScanType, RayStepType, WriteLockType, ApplyType DEF PlaceStep
<1>2. ASSUME NEW r \in Readers, ReadStep(r) PROVE TypeInv'
  <2>1. r \in Proc
    BY DEF Proc
  <2> QED BY <1>2, <2>1, LockStepType, RequestType DEF ReadStep
<1>3. CASE UNCHANGED vars
  BY <1>3 DEF vars, TypeInv, TypeOK, ControlOK, LabelsOK, NeedOK, LocalsOK, Applying
<1> QED BY <1>1, <1>2, <1>3, RequestType DEF Next

(* Every variable keeps its type, and the locals of a call are set where    *)
(* the code uses them.                                                      *)
THEOREM TypeCorrect == Spec => []TypeInv
BY InitType, NextType, PTL DEF Spec

(* Every variable keeps its type; no counter leaves 0 .. CountModulus - 1.  *)
THEOREM TypeOKCorrect == Spec => []TypeOK
<1>1. TypeInv => TypeOK
  BY DEF TypeInv
<1> QED BY <1>1, TypeCorrect, PTL

-----------------------------------------------------------------------------
(* The locking discipline: locks are taken in one order, so no set of       *)
(* goroutines waits for each other in a circle.                             *)

ReadLabel  == {"rlock", "probe", "scan", "occ", "reading", "runlock"}
WriteLabel == {"lock", "recheck", "reprobe", "rescan", "decide", "prev", "unlock",
               "bumpload", "bumpstore"} \cup CellLabel

\* c is the chunk p is locking, or one it locked before
Reached(p, c) == c = Min(need[p]) \/ \A d \in need[p] : c < d

(* Whoever is in a lock is at a place in the code that says so, and what it *)
(* holds is what it has been asked for so far.                              *)
ReadersOK ==
  \A c \in Chunk : \A p \in locks[c].readers :
    pc[p] \in ReadLabel /\ (pc[p] = "rlock" => Reached(p, c))

WaitingOK ==
  \A c \in Chunk : \A p \in locks[c].waiting :
    pc[p] = "rlock" /\ c = Min(need[p]) /\ p \notin locks[c].readers

WritersOK ==
  \A c \in Chunk : \A p \in Proc :
    locks[c].writer = p => pc[p] \in WriteLabel /\ (pc[p] = "lock" => Reached(p, c))

(* A writer shares its chunk with readers only while it waits for them.     *)
AloneOK ==
  \A c \in Chunk : \A p \in Proc :
    locks[c].writer = p =>
      \/ locks[c].readers = {}
      \/ pc[p] = "lock" /\ c = Min(need[p])

LockInv == TypeInv /\ ReadersOK /\ WaitingOK /\ WritersOK /\ AloneOK

(* At the start nobody holds a lock.                                        *)
LEMMA LockInit == Init => LockInv
<1> SUFFICES ASSUME Init PROVE LockInv
  OBVIOUS
<1>1. \A c \in Chunk : locks[c] = Unlocked
  BY DEF Init
<1>2. ReadersOK /\ WaitingOK
  BY <1>1 DEF ReadersOK, WaitingOK, Unlocked
<1>3. WritersOK /\ AloneOK
  BY <1>1, PlacementAssumption DEF WritersOK, AloneOK, Unlocked
<1> QED BY <1>2, <1>3, InitType DEF LockInv

(* A goroutine that has no lock may go anywhere and need anything.          *)
LEMMA FreeStep ==
  ASSUME LockInv, TypeInv', NEW p \in Proc, locks' = locks,
         \A q \in Proc \ {p} : pc'[q] = pc[q] /\ need'[q] = need[q],
         \A c \in Chunk : /\ p \notin locks[c].readers \cup locks[c].waiting
                          /\ locks[c].writer # p
  PROVE  LockInv'
<1>1. \A c \in Chunk : locks[c].readers \subseteq Proc /\ locks[c].waiting \subseteq Proc
  BY DEF LockInv, TypeInv, TypeOK, LockType
<1>2. \A q \in Proc \ {p}, c \in Chunk : Reached(q, c)' <=> Reached(q, c)
  BY DEF Reached
<1>3. ReadersOK'
  BY <1>1, <1>2 DEF LockInv, ReadersOK
<1>4. WaitingOK'
  BY <1>1 DEF LockInv, WaitingOK
<1>5. WritersOK'
  BY <1>2 DEF LockInv, WritersOK
<1>6. AloneOK'
  BY DEF LockInv, AloneOK
<1> QED BY <1>3, <1>4, <1>5, <1>6 DEF LockInv

(* A goroutine that is neither taking read locks nor write locks may move   *)
(* on as long as it stays on the reading or on the writing side.            *)
LEMMA InnerStep ==
  ASSUME LockInv, TypeInv', NEW p \in Proc, locks' = locks,
         \A q \in Proc \ {p} : pc'[q] = pc[q] /\ need'[q] = need[q],
         \/ pc[p] \in ReadLabel \ {"rlock"} /\ pc'[p] \in ReadLabel \ {"rlock"}
         \/ pc[p] \in WriteLabel \ {"lock"} /\ pc'[p] \in WriteLabel \ {"lock"}
  PROVE  LockInv'
<1>1. \A c \in Chunk : locks[c].readers \subseteq Proc /\ locks[c].waiting \subseteq Proc
  BY DEF LockInv, TypeInv, TypeOK, LockType
<1>2. \A q \in Proc \ {p}, c \in Chunk : Reached(q, c)' <=> Reached(q, c)
  BY DEF Reached
<1>3. /\ pc[p] \in ReadLabel => pc[p] \notin WriteLabel /\ pc'[p] \in ReadLabel \ {"rlock"}
      /\ pc[p] \in WriteLabel => pc[p] \notin ReadLabel /\ pc'[p] \in WriteLabel \ {"lock"}
      /\ pc[p] \notin {"rlock", "lock"}
  BY DEF ReadLabel, WriteLabel, CellLabel
<1>4. ReadersOK'
  BY <1>1, <1>2, <1>3 DEF LockInv, ReadersOK
<1>5. WaitingOK'
  BY <1>1, <1>3 DEF LockInv, WaitingOK
<1>6. WritersOK'
  BY <1>2, <1>3 DEF LockInv, WritersOK
<1>7. AloneOK'
  BY <1>3 DEF LockInv, AloneOK
<1> QED BY <1>4, <1>5, <1>6, <1>7 DEF LockInv

(* Having locked the chunk it was locking, a goroutine goes on to the next  *)
(* one it needs or, when there is none, to what the locks are for.          *)
LEMMA NextLockStep ==
  ASSUME LockInv, TypeInv', NEW p \in Proc, locks' = locks,
         \A q \in Proc \ {p} : pc'[q] = pc[q] /\ need'[q] = need[q],
         need'[p] = need[p] \ {Min(need[p])},
         \/ /\ pc[p] = "rlock" /\ pc'[p] \in ReadLabel
            /\ p \in locks[Min(need[p])].readers
         \/ /\ pc[p] = "lock" /\ pc'[p] \in WriteLabel
            /\ locks[Min(need[p])].writer = p /\ locks[Min(need[p])].readers = {}
  PROVE  LockInv'
<1>1. \A c \in Chunk : locks[c].readers \subseteq Proc /\ locks[c].waiting \subseteq Proc
  BY DEF LockInv, TypeInv, TypeOK, LockType
<1>2. \A q \in Proc \ {p}, c \in Chunk : Reached(q, c)' <=> Reached(q, c)
  BY DEF Reached
<1>3. \A c \in Chunk : Reached(p, c) => Reached(p, c)'
  <2>1. need[p] \in SUBSET Chunk /\ need[p] # {} /\ \A d \in need[p] : Min(need[p]) <= d
    BY MinExists DEF LockInv, TypeInv, TypeOK, ControlOK, NeedOK
  <2>2. Chunk \subseteq Int
    BY DEF Chunk
  <2>3. ASSUME NEW c \in Chunk, Reached(p, c), NEW d \in need[p], d # Min(need[p])
        PROVE  c < d
    <3>1. CASE c = Min(need[p])
      <4>1. c <= d
        BY <2>1, <3>1
      <4>2. c \in Int /\ d \in Int
        BY <2>1, <2>2
      <4> QED BY <4>1, <4>2, <2>3, <3>1
    <3>2. CASE \A e \in need[p] : c < e
      BY <3>2
    <3> QED BY <2>3, <3>1, <3>2 DEF Reached
  <2> QED BY <2>3 DEF Reached
<1>4. /\ pc[p] \in ReadLabel => pc'[p] \notin WriteLabel /\ pc'[p] \in ReadLabel
      /\ pc[p] \in WriteLabel => pc'[p] \notin ReadLabel /\ pc'[p] \in WriteLabel
  BY DEF ReadLabel, WriteLabel, CellLabel
<1>5. ReadersOK'
  BY <1>1, <1>2, <1>3, <1>4 DEF LockInv, ReadersOK, ReadLabel
<1>6. WaitingOK'
  BY <1>1 DEF LockInv, WaitingOK
<1>7. WritersOK'
  BY <1>2, <1>3, <1>4 DEF LockInv, WritersOK, WriteLabel
<1>8. AloneOK'
  BY <1>4 DEF LockInv, AloneOK, WritersOK, ReadLabel, WriteLabel
<1> QED BY <1>5, <1>6, <1>7, <1>8 DEF LockInv

(* Asking for the read lock of the next chunk: it is granted, or the        *)
(* goroutine queues behind the writer.                                      *)
LEMMA AwaitRLockStep ==
  ASSUME LockInv, TypeInv', NEW p \in Proc, AwaitRLock(p)
  PROVE  LockInv'
<1> DEFINE c == Min(need[p])
<1>1. /\ pc[p] = "rlock" /\ c \in Chunk /\ NextReadLock(p) = c
      /\ pc' = pc /\ need' = need
  BY NextLockType DEF AwaitRLock, LockInv
<1>2. locks \in [Chunk -> LockType]
  BY DEF LockInv, TypeInv, TypeOK
<1>3. /\ p \notin locks[c].readers \cup locks[c].waiting
      /\ \/ /\ locks[c].writer = NoWriter
            /\ locks' = [locks EXCEPT ![c].readers = @ \cup {p}]
         \/ /\ locks[c].writer # NoWriter
            /\ locks' = [locks EXCEPT ![c].waiting = @ \cup {p}]
  BY <1>1 DEF AwaitRLock, RLockRequest
<1>4. \A d \in Chunk :
        /\ locks'[d].writer = locks[d].writer
        /\ locks'[d].readers = locks[d].readers
           \/ (d = c /\ locks[c].writer = NoWriter /\ locks'[d].readers = locks[d].readers \cup {p})
        /\ locks'[d].waiting = locks[d].waiting
           \/ (/\ d = c /\ locks'[d].waiting = locks[d].waiting \cup {p}
               /\ locks'[d].readers = locks[d].readers)
  BY <1>1, <1>2, <1>3 DEF LockType
<1>5. \A q \in Proc, d \in Chunk : Reached(q, d)' <=> Reached(q, d)
  BY <1>1 DEF Reached
<1>6. ReadersOK'
  <2>1. Reached(p, c)
    BY DEF Reached
  <2>2. pc[p] \in ReadLabel
    BY <1>1 DEF ReadLabel
  <2>3. \A d \in Chunk : locks[d].readers \subseteq Proc
    BY <1>2 DEF LockType
  <2> QED BY <1>1, <1>4, <1>5, <2>1, <2>2, <2>3 DEF LockInv, ReadersOK
<1>7. WaitingOK'
  BY <1>1, <1>3, <1>4 DEF LockInv, WaitingOK
<1>8. WritersOK'
  BY <1>1, <1>4, <1>5 DEF LockInv, WritersOK
<1>9. AloneOK'
  BY <1>1, <1>4, PlacementAssumption DEF LockInv, AloneOK
<1> QED BY <1>6, <1>7, <1>8, <1>9 DEF LockInv

(* Becoming the writer of the next chunk, readers in it or not.             *)
LEMMA AwaitLockStep ==
  ASSUME LockInv, TypeInv', NEW p \in Proc, AwaitLock(p)
  PROVE  LockInv'
<1> DEFINE c == Min(need[p])
<1>1. /\ pc[p] = "lock" /\ c \in Chunk /\ NextWriteLock(p) = c
      /\ pc' = pc /\ need' = need
  BY NextLockType DEF AwaitLock, LockInv
<1>2. locks \in [Chunk -> LockType]
  BY DEF LockInv, TypeInv, TypeOK
<1>3. locks[c].writer = NoWriter /\ locks' = [locks EXCEPT ![c].writer = p]
  BY <1>1 DEF AwaitLock, LockRequest
<1>4. \A d \in Chunk :
        /\ locks'[d].readers = locks[d].readers
        /\ locks'[d].waiting = locks[d].waiting
        /\ locks'[d].writer = locks[d].writer \/ (d = c /\ locks'[d].writer = p)
  BY <1>1, <1>2, <1>3 DEF LockType
<1>5. \A q \in Proc, d \in Chunk : Reached(q, d)' <=> Reached(q, d)
  BY <1>1 DEF Reached
<1>6. ReadersOK'
  <2>1. \A d \in Chunk : locks[d].readers \subseteq Proc
    BY <1>2 DEF LockType
  <2> QED BY <1>1, <1>4, <1>5, <2>1 DEF LockInv, ReadersOK
<1>7. WaitingOK'
  BY <1>1, <1>4 DEF LockInv, WaitingOK
<1>8. WritersOK'
  <2>1. Reached(p, c)
    BY DEF Reached
  <2>2. pc[p] \in WriteLabel
    BY <1>1 DEF WriteLabel
  <2> QED BY <1>1, <1>4, <1>5, <2>1, <2>2 DEF LockInv, WritersOK
<1>9. AloneOK'
  BY <1>1, <1>4 DEF LockInv, AloneOK
<1> QED BY <1>6, <1>7, <1>8, <1>9 DEF LockInv

(* Releasing one read lock.                                                 *)
LEMMA RUnlockStep ==
  ASSUME LockInv, TypeInv', NEW p \in Proc, RUnlockOne(p)
  PROVE  LockInv'
<1>1. locks \in [Chunk -> LockType] /\ pc' = pc /\ need' = need
  BY DEF LockInv, TypeInv, TypeOK, RUnlockOne
<1>2. \A d \in Chunk :
        /\ locks'[d].readers \subseteq locks[d].readers
        /\ locks'[d].waiting = locks[d].waiting
        /\ locks'[d].writer = locks[d].writer
  BY <1>1 DEF LockType, RUnlockOne, RUnlock
<1>3. \A q \in Proc, d \in Chunk : Reached(q, d)' <=> Reached(q, d)
  BY <1>1 DEF Reached
<1>4. ReadersOK'
  <2>1. \A d \in Chunk : locks[d].readers \subseteq Proc
    BY <1>1 DEF LockType
  <2> QED BY <1>1, <1>2, <1>3, <2>1 DEF LockInv, ReadersOK
<1>5. WaitingOK'
  BY <1>1, <1>2 DEF LockInv, WaitingOK
<1>6. WritersOK'
  BY <1>1, <1>2, <1>3 DEF LockInv, WritersOK
<1>7. AloneOK'
  BY <1>1, <1>2 DEF LockInv, AloneOK
<1> QED BY <1>4, <1>5, <1>6, <1>7 DEF LockInv

(* Releasing one write lock lets the readers in that queued behind it.      *)
LEMMA UnlockStep ==
  ASSUME LockInv, TypeInv', NEW p \in Proc, UnlockOne(p)
  PROVE  LockInv'
<1> DEFINE m == Max(WriteHeld(p))
<1>1. locks \in [Chunk -> LockType] /\ pc' = pc /\ need' = need
  BY DEF LockInv, TypeInv, TypeOK, UnlockOne
<1>2. \A d \in Chunk :
        \/ locks'[d] = locks[d]
        \/ /\ locks'[d].readers = locks[d].waiting
           /\ locks'[d].writer = NoWriter
           /\ locks'[d].waiting = {}
  BY <1>1 DEF UnlockOne, Unlock
<1>3. \A q \in Proc, d \in Chunk : Reached(q, d)' <=> Reached(q, d)
  BY <1>1 DEF Reached
<1>4. ReadersOK'
  <2>1. \A d \in Chunk : locks[d].readers \subseteq Proc /\ locks[d].waiting \subseteq Proc
    BY <1>1 DEF LockType
  <2>2. \A d \in Chunk : \A q \in locks[d].waiting : pc[q] \in ReadLabel /\ Reached(q, d)
    BY DEF LockInv, WaitingOK, ReadLabel, Reached
  <2> QED BY <1>1, <1>2, <1>3, <2>1, <2>2 DEF LockInv, ReadersOK
<1>5. WaitingOK'
  BY <1>1, <1>2 DEF LockInv, WaitingOK
<1>6. WritersOK'
  BY <1>1, <1>2, <1>3, PlacementAssumption DEF LockInv, WritersOK
<1>7. AloneOK'
  BY <1>1, <1>2, PlacementAssumption DEF LockInv, AloneOK
<1> QED BY <1>4, <1>5, <1>6, <1>7 DEF LockInv

-----------------------------------------------------------------------------
(* Every step of a connection or a reader keeps the locks in order.         *)

(* Requests, and the ends of the two lock phases: nothing is held.          *)
LEMMA HoldsNothing ==
  ASSUME LockInv, NEW p \in Proc,
         \/ pc[p] = "idle"
         \/ pc[p] = "runlock" /\ ReadHeld(p) = {}
         \/ pc[p] = "unlock" /\ WriteHeld(p) = {}
  PROVE  \A c \in Chunk : /\ p \notin locks[c].readers \cup locks[c].waiting
                          /\ locks[c].writer # p
<1> SUFFICES ASSUME NEW c \in Chunk
             PROVE  /\ p \notin locks[c].readers \cup locks[c].waiting
                    /\ locks[c].writer # p
  OBVIOUS
<1>1. p \notin locks[c].readers
  BY DEF LockInv, ReadersOK, ReadLabel, ReadHeld
<1>2. p \notin locks[c].waiting
  BY DEF LockInv, WaitingOK
<1>3. locks[c].writer # p
  BY DEF LockInv, WritersOK, AloneOK, WriteLabel, CellLabel, WriteHeld
<1> QED BY <1>1, <1>2, <1>3

(* No step of any goroutine breaks the discipline of the locks.             *)
LEMMA LockNext ==
  ASSUME LockInv, [Next]_vars
  PROVE  LockInv'
<1> TypeInv /\ TypeInv'
  BY NextType DEF LockInv
<1> Placers \subseteq Proc /\ Readers \subseteq Proc
  BY DEF Proc
<1> pc \in [Proc -> Label] /\ need \in [Proc -> SUBSET Chunk]
  BY DEF TypeInv, TypeOK
(* Steps that leave pc, need and the locks alone. *)
<1>1. ASSUME UNCHANGED <<locks, pc, need>>
      PROVE  LockInv'
  BY <1>1 DEF LockInv, ReadersOK, WaitingOK, WritersOK, AloneOK, Reached
<1>2. ASSUME NEW p \in Placers, NEW q \in Targets, BeginPlace(p, q)
      PROVE  LockInv'
  BY <1>2, HoldsNothing, FreeStep DEF BeginPlace, Goto
<1>3. ASSUME NEW r \in Readers, NEW goal \in ReadGoals, BeginRead(r, goal)
      PROVE  LockInv'
  BY <1>3, HoldsNothing, FreeStep DEF BeginRead, Goto
<1>4. ASSUME NEW p \in Proc, LockStep(p)
      PROVE  LockInv'
  <2>1. CASE AwaitRLock(p)
    BY <2>1, AwaitRLockStep
  <2>2. CASE RLocked(p)
    <3>1. /\ NextReadLock(p) = Min(need[p]) /\ pc[p] = "rlock"
          /\ p \in locks[Min(need[p])].readers
      BY <2>2, NextLockType DEF RLocked, ReadHeld
    <3>2. pc'[p] \in ReadLabel /\ \A q \in Proc \ {p} : pc'[q] = pc[q]
      BY <2>2 DEF RLocked, Goto, ReadLabel
    <3>3. /\ need'[p] = need[p] \ {Min(need[p])}
          /\ \A q \in Proc \ {p} : need'[q] = need[q]
          /\ locks' = locks
      BY <2>2, <3>1 DEF RLocked
    <3> QED BY <3>1, <3>2, <3>3, NextLockStep
  <2>3. CASE RUnlockOne(p)
    BY <2>3, RUnlockStep
  <2>4. CASE ReadReturns(p)
    BY <2>4, HoldsNothing, FreeStep DEF ReadReturns, Goto
  <2> QED BY <1>4, <2>1, <2>2, <2>3, <2>4 DEF LockStep
<1>5. ASSUME NEW p \in Placers,
             \/ ReadSucceeds(p) \/ WriteReturns(p)
      PROVE  LockInv'
  <2>1. CASE ReadSucceeds(p)
    BY <2>1, HoldsNothing, FreeStep DEF ReadSucceeds, AllReleased, Goto
  <2>2. CASE WriteReturns(p)
    BY <2>2, HoldsNothing, FreeStep DEF WriteReturns, Goto
  <2> QED BY <1>5, <2>1, <2>2
<1>6. ASSUME NEW p \in Placers, Locked(p)
      PROVE  LockInv'
  <2>1. /\ NextWriteLock(p) = Min(need[p]) /\ pc[p] = "lock"
        /\ locks[Min(need[p])].writer = p /\ locks[Min(need[p])].readers = {}
    BY <1>6, NextLockType DEF Locked, Alone, WriteHeld
  <2>2. pc'[p] \in WriteLabel /\ \A q \in Proc \ {p} : pc'[q] = pc[q]
    BY <1>6 DEF Locked, Goto, WriteLabel
  <2>3. /\ need'[p] = need[p] \ {Min(need[p])}
        /\ \A q \in Proc \ {p} : need'[q] = need[q]
        /\ locks' = locks
    BY <1>6, <2>1 DEF Locked
  <2> QED BY <2>1, <2>2, <2>3, NextLockStep
<1>7. ASSUME NEW p \in Placers,
             \/ RayLeavesBoard(p) \/ RayMeetsEmpty(p) \/ RayMeetsOpponent(p) \/ RayMeetsTeam(p)
             \/ CooldownPasses(p)
      PROVE  LockInv'
  BY <1>1, <1>7 DEF RayLeavesBoard, RayMeetsEmpty, RayMeetsOpponent, RayMeetsTeam, CooldownPasses
<1>8. ASSUME NEW p \in Placers, Probe(p) \/ ScanEnds(p) \/ ReadOccupied(p)
      PROVE  LockInv'
  <2>1. \/ pc[p] \in ReadLabel \ {"rlock"} /\ pc'[p] \in ReadLabel \ {"rlock"}
        \/ pc[p] \in WriteLabel \ {"lock"} /\ pc'[p] \in WriteLabel \ {"lock"}
    BY <1>8 DEF Probe, ScanEnds, ReadOccupied, Goto, ScanLabel, ExitLabel, ReadLabel, WriteLabel
  <2>2. locks' = locks /\ \A q \in Proc \ {p} : pc'[q] = pc[q] /\ need'[q] = need[q]
    BY <1>8 DEF Probe, ScanEnds, ReadOccupied, Goto
  <2> QED BY <2>1, <2>2, InnerStep
<1>9. ASSUME NEW p \in Placers,
             \/ Recheck(p) \/ NoFlips(p) \/ Commit(p) \/ ReadPrev(p) \/ LoadCount(p)
             \/ StoreCount(p) \/ LoadByte(p) \/ StoreByte(p) \/ Applied(p)
             \/ LoadVersion(p) \/ StoreVersion(p)
      PROVE  LockInv'
  <2>1. CASE \/ Recheck(p) \/ NoFlips(p) \/ Commit(p) \/ ReadPrev(p)
    BY <2>1, InnerStep
    DEF Recheck, AfterRecheck, NoFlips, Commit, ReadPrev, AfterPrev, Goto, WriteLabel, CellLabel
  <2>2. CASE \/ LoadCount(p) \/ StoreCount(p) \/ LoadByte(p) \/ StoreByte(p)
    BY <2>2, InnerStep
    DEF LoadCount, StoreCount, LoadByte, StoreByte, Goto, WriteLabel, CellLabel
  <2>3. CASE Applied(p) \/ LoadVersion(p) \/ StoreVersion(p)
    BY <2>3, InnerStep DEF Applied, LoadVersion, StoreVersion, Goto, WriteLabel, CellLabel
  <2> QED BY <1>9, <2>1, <2>2, <2>3
<1>10. ASSUME NEW p \in Placers, AwaitLock(p) \/ UnlockOne(p)
       PROVE  LockInv'
  BY <1>10, AwaitLockStep, UnlockStep
<1>11. ASSUME NEW r \in Readers, DoneReading(r)
       PROVE  LockInv'
  BY <1>11, InnerStep DEF DoneReading, Goto, ReadLabel
<1>12. ASSUME NEW p \in Placers, PlaceStep(p)
       PROVE  LockInv'
  BY <1>12, <1>4, <1>5, <1>6, <1>7, <1>8, <1>9, <1>10 DEF PlaceStep
<1>13. ASSUME NEW r \in Readers, ReadStep(r)
       PROVE  LockInv'
  BY <1>13, <1>4, <1>11 DEF ReadStep
<1>14. CASE UNCHANGED vars
  BY <1>14, <1>1 DEF vars
<1> QED BY <1>2, <1>3, <1>7, <1>12, <1>13, <1>14 DEF Next

(* Whoever is in a lock got there in ascending order of the chunk ids, and  *)
(* has a place in the code that says so.                                    *)
THEOREM LocksInOrder == Spec => []LockInv
BY LockInit, LockNext, PTL DEF Spec

-----------------------------------------------------------------------------
(* What the invariant gives *)

(* A goroutine holds only chunks before the one it is locking.              *)
LEMMA OrderFromInv == LockInv => LockOrder
<1> SUFFICES ASSUME LockInv, NEW p \in Proc, NEW c \in Wanted(p), NEW d \in Held(p) \ {c}
             PROVE  d < c
  BY DEF LockOrder
<1>1. /\ pc[p] \in {"rlock", "lock"} /\ c = Min(need[p])
      /\ c \in need[p]
  BY NextLockType DEF Wanted, NextReadLock, NextWriteLock, LockInv
<1>2. d \in Chunk /\ (p \in locks[d].readers \/ locks[d].writer = p)
  BY DEF Held, ReadHeld, WriteHeld
<1>3. Reached(p, d)
  BY <1>1, <1>2 DEF LockInv, ReadersOK, WritersOK, ReadLabel, WriteLabel, CellLabel
<1> QED BY <1>1, <1>3 DEF Reached

(* Whoever has a chunk and waits, waits for a chunk after it.               *)
LEMMA WaitsAbove ==
  ASSUME LockInv, NEW q \in Proc, NEW r \in Proc, NEW m \in Held(q), NEW c,
         BlockedAt(q, r, c)
  PROVE  m < c
BY OrderFromInv DEF BlockedAt, LockOrder

(* In a circle of waiting goroutines, look at the last chunk one of them    *)
(* waits for: the goroutine in its way has it, or waits for one that has    *)
(* it, and so waits for a later chunk.                                      *)
LEMMA NoCycleFromInv == LockInv => NoLockCycle
<1> SUFFICES ASSUME LockInv, NEW S \in (SUBSET Proc) \ {{}},
                    \A p \in S : \E q \in S, c \in Chunk : BlockedAt(p, q, c)
             PROVE  FALSE
  BY DEF NoLockCycle
<1> DEFINE B == {c \in Chunk : \E p \in S, q \in S : BlockedAt(p, q, c)}
           m == Max(B)
<1>1. B \in SUBSET Chunk /\ B # {}
  OBVIOUS
<1>2. m \in B /\ \A c \in B : c <= m
  BY <1>1, MaxExists
<1>3. PICK p \in S, q \in S : BlockedAt(p, q, m)
  BY <1>2
<1>4. m \in Chunk /\ Chunk \subseteq Int
  BY <1>1, <1>2 DEF Chunk
<1>5. ASSUME NEW r \in S, m \in Held(r)
      PROVE  FALSE
  <2>1. PICK s \in S, c \in Chunk : BlockedAt(r, s, c)
    OBVIOUS
  <2>2. m < c
    BY <1>5, <2>1, WaitsAbove
  <2>3. c <= m
    BY <1>2, <2>1
  <2>4. c \in Int /\ m \in Int
    BY <1>4
  <2> HIDE DEF m
  <2> QED BY <2>2, <2>3, <2>4
<1>6. CASE q \in locks[m].readers \/ (q = locks[m].writer /\ locks[m].readers = {})
  BY <1>4, <1>5, <1>6 DEF Held, ReadHeld, WriteHeld
<1>7. CASE q = locks[m].writer /\ locks[m].readers # {}
  <2>1. pc[q] = "lock" /\ m = Min(need[q])
    BY <1>4, <1>7 DEF LockInv, AloneOK
  <2>2. PICK r \in S, c \in Chunk : BlockedAt(q, r, c)
    OBVIOUS
  <2>3. c = m
    BY <2>1, <2>2 DEF BlockedAt, Wanted, NextWriteLock
  <2>4. r \in locks[m].readers
    BY <1>7, <2>2, <2>3 DEF BlockedAt
  <2> QED BY <1>4, <1>5, <2>4 DEF Held, ReadHeld
<1> QED BY <1>3, <1>6, <1>7 DEF BlockedAt

(* Read locks and write locks are taken in ascending order of chunk ids.    *)
THEOREM LockOrderCorrect == Spec => []LockOrder
BY LocksInOrder, OrderFromInv, PTL

(* No goroutines ever wait for each other in a circle.                      *)
THEOREM NoLockCycleCorrect == Spec => []NoLockCycle
BY LocksInOrder, NoCycleFromInv, PTL

-----------------------------------------------------------------------------
(* The board *)

ScanLabel1   == {"probe", "scan", "occ"}
ScanLabel2   == {"recheck", "reprobe", "rescan", "decide"}
ApplyLabel   == {"prev"} \cup CellLabel
BumpLabel    == {"bumpload", "bumpstore"}
PlacingLabel == ApplyLabel \cup BumpLabel

-----------------------------------------------------------------------------
(* The inductive invariant *)

Box(p) == ReadBox(job[p].at, ReadRadius)

(* A call has the locks its place in the code is about.                     *)
Holds(p) ==
  /\ pc[p] = "rlock" => need[p] \subseteq Box(p) /\ Box(p) \ need[p] \subseteq ReadHeld(p)
  /\ pc[p] \in ScanLabel1 => Box(p) \subseteq ReadHeld(p)
  /\ pc[p] \in {"lock"} \cup ScanLabel2 \cup PlacingLabel => ChunkOf(job[p].at) \in job[p].touched
  /\ pc[p] = "lock" => /\ need[p] \subseteq job[p].touched
                       /\ job[p].touched \ need[p] \subseteq WriteHeld(p)
  /\ pc[p] \in ScanLabel2 \cup PlacingLabel => job[p].touched \subseteq WriteHeld(p)

HoldsOK == \A p \in Placers : Holds(p)

(* What a placement writes to is in the chunks it has locked.               *)
FootOK ==
  \A p \in Placers : pc[p] \in PlacingLabel =>
    /\ Footprint(p) \subseteq job[p].touched
    /\ pc[p] \in ApplyLabel => Range(job[p].todo) \subseteq Stones(p)
    /\ pc[p] \in BumpLabel => need[p] \subseteq Updated(p)

(* The board differs from the committed one only where a placement has     *)
(* still to write, and nobody changes a byte that another has loaded.      *)
CellsOf(p) ==
  /\ pc[p] \in PlacingLabel => \A q \in Stones(p) : committed[q] = TeamOf[p]
  /\ pc[p] \in CellLabel => job[p].prev = cells[Applying(p)] /\ job[p].prev # TeamOf[p]
  /\ pc[p] = "setstore" => \A q \in ByteOf(Applying(p)) : job[p].image[q] = cells[q]

Writing(p, q) == pc[p] \in ApplyLabel /\ q \in Range(job[p].todo)

CellsOK ==
  /\ \A p \in Placers : CellsOf(p)
  /\ \A q \in Coord : cells[q] = committed[q] \/ \E p \in Placers : Writing(p, q)

(* The version of a chunk is behind its placements by those that have not   *)
(* bumped it, of which there is at most one.                               *)
Owes(p, c) ==
  \/ pc[p] \in ApplyLabel /\ c \in Updated(p)
  \/ pc[p] \in BumpLabel /\ c \in need[p]

VersionOK ==
  /\ \A c \in Chunk :
       /\ (\A p \in Placers : ~Owes(p, c)) => version[c] = commits[c]
       /\ \A p \in Placers : Owes(p, c) => version[c] + 1 = commits[c]
  /\ \A p \in Placers : pc[p] = "bumpstore" => job[p].loaded = version[Min(need[p])]

(* The counters of a chunk are ahead of, or behind, its stones by what the  *)
(* placement that writes in it has counted and not yet stored.             *)
Counting(p, c) == pc[p] \in CellLabel /\ c = ChunkOf(Applying(p))

Lead(p, t) ==
  IF t = job[p].prev /\ pc[p] \in {"incload", "incstore", "setload", "setstore"} THEN -1
  ELSE IF t = TeamOf[p] /\ pc[p] \in {"setload", "setstore"} THEN 1 ELSE 0

CountsOf(c) ==
  \A t \in Team :
    /\ (\A p \in Placers : ~Counting(p, c)) => counts[c][t] = Tally(cells, c, t) % CountModulus
    /\ \A p \in Placers :
         Counting(p, c) => counts[c][t] = (Tally(cells, c, t) + Lead(p, t)) % CountModulus

CountOK ==
  /\ \A c \in Chunk : CountsOf(c)
  /\ \A p \in Placers :
       pc[p] \in {"decstore", "incstore"} =>
         job[p].loaded = counts[ChunkOf(Applying(p))][Counter(p)]

BoardInv ==
  /\ LockInv
  /\ HoldsOK
  /\ ~overwrote => FootOK /\ CellsOK /\ VersionOK /\ CountOK

-----------------------------------------------------------------------------
(* What one step changes *)

(* A step of goroutine p.                                                  *)
StepOf(p) ==
  \/ p \in Placers /\ ((\E q \in Targets : BeginPlace(p, q)) \/ CooldownPasses(p) \/ PlaceStep(p))
  \/ p \in Readers /\ ((\E goal \in ReadGoals : BeginRead(p, goal)) \/ ReadStep(p))

Waits(p)   == AwaitRLock(p) \/ AwaitLock(p) \/ CooldownPasses(p)
Returns(p) == RUnlockOne(p) \/ ReadReturns(p) \/ UnlockOne(p) \/ WriteReturns(p) \/ ReadSucceeds(p)
Scans(p)   == \/ Probe(p) \/ RayLeavesBoard(p) \/ RayMeetsEmpty(p) \/ RayMeetsOpponent(p)
              \/ RayMeetsTeam(p) \/ ScanEnds(p) \/ ReadOccupied(p)
Applies(p) == \/ NoFlips(p) \/ Commit(p) \/ ReadPrev(p) \/ LoadCount(p) \/ StoreCount(p)
              \/ LoadByte(p) \/ StoreByte(p) \/ Applied(p) \/ LoadVersion(p) \/ StoreVersion(p)

(* Every step is a step of one goroutine, of one of these kinds.            *)
LEMMA StepKinds ==
  /\ [Next]_vars => UNCHANGED vars \/ \E p \in Proc : StepOf(p)
  /\ \A p \in Proc : StepOf(p) =>
       \/ Waits(p) \/ RLocked(p) \/ Returns(p)
       \/ p \in Placers /\ \E q \in Targets : BeginPlace(p, q)
       \/ p \in Readers /\ ((\E goal \in ReadGoals : BeginRead(p, goal)) \/ DoneReading(p))
       \/ p \in Placers /\ (Scans(p) \/ Locked(p) \/ Recheck(p) \/ Applies(p))
<1>1. [Next]_vars => UNCHANGED vars \/ \E p \in Proc : StepOf(p)
  BY DEF Next, StepOf, Proc
<1>2. ASSUME NEW p \in Proc, StepOf(p)
      PROVE  \/ Waits(p) \/ RLocked(p) \/ Returns(p)
             \/ p \in Placers /\ \E q \in Targets : BeginPlace(p, q)
             \/ p \in Readers /\ ((\E goal \in ReadGoals : BeginRead(p, goal)) \/ DoneReading(p))
             \/ p \in Placers /\ (Scans(p) \/ Locked(p) \/ Recheck(p) \/ Applies(p))
  BY <1>2 DEF StepOf, PlaceStep, ReadStep, LockStep, Waits, Returns, Scans, Applies
<1> QED BY <1>1, <1>2

(* A step leaves the locals of the other goroutines alone.                  *)
LEMMA OthersStay ==
  ASSUME TypeInv, NEW p \in Proc, StepOf(p)
  PROVE  /\ \A q \in Proc \ {p} : pc'[q] = pc[q] /\ need'[q] = need[q]
         /\ \A q \in Placers \ {p} : job'[q] = job[q] /\ strayed'[q] = strayed[q]
<1> USE DEF history
<1>0. /\ pc \in [Proc -> Label] /\ need \in [Proc -> SUBSET Chunk]
      /\ job \in [Placers -> JobType] /\ strayed \in [Placers -> BOOLEAN]
      /\ Placers \subseteq Proc
  BY DEF TypeInv, TypeOK, Proc
<1> DEFINE Goal == /\ \A q \in Proc \ {p} : pc'[q] = pc[q] /\ need'[q] = need[q]
                   /\ \A q \in Placers \ {p} : job'[q] = job[q] /\ strayed'[q] = strayed[q]
<1>1. CASE Waits(p)
  BY <1>1 DEF Waits, AwaitRLock, AwaitLock, CooldownPasses
<1>2. CASE RLocked(p)
  BY <1>0, <1>2 DEF RLocked, Goto
<1>3. CASE Returns(p)
  BY <1>0, <1>3 DEF Returns, RUnlockOne, ReadReturns, UnlockOne, WriteReturns, ReadSucceeds, Goto
<1>4. ASSUME NEW q \in Targets, BeginPlace(p, q) PROVE Goal
  BY <1>0, <1>4 DEF BeginPlace, Goto
<1>5. ASSUME NEW goal \in ReadGoals, BeginRead(p, goal) PROVE Goal
  BY <1>0, <1>5 DEF BeginRead, Goto
<1>6. CASE DoneReading(p)
  BY <1>0, <1>6 DEF DoneReading, Goto
<1>7. CASE Scans(p)
  <2>1. CASE Probe(p)
    BY <1>0, <2>1 DEF Probe, Goto
  <2>2. CASE RayLeavesBoard(p)
    BY <1>0, <2>2 DEF RayLeavesBoard, Goto
  <2>3. CASE RayMeetsEmpty(p)
    BY <1>0, <2>3 DEF RayMeetsEmpty, Goto, Stray
  <2>4. CASE RayMeetsOpponent(p)
    BY <1>0, <2>4 DEF RayMeetsOpponent, Goto, Stray
  <2>5. CASE RayMeetsTeam(p)
    BY <1>0, <2>5 DEF RayMeetsTeam, Goto, Stray
  <2>6. CASE ScanEnds(p)
    BY <1>0, <2>6 DEF ScanEnds, Goto
  <2>7. CASE ReadOccupied(p)
    BY <1>0, <2>7 DEF ReadOccupied, Goto
  <2> QED BY <1>7, <2>1, <2>2, <2>3, <2>4, <2>5, <2>6, <2>7 DEF Scans
<1>8. CASE Locked(p)
  BY <1>0, <1>8 DEF Locked, Goto
<1>9. CASE Recheck(p)
  BY <1>0, <1>9 DEF Recheck, Goto
<1>10. CASE Applies(p)
  <2>1. CASE NoFlips(p)
    BY <1>0, <2>1 DEF NoFlips, Goto
  <2>2. CASE Commit(p)
    BY <1>0, <2>2 DEF Commit, Goto
  <2>3. CASE ReadPrev(p)
    BY <1>0, <2>3 DEF ReadPrev, Goto
  <2>4. CASE LoadCount(p)
    BY <1>0, <2>4 DEF LoadCount, Goto
  <2>5. CASE StoreCount(p)
    BY <1>0, <2>5 DEF StoreCount, Goto
  <2>6. CASE LoadByte(p)
    BY <1>0, <2>6 DEF LoadByte, Goto
  <2>7. CASE StoreByte(p)
    BY <1>0, <2>7 DEF StoreByte, Goto
  <2>8. CASE Applied(p)
    BY <1>0, <2>8 DEF Applied, Goto
  <2>9. CASE LoadVersion(p)
    BY <1>0, <2>9 DEF LoadVersion, Goto
  <2>10. CASE StoreVersion(p)
    BY <1>0, <2>10 DEF StoreVersion, Goto
  <2> QED BY <1>10, <2>1, <2>2, <2>3, <2>4, <2>5, <2>6, <2>7, <2>8, <2>9, <2>10 DEF Applies
<1> QED BY <1>1, <1>2, <1>3, <1>4, <1>5, <1>6, <1>7, <1>8, <1>9, <1>10, StepKinds

(* Which step changes which part of the board.                             *)
LEMMA BoardSteps ==
  ASSUME NEW p \in Proc, StepOf(p)
  PROVE  /\ cells' = cells \/ (p \in Placers /\ StoreByte(p))
         /\ counts' = counts \/ (p \in Placers /\ StoreCount(p))
         /\ version' = version \/ (p \in Placers /\ StoreVersion(p))
         /\ UNCHANGED <<committed, commits, overwrote>> \/ (p \in Placers /\ Commit(p))
         /\ overwrote => overwrote'
<1> USE DEF history, board
<1> DEFINE Goal == /\ cells' = cells \/ (p \in Placers /\ StoreByte(p))
                   /\ counts' = counts \/ (p \in Placers /\ StoreCount(p))
                   /\ version' = version \/ (p \in Placers /\ StoreVersion(p))
                   /\ UNCHANGED <<committed, commits, overwrote>> \/ (p \in Placers /\ Commit(p))
                   /\ overwrote => overwrote'
<1>1. CASE Waits(p)
  BY <1>1 DEF Waits, AwaitRLock, AwaitLock, CooldownPasses
<1>2. CASE RLocked(p)
  BY <1>2 DEF RLocked
<1>3. CASE Returns(p)
  BY <1>3 DEF Returns, RUnlockOne, ReadReturns, UnlockOne, WriteReturns, ReadSucceeds
<1>4. CASE \E q \in Targets : BeginPlace(p, q)
  BY <1>4 DEF BeginPlace
<1>5. CASE (\E goal \in ReadGoals : BeginRead(p, goal)) \/ DoneReading(p)
  BY <1>5 DEF BeginRead, DoneReading
<1>6. CASE Scans(p)
  <2>1. CASE Probe(p)
    BY <2>1 DEF Probe
  <2>2. CASE RayLeavesBoard(p)
    BY <2>2 DEF RayLeavesBoard
  <2>3. CASE RayMeetsEmpty(p)
    BY <2>3 DEF RayMeetsEmpty
  <2>4. CASE RayMeetsOpponent(p)
    BY <2>4 DEF RayMeetsOpponent
  <2>5. CASE RayMeetsTeam(p)
    BY <2>5 DEF RayMeetsTeam
  <2>6. CASE ScanEnds(p)
    BY <2>6 DEF ScanEnds
  <2>7. CASE ReadOccupied(p)
    BY <2>7 DEF ReadOccupied
  <2> QED BY <1>6, <2>1, <2>2, <2>3, <2>4, <2>5, <2>6, <2>7 DEF Scans
<1>7. CASE Locked(p) \/ Recheck(p)
  BY <1>7 DEF Locked, Recheck
<1>8. CASE p \in Placers /\ Applies(p)
  <2>1. CASE NoFlips(p)
    BY <1>8, <2>1 DEF NoFlips
  <2>2. CASE Commit(p)
    BY <1>8, <2>2 DEF Commit
  <2>3. CASE ReadPrev(p)
    BY <1>8, <2>3 DEF ReadPrev
  <2>4. CASE LoadCount(p)
    BY <1>8, <2>4 DEF LoadCount
  <2>5. CASE StoreCount(p)
    BY <1>8, <2>5 DEF StoreCount
  <2>6. CASE LoadByte(p)
    BY <1>8, <2>6 DEF LoadByte
  <2>7. CASE StoreByte(p)
    BY <1>8, <2>7 DEF StoreByte
  <2>8. CASE Applied(p)
    BY <1>8, <2>8 DEF Applied
  <2>9. CASE LoadVersion(p)
    BY <1>8, <2>9 DEF LoadVersion
  <2>10. CASE StoreVersion(p)
    BY <1>8, <2>10 DEF StoreVersion
  <2> QED BY <1>8, <2>1, <2>2, <2>3, <2>4, <2>5, <2>6, <2>7, <2>8, <2>9, <2>10 DEF Applies
<1> QED BY <1>1, <1>2, <1>3, <1>4, <1>5, <1>6, <1>7, <1>8, StepKinds

(* A step takes no lock from another goroutine, and its own only where it   *)
(* unlocks.                                                                *)
LEMMA LocksKept ==
  ASSUME LockInv, NEW p \in Proc, StepOf(p)
  PROVE  /\ \A q \in Proc \ {p} : ReadHeld(q) \subseteq ReadHeld(q)' /\ WriteHeld(q) \subseteq WriteHeld(q)'
         /\ \/ ReadHeld(p) \subseteq ReadHeld(p)' /\ WriteHeld(p) \subseteq WriteHeld(p)'
            \/ RUnlockOne(p) \/ UnlockOne(p)
<1>0. locks \in [Chunk -> LockType] /\ NoWriter \notin Proc
  BY PlacementAssumption DEF LockInv, TypeInv, TypeOK
<1>1. CASE locks' = locks
  BY <1>1 DEF ReadHeld, WriteHeld
<1>2. CASE AwaitRLock(p)
  <2>1. PICK c \in Chunk : c = NextReadLock(p) /\ RLockRequest(p, c)
    BY <1>2, NextLockType DEF AwaitRLock, LockInv
  <2>2. \A d \in Chunk :
          /\ locks'[d].writer = locks[d].writer
          /\ locks[d].readers \subseteq locks'[d].readers
          /\ locks[d].writer # NoWriter => locks'[d].readers = locks[d].readers
    BY <1>0, <2>1 DEF RLockRequest, LockType
  <2> QED BY <1>0, <2>2 DEF ReadHeld, WriteHeld
<1>3. CASE AwaitLock(p)
  <2>1. PICK c \in Chunk : c = NextWriteLock(p) /\ LockRequest(p, c)
    BY <1>3, NextLockType DEF AwaitLock, LockInv
  <2>2. \A d \in Chunk :
          /\ locks'[d].readers = locks[d].readers
          /\ locks[d].writer # NoWriter => locks'[d].writer = locks[d].writer
    BY <1>0, <2>1 DEF LockRequest, LockType
  <2> QED BY <1>0, <2>2 DEF ReadHeld, WriteHeld
<1>4. CASE RUnlockOne(p)
  <2>1. \A d \in Chunk :
          /\ locks'[d].writer = locks[d].writer
          /\ locks'[d].readers = locks[d].readers \/ locks'[d].readers = locks[d].readers \ {p}
    BY <1>0, <1>4 DEF RUnlockOne, RUnlock, LockType
  <2> QED BY <1>4, <2>1 DEF ReadHeld, WriteHeld
<1>5. CASE UnlockOne(p)
  <2>1. PICK c \in Chunk : c \in WriteHeld(p) /\ Unlock(p, c)
    <3>1. WriteHeld(p) \in SUBSET Chunk /\ WriteHeld(p) # {}
      BY <1>5 DEF UnlockOne, WriteHeld
    <3>2. Max(WriteHeld(p)) \in WriteHeld(p)
      BY <3>1, MaxExists
    <3> QED BY <1>5, <3>1, <3>2 DEF UnlockOne
  <2>2. \A d \in Chunk \ {c} : locks'[d] = locks[d]
    BY <1>0, <2>1 DEF Unlock
  <2>3. locks[c].writer = p /\ locks[c].readers = {}
    BY <2>1 DEF WriteHeld
  <2> QED BY <1>5, <2>2, <2>3 DEF ReadHeld, WriteHeld
<1>6. locks' = locks \/ AwaitRLock(p) \/ AwaitLock(p) \/ RUnlockOne(p) \/ UnlockOne(p)
  <2>1. CASE Waits(p) \/ RLocked(p) \/ Returns(p)
    BY <2>1 DEF Waits, RLocked, Returns, CooldownPasses, ReadReturns, WriteReturns, ReadSucceeds
  <2>2. CASE (\E q \in Targets : BeginPlace(p, q)) \/ (\E goal \in ReadGoals : BeginRead(p, goal)) \/ DoneReading(p)
    BY <2>2 DEF BeginPlace, BeginRead, DoneReading
  <2>3. CASE Scans(p) \/ Locked(p) \/ Recheck(p)
    BY <2>3 DEF Scans, Probe, RayLeavesBoard, RayMeetsEmpty, RayMeetsOpponent, RayMeetsTeam,
                ScanEnds, ReadOccupied, Locked, Recheck
  <2>4. CASE Applies(p)
    BY <2>4 DEF Applies, NoFlips, Commit, ReadPrev, LoadCount, StoreCount, LoadByte, StoreByte,
                Applied, LoadVersion, StoreVersion
  <2> QED BY <2>1, <2>2, <2>3, <2>4, StepKinds
<1> QED BY <1>1, <1>2, <1>3, <1>4, <1>5, <1>6

-----------------------------------------------------------------------------
(* The locks of a call                                                       *)

(* A cell of a ray, and the placed cell itself, is in a chunk of the box.   *)
LEMMA RayInBox ==
  ASSUME NEW p \in Placers, job[p].at \in Coord
  PROVE  /\ ChunkOf(job[p].at) \in Box(p)
         /\ \A i \in DOMAIN Directions, k \in 1 .. MaxFlipDistance :
              InBounds(Along(job[p].at, Directions[i], k))
                => ChunkOf(Along(job[p].at, Directions[i], k)) \in Box(p)
<1> DEFINE at == job[p].at
<1>1. MaxFlipDistance \in Nat \ {0} /\ ReadRadius = MaxFlipDistance
  BY GeometryAssumption DEF ReadRadius
<1>2. at[1] \in Int /\ at[2] \in Int
  BY DEF Coord, Axis
<1>3. ChunkOf(at) \in Box(p)
  BY <1>1, <1>2, ReadBoxReach DEF Box
<1>4. ASSUME NEW i \in DOMAIN Directions, NEW k \in 1 .. MaxFlipDistance,
             InBounds(Along(at, Directions[i], k))
      PROVE  ChunkOf(Along(at, Directions[i], k)) \in Box(p)
  <2> DEFINE d == Directions[i]
             q == Along(at, d, k)
  <2>1. d[1] \in {-1, 0, 1} /\ d[2] \in {-1, 0, 1}
    BY EightDirections DEF Directions
  <2>2. q = <<at[1] + k * d[1], at[2] + k * d[2]>>
    BY DEF Along
  <2>3. q \in Coord
    BY <1>4, <2>2 DEF InBounds, Coord
  <2> HIDE DEF d, q, at
  <2>4. \A e \in {-1, 0, 1} : k * e \in {-k, 0, k}
    BY <1>1
  <2>5. k * d[1] \in {-k, 0, k} /\ k * d[2] \in {-k, 0, k}
    BY <2>1, <2>4
  <2>6. /\ at[1] - MaxFlipDistance <= q[1] /\ q[1] <= at[1] + MaxFlipDistance
        /\ at[2] - MaxFlipDistance <= q[2] /\ q[2] <= at[2] + MaxFlipDistance
    BY <1>1, <1>2, <2>2, <2>5
  <2> QED BY <1>1, <2>3, <2>6, ReadBoxReach DEF Box, at, q, d
<1> QED BY <1>3, <1>4

(* A step of another goroutine takes none of the locks of a call.           *)
LEMMA HoldsOthers ==
  ASSUME LockInv, HoldsOK, NEW r \in Proc, StepOf(r), NEW p \in Placers \ {r}
  PROVE  Holds(p)'
<1>1. p \in Proc \ {r} /\ Holds(p)
  BY DEF HoldsOK, Proc
<1>2. /\ pc'[p] = pc[p] /\ need'[p] = need[p] /\ job'[p] = job[p]
      /\ ReadHeld(p) \subseteq ReadHeld(p)' /\ WriteHeld(p) \subseteq WriteHeld(p)'
  BY <1>1, OthersStay, LocksKept DEF LockInv
<1>3. Box(p)' = Box(p)
  BY <1>2 DEF Box
<1> QED BY <1>1, <1>2, <1>3 DEF Holds

(* At work a call keeps to the locked side of the code it is on, and to the *)
(* cell and the chunks it was called and locked for.                        *)
LEMMA WorkSteps ==
  ASSUME TypeInv, NEW p \in Placers, Scans(p) \/ Recheck(p) \/ Applies(p)
  PROVE  /\ job'[p].at = job[p].at /\ job'[p].touched = job[p].touched
         /\ locks' = locks
         /\ \/ pc[p] \in ScanLabel1 /\ pc'[p] \in ScanLabel1 \cup {"runlock"}
            \/ /\ pc[p] \in ScanLabel2 \cup PlacingLabel
               /\ pc'[p] \in ScanLabel2 \cup PlacingLabel \cup {"unlock"}
<1> USE DEF ScanLabel1, ScanLabel2, PlacingLabel, ApplyLabel, BumpLabel, CellLabel
<1>0. /\ pc \in [Proc -> Label] /\ p \in Proc
      /\ job \in [Placers -> JobType] /\ job[p] \in JobType
  BY DEF TypeInv, TypeOK, Proc
<1> USE DEF JobType, RayType
<1>1. CASE Scans(p)
  <2>1. CASE Probe(p)
    BY <1>0, <2>1 DEF Probe, Goto, ScanLabel, ExitLabel
  <2>2. CASE RayLeavesBoard(p)
    BY <1>0, <2>2 DEF RayLeavesBoard, Scanning
  <2>3. CASE RayMeetsEmpty(p)
    BY <1>0, <2>3 DEF RayMeetsEmpty, Scanning, Stray
  <2>4. CASE RayMeetsOpponent(p)
    BY <1>0, <2>4 DEF RayMeetsOpponent, Scanning, Stray
  <2>5. CASE RayMeetsTeam(p)
    BY <1>0, <2>5 DEF RayMeetsTeam, Scanning, Stray
  <2>6. CASE ScanEnds(p)
    BY <1>0, <2>6 DEF ScanEnds, Goto, ExitLabel
  <2>7. CASE ReadOccupied(p)
    BY <1>0, <2>7 DEF ReadOccupied, Goto
  <2> QED BY <1>1, <2>1, <2>2, <2>3, <2>4, <2>5, <2>6, <2>7 DEF Scans
<1>2. CASE Recheck(p)
  BY <1>0, <1>2 DEF Recheck, AfterRecheck, Goto
<1>3. CASE Applies(p)
  <2>1. CASE NoFlips(p)
    BY <1>0, <2>1 DEF NoFlips, Goto
  <2>2. CASE Commit(p)
    BY <1>0, <2>2 DEF Commit, Goto
  <2>3. CASE ReadPrev(p)
    BY <1>0, <2>3 DEF ReadPrev, Goto, AfterPrev
  <2>4. CASE LoadCount(p)
    BY <1>0, <2>4 DEF LoadCount, Goto
  <2>5. CASE StoreCount(p)
    BY <1>0, <2>5 DEF StoreCount, Goto
  <2>6. CASE LoadByte(p)
    BY <1>0, <2>6 DEF LoadByte, Goto
  <2>7. CASE StoreByte(p)
    BY <1>0, <2>7 DEF StoreByte, Goto
  <2>8. CASE Applied(p)
    BY <1>0, <2>8 DEF Applied, Goto
  <2>9. CASE LoadVersion(p)
    BY <1>0, <2>9 DEF LoadVersion, Goto
  <2>10. CASE StoreVersion(p)
    BY <1>0, <2>10 DEF StoreVersion, Goto
  <2> QED BY <1>3, <2>1, <2>2, <2>3, <2>4, <2>5, <2>6, <2>7, <2>8, <2>9, <2>10 DEF Applies
<1> QED BY <1>1, <1>2, <1>3

(* What a call is holding, it holds until the place in its code where it    *)
(* lets go.                                                                 *)
LEMMA HoldsSelf ==
  ASSUME LockInv, HoldsOK, NEW p \in Placers, StepOf(p)
  PROVE  Holds(p)'
<1> USE DEF ScanLabel1, ScanLabel2, PlacingLabel, ApplyLabel, BumpLabel, CellLabel
<1>0. /\ pc \in [Proc -> Label] /\ need \in [Proc -> SUBSET Chunk]
      /\ job \in [Placers -> JobType] /\ job[p] \in JobType
      /\ p \in Proc /\ p \notin Readers /\ TypeInv /\ Holds(p)
  BY PlacementAssumption DEF LockInv, TypeInv, TypeOK, Proc, HoldsOK
<1>1. ASSUME pc'[p] = pc[p], need'[p] = need[p], job'[p] = job[p],
             ReadHeld(p) \subseteq ReadHeld(p)', WriteHeld(p) \subseteq WriteHeld(p)'
      PROVE  Holds(p)'
  <2>1. Box(p)' = Box(p)
    BY <1>1 DEF Box
  <2> QED BY <1>0, <1>1, <2>1 DEF Holds
<1>2. CASE Waits(p)
  <2>1. ReadHeld(p) \subseteq ReadHeld(p)' /\ WriteHeld(p) \subseteq WriteHeld(p)'
    <3>1. CASE CooldownPasses(p)
      BY <3>1 DEF CooldownPasses, ReadHeld, WriteHeld
    <3>2. CASE AwaitRLock(p) \/ AwaitLock(p)
      BY <1>0, <3>2, LocksKept DEF AwaitRLock, AwaitLock, RUnlockOne, UnlockOne
    <3> QED BY <1>2, <3>1, <3>2 DEF Waits
  <2> QED BY <1>1, <1>2, <2>1 DEF Waits, AwaitRLock, AwaitLock, CooldownPasses
<1>3. CASE RLocked(p)
  <2>1. /\ need'[p] = need[p] \ {NextReadLock(p)} /\ NextReadLock(p) \in ReadHeld(p)
        /\ pc[p] = "rlock" /\ pc'[p] = IF need'[p] # {} THEN "rlock" ELSE "probe"
        /\ job' = job /\ locks' = locks
    BY <1>0, <1>3 DEF RLocked, Goto
  <2>2. Box(p)' = Box(p) /\ ReadHeld(p)' = ReadHeld(p)
    BY <2>1 DEF Box, ReadHeld
  <2> QED BY <1>0, <2>1, <2>2 DEF Holds
<1>4. CASE Returns(p)
  <2>1. CASE RUnlockOne(p) \/ UnlockOne(p)
    BY <1>0, <2>1 DEF RUnlockOne, UnlockOne, Holds
  <2>2. CASE ReadReturns(p) \/ WriteReturns(p)
    BY <1>0, <2>2 DEF ReadReturns, WriteReturns, Goto, Holds
  <2>3. CASE ReadSucceeds(p)
    <3>1. /\ pc'[p] = "lock"
          /\ job'[p].at = job[p].at
          /\ need'[p] = job'[p].touched
          /\ ChunkOf(job[p].at) \in job'[p].touched
      BY <1>0, <2>3 DEF ReadSucceeds, Goto, TouchedChunks
    <3> QED BY <3>1 DEF Holds
  <2> QED BY <1>4, <2>1, <2>2, <2>3 DEF Returns
<1>5. ASSUME NEW q \in Targets, BeginPlace(p, q)
      PROVE  Holds(p)'
  <2>1. job'[p].at = q /\ pc'[p] = "rlock" /\ need'[p] = ReadBox(q, ReadRadius)
    BY <1>0, <1>5 DEF BeginPlace, Goto, NoJob
  <2> QED BY <2>1 DEF Holds, Box
<1>6. CASE Locked(p)
  <2>1. /\ need'[p] = need[p] \ {NextWriteLock(p)} /\ NextWriteLock(p) \in WriteHeld(p)
        /\ pc[p] = "lock" /\ pc'[p] = IF need'[p] # {} THEN "lock" ELSE "recheck"
        /\ job' = job /\ locks' = locks
    BY <1>0, <1>6 DEF Locked, Alone, Goto
  <2>2. WriteHeld(p)' = WriteHeld(p)
    BY <2>1 DEF WriteHeld
  <2> QED BY <1>0, <2>1, <2>2 DEF Holds
<1>7. CASE Scans(p) \/ Recheck(p) \/ Applies(p)
  <2>1. /\ Box(p)' = Box(p) /\ job'[p].at = job[p].at /\ job'[p].touched = job[p].touched
        /\ ReadHeld(p)' = ReadHeld(p) /\ WriteHeld(p)' = WriteHeld(p)
    BY <1>0, <1>7, WorkSteps DEF Box, ReadHeld, WriteHeld
  <2> QED BY <1>0, <1>7, <2>1, WorkSteps DEF Holds
<1> QED BY <1>0, <1>2, <1>3, <1>4, <1>5, <1>6, <1>7, StepKinds

(* Initially nobody is in a call.                                           *)
LEMMA HoldsInit == Init => HoldsOK
BY DEF Init, HoldsOK, Holds, Proc, ScanLabel1, ScanLabel2, PlacingLabel, ApplyLabel, BumpLabel, CellLabel

(* No step leaves a call without the locks of its place.                    *)
LEMMA HoldsNext ==
  ASSUME LockInv, HoldsOK, [Next]_vars
  PROVE  HoldsOK'
<1>1. CASE UNCHANGED vars
  BY <1>1 DEF vars, HoldsOK, Holds, Box, ReadHeld, WriteHeld
<1>2. ASSUME NEW r \in Proc, StepOf(r), NEW p \in Placers
      PROVE  Holds(p)'
  BY <1>2, HoldsOthers, HoldsSelf
<1> QED BY <1>1, <1>2, StepKinds DEF HoldsOK

(* Wherever the code reads or writes a chunk it holds the locks that its    *)
(* comments ask for: the box for the first scan, then the touched chunks.   *)
THEOREM LocksHeld == Spec => [](LockInv /\ HoldsOK)
BY LockInit, LockNext, HoldsInit, HoldsNext, PTL DEF Spec

(* The first scan reads no cell outside the chunks that LockReadBox locked. *)
THEOREM ScanUnderReadLockCorrect == Spec => []ScanUnderReadLock
<1>1. LockInv /\ HoldsOK => ScanUnderReadLock
  <2> SUFFICES ASSUME LockInv, HoldsOK, NEW p \in Placers,
                      pc[p] = "scan", Scanning(p), InBounds(RayCell(p))
               PROVE  ChunkOf(RayCell(p)) \in ReadHeld(p)
    BY DEF ScanUnderReadLock
  <2>1. job[p].at \in Coord /\ job[p].ray.step \in 1 .. MaxFlipDistance
    BY DEF LockInv, TypeInv, TypeOK, JobType, RayType
  <2>2. ChunkOf(RayCell(p)) \in Box(p)
    BY <2>1, RayInBox DEF RayCell, Scanning
  <2> QED BY <2>2 DEF HoldsOK, Holds, ScanLabel1
<1> QED BY <1>1, LocksHeld, PTL

-----------------------------------------------------------------------------
(* Sequences of cells, as the sets of their elements                         *)

(* A sequence holds its head and what its tail holds.                       *)
LEMMA HeadTail ==
  ASSUME NEW S, NEW s \in Seq(S), s # <<>>
  PROVE  Range(s) = {Head(s)} \cup Range(Tail(s)) /\ Head(s) \in S /\ Tail(s) \in Seq(S)
<1>1. Len(s) \in Nat \ {0} /\ DOMAIN s = 1 .. Len(s)
  OBVIOUS
<1>2. DOMAIN Tail(s) = 1 .. Len(s) - 1 /\ \A i \in 1 .. Len(s) - 1 : Tail(s)[i] = s[i + 1]
  BY <1>1
<1>3. Head(s) = s[1]
  OBVIOUS
<1>4. ASSUME NEW i \in 1 .. Len(s), i # 1 PROVE i - 1 \in 1 .. Len(s) - 1 /\ s[i] = Tail(s)[i - 1]
  BY <1>1, <1>2, <1>4
<1>5. \A x \in Range(s) : x = Head(s) \/ x \in Range(Tail(s))
  <2> TAKE x \in Range(s)
  <2>1. PICK i \in 1 .. Len(s) : x = s[i]
    BY <1>1 DEF Range
  <2> QED BY <1>2, <1>3, <1>4, <2>1 DEF Range
<1>6. \A x \in Range(Tail(s)) : x \in Range(s)
  BY <1>1, <1>2 DEF Range
<1>7. Head(s) \in Range(s)
  BY <1>1, <1>3 DEF Range
<1> QED BY <1>5, <1>6, <1>7

(* Two sequences one after the other hold what either of them holds.        *)
LEMMA ConcatRange ==
  ASSUME NEW S, NEW s \in Seq(S), NEW t \in Seq(S)
  PROVE  Range(s \o t) = Range(s) \cup Range(t) /\ s \o t \in Seq(S)
<1>1. /\ Len(s) \in Nat /\ Len(t) \in Nat /\ DOMAIN s = 1 .. Len(s) /\ DOMAIN t = 1 .. Len(t)
      /\ DOMAIN (s \o t) = 1 .. Len(s) + Len(t)
      /\ \A i \in 1 .. Len(s) : (s \o t)[i] = s[i]
      /\ \A i \in 1 .. Len(t) : (s \o t)[Len(s) + i] = t[i]
  OBVIOUS
<1>2. \A i \in 1 .. Len(s) + Len(t) : i \in 1 .. Len(s) \/ i - Len(s) \in 1 .. Len(t)
  BY <1>1
<1>3. \A x \in Range(s \o t) : x \in Range(s) \/ x \in Range(t)
  <2> TAKE x \in Range(s \o t)
  <2>1. PICK i \in 1 .. Len(s) + Len(t) : x = (s \o t)[i]
    BY <1>1 DEF Range
  <2>2. CASE i \in 1 .. Len(s)
    BY <1>1, <2>1, <2>2 DEF Range
  <2>3. CASE i - Len(s) \in 1 .. Len(t)
    <3>1. x = t[i - Len(s)]
      BY <1>1, <2>1, <2>3
    <3> QED BY <1>1, <2>3, <3>1 DEF Range
  <2> QED BY <1>2, <2>2, <2>3
<1>4. \A x \in Range(s) : x \in Range(s \o t)
  BY <1>1 DEF Range
<1>5. \A x \in Range(t) : x \in Range(s \o t)
  <2> TAKE x \in Range(t)
  <2>1. PICK i \in 1 .. Len(t) : x = t[i]
    BY <1>1 DEF Range
  <2>2. Len(s) + i \in 1 .. Len(s) + Len(t) /\ x = (s \o t)[Len(s) + i]
    BY <1>1, <2>1
  <2> QED BY <1>1, <2>2 DEF Range
<1> QED BY <1>3, <1>4, <1>5

(* A sequence of one element holds that element.                            *)
LEMMA OneRange ==
  ASSUME NEW S, NEW x \in S
  PROVE  Range(<<x>>) = {x} /\ <<x>> \in Seq(S)
BY DEF Range

(* The empty sequence holds nothing.                                        *)
LEMMA EmptyRange == Range(<<>>) = {}
BY DEF Range

(* An element before a sequence adds that element.                          *)
LEMMA ConsRange ==
  ASSUME NEW S, NEW x \in S, NEW t \in Seq(S)
  PROVE  Range(<<x>> \o t) = {x} \cup Range(t)
<1> DEFINE s == <<x>>
<1>1. Range(s) = {x} /\ s \in Seq(S)
  BY OneRange
<1> HIDE DEF s
<1>2. Range(s \o t) = {x} \cup Range(t)
  BY <1>1, ConcatRange
<1> QED BY <1>2 DEF s

-----------------------------------------------------------------------------
(* Applying a placement                                                      *)

(* A placement is applied by these steps.                                   *)
LEMMA PlacingSteps ==
  ASSUME TypeInv, NEW p \in Placers, StepOf(p), pc'[p] \in PlacingLabel
  PROVE  \/ CooldownPasses(p) \/ Commit(p) \/ ReadPrev(p) \/ LoadCount(p) \/ StoreCount(p)
         \/ LoadByte(p) \/ StoreByte(p) \/ Applied(p) \/ LoadVersion(p) \/ StoreVersion(p)
<1> USE DEF ScanLabel1, ScanLabel2, PlacingLabel, ApplyLabel, BumpLabel, CellLabel
<1>0. /\ pc \in [Proc -> Label] /\ p \in Proc /\ p \notin Readers
  BY PlacementAssumption DEF TypeInv, TypeOK, Proc
<1>1. CASE Waits(p)
  BY <1>1 DEF Waits, AwaitRLock, AwaitLock
<1>2. CASE RLocked(p)
  BY <1>0, <1>2 DEF RLocked, Goto
<1>3. CASE Returns(p)
  BY <1>0, <1>3 DEF Returns, RUnlockOne, ReadReturns, UnlockOne, WriteReturns, ReadSucceeds, Goto
<1>4. ASSUME NEW q \in Targets, BeginPlace(p, q) PROVE FALSE
  BY <1>0, <1>4 DEF BeginPlace, Goto
<1>5. CASE Locked(p)
  BY <1>0, <1>5 DEF Locked, Goto
<1>6. CASE Recheck(p)
  BY <1>0, <1>6 DEF Recheck, AfterRecheck, Goto
<1>7. CASE Scans(p)
  <2>1. CASE Probe(p) \/ ScanEnds(p) \/ ReadOccupied(p)
    BY <1>0, <2>1 DEF Probe, ScanEnds, ReadOccupied, ScanLabel, ExitLabel, Goto
  <2>2. CASE RayLeavesBoard(p) \/ RayMeetsEmpty(p) \/ RayMeetsOpponent(p) \/ RayMeetsTeam(p)
    BY <1>0, <2>2 DEF RayLeavesBoard, RayMeetsEmpty, RayMeetsOpponent, RayMeetsTeam, Scanning
  <2> QED BY <1>7, <2>1, <2>2 DEF Scans
<1>8. CASE NoFlips(p)
  BY <1>0, <1>8 DEF NoFlips, Goto
<1> QED BY <1>0, <1>1, <1>2, <1>3, <1>4, <1>5, <1>6, <1>7, <1>8, StepKinds DEF Applies

(* A call that applies its placement takes no other steps.                  *)
LEMMA PlacingOnly ==
  ASSUME TypeInv, NEW p \in Placers, StepOf(p), pc[p] \in PlacingLabel
  PROVE  \/ CooldownPasses(p) \/ ReadPrev(p) \/ LoadCount(p) \/ StoreCount(p)
         \/ LoadByte(p) \/ StoreByte(p) \/ Applied(p) \/ LoadVersion(p) \/ StoreVersion(p)
<1> USE DEF ScanLabel1, ScanLabel2, PlacingLabel, ApplyLabel, BumpLabel, CellLabel
<1>0. p \in Proc /\ p \notin Readers
  BY PlacementAssumption DEF Proc
<1>1. ~AwaitRLock(p) /\ ~AwaitLock(p) /\ ~RLocked(p) /\ ~Locked(p) /\ ~Recheck(p)
  BY DEF AwaitRLock, AwaitLock, RLocked, Locked, Recheck
<1>2. ~Returns(p)
  BY DEF Returns, RUnlockOne, ReadReturns, UnlockOne, WriteReturns, ReadSucceeds
<1>3. \A q \in Targets : ~BeginPlace(p, q)
  BY DEF BeginPlace
<1>4. ~Scans(p)
  BY DEF Scans, Probe, RayLeavesBoard, RayMeetsEmpty, RayMeetsOpponent, RayMeetsTeam,
         ScanEnds, ReadOccupied, Scanning
<1>5. ~NoFlips(p) /\ ~Commit(p)
  BY DEF NoFlips, Commit
<1> QED BY <1>0, <1>1, <1>2, <1>3, <1>4, <1>5, StepKinds DEF Applies, Waits

(* What these steps do to the locals of the call.                           *)
LEMMA PlacingEffects ==
  ASSUME TypeInv, NEW p \in Placers
  PROVE  /\ Commit(p) =>
              /\ pc[p] = "decide" /\ pc'[p] = "prev" /\ need'[p] = need[p]
              /\ job'[p] = [job[p] EXCEPT !.todo = Changes(p)]
         /\ ReadPrev(p) =>
              /\ pc[p] = "prev" /\ need'[p] = need[p] /\ job[p].todo # <<>>
              /\ \/ /\ cells[Applying(p)] = TeamOf[p] /\ pc'[p] = "prev"
                    /\ job'[p] = [job[p] EXCEPT !.prev = TeamOf[p], !.todo = Tail(@)]
                 \/ /\ cells[Applying(p)] # TeamOf[p]
                    /\ pc'[p] = IF cells[Applying(p)] = Empty THEN "incload" ELSE "decload"
                    /\ job'[p] = [job[p] EXCEPT !.prev = cells[Applying(p)]]
         /\ LoadCount(p) =>
              /\ \/ pc[p] = "decload" /\ pc'[p] = "decstore"
                 \/ pc[p] = "incload" /\ pc'[p] = "incstore"
              /\ need'[p] = need[p]
              /\ job'[p] = [job[p] EXCEPT !.loaded = counts[ChunkOf(Applying(p))][Counter(p)]]
         /\ StoreCount(p) =>
              /\ \/ pc[p] = "decstore" /\ pc'[p] = "incload"
                 \/ pc[p] = "incstore" /\ pc'[p] = "setload"
              /\ need'[p] = need[p] /\ job'[p] = job[p]
         /\ LoadByte(p) =>
              /\ pc[p] = "setload" /\ pc'[p] = "setstore" /\ need'[p] = need[p]
              /\ job'[p] = [job[p] EXCEPT !.image = [q \in ByteOf(Applying(p)) |-> cells[q]]]
         /\ StoreByte(p) =>
              /\ pc[p] = "setstore" /\ pc'[p] = "prev" /\ need'[p] = need[p]
              /\ job[p].todo # <<>>
              /\ job'[p] = [job[p] EXCEPT !.todo = Tail(@), !.image = <<>>]
         /\ Applied(p) =>
              /\ pc[p] = "prev" /\ pc'[p] = "bumpload" /\ need'[p] = Updated(p)
              /\ job[p].todo = <<>> /\ job'[p] = job[p]
         /\ LoadVersion(p) =>
              /\ pc[p] = "bumpload" /\ pc'[p] = "bumpstore" /\ need'[p] = need[p]
              /\ job'[p] = [job[p] EXCEPT !.loaded = version[Min(need[p])]]
         /\ StoreVersion(p) =>
              /\ pc[p] = "bumpstore" /\ need'[p] = need[p] \ {Min(need[p])}
              /\ pc'[p] = IF need'[p] = {} THEN "unlock" ELSE "bumpload"
              /\ job'[p] = job[p]
<1>0. /\ pc \in [Proc -> Label] /\ need \in [Proc -> SUBSET Chunk] /\ p \in Proc
      /\ job \in [Placers -> JobType] /\ job[p] \in JobType
      /\ pc[p] = "setstore" => job[p].todo # <<>>
      /\ cells \in [Coord -> Cell] /\ TeamOf[p] \in Team
  BY PlacementAssumption DEF TypeInv, TypeOK, Proc, ControlOK, LocalsOK, CellLabel
<1> USE DEF JobType, Goto
<1>1. ASSUME Commit(p)
      PROVE  /\ pc[p] = "decide" /\ pc'[p] = "prev" /\ need'[p] = need[p]
             /\ job'[p] = [job[p] EXCEPT !.todo = Changes(p)]
  BY <1>0, <1>1 DEF Commit
<1>2. ASSUME ReadPrev(p)
      PROVE  /\ pc[p] = "prev" /\ need'[p] = need[p] /\ job[p].todo # <<>>
             /\ \/ /\ cells[Applying(p)] = TeamOf[p] /\ pc'[p] = "prev"
                   /\ job'[p] = [job[p] EXCEPT !.prev = TeamOf[p], !.todo = Tail(@)]
                \/ /\ cells[Applying(p)] # TeamOf[p]
                   /\ pc'[p] = IF cells[Applying(p)] = Empty THEN "incload" ELSE "decload"
                   /\ job'[p] = [job[p] EXCEPT !.prev = cells[Applying(p)]]
  <2>1. CASE cells[Applying(p)] = TeamOf[p]
    <3>1. pc'[p] = "prev"
      <4>1. AfterPrev(p, cells[Applying(p)]) = "prev"
        BY <1>0, <2>1 DEF AfterPrev, Team, Black, White, Empty
      <4> QED BY <1>0, <1>2, <4>1 DEF ReadPrev
    <3>2. job'[p] = [job[p] EXCEPT !.prev = TeamOf[p], !.todo = Tail(@)]
      BY <1>0, <1>2, <2>1 DEF ReadPrev
    <3> QED BY <1>0, <1>2, <2>1, <3>1, <3>2 DEF ReadPrev
  <2>2. CASE cells[Applying(p)] # TeamOf[p]
    <3>1. pc'[p] = IF cells[Applying(p)] = Empty THEN "incload" ELSE "decload"
      BY <1>0, <1>2, <2>2 DEF ReadPrev, AfterPrev
    <3>2. job'[p] = [job[p] EXCEPT !.prev = cells[Applying(p)]]
      BY <1>0, <1>2, <2>2 DEF ReadPrev
    <3> QED BY <1>0, <1>2, <2>2, <3>1, <3>2 DEF ReadPrev
  <2> QED BY <2>1, <2>2
<1>3. ASSUME LoadCount(p)
      PROVE  /\ \/ pc[p] = "decload" /\ pc'[p] = "decstore"
                \/ pc[p] = "incload" /\ pc'[p] = "incstore"
             /\ need'[p] = need[p]
             /\ job'[p] = [job[p] EXCEPT !.loaded = counts[ChunkOf(Applying(p))][Counter(p)]]
  BY <1>0, <1>3 DEF LoadCount
<1>4. ASSUME StoreCount(p)
      PROVE  /\ \/ pc[p] = "decstore" /\ pc'[p] = "incload"
                \/ pc[p] = "incstore" /\ pc'[p] = "setload"
             /\ need'[p] = need[p] /\ job'[p] = job[p]
  BY <1>0, <1>4 DEF StoreCount
<1>5. ASSUME LoadByte(p)
      PROVE  /\ pc[p] = "setload" /\ pc'[p] = "setstore" /\ need'[p] = need[p]
             /\ job'[p] = [job[p] EXCEPT !.image = [q \in ByteOf(Applying(p)) |-> cells[q]]]
  BY <1>0, <1>5 DEF LoadByte
<1>6. ASSUME StoreByte(p)
      PROVE  /\ pc[p] = "setstore" /\ pc'[p] = "prev" /\ need'[p] = need[p]
             /\ job[p].todo # <<>>
             /\ job'[p] = [job[p] EXCEPT !.todo = Tail(@), !.image = <<>>]
  BY <1>0, <1>6 DEF StoreByte
<1>7. ASSUME Applied(p)
      PROVE  /\ pc[p] = "prev" /\ pc'[p] = "bumpload" /\ need'[p] = Updated(p)
             /\ job[p].todo = <<>> /\ job'[p] = job[p]
  BY <1>0, <1>7 DEF Applied
<1>8. ASSUME LoadVersion(p)
      PROVE  /\ pc[p] = "bumpload" /\ pc'[p] = "bumpstore" /\ need'[p] = need[p]
             /\ job'[p] = [job[p] EXCEPT !.loaded = version[Min(need[p])]]
  BY <1>0, <1>8 DEF LoadVersion
<1>9. ASSUME StoreVersion(p)
      PROVE  /\ pc[p] = "bumpstore" /\ need'[p] = need[p] \ {Min(need[p])}
             /\ pc'[p] = IF need'[p] = {} THEN "unlock" ELSE "bumpload"
             /\ job'[p] = job[p]
  BY <1>0, <1>9 DEF StoreVersion
<1> QED BY <1>1, <1>2, <1>3, <1>4, <1>5, <1>6, <1>7, <1>8, <1>9

(* A placement that writes no bytes of a chunk it has not locked keeps to   *)
(* the cells it has decided on.                                             *)
LEMMA FootNext ==
  ASSUME LockInv, FootOK, NEW r \in Proc, StepOf(r), ~overwrote'
  PROVE  FootOK'
<1> USE DEF PlacingLabel, ApplyLabel, BumpLabel, CellLabel
<1>0. TypeInv /\ pc \in [Proc -> Label] /\ job \in [Placers -> JobType]
  BY DEF LockInv, TypeInv, TypeOK
<1>1. SUFFICES ASSUME NEW p \in Placers, pc'[p] \in PlacingLabel
               PROVE  /\ Footprint(p)' \subseteq job'[p].touched
                      /\ pc'[p] \in ApplyLabel => Range(job'[p].todo) \subseteq Stones(p)'
                      /\ pc'[p] \in BumpLabel => need'[p] \subseteq Updated(p)'
  BY DEF FootOK
<1>2. ASSUME pc[p] \in PlacingLabel
      PROVE  /\ Footprint(p) \subseteq job[p].touched
             /\ pc[p] \in ApplyLabel => Range(job[p].todo) \subseteq Stones(p)
             /\ pc[p] \in BumpLabel => need[p] \subseteq Updated(p)
  BY <1>2 DEF FootOK
<1>3. ASSUME job'[p].at = job[p].at, job'[p].flips = job[p].flips
      PROVE  Stones(p)' = Stones(p) /\ Footprint(p)' = Footprint(p) /\ Updated(p)' = Updated(p)
  BY <1>3 DEF Stones, Footprint, Updated
<1>4. CASE p # r
  <2>1. pc'[p] = pc[p] /\ need'[p] = need[p] /\ job'[p] = job[p]
    BY <1>0, <1>4, OthersStay DEF Proc
  <2> QED BY <1>1, <1>2, <1>3, <2>1
<1>5. CASE p = r
  <2>0. job[p] \in JobType
    BY <1>0
  <2>1. CASE CooldownPasses(p)
    BY <1>1, <1>2, <1>3, <2>1 DEF CooldownPasses
  <2>2. CASE Commit(p)
    <3>1. /\ pc'[p] = "prev" /\ job'[p] = [job[p] EXCEPT !.todo = Changes(p)]
      BY <1>0, <2>2, PlacingEffects
    <3>2. /\ job'[p].at = job[p].at /\ job'[p].flips = job[p].flips
          /\ job'[p].touched = job[p].touched /\ job'[p].todo = Changes(p)
      BY <2>0, <3>1 DEF JobType
    <3>3. Range(Changes(p)) = Stones(p)
      <4>1. job[p].at \in Coord /\ job[p].flips \in Seq(Coord)
        BY <2>0 DEF JobType
      <4> QED BY <4>1, ConsRange DEF Changes, Stones
    <3>4. Footprint(p) \subseteq job[p].touched
      BY <2>2 DEF Commit
    <3> QED BY <1>3, <3>1, <3>2, <3>3, <3>4
  <2>3. CASE ReadPrev(p)
    <3>1. /\ pc[p] = "prev" /\ pc'[p] \in ApplyLabel /\ job[p].todo # <<>>
          /\ \/ job'[p] = [job[p] EXCEPT !.prev = TeamOf[p], !.todo = Tail(@)]
             \/ job'[p] = [job[p] EXCEPT !.prev = cells[Applying(p)]]
      BY <1>0, <2>3, PlacingEffects
    <3>2. /\ job'[p].at = job[p].at /\ job'[p].flips = job[p].flips
          /\ job'[p].touched = job[p].touched
          /\ job'[p].todo \in {job[p].todo, Tail(job[p].todo)}
      BY <2>0, <3>1 DEF JobType
    <3>3. Range(Tail(job[p].todo)) \subseteq Range(job[p].todo)
      BY <2>0, <3>1, HeadTail DEF JobType
    <3>4. Range(job'[p].todo) \subseteq Range(job[p].todo)
      BY <3>2, <3>3
    <3> QED BY <1>2, <1>3, <3>1, <3>2, <3>4
  <2>4. CASE LoadCount(p) \/ StoreCount(p) \/ LoadByte(p)
    <3>1. /\ job'[p].at = job[p].at /\ job'[p].flips = job[p].flips
          /\ job'[p].touched = job[p].touched /\ job'[p].todo = job[p].todo
          /\ pc[p] \in ApplyLabel /\ pc'[p] \in ApplyLabel
      BY <1>0, <2>0, <2>4, PlacingEffects DEF JobType
    <3> QED BY <1>2, <1>3, <3>1
  <2>5. CASE StoreByte(p)
    <3>1. /\ pc[p] = "setstore" /\ pc'[p] = "prev" /\ job[p].todo # <<>>
          /\ job'[p] = [job[p] EXCEPT !.todo = Tail(@), !.image = <<>>]
      BY <1>0, <2>5, PlacingEffects
    <3>2. /\ job'[p].at = job[p].at /\ job'[p].flips = job[p].flips
          /\ job'[p].touched = job[p].touched /\ job'[p].todo = Tail(job[p].todo)
      BY <2>0, <3>1 DEF JobType
    <3>3. Range(job'[p].todo) \subseteq Range(job[p].todo)
      BY <2>0, <3>1, <3>2, HeadTail DEF JobType
    <3> QED BY <1>2, <1>3, <3>1, <3>2, <3>3
  <2>6. CASE Applied(p)
    BY <1>0, <1>2, <1>3, <2>6, PlacingEffects
  <2>7. CASE LoadVersion(p) \/ StoreVersion(p)
    <3>1. /\ job'[p].at = job[p].at /\ job'[p].flips = job[p].flips
          /\ job'[p].touched = job[p].touched /\ need'[p] \subseteq need[p]
          /\ pc[p] \in BumpLabel /\ (pc'[p] = "unlock" \/ pc'[p] \in BumpLabel)
      BY <1>0, <2>0, <2>7, PlacingEffects DEF JobType
    <3> QED BY <1>1, <1>2, <1>3, <3>1
  <2> QED BY <1>0, <1>1, <1>5, <2>1, <2>2, <2>3, <2>4, <2>5, <2>6, <2>7, PlacingSteps
<1> QED BY <1>4, <1>5

(* A chunk that one goroutine has write-locked nobody else holds.           *)
LEMMA Exclusive ==
  ASSUME NEW p \in Proc, NEW q \in Proc, p # q
  PROVE  WriteHeld(p) \cap Held(q) = {} /\ WriteHeld(p) \subseteq Held(p)
BY DEF WriteHeld, Held, ReadHeld

(* Where a placement is applied, its stones and the cells that share their  *)
(* bytes are in chunks it has write-locked.                                 *)
LEMMA OwnFoot ==
  ASSUME LockInv, HoldsOK, FootOK, NEW p \in Placers, pc[p] \in PlacingLabel
  PROVE  /\ Stones(p) \subseteq Coord
         /\ \A s \in Stones(p) : /\ ChunkOf(s) \in WriteHeld(p) /\ s \in ByteOf(s)
                                 /\ \A q \in ByteOf(s) : ChunkOf(q) \in WriteHeld(p)
         /\ Updated(p) \subseteq WriteHeld(p)
<1>1. job[p].at \in Coord /\ job[p].flips \in Seq(Coord)
  BY DEF LockInv, TypeInv, TypeOK, JobType
<1>2. Stones(p) \subseteq Coord
  BY <1>1 DEF Stones, Range
<1>3. Footprint(p) \subseteq WriteHeld(p)
  BY DEF HoldsOK, Holds, FootOK
<1>4. ASSUME NEW s \in Stones(p)
      PROVE  /\ ChunkOf(s) \in WriteHeld(p) /\ s \in ByteOf(s)
             /\ \A q \in ByteOf(s) : ChunkOf(q) \in WriteHeld(p)
  BY <1>2, <1>3, ByteOfType DEF Footprint
<1>5. Updated(p) = {ChunkOf(s) : s \in Stones(p)}
  BY DEF Updated, TouchedChunks, Stones
<1> QED BY <1>2, <1>4, <1>5

(* The cell that a placement is setting is one of its stones.               *)
LEMMA ApplyingStone ==
  ASSUME LockInv, FootOK, NEW p \in Placers, pc[p] \in ApplyLabel, job[p].todo # <<>>
  PROVE  /\ Applying(p) \in Stones(p) /\ Applying(p) \in Coord
         /\ Range(job[p].todo) = {Applying(p)} \cup Range(Tail(job[p].todo))
<1>1. job[p].todo \in Seq(Coord)
  BY DEF LockInv, TypeInv, TypeOK, JobType
<1>2. Range(job[p].todo) = {Applying(p)} \cup Range(Tail(job[p].todo)) /\ Applying(p) \in Coord
  BY <1>1, HeadTail DEF Applying
<1> QED BY <1>2 DEF FootOK, PlacingLabel

(* Storing a byte sets one cell, and one that its writer has locked alone.  *)
LEMMA CellSteps ==
  ASSUME LockInv, HoldsOK, FootOK, CellsOK, NEW r \in Proc, StepOf(r)
  PROVE  /\ \/ cells' = cells
            \/ /\ r \in Placers /\ StoreByte(r)
               /\ Applying(r) \in Coord /\ ChunkOf(Applying(r)) \in WriteHeld(r)
               /\ cells' = [cells EXCEPT ![Applying(r)] = TeamOf[r]]
         /\ \A q \in Coord : \A p \in Proc \ {r} : ChunkOf(q) \in Held(p) => cells'[q] = cells[q]
         /\ \A q \in Coord : cells'[q] # cells[q] => r \in Placers /\ ChunkOf(q) \in WriteHeld(r)
<1>1. CASE cells' = cells
  BY <1>1
<1>2. CASE r \in Placers /\ StoreByte(r)
  <2>1. pc[r] = "setstore" /\ job[r].todo # <<>>
    BY <1>2, PlacingEffects DEF LockInv
  <2>2. /\ Applying(r) \in Stones(r) /\ Applying(r) \in Coord
        /\ ChunkOf(Applying(r)) \in WriteHeld(r)
    BY <1>2, <2>1, ApplyingStone, OwnFoot DEF PlacingLabel, ApplyLabel, CellLabel
  <2>3. \A q \in ByteOf(Applying(r)) : job[r].image[q] = cells[q]
    BY <1>2, <2>1 DEF CellsOK, CellsOf
  <2>4. cells \in [Coord -> Cell]
    BY DEF LockInv, TypeInv, TypeOK
  <2>5. cells' = [cells EXCEPT ![Applying(r)] = TeamOf[r]]
    BY <1>2, <2>2, <2>3, <2>4 DEF StoreByte
  <2>6. \A q \in Coord : cells'[q] # cells[q] => q = Applying(r)
    BY <2>2, <2>4, <2>5
  <2>7. \A p \in Proc \ {r} : ChunkOf(Applying(r)) \notin Held(p)
    BY <2>2, Exclusive
  <2> QED BY <1>2, <2>2, <2>5, <2>6, <2>7
<1> QED BY <1>1, <1>2, BoardSteps

(* Deciding on a placement changes the committed board at cells that the    *)
(* placement has locked alone.                                              *)
LEMMA CommitSteps ==
  ASSUME LockInv, HoldsOK, NEW r \in Proc, StepOf(r), ~overwrote'
  PROVE  /\ UNCHANGED <<committed, commits>> \/ (r \in Placers /\ Commit(r))
         /\ (r \in Placers /\ Commit(r)) =>
              /\ Footprint(r) \subseteq WriteHeld(r)
              /\ Updated(r) \subseteq WriteHeld(r)
              /\ \A s \in Stones(r) : ChunkOf(s) \in WriteHeld(r)
         /\ \A q \in Coord : \A p \in Proc \ {r} :
              ChunkOf(q) \in Held(p) => committed'[q] = committed[q]
<1>1. ASSUME r \in Placers, Commit(r)
      PROVE  /\ Footprint(r) \subseteq WriteHeld(r)
             /\ Updated(r) \subseteq WriteHeld(r)
             /\ \A s \in Stones(r) : ChunkOf(s) \in WriteHeld(r)
             /\ \A q \in Coord : \A p \in Proc \ {r} :
                  ChunkOf(q) \in Held(p) => committed'[q] = committed[q]
  <2>1. job[r].at \in Coord /\ job[r].flips \in Seq(Coord)
    BY <1>1 DEF LockInv, TypeInv, TypeOK, JobType
  <2>2. Stones(r) \subseteq Coord
    BY <2>1 DEF Stones, Range
  <2>3. Footprint(r) \subseteq WriteHeld(r)
    BY <1>1 DEF Commit, HoldsOK, Holds, ScanLabel2
  <2>4. \A s \in Stones(r) : ChunkOf(s) \in WriteHeld(r)
    BY <2>2, <2>3, ByteOfType DEF Footprint
  <2>5. Updated(r) = {ChunkOf(s) : s \in Stones(r)}
    BY DEF Updated, TouchedChunks, Stones
  <2>6. \A q \in Coord : q \notin Stones(r) => committed'[q] = committed[q]
    BY <1>1 DEF Commit
  <2> QED BY <2>3, <2>4, <2>5, <2>6, Exclusive
<1> QED BY <1>1, BoardSteps

(* What a placement has loaded of the cell it is setting, and what it has   *)
(* still to write, stay as they are whatever the others do.                 *)
LEMMA CellsOthers ==
  ASSUME LockInv, HoldsOK, FootOK, CellsOK, NEW r \in Proc, StepOf(r), ~overwrote',
         NEW p \in Placers \ {r}
  PROVE  CellsOf(p)'
<1> USE DEF PlacingLabel, ApplyLabel, CellLabel
<1>1. p \in Placers /\ p \in Proc \ {r} /\ CellsOf(p)
  BY DEF CellsOK, Proc
<1>2. pc'[p] = pc[p] /\ job'[p] = job[p]
  BY <1>1, OthersStay DEF LockInv
<1>3. Stones(p)' = Stones(p) /\ Applying(p)' = Applying(p)
  BY <1>2 DEF Stones, Applying
<1>4. ASSUME pc[p] \in PlacingLabel
      PROVE  \A q \in Stones(p) : committed'[q] = committed[q]
  BY <1>1, <1>4, OwnFoot, CommitSteps, Exclusive
<1>5. ASSUME pc[p] \in CellLabel
      PROVE  \A q \in ByteOf(Applying(p)) : cells'[q] = cells[q] /\ Applying(p) \in ByteOf(Applying(p))
  <2>1. job[p].todo # <<>>
    BY <1>1, <1>5 DEF LockInv, TypeInv, ControlOK, LocalsOK
  <2>2. Applying(p) \in Stones(p) /\ Applying(p) \in Coord
    BY <1>1, <1>5, <2>1, ApplyingStone
  <2>3. \A q \in ByteOf(Applying(p)) : ChunkOf(q) \in Held(p) /\ q \in Coord
    BY <1>1, <1>5, <2>2, OwnFoot, Exclusive, ByteOfType
  <2> QED BY <1>1, <2>2, <2>3, CellSteps, ByteOfType
<1>6. ASSUME pc[p] \in CellLabel
      PROVE  cells'[Applying(p)] = cells[Applying(p)]
  <2>1. job[p].todo # <<>>
    BY <1>1, <1>6 DEF LockInv, TypeInv, ControlOK, LocalsOK
  <2>2. Applying(p) \in Coord
    BY <1>1, <1>6, <2>1, ApplyingStone
  <2> QED BY <1>5, <1>6, <2>2, ByteOfType
<1> QED BY <1>1, <1>2, <1>3, <1>4, <1>5, <1>6 DEF CellsOf

(* What a placement knows of the cells it sets stays true through its own   *)
(* steps.                                                                   *)
LEMMA CellsSelf ==
  ASSUME LockInv, HoldsOK, FootOK, CellsOK, NEW p \in Placers, StepOf(p), ~overwrote'
  PROVE  CellsOf(p)'
<1> USE DEF PlacingLabel, ApplyLabel, CellLabel, BumpLabel
<1>0. /\ CellsOf(p) /\ TypeInv /\ job[p] \in JobType /\ p \in Proc
      /\ pc[p] \in CellLabel => job[p].todo # <<>>
  BY DEF LockInv, TypeInv, TypeOK, CellsOK, Proc, ControlOK, LocalsOK
<1>1. CASE pc'[p] \notin PlacingLabel
  BY <1>1 DEF CellsOf
<1>2. CASE CooldownPasses(p)
  BY <1>0, <1>2 DEF CooldownPasses, CellsOf, Stones, Applying, board, history
<1>3. CASE Commit(p)
  <2>1. /\ pc'[p] = "prev" /\ job'[p] = [job[p] EXCEPT !.todo = Changes(p)]
    BY <1>0, <1>3, PlacingEffects
  <2>2. Stones(p)' = Stones(p)
    BY <1>0, <2>1 DEF Stones, JobType
  <2>3. Stones(p) \subseteq Coord
    BY <1>0 DEF Stones, JobType, Range
  <2>4. \A q \in Stones(p) : committed'[q] = TeamOf[p]
    BY <1>3, <2>3 DEF Commit
  <2> QED BY <2>1, <2>2, <2>4 DEF CellsOf
<1>4. ASSUME Stones(p)' = Stones(p), committed' = committed, pc[p] \in PlacingLabel,
             pc'[p] \notin CellLabel
      PROVE  CellsOf(p)'
  BY <1>0, <1>4 DEF CellsOf
<1>5. CASE ReadPrev(p)
  <2>1. /\ pc[p] = "prev" /\ cells' = cells /\ committed' = committed
        /\ job'[p].at = job[p].at /\ job'[p].flips = job[p].flips
        /\ \/ pc'[p] = "prev"
           \/ /\ cells[Applying(p)] # TeamOf[p]
              /\ pc'[p] \in {"incload", "decload"}
              /\ job'[p].prev = cells[Applying(p)] /\ job'[p].todo = job[p].todo
    <3>1. /\ pc[p] = "prev"
          /\ \/ /\ pc'[p] = "prev"
                /\ job'[p] = [job[p] EXCEPT !.prev = TeamOf[p], !.todo = Tail(@)]
             \/ /\ cells[Applying(p)] # TeamOf[p]
                /\ pc'[p] \in {"incload", "decload"}
                /\ job'[p] = [job[p] EXCEPT !.prev = cells[Applying(p)]]
      BY <1>0, <1>5, PlacingEffects
    <3>2. cells' = cells /\ committed' = committed
      BY <1>5 DEF ReadPrev, board, history
    <3> QED BY <1>0, <3>1, <3>2 DEF JobType
  <2>2. Stones(p)' = Stones(p)
    BY <2>1 DEF Stones
  <2>3. CASE pc'[p] = "prev"
    BY <1>4, <2>1, <2>2, <2>3
  <2>4. CASE pc'[p] # "prev"
    BY <1>0, <2>1, <2>2, <2>4 DEF CellsOf, Applying
  <2> QED BY <2>3, <2>4
<1>6. CASE LoadCount(p) \/ StoreCount(p)
  <2>1. /\ pc[p] \in CellLabel /\ pc'[p] \in CellLabel \ {"setstore"}
        /\ cells' = cells /\ committed' = committed
        /\ job'[p].at = job[p].at /\ job'[p].flips = job[p].flips
        /\ job'[p].prev = job[p].prev /\ job'[p].todo = job[p].todo
    BY <1>0, <1>6, PlacingEffects DEF LoadCount, StoreCount, board, history, JobType
  <2> QED BY <1>0, <2>1 DEF CellsOf, Stones, Applying
<1>7. CASE LoadByte(p)
  <2>1. /\ pc[p] = "setload" /\ pc'[p] = "setstore"
        /\ cells' = cells /\ committed' = committed
        /\ job'[p].at = job[p].at /\ job'[p].flips = job[p].flips
        /\ job'[p].prev = job[p].prev /\ job'[p].todo = job[p].todo
        /\ job'[p].image = [q \in ByteOf(Applying(p)) |-> cells[q]]
    <3>1. /\ pc[p] = "setload" /\ pc'[p] = "setstore"
          /\ job'[p] = [job[p] EXCEPT !.image = [q \in ByteOf(Applying(p)) |-> cells[q]]]
      BY <1>0, <1>7, PlacingEffects
    <3>2. cells' = cells /\ committed' = committed
      BY <1>7 DEF LoadByte, board, history
    <3> QED BY <1>0, <3>1, <3>2 DEF JobType
  <2>2. Stones(p)' = Stones(p) /\ Applying(p)' = Applying(p)
    BY <2>1 DEF Stones, Applying
  <2> QED BY <1>0, <2>1, <2>2 DEF CellsOf
<1>8. CASE StoreByte(p)
  <2>1. /\ pc[p] = "setstore" /\ pc'[p] = "prev" /\ committed' = committed
        /\ job'[p].at = job[p].at /\ job'[p].flips = job[p].flips
    <3>1. /\ pc[p] = "setstore" /\ pc'[p] = "prev"
          /\ job'[p] = [job[p] EXCEPT !.todo = Tail(@), !.image = <<>>]
      BY <1>0, <1>8, PlacingEffects
    <3>2. committed' = committed
      BY <1>8 DEF StoreByte, history
    <3> QED BY <1>0, <3>1, <3>2 DEF JobType
  <2> QED BY <1>4, <2>1 DEF Stones
<1>9. CASE Applied(p) \/ LoadVersion(p) \/ StoreVersion(p)
  <2>1. /\ pc[p] \in PlacingLabel /\ pc'[p] \notin CellLabel /\ committed' = committed
        /\ job'[p].at = job[p].at /\ job'[p].flips = job[p].flips
    BY <1>0, <1>9, PlacingEffects DEF Applied, LoadVersion, StoreVersion, board, history, JobType
  <2> QED BY <1>4, <2>1 DEF Stones
<1> QED BY <1>0, <1>1, <1>2, <1>3, <1>5, <1>6, <1>7, <1>8, <1>9, PlacingSteps

(* The board differs from the committed one only where somebody still has   *)
(* to write.                                                                *)
LEMMA CellsNext ==
  ASSUME LockInv, HoldsOK, FootOK, CellsOK, NEW r \in Proc, StepOf(r), ~overwrote'
  PROVE  CellsOK'
<1> USE DEF PlacingLabel, ApplyLabel, CellLabel
<1>0. /\ TypeInv /\ cells \in [Coord -> Cell] /\ Placers \subseteq Proc
      /\ r \in Placers => job[r] \in JobType
  BY DEF LockInv, TypeInv, TypeOK, Proc
<1>1. ASSUME NEW p \in Placers PROVE CellsOf(p)'
  BY CellsOthers, CellsSelf
<1>2. SUFFICES ASSUME NEW q \in Coord
               PROVE  cells'[q] = committed'[q] \/ \E p \in Placers : Writing(p, q)'
  BY <1>1 DEF CellsOK
<1>3. cells[q] = committed[q] \/ \E p \in Placers : Writing(p, q)
  BY DEF CellsOK
<1>4. ASSUME NEW p \in Placers \ {r}, Writing(p, q)
      PROVE  Writing(p, q)'
  BY <1>0, <1>4, OthersStay DEF Writing
<1>5. ASSUME r \in Placers, pc[r] \in ApplyLabel, job[r].todo # <<>>,
             \/ job'[r].todo = job[r].todo
             \/ job'[r].todo = Tail(job[r].todo) /\ q # Applying(r),
             pc'[r] \in ApplyLabel, Writing(r, q)
      PROVE  Writing(r, q)'
  <2>1. Range(job[r].todo) = {Applying(r)} \cup Range(Tail(job[r].todo))
    BY <1>5, ApplyingStone
  <2> QED BY <1>5, <2>1 DEF Writing
<1>6. CASE r \in Placers /\ Commit(r)
  <2>1. /\ pc[r] = "decide" /\ pc'[r] = "prev" /\ job'[r] = [job[r] EXCEPT !.todo = Changes(r)]
        /\ cells' = cells
    BY <1>0, <1>6, PlacingEffects DEF Commit, board
  <2>2. job'[r].todo = Changes(r) /\ job[r].at \in Coord /\ job[r].flips \in Seq(Coord)
    BY <1>0, <1>6, <2>1 DEF JobType
  <2>3. Range(job'[r].todo) = Stones(r)
    BY <2>2, ConsRange DEF Changes, Stones
  <2>4. CASE q \in Stones(r)
    BY <1>6, <2>1, <2>3, <2>4 DEF Writing
  <2>5. CASE q \notin Stones(r)
    <3>1. committed'[q] = committed[q]
      BY <1>6, <2>5 DEF Commit
    <3>2. ~Writing(r, q)
      BY <2>1 DEF Writing
    <3> QED BY <1>3, <1>4, <2>1, <3>1, <3>2
  <2> QED BY <2>4, <2>5
<1>7. CASE r \in Placers /\ StoreByte(r)
  <2>1. /\ pc[r] = "setstore" /\ pc'[r] = "prev" /\ job[r].todo # <<>>
        /\ job'[r] = [job[r] EXCEPT !.todo = Tail(@), !.image = <<>>]
    BY <1>0, <1>7, PlacingEffects
  <2>2. committed' = committed
    BY <1>7 DEF StoreByte, history
  <2>3. job'[r].todo = Tail(job[r].todo)
    BY <1>0, <1>7, <2>1 DEF JobType
  <2>4. /\ Applying(r) \in Stones(r)
        /\ cells' = cells \/ cells' = [cells EXCEPT ![Applying(r)] = TeamOf[r]]
    BY <1>7, <2>1, ApplyingStone, CellSteps
  <2>5. committed[Applying(r)] = TeamOf[r]
    BY <1>7, <2>1, <2>4 DEF CellsOK, CellsOf
  <2>6. CASE q = Applying(r)
    <3>1. cells'[q] = TeamOf[r]
      BY <1>7, <2>6 DEF StoreByte
    <3> QED BY <2>2, <2>5, <2>6, <3>1
  <2>7. CASE q # Applying(r)
    <3>1. cells'[q] = cells[q]
      BY <1>0, <2>4, <2>7
    <3>2. Writing(r, q) => Writing(r, q)'
      BY <1>5, <1>7, <2>1, <2>3, <2>7
    <3> QED BY <1>3, <1>4, <1>7, <2>2, <3>1, <3>2
  <2> QED BY <2>6, <2>7
<1>8. CASE r \in Placers /\ ReadPrev(r)
  <2>1. /\ pc[r] = "prev" /\ pc'[r] \in ApplyLabel /\ job[r].todo # <<>>
        /\ \/ job'[r] = [job[r] EXCEPT !.prev = cells[Applying(r)]]
           \/ /\ job'[r] = [job[r] EXCEPT !.prev = TeamOf[r], !.todo = Tail(@)]
              /\ cells[Applying(r)] = TeamOf[r]
    BY <1>0, <1>8, PlacingEffects
  <2>2. cells' = cells /\ committed' = committed
    BY <1>8 DEF ReadPrev, history, board
  <2>3. \/ job'[r].todo = job[r].todo
        \/ job'[r].todo = Tail(job[r].todo) /\ cells[Applying(r)] = TeamOf[r]
    BY <1>0, <1>8, <2>1 DEF JobType
  <2>4. committed[Applying(r)] = TeamOf[r]
    BY <1>8, <2>1, ApplyingStone DEF CellsOK, CellsOf
  <2>5. CASE q = Applying(r) /\ cells[q] = TeamOf[r]
    BY <2>2, <2>4, <2>5
  <2>6. CASE ~(q = Applying(r) /\ cells[q] = TeamOf[r])
    <3>1. Writing(r, q) => Writing(r, q)'
      BY <1>5, <1>8, <2>1, <2>3, <2>6
    <3> QED BY <1>3, <1>4, <1>8, <2>2, <3>1
  <2> QED BY <2>5, <2>6
<1>9. CASE ~(r \in Placers /\ (Commit(r) \/ StoreByte(r) \/ ReadPrev(r)))
  <2>1. cells' = cells /\ committed' = committed
    BY <1>9, BoardSteps
  <2>2. ASSUME r \in Placers, Writing(r, q)
        PROVE  Writing(r, q)'
    <3>1. CooldownPasses(r) \/ LoadCount(r) \/ StoreCount(r) \/ LoadByte(r) \/ Applied(r)
          \/ LoadVersion(r) \/ StoreVersion(r)
      BY <1>0, <1>9, <2>2, PlacingOnly DEF Writing
    <3>2. CASE CooldownPasses(r)
      BY <2>2, <3>2 DEF CooldownPasses, Writing
    <3>3. CASE LoadCount(r) \/ StoreCount(r) \/ LoadByte(r)
      BY <1>0, <2>2, <3>3, PlacingEffects DEF Writing, JobType
    <3>4. CASE Applied(r)
      BY <1>0, <2>2, <3>4, PlacingEffects, EmptyRange DEF Writing
    <3>5. CASE LoadVersion(r) \/ StoreVersion(r)
      BY <1>0, <2>2, <3>5, PlacingEffects DEF Writing
    <3> QED BY <3>1, <3>2, <3>3, <3>4, <3>5
  <2> QED BY <1>3, <1>4, <2>1, <2>2
<1> QED BY <1>6, <1>7, <1>8, <1>9

-----------------------------------------------------------------------------
(* Versions                                                                  *)

(* Who owes a chunk a bump of its version has it write-locked.              *)
LEMMA OwesHeld ==
  ASSUME LockInv, HoldsOK, FootOK, NEW p \in Placers, NEW c, Owes(p, c)
  PROVE  c \in WriteHeld(p)
BY OwnFoot DEF Owes, FootOK, PlacingLabel

(* Only deciding on a placement and storing a version change what a call    *)
(* owes.                                                                    *)
LEMMA OwesStay ==
  ASSUME TypeInv, NEW p \in Placers, StepOf(p), ~Commit(p), ~StoreVersion(p), NEW c
  PROVE  Owes(p, c)' <=> Owes(p, c)
<1> USE DEF PlacingLabel, ApplyLabel, CellLabel, BumpLabel
<1>0. job[p] \in JobType /\ p \in Proc
  BY DEF TypeInv, TypeOK, Proc
<1>1. CASE CooldownPasses(p)
  BY <1>1 DEF CooldownPasses, Owes, Updated
<1>2. CASE ReadPrev(p) \/ LoadCount(p) \/ StoreCount(p) \/ LoadByte(p) \/ StoreByte(p)
  <2>1. /\ pc[p] \in ApplyLabel /\ pc'[p] \in ApplyLabel
    BY <1>2, PlacingEffects
  <2>2. job'[p].at = job[p].at /\ job'[p].flips = job[p].flips
    <3>1. CASE ReadPrev(p)
      BY <1>0, <3>1, PlacingEffects DEF JobType
    <3>2. CASE LoadCount(p) \/ StoreCount(p)
      BY <1>0, <3>2, PlacingEffects DEF JobType
    <3>3. CASE LoadByte(p)
      <4>1. job'[p] = [job[p] EXCEPT !.image = [q \in ByteOf(Applying(p)) |-> cells[q]]]
        BY <3>3, PlacingEffects
      <4> QED BY <1>0, <4>1 DEF JobType
    <3>4. CASE StoreByte(p)
      <4>1. job'[p] = [job[p] EXCEPT !.todo = Tail(@), !.image = <<>>]
        BY <3>4, PlacingEffects
      <4> QED BY <1>0, <4>1 DEF JobType
    <3> QED BY <1>2, <3>1, <3>2, <3>3, <3>4
  <2> QED BY <2>1, <2>2 DEF Owes, Updated
<1>3. CASE Applied(p)
  BY <1>3, PlacingEffects DEF Owes, Updated
<1>4. CASE LoadVersion(p)
  <2>1. /\ pc[p] = "bumpload" /\ pc'[p] = "bumpstore" /\ need'[p] = need[p]
    BY <1>4, PlacingEffects
  <2> QED BY <2>1 DEF Owes
<1>5. CASE pc[p] \notin PlacingLabel /\ pc'[p] \notin PlacingLabel
  BY <1>5 DEF Owes
<1> QED BY <1>1, <1>2, <1>3, <1>4, <1>5, PlacingOnly, PlacingSteps, PlacingEffects

(* A version stays behind its placements by the one that has not bumped it. *)
LEMMA VersionsNext ==
  ASSUME LockInv, HoldsOK, FootOK, VersionOK, NEW r \in Proc, StepOf(r), ~overwrote'
  PROVE  VersionOK'
<1> USE DEF PlacingLabel, BumpLabel
<1>0. /\ TypeInv /\ version \in [Chunk -> Nat] /\ commits \in [Chunk -> Nat]
      /\ Placers \subseteq Proc
      /\ r \in Placers => job[r] \in JobType
  BY DEF LockInv, TypeInv, TypeOK, Proc
<1>9. \A p \in Placers : p # r => pc'[p] = pc[p] /\ need'[p] = need[p] /\ job'[p] = job[p]
  BY <1>0, OthersStay
<1>1. ASSUME NEW p \in Placers \ {r}, NEW c
      PROVE  /\ Owes(p, c)' <=> Owes(p, c)
             /\ Owes(p, c) => c \notin WriteHeld(r)
  <2>1. Owes(p, c)' <=> Owes(p, c)
    BY <1>9 DEF Owes, Updated
  <2>2. p \in Proc /\ p # r /\ p \in Placers
    BY <1>0
  <2>3. WriteHeld(r) \cap Held(p) = {} /\ WriteHeld(p) \subseteq Held(p)
    BY <2>2, Exclusive
  <2> QED BY <2>1, <2>2, <2>3, OwesHeld
<1>2. /\ \A c \in Chunk : (\A p \in Placers : ~Owes(p, c)) => version[c] = commits[c]
      /\ \A c \in Chunk : \A p \in Placers : Owes(p, c) => version[c] + 1 = commits[c]
      /\ \A p \in Placers : pc[p] = "bumpstore" => job[p].loaded = version[Min(need[p])]
  BY DEF VersionOK
<1>3. ASSUME NEW p \in Proc, pc[p] \in BumpLabel
      PROVE  need[p] # {} /\ Min(need[p]) \in need[p] /\ Min(need[p]) \in Chunk
  BY <1>0, <1>3, NextLockType
<1>4. CASE r \in Placers /\ Commit(r)
  <2>1. /\ pc[r] = "decide" /\ pc'[r] = "prev" /\ version' = version
        /\ job'[r] = [job[r] EXCEPT !.todo = Changes(r)]
    BY <1>0, <1>4, PlacingEffects DEF Commit, board
  <2>2. Updated(r)' = Updated(r)
    BY <1>0, <1>4, <2>1 DEF Updated, JobType
  <2>3. \A c : ~Owes(r, c) /\ (Owes(r, c)' <=> c \in Updated(r))
    BY <2>1, <2>2 DEF Owes, ApplyLabel, CellLabel
  <2>4. \A c \in Updated(r) : c \in WriteHeld(r)
    BY <1>4, CommitSteps
  <2>5. \A c \in Chunk : commits'[c] = commits[c] + IF c \in Updated(r) THEN 1 ELSE 0
    BY <1>4 DEF Commit, Updated
  <2>6. ASSUME NEW c \in Chunk
        PROVE  /\ (\A p \in Placers : ~Owes(p, c)') => version'[c] = commits'[c]
               /\ \A p \in Placers : Owes(p, c)' => version'[c] + 1 = commits'[c]
    <3>1. CASE c \in Updated(r)
      <4>1. \A p \in Placers : ~Owes(p, c)
        BY <1>1, <2>3, <2>4, <3>1
      <4>2. version[c] = commits[c] /\ Owes(r, c)'
        BY <1>2, <2>3, <3>1, <4>1
      <4> QED BY <1>0, <1>4, <2>1, <2>5, <3>1, <4>2
    <3>2. CASE c \notin Updated(r)
      <4>1. \A p \in Placers : Owes(p, c)' <=> Owes(p, c)
        BY <1>1, <2>3, <3>2
      <4>2. commits'[c] = commits[c]
        BY <1>0, <2>5, <3>2
      <4> QED BY <1>2, <2>1, <4>1, <4>2
    <3> QED BY <3>1, <3>2
  <2>7. ASSUME NEW p \in Placers, pc'[p] = "bumpstore"
        PROVE  job'[p].loaded = version'[Min(need'[p])]
    <3>1. p # r
      BY <2>1, <2>7
    <3> QED BY <1>0, <1>2, <2>1, <2>7, <3>1, <1>9
  <2> QED BY <2>6, <2>7 DEF VersionOK
<1>5. CASE r \in Placers /\ StoreVersion(r)
  <2> DEFINE m == Min(need[r])
  <2>1. /\ pc[r] = "bumpstore" /\ need'[r] = need[r] \ {m}
        /\ pc'[r] = IF need'[r] = {} THEN "unlock" ELSE "bumpload"
        /\ job'[r] = job[r] /\ commits' = commits
        /\ version' = [version EXCEPT ![m] = job[r].loaded + 1]
    BY <1>0, <1>5, PlacingEffects DEF StoreVersion, history
  <2>2. m \in need[r] /\ m \in Chunk
    BY <1>0, <1>3, <1>5, <2>1
  <2>3. job[r].loaded = version[m]
    BY <1>2, <1>5, <2>1
  <2> HIDE DEF m
  <2>4. \A c \in Chunk : version'[c] = IF c = m THEN version[m] + 1 ELSE version[c]
    BY <1>0, <2>1, <2>2, <2>3
  <2>5. \A c : (Owes(r, c)' <=> c \in need[r] \ {m}) /\ (Owes(r, c) <=> c \in need[r])
    BY <2>1, <2>2 DEF Owes, ApplyLabel, CellLabel
  <2>6. m \in WriteHeld(r)
    BY <1>5, <2>2, <2>5, OwesHeld
  <2>7. ASSUME NEW c \in Chunk
        PROVE  /\ (\A p \in Placers : ~Owes(p, c)') => version'[c] = commits'[c]
               /\ \A p \in Placers : Owes(p, c)' => version'[c] + 1 = commits'[c]
    <3>1. CASE c = m
      <4>1. version[m] + 1 = commits[m]
        BY <1>2, <1>5, <2>2, <2>5
      <4>2. \A p \in Placers : ~Owes(p, c)'
        BY <1>1, <2>5, <2>6, <3>1
      <4> QED BY <2>1, <2>4, <3>1, <4>1, <4>2
    <3>2. CASE c # m
      <4>1. \A p \in Placers : Owes(p, c)' <=> Owes(p, c)
        BY <1>1, <2>5, <3>2
      <4> QED BY <1>2, <2>1, <2>4, <3>2, <4>1
    <3> QED BY <3>1, <3>2
  <2>8. ASSUME NEW p \in Placers, pc'[p] = "bumpstore"
        PROVE  job'[p].loaded = version'[Min(need'[p])]
    <3>1. p # r
      BY <2>1, <2>8
    <3>2. pc[p] = "bumpstore" /\ job'[p] = job[p] /\ need'[p] = need[p]
      BY <1>0, <2>8, <3>1, <1>9
    <3>3. Min(need[p]) \in Chunk /\ Owes(p, Min(need[p]))
      BY <1>0, <1>3, <3>2 DEF Owes
    <3>4. Min(need[p]) # m
      BY <1>1, <2>6, <3>1, <3>3
    <3> QED BY <1>2, <2>4, <3>2, <3>3, <3>4
  <2> QED BY <2>7, <2>8 DEF VersionOK
<1>6. CASE ~(r \in Placers /\ (Commit(r) \/ StoreVersion(r)))
  <2>1. version' = version /\ commits' = commits
    BY <1>6, BoardSteps
  <2>2. \A p \in Placers, c \in Chunk : Owes(p, c)' <=> Owes(p, c)
    BY <1>0, <1>1, <1>6, OwesStay
  <2>3. ASSUME NEW p \in Placers, pc'[p] = "bumpstore"
        PROVE  job'[p].loaded = version'[Min(need'[p])]
    <3>1. CASE p # r
      BY <1>0, <1>2, <2>1, <2>3, <3>1, <1>9
    <3>2. CASE p = r
      <4>1. CooldownPasses(r) \/ LoadVersion(r)
        BY <1>0, <1>6, <2>3, <3>2, PlacingSteps, PlacingEffects
      <4>2. CASE CooldownPasses(r)
        BY <1>2, <2>1, <2>3, <4>2 DEF CooldownPasses
      <4>3. CASE LoadVersion(r)
        <5>1. /\ need'[r] = need[r]
              /\ job'[r] = [job[r] EXCEPT !.loaded = version[Min(need[r])]]
          BY <1>0, <3>2, <4>3, PlacingEffects
        <5> QED BY <1>0, <2>1, <3>2, <5>1 DEF JobType
      <4> QED BY <4>1, <4>2, <4>3
    <3> QED BY <3>1, <3>2
  <2> QED BY <1>2, <2>1, <2>2, <2>3 DEF VersionOK
<1> QED BY <1>4, <1>5, <1>6

-----------------------------------------------------------------------------
(* Counters that wrap                                                        *)

(* A number that is r more than a multiple of the modulus leaves r.         *)
LEMMA ModUnique ==
  ASSUME NEW M \in Nat \ {0}, NEW a \in Int, NEW q \in Int, NEW r \in 0 .. M - 1,
         a = q * M + r
  PROVE  a % M = r
<1> DEFINE n == a \div M
           m == a % M
<1>1. n \in Int /\ m \in 0 .. M - 1 /\ a = n * M + m
  OBVIOUS
<1> HIDE DEF n, m
<1>2. (q - n) * M = m - r
  BY <1>1
<1>3. CASE q - n >= 1
  <2>1. (q - n) * M >= 1 * M
    BY <1>1, <1>3
  <2> QED BY <1>1, <1>2, <2>1
<1>4. CASE n - q >= 1
  <2>1. (n - q) * M >= 1 * M
    BY <1>1, <1>4
  <2>2. (n - q) * M = r - m
    BY <1>1
  <2> QED BY <1>1, <2>1, <2>2
<1>5. CASE q = n
  BY <1>1, <1>5 DEF m
<1> QED BY <1>1, <1>3, <1>4, <1>5

(* Reducing before an addition changes nothing.                             *)
LEMMA ModPlus ==
  ASSUME NEW M \in Nat \ {0}, NEW a \in Int, NEW k \in Int
  PROVE  ((a % M) + k) % M = (a + k) % M
<1> DEFINE n == a \div M
           m == a % M
           i == (m + k) \div M
           j == (m + k) % M
<1>1. n \in Int /\ m \in 0 .. M - 1 /\ a = n * M + m
  OBVIOUS
<1> HIDE DEF n, m
<1>2. i \in Int /\ j \in 0 .. M - 1 /\ m + k = i * M + j
  BY <1>1
<1> HIDE DEF i, j
<1>3. (n + i) * M = n * M + i * M
  BY <1>1, <1>2
<1>4. a + k = (n + i) * M + j /\ n + i \in Int /\ a + k \in Int
  BY <1>1, <1>2, <1>3
<1>5. (a + k) % M = j
  BY <1>2, <1>4, ModUnique
<1> QED BY <1>5 DEF j, m

(* Adding one less than the modulus takes one away.                         *)
LEMMA ModMinus ==
  ASSUME NEW M \in Nat \ {0}, NEW a \in Int
  PROVE  ((a % M) + (M - 1)) % M = (a - 1) % M
<1> DEFINE n == (a - 1) \div M
           m == (a - 1) % M
<1>1. n \in Int /\ m \in 0 .. M - 1 /\ a - 1 = n * M + m
  OBVIOUS
<1> HIDE DEF n, m
<1>2. (n + 1) * M = n * M + M
  BY <1>1
<1>3. a + (M - 1) = (n + 1) * M + m /\ n + 1 \in Int /\ a + (M - 1) \in Int
  BY <1>1, <1>2
<1>4. (a + (M - 1)) % M = m
  BY <1>1, <1>3, ModUnique
<1>5. ASSUME NEW k \in Int PROVE ((a % M) + k) % M = (a + k) % M
  BY ModPlus
<1>6. M - 1 \in Int
  OBVIOUS
<1>7. ((a % M) + (M - 1)) % M = (a + (M - 1)) % M
  BY <1>5, <1>6
<1> QED BY <1>4, <1>7 DEF m

(* Adding one to a reduced number counts on.                                *)
LEMMA ModNext ==
  ASSUME NEW M \in Nat \ {0}, NEW a \in Int
  PROVE  ((a % M) + 1) % M = (a + 1) % M
<1>1. ASSUME NEW k \in Int PROVE ((a % M) + k) % M = (a + k) % M
  BY ModPlus
<1> QED BY <1>1

(* Setting one cell adds a stone to one tally of its chunk and takes one    *)
(* from another.                                                            *)
LEMMA TallySet ==
  ASSUME NEW b \in [Coord -> Cell], NEW q \in Coord, NEW u \in Cell, b[q] # u,
         NEW b2, \A x \in Coord : b2[x] = IF x = q THEN u ELSE b[x], NEW c, NEW t
  PROVE  Tally(b2, c, t) =
           Tally(b, c, t) + (IF c # ChunkOf(q) THEN 0
                             ELSE IF t = u THEN 1 ELSE IF t = b[q] THEN -1 ELSE 0)
<1> DEFINE S  == {x \in Coord : ChunkOf(x) = c /\ b[x] = t}
           S2 == {x \in Coord : ChunkOf(x) = c /\ b2[x] = t}
<1>1. Tally(b, c, t) = Cardinality(S) /\ Tally(b2, c, t) = Cardinality(S2)
  BY DEF Tally
<1>2. IsFiniteSet(S) /\ Cardinality(S) \in Nat
  <2>1. IsFiniteSet(Axis)
    BY GeometryAssumption, FS_Interval DEF Axis
  <2>2. IsFiniteSet(Coord)
    BY <2>1, FS_Product DEF Coord
  <2>3. IsFiniteSet(S)
    BY <2>2, FS_Subset
  <2> QED BY <2>3, FS_CardinalityType
<1>4. CASE c = ChunkOf(q) /\ t = u
  <2>1. S2 = S \cup {q} /\ q \notin S
    BY <1>4
  <2> HIDE DEF S, S2
  <2>2. Cardinality(S2) = Cardinality(S) + 1
    BY <1>2, <2>1, FS_AddElement
  <2> QED BY <1>1, <1>2, <1>4, <2>2
<1>5. CASE c = ChunkOf(q) /\ t # u /\ t = b[q]
  <2>1. S2 = S \ {q} /\ q \in S
    BY <1>5
  <2> HIDE DEF S, S2
  <2>2. Cardinality(S2) = Cardinality(S) - 1
    BY <1>2, <2>1, FS_RemoveElement
  <2> QED BY <1>1, <1>2, <1>5, <2>2
<1>6. CASE c # ChunkOf(q) \/ (t # u /\ t # b[q])
  <2>1. S2 = S
    BY <1>6
  <2> QED BY <1>1, <1>2, <1>6, <2>1
<1> QED BY <1>4, <1>5, <1>6

(* Who is changing the counters of a chunk has it write-locked.             *)
LEMMA CountingHeld ==
  ASSUME LockInv, HoldsOK, FootOK, NEW p \in Placers, NEW c, Counting(p, c)
  PROVE  /\ c \in WriteHeld(p) /\ c \in Chunk
         /\ Applying(p) \in Coord /\ Applying(p) \in Stones(p) /\ job[p].todo # <<>>
<1>1. pc[p] \in CellLabel /\ pc[p] \in ApplyLabel /\ pc[p] \in PlacingLabel
  BY DEF Counting, ApplyLabel, PlacingLabel
<1>2. job[p].todo # <<>>
  BY <1>1 DEF LockInv, TypeInv, ControlOK, LocalsOK
<1> QED BY <1>1, <1>2, OwnFoot, ApplyingStone, ChunkOfType DEF Counting

(* The counters and the stones stay as they are, and the step begins to     *)
(* change a chunk, or goes on with the same lead.                           *)
LEMMA CountFrame ==
  ASSUME LockInv, HoldsOK, FootOK, NEW r \in Proc, StepOf(r),
         NEW c \in Chunk, CountsOf(c), UNCHANGED <<counts[c], Tally(cells, c, Black), Tally(cells, c, White)>>,
         r \in Placers =>
           \/ ~Counting(r, c) /\ ~Counting(r, c)'
           \/ Counting(r, c) /\ Counting(r, c)' /\ \A t \in Team : Lead(r, t)' = Lead(r, t)
           \/ ~Counting(r, c) /\ c \in WriteHeld(r) /\ Counting(r, c)' /\ \A t \in Team : Lead(r, t)' = 0
  PROVE  CountsOf(c)'
<1>0. TypeInv /\ Placers \subseteq Proc
  BY DEF LockInv, Proc
<1>1. \A p \in Placers : p # r => pc'[p] = pc[p] /\ job'[p] = job[p]
  BY <1>0, OthersStay
<1>2. \A p \in Placers : p # r =>
        (Counting(p, c)' <=> Counting(p, c)) /\ \A t \in Team : Lead(p, t)' = Lead(p, t)
  BY <1>1 DEF Counting, Lead, Applying
<1>3. \A t \in Team : counts'[c][t] = counts[c][t] /\ Tally(cells', c, t) = Tally(cells, c, t)
  BY DEF Team
<1>4. \A t \in Team : Tally(cells, c, t) \in Nat
  BY TallyType
<1>5. ASSUME r \in Placers, ~Counting(r, c), c \in WriteHeld(r), NEW p \in Placers
      PROVE  ~Counting(p, c)
  <2>1. CASE p = r
    BY <1>5, <2>1
  <2>2. CASE p # r
    BY <1>0, <1>5, <2>2, CountingHeld, Exclusive
  <2> QED BY <2>1, <2>2
<1>6. ASSUME NEW t \in Team
      PROVE  /\ (\A p \in Placers : ~Counting(p, c)') => counts'[c][t] = Tally(cells', c, t) % CountModulus
             /\ \A p \in Placers : Counting(p, c)' =>
                  counts'[c][t] = (Tally(cells', c, t) + Lead(p, t)') % CountModulus
  <2>1. CASE r \in Placers /\ ~Counting(r, c) /\ c \in WriteHeld(r) /\ Counting(r, c)'
             /\ \A u \in Team : Lead(r, u)' = 0
    <3>1. counts[c][t] = Tally(cells, c, t) % CountModulus
      BY <1>5, <2>1 DEF CountsOf
    <3>2. \A p \in Placers : Counting(p, c)' => p = r
      BY <1>2, <1>5, <2>1
    <3>3. Tally(cells, c, t) + 0 = Tally(cells, c, t)
      BY <1>4
    <3> QED BY <1>3, <2>1, <3>1, <3>2, <3>3
  <2>2. CASE \A p \in Placers : /\ Counting(p, c)' <=> Counting(p, c)
                                /\ Counting(p, c) => Lead(p, t)' = Lead(p, t)
    <3>1. /\ (\A p \in Placers : ~Counting(p, c)) => counts[c][t] = Tally(cells, c, t) % CountModulus
          /\ \A p \in Placers :
               Counting(p, c) => counts[c][t] = (Tally(cells, c, t) + Lead(p, t)) % CountModulus
      BY DEF CountsOf
    <3> QED BY <1>3, <2>2, <3>1
  <2> QED BY <1>2, <2>1, <2>2
<1> QED BY <1>6 DEF CountsOf

(* Only storing a byte and storing a counter change the lead of a placement *)
(* that goes on with a cell; a cell it begins with has none.                *)
LEMMA CountingStays ==
  ASSUME LockInv, HoldsOK, FootOK, NEW p \in Placers, StepOf(p), ~StoreByte(p), ~StoreCount(p),
         NEW c \in Chunk
  PROVE  \/ ~Counting(p, c) /\ ~Counting(p, c)'
         \/ Counting(p, c) /\ Counting(p, c)' /\ \A t \in Team : Lead(p, t)' = Lead(p, t)
         \/ ~Counting(p, c) /\ c \in WriteHeld(p) /\ Counting(p, c)' /\ \A t \in Team : Lead(p, t)' = 0
<1> USE DEF PlacingLabel, ApplyLabel, CellLabel, BumpLabel
<1>0. job[p] \in JobType /\ p \in Proc /\ TypeInv /\ TeamOf[p] \in Team
  BY PlacementAssumption DEF LockInv, TypeInv, TypeOK, Proc
<1>1. CASE CooldownPasses(p)
  BY <1>1 DEF CooldownPasses, Counting, Lead, Applying
<1>2. CASE ReadPrev(p)
  <2>1. /\ pc[p] = "prev" /\ job[p].todo # <<>>
        /\ \/ pc'[p] = "prev"
           \/ /\ pc'[p] = IF cells[Applying(p)] = Empty THEN "incload" ELSE "decload"
              /\ job'[p] = [job[p] EXCEPT !.prev = cells[Applying(p)]]
    BY <1>0, <1>2, PlacingEffects
  <2>2. ~Counting(p, c)
    BY <2>1 DEF Counting
  <2>3. CASE pc'[p] = "prev"
    BY <2>2, <2>3 DEF Counting
  <2>4. CASE pc'[p] # "prev"
    <3>1. job'[p].todo = job[p].todo /\ job'[p].prev = cells[Applying(p)]
      BY <1>0, <2>1, <2>4 DEF JobType
    <3>2. ChunkOf(Applying(p)) \in WriteHeld(p)
      BY <1>0, <2>1, ApplyingStone, OwnFoot
    <3>3. Applying(p)' = Applying(p)
      BY <3>1 DEF Applying
    <3>4. \A t \in Team : Lead(p, t)' = 0
      BY <2>1, <2>4, <3>1 DEF Lead, Team, Empty, Black, White
    <3> QED BY <2>2, <3>2, <3>3, <3>4 DEF Counting
  <2> QED BY <2>3, <2>4
<1>3. CASE LoadCount(p)
  <2>1. /\ \/ pc[p] = "decload" /\ pc'[p] = "decstore"
           \/ pc[p] = "incload" /\ pc'[p] = "incstore"
        /\ job'[p].todo = job[p].todo /\ job'[p].prev = job[p].prev
    BY <1>0, <1>3, PlacingEffects DEF JobType
  <2> QED BY <2>1 DEF Counting, Lead, Applying
<1>4. CASE LoadByte(p)
  <2>1. /\ pc[p] = "setload" /\ pc'[p] = "setstore"
        /\ job'[p] = [job[p] EXCEPT !.image = [q \in ByteOf(Applying(p)) |-> cells[q]]]
    BY <1>0, <1>4, PlacingEffects
  <2>2. job'[p].todo = job[p].todo /\ job'[p].prev = job[p].prev
    BY <1>0, <2>1 DEF JobType
  <2> QED BY <2>1, <2>2 DEF Counting, Lead, Applying
<1>5. CASE Commit(p) \/ Applied(p) \/ LoadVersion(p) \/ StoreVersion(p)
  <2>1. pc[p] \notin CellLabel /\ pc'[p] \notin CellLabel
    BY <1>0, <1>5, PlacingEffects
  <2> QED BY <2>1 DEF Counting
<1>6. CASE pc[p] \notin PlacingLabel /\ pc'[p] \notin PlacingLabel
  BY <1>6 DEF Counting
<1> QED BY <1>0, <1>1, <1>2, <1>3, <1>4, <1>5, <1>6, PlacingOnly, PlacingSteps

(* A counter stays ahead of, or behind, its stones by what is under way.    *)
LEMMA CountsNext ==
  ASSUME LockInv, HoldsOK, FootOK, CellsOK, CountOK, NEW r \in Proc, StepOf(r), ~overwrote',
         NEW c \in Chunk
  PROVE  CountsOf(c)'
<1> USE DEF PlacingLabel, ApplyLabel, CellLabel
<1>0. /\ TypeInv /\ Placers \subseteq Proc /\ CountsOf(c)
      /\ cells \in [Coord -> Cell] /\ counts \in [Chunk -> [Team -> 0 .. CountModulus - 1]]
      /\ r \in Placers => job[r] \in JobType /\ TeamOf[r] \in Team /\ TeamOf[r] \in Cell
      /\ CountModulus \in Nat \ {0}
      /\ \A t \in Team : Tally(cells, c, t) \in Nat
  BY PlacementAssumption, TallyType DEF LockInv, TypeInv, TypeOK, Proc, CountOK, Cell
<1>1. \A p \in Placers : p # r => pc'[p] = pc[p] /\ job'[p] = job[p]
  BY <1>0, OthersStay
<1>2. \A p \in Placers : p # r =>
        (Counting(p, c)' <=> Counting(p, c)) /\ \A t \in Team : Lead(p, t)' = Lead(p, t)
  BY <1>1 DEF Counting, Lead, Applying
<1>3. ASSUME NEW p \in Placers, p # r, c \in WriteHeld(r)
      PROVE  ~Counting(p, c)
  BY <1>0, <1>3, CountingHeld, Exclusive
<1>4. CASE r \in Placers /\ StoreByte(r)
  <2>1. /\ pc[r] = "setstore" /\ pc'[r] = "prev" /\ job[r].todo # <<>> /\ counts' = counts
    BY <1>0, <1>4, PlacingEffects DEF StoreByte
  <2>2. /\ Applying(r) \in Coord /\ ChunkOf(Applying(r)) \in WriteHeld(r)
        /\ cells' = [cells EXCEPT ![Applying(r)] = TeamOf[r]]
        /\ job[r].prev = cells[Applying(r)] /\ job[r].prev # TeamOf[r]
    <3>1. Applying(r) \in Coord /\ ChunkOf(Applying(r)) \in WriteHeld(r)
      BY <1>4, <2>1, ApplyingStone, OwnFoot
    <3>2. /\ job[r].prev = cells[Applying(r)] /\ job[r].prev # TeamOf[r]
          /\ \A q \in ByteOf(Applying(r)) : job[r].image[q] = cells[q]
      BY <1>4, <2>1 DEF CellsOK, CellsOf
    <3>3. cells' = [cells EXCEPT ![Applying(r)] = TeamOf[r]]
      BY <1>0, <1>4, <3>1, <3>2 DEF StoreByte
    <3> QED BY <3>1, <3>2, <3>3
  <2>3. ~Counting(r, c)'
    BY <2>1 DEF Counting
  <2>4. \A t \in Team : Tally(cells', c, t) =
          Tally(cells, c, t) + (IF c # ChunkOf(Applying(r)) THEN 0
                                ELSE IF t = TeamOf[r] THEN 1
                                ELSE IF t = job[r].prev THEN -1 ELSE 0)
    <3> DEFINE q == Applying(r)
    <3>1. /\ q \in Coord /\ TeamOf[r] \in Cell /\ cells[q] = job[r].prev /\ cells[q] # TeamOf[r]
          /\ \A x \in Coord : cells'[x] = IF x = q THEN TeamOf[r] ELSE cells[x]
          /\ cells \in [Coord -> Cell]
      BY <1>0, <1>4, <2>2
    <3> HIDE DEF q
    <3>2. \A t \in Team : Tally(cells', c, t) =
            Tally(cells, c, t) + (IF c # ChunkOf(q) THEN 0
                                  ELSE IF t = TeamOf[r] THEN 1 ELSE IF t = cells[q] THEN -1 ELSE 0)
      BY <3>1, TallySet
    <3> QED BY <3>1, <3>2 DEF q
  <2>5. CASE c # ChunkOf(Applying(r))
    <3>1. \A t \in Team : Tally(cells', c, t) = Tally(cells, c, t)
      BY <1>0, <2>4, <2>5
    <3>2. ~Counting(r, c)
      BY <2>5 DEF Counting
    <3> QED BY <1>0, <1>4, <2>1, <2>3, <3>1, <3>2, CountFrame DEF Team
  <2>6. CASE c = ChunkOf(Applying(r))
    <3>1. Counting(r, c) /\ \A t \in Team : Tally(cells', c, t) = Tally(cells, c, t) + Lead(r, t)
      BY <2>1, <2>2, <2>4, <2>6 DEF Counting, Lead
    <3>2. \A t \in Team : counts[c][t] = (Tally(cells, c, t) + Lead(r, t)) % CountModulus
      BY <1>0, <1>4, <3>1 DEF CountsOf
    <3>3. \A p \in Placers : ~Counting(p, c)'
      BY <1>2, <1>3, <2>2, <2>3, <2>6
    <3> QED BY <2>1, <3>1, <3>2, <3>3 DEF CountsOf
  <2> QED BY <2>5, <2>6
<1>5. CASE r \in Placers /\ StoreCount(r)
  <2>0. PICK d, k : d = ChunkOf(Applying(r)) /\ k = Counter(r)
    OBVIOUS
  <2>1. /\ \/ pc[r] = "decstore" /\ pc'[r] = "incload"
           \/ pc[r] = "incstore" /\ pc'[r] = "setload"
        /\ job'[r] = job[r] /\ cells' = cells
    BY <1>0, <1>5, PlacingEffects DEF StoreCount
  <2>2. Counting(r, d) /\ d \in WriteHeld(r) /\ d \in Chunk
    BY <1>5, <2>0, <2>1, CountingHeld DEF Counting
  <2>3. /\ k \in Team /\ job[r].loaded = counts[d][k] /\ job[r].prev # TeamOf[r]
        /\ k = IF pc[r] = "decstore" THEN job[r].prev ELSE TeamOf[r]
    <3>1. pc[r] = "decstore" => job[r].prev \in Team
      BY <1>0, <1>5 DEF TypeInv, ControlOK, LocalsOK
    <3>2. k = IF pc[r] = "decstore" THEN job[r].prev ELSE TeamOf[r]
      BY <2>0, <2>1 DEF Counter
    <3>3. job[r].loaded = counts[d][k]
      BY <1>5, <2>0, <2>1 DEF CountOK
    <3>4. job[r].prev # TeamOf[r]
      BY <1>5, <2>1 DEF CellsOK, CellsOf
    <3> QED BY <1>0, <1>5, <3>1, <3>2, <3>3, <3>4
  <2>4. counts' = [counts EXCEPT ![d][k] =
          (job[r].loaded + IF pc[r] = "decstore" THEN CountModulus - 1 ELSE 1) % CountModulus]
    BY <1>5, <2>0 DEF StoreCount
  <2>5. Counting(r, c)' <=> Counting(r, c)
    BY <2>1 DEF Counting, Applying
  <2>6. Counting(r, c) <=> c = d
    BY <2>0, <2>2 DEF Counting
  <2>7. CASE c # d
    <3>1. counts'[c] = counts[c]
      BY <1>0, <2>4, <2>7
    <3> QED BY <1>0, <2>1, <2>5, <2>6, <2>7, <3>1, CountFrame
  <2>8. CASE c = d
    <3>1. \A t \in Team : counts[c][t] = (Tally(cells, c, t) + Lead(r, t)) % CountModulus
      BY <1>0, <1>5, <2>2, <2>8 DEF CountsOf
    <3>2. \A t \in Team : t # k => Lead(r, t)' = Lead(r, t)
      BY <2>1, <2>3 DEF Lead
    <3>3. /\ pc[r] = "decstore" => Lead(r, k) = 0 /\ Lead(r, k)' = 0 - 1
          /\ pc[r] # "decstore" => Lead(r, k) = 0 /\ Lead(r, k)' = 1
      <4>1. CASE pc[r] = "decstore"
        <5>1. pc'[r] = "incload" /\ job'[r].prev = job[r].prev /\ k = job[r].prev /\ k # TeamOf[r]
          BY <2>1, <2>3, <4>1
        <5> QED BY <4>1, <5>1 DEF Lead
      <4>2. CASE pc[r] # "decstore"
        <5>1. pc[r] = "incstore" /\ pc'[r] = "setload" /\ job'[r].prev = job[r].prev
              /\ k = TeamOf[r] /\ k # job[r].prev
          BY <2>1, <2>3, <4>2
        <5> QED BY <4>2, <5>1 DEF Lead
      <4> QED BY <4>1, <4>2
    <3>4. /\ \A t \in Team : t # k => counts'[c][t] = counts[c][t]
          /\ counts'[c][k] = (counts[c][k] + IF pc[r] = "decstore" THEN CountModulus - 1 ELSE 1) % CountModulus
      BY <1>0, <2>3, <2>4, <2>8
    <3>5. counts[c][k] = Tally(cells, c, k) % CountModulus /\ Tally(cells, c, k) \in Nat
      <4>1. Tally(cells, c, k) \in Nat
        BY <1>0, <2>3
      <4>2. Tally(cells, c, k) + 0 = Tally(cells, c, k)
        BY <4>1
      <4> QED BY <2>3, <3>1, <3>3, <4>1, <4>2
    <3>6. counts'[c][k] = (Tally(cells, c, k) + Lead(r, k)') % CountModulus
      <4> DEFINE n == Tally(cells, c, k)
      <4>1. n \in Nat /\ counts[c][k] = n % CountModulus
        BY <3>5
      <4> HIDE DEF n
      <4>2. CASE pc[r] = "decstore"
        <5>1. counts'[c][k] = ((n % CountModulus) + (CountModulus - 1)) % CountModulus
          BY <3>4, <4>1, <4>2
        <5>2. counts'[c][k] = (n - 1) % CountModulus
          BY <1>0, <4>1, <5>1, ModMinus
        <5>3. n - 1 = n + (0 - 1)
          BY <4>1
        <5> QED BY <3>3, <4>2, <5>2, <5>3 DEF n
      <4>3. CASE pc[r] # "decstore"
        <5>1. counts'[c][k] = ((n % CountModulus) + 1) % CountModulus
          BY <3>4, <4>1, <4>3
        <5>2. ((n % CountModulus) + 1) % CountModulus = (n + 1) % CountModulus
          BY <4>1, PlacementAssumption, ModNext
        <5> QED BY <3>3, <4>3, <5>1, <5>2 DEF n
      <4> QED BY <4>2, <4>3
    <3>7. \A t \in Team : counts'[c][t] = (Tally(cells, c, t) + Lead(r, t)') % CountModulus
      <4> TAKE t \in Team
      <4>1. CASE t = k
        BY <3>6, <4>1
      <4>2. CASE t # k
        BY <3>1, <3>2, <3>4, <4>2
      <4> QED BY <4>1, <4>2
    <3>8. \A p \in Placers : Counting(p, c)' => p = r
      BY <1>2, <1>3, <2>2, <2>8
    <3>9. Counting(r, c)'
      BY <2>5, <2>6, <2>8
    <3> QED BY <1>5, <2>1, <3>7, <3>8, <3>9 DEF CountsOf
  <2> QED BY <2>7, <2>8
<1>6. CASE ~(r \in Placers /\ (StoreByte(r) \/ StoreCount(r)))
  <2>1. cells' = cells /\ counts' = counts
    BY <1>6, BoardSteps
  <2>2. r \in Placers =>
           \/ ~Counting(r, c) /\ ~Counting(r, c)'
           \/ Counting(r, c) /\ Counting(r, c)' /\ \A t \in Team : Lead(r, t)' = Lead(r, t)
           \/ ~Counting(r, c) /\ c \in WriteHeld(r) /\ Counting(r, c)' /\ \A t \in Team : Lead(r, t)' = 0
    BY <1>6, CountingStays
  <2> QED BY <1>0, <2>1, <2>2, CountFrame
<1> QED BY <1>4, <1>5, <1>6

(* A counter that has been loaded is not changed before it is stored.       *)
LEMMA LoadedNext ==
  ASSUME LockInv, HoldsOK, FootOK, CountOK, NEW r \in Proc, StepOf(r),
         NEW p \in Placers, pc'[p] \in {"decstore", "incstore"}
  PROVE  job'[p].loaded = counts'[ChunkOf(Applying(p)')][Counter(p)']
<1>0. /\ TypeInv /\ Placers \subseteq Proc /\ job[p] \in JobType
      /\ counts \in [Chunk -> [Team -> 0 .. CountModulus - 1]]
  BY DEF LockInv, TypeInv, TypeOK, Proc
<1>1. CASE p # r
  <2>1. pc'[p] = pc[p] /\ job'[p] = job[p]
    BY <1>0, <1>1, OthersStay
  <2>2. Applying(p)' = Applying(p) /\ Counter(p)' = Counter(p)
    BY <2>1 DEF Applying, Counter
  <2>3. PICK c : c = ChunkOf(Applying(p)) /\ Counting(p, c)
    BY <2>1 DEF Counting, CellLabel
  <2>4. c \in WriteHeld(p) /\ c \in Chunk
    BY <2>3, CountingHeld
  <2>5. counts'[c] = counts[c]
    <3>1. CASE counts' = counts
      BY <3>1
    <3>2. CASE r \in Placers /\ StoreCount(r)
      <4>1. PICK d : d = ChunkOf(Applying(r)) /\ Counting(r, d)
        BY <3>2 DEF Counting, CellLabel, StoreCount
      <4>2. d \in WriteHeld(r)
        BY <3>2, <4>1, CountingHeld
      <4>3. c # d
        BY <1>0, <1>1, <2>4, <4>2, Exclusive
      <4> QED BY <1>0, <2>4, <3>2, <4>1, <4>3 DEF StoreCount
    <3> QED BY <3>1, <3>2, BoardSteps
  <2> QED BY <2>1, <2>2, <2>3, <2>5 DEF CountOK
<1>2. CASE p = r
  <2>1. CooldownPasses(p) \/ LoadCount(p)
    <3>1. pc'[p] \in PlacingLabel
      BY DEF PlacingLabel, ApplyLabel, CellLabel
    <3>2. ~Commit(p) /\ ~ReadPrev(p) /\ ~StoreCount(p) /\ ~LoadByte(p)
      BY <1>0, PlacingEffects
    <3>3. ~StoreByte(p) /\ ~Applied(p) /\ ~LoadVersion(p) /\ ~StoreVersion(p)
      BY <1>0, PlacingEffects
    <3> QED BY <1>0, <1>2, <3>1, <3>2, <3>3, PlacingSteps
  <2>2. CASE CooldownPasses(p)
    BY <2>2 DEF CooldownPasses, CountOK, Applying, Counter, board, history
  <2>3. CASE LoadCount(p)
    <3>1. /\ \/ pc[p] = "decload" /\ pc'[p] = "decstore"
             \/ pc[p] = "incload" /\ pc'[p] = "incstore"
          /\ job'[p] = [job[p] EXCEPT !.loaded = counts[ChunkOf(Applying(p))][Counter(p)]]
          /\ counts' = counts
      BY <1>0, <2>3, PlacingEffects DEF LoadCount, board
    <3>2. /\ job'[p].loaded = counts[ChunkOf(Applying(p))][Counter(p)]
          /\ job'[p].todo = job[p].todo /\ job'[p].prev = job[p].prev
      BY <1>0, <3>1 DEF JobType
    <3>3. Applying(p)' = Applying(p) /\ Counter(p)' = Counter(p)
      BY <3>1, <3>2 DEF Applying, Counter
    <3> QED BY <3>1, <3>2, <3>3
  <2> QED BY <2>1, <2>2, <2>3
<1> QED BY <1>1, <1>2

-----------------------------------------------------------------------------
(* The invariant, and what it gives                                          *)

(* At the start the counters agree with the board and nothing is under way. *)
LEMMA BoardInit == Init => BoardInv
<1> SUFFICES ASSUME Init PROVE BoardInv
  OBVIOUS
<1>1. \A p \in Placers : pc[p] = "idle" /\ p \in Proc
  BY DEF Init, Proc
<1> USE DEF PlacingLabel, ApplyLabel, CellLabel, BumpLabel
<1>2. FootOK
  BY <1>1 DEF FootOK
<1>3. CellsOK
  BY <1>1 DEF CellsOK, CellsOf, Init
<1>4. VersionOK
  BY <1>1 DEF VersionOK, Owes, Init
<1>5. CountOK
  BY <1>1 DEF CountOK, CountsOf, Counting, Init
<1> QED BY <1>2, <1>3, <1>4, <1>5, LockInit, HoldsInit DEF BoardInv

(* Every step keeps what the locks protect, for as long as no placement     *)
(* writes bytes of a chunk it has not locked.                               *)
LEMMA BoardNext ==
  ASSUME BoardInv, [Next]_vars
  PROVE  BoardInv'
<1>1. LockInv' /\ HoldsOK' /\ LockInv /\ HoldsOK
  BY LockNext, HoldsNext DEF BoardInv
<1>2. CASE UNCHANGED vars
  <2>1. FootOK' <=> FootOK
    BY <1>2 DEF vars, FootOK, Footprint, Stones, Updated
  <2>2. CellsOK' <=> CellsOK
    BY <1>2 DEF vars, CellsOK, CellsOf, Writing, Stones, Applying
  <2>3. VersionOK' <=> VersionOK
    BY <1>2 DEF vars, VersionOK, Owes, Updated
  <2>4. CountOK' <=> CountOK
    BY <1>2 DEF vars, CountOK, CountsOf, Counting, Lead, Applying, Counter
  <2> QED BY <1>1, <1>2, <2>1, <2>2, <2>3, <2>4 DEF BoardInv, vars
<1>3. ASSUME NEW r \in Proc, StepOf(r), ~overwrote'
      PROVE  FootOK' /\ CellsOK' /\ VersionOK' /\ CountOK'
  <2>1. FootOK /\ CellsOK /\ VersionOK /\ CountOK
    BY <1>3, BoardSteps DEF BoardInv
  <2>2. \A c \in Chunk : CountsOf(c)'
    BY <1>1, <1>3, <2>1, CountsNext
  <2>3. CountOK'
    BY <1>1, <1>3, <2>1, <2>2, LoadedNext DEF CountOK
  <2> QED BY <1>1, <1>3, <2>1, <2>3, FootNext, CellsNext, VersionsNext
<1> QED BY <1>1, <1>2, <1>3, StepKinds DEF BoardInv

(* As long as nobody writes bytes of a chunk it has not locked, a chunk that *)
(* nobody has write-locked shows whole placements, counts its stones and    *)
(* counts its placements.                                                   *)
LEMMA QuietChunks ==
  ASSUME BoardInv, ~overwrote, NEW c \in Quiet
  PROVE  /\ \A q \in Coord : ChunkOf(q) = c => cells[q] = committed[q]
         /\ version[c] = commits[c]
         /\ \A t \in Team : counts[c][t] = Tally(cells, c, t) % CountModulus
<1>0. /\ LockInv /\ HoldsOK /\ FootOK /\ CellsOK /\ VersionOK /\ CountOK /\ c \in Chunk
      /\ \A p \in Placers : c \notin WriteHeld(p)
  BY DEF BoardInv, Quiet
<1>1. ASSUME NEW q \in Coord, ChunkOf(q) = c
      PROVE  cells[q] = committed[q]
  <2>1. ASSUME NEW p \in Placers, Writing(p, q)
        PROVE  FALSE
    <3>1. pc[p] \in PlacingLabel /\ q \in Stones(p)
      BY <1>0, <2>1 DEF Writing, FootOK, PlacingLabel
    <3> QED BY <1>0, <1>1, <3>1, OwnFoot
  <2> QED BY <1>0, <2>1 DEF CellsOK
<1>2. version[c] = commits[c]
  BY <1>0, OwesHeld DEF VersionOK
<1>3. \A t \in Team : counts[c][t] = Tally(cells, c, t) % CountModulus
  BY <1>0, CountingHeld DEF CountOK, CountsOf
<1> QED BY <1>1, <1>2, <1>3

(* The inductive invariant of the board: what the locks protect.            *)
THEOREM BoardProtected == Spec => []BoardInv
BY BoardInit, BoardNext, PTL DEF Spec

(* A snapshot shows all of a placement or nothing of it.                    *)
THEOREM WholePlacementsCorrect == Spec => []WholePlacements
<1>1. BoardInv => WholePlacements
  BY QuietChunks DEF WholePlacements
<1> QED BY <1>1, BoardProtected, PTL

(* The version of a snapshot counts the placements in it.                   *)
THEOREM VersionsCorrect == Spec => []VersionsCountPlacements
<1>1. BoardInv => VersionsCountPlacements
  BY QuietChunks DEF VersionsCountPlacements
<1> QED BY <1>1, BoardProtected, PTL

(* The counters of a chunk count its stones, modulo what they hold.         *)
THEOREM CountsCorrect == Spec => []CountsMatchCells
<1>1. BoardInv => CountsMatchCells
  BY QuietChunks DEF CountsMatchCells, CountsAgree
<1> QED BY <1>1, BoardProtected, PTL

(* A read-locked chunk does not change under its reader.                    *)
THEOREM NoTornReadsCorrect == Spec => NoTornReads
<1>1. ASSUME BoardInv, [Next]_vars
      PROVE  [~overwrote' => ReadLockedCellsStay]_vars
  <2> SUFFICES ASSUME ~overwrote', NEW q \in Coord, NEW p \in Proc,
                      ChunkOf(q) \in ReadHeld(p), cells'[q] # cells[q]
               PROVE  FALSE
    BY DEF ReadLockedCellsStay
  <2>1. CASE UNCHANGED vars
    BY <2>1 DEF vars
  <2>2. ASSUME NEW r \in Proc, StepOf(r)
        PROVE  FALSE
    <3>1. LockInv /\ HoldsOK /\ FootOK /\ CellsOK
      BY <1>1, <2>2, BoardSteps DEF BoardInv
    <3>2. ChunkOf(q) \in WriteHeld(r)
      BY <2>2, <3>1, CellSteps
    <3> QED BY <3>2 DEF ReadHeld, WriteHeld
  <2> QED BY <1>1, <2>1, <2>2, StepKinds
<1> QED BY <1>1, BoardProtected, PTL DEF Spec, NoTornReads

-----------------------------------------------------------------------------
(* A scan of a board b from the cell at, when H are the chunks held: each   *)
(* ray was seen up to where it ended, in those chunks, and what the rule    *)
(* says of the rays that are done has been collected.                       *)

Watched(H, q) == InBounds(q) /\ ChunkOf(q) \in H

SeenTo(b, H, at, team, d, k) ==
  \A j \in 1 .. k - 1 : Watched(H, Along(at, d, j)) /\ b[Along(at, d, j)] = Opponent(team)

EndsAt(b, H, at, team, d, k) ==
  \/ k = MaxFlipDistance + 1
  \/ ~InBounds(Along(at, d, k))
  \/ Watched(H, Along(at, d, k)) /\ b[Along(at, d, k)] # Opponent(team)

RayDone(b, H, at, team, d) ==
  \E k \in 1 .. MaxFlipDistance + 1 : SeenTo(b, H, at, team, d, k) /\ EndsAt(b, H, at, team, d, k)

RaysDone(b, H, at, team, n, flips) ==
  /\ \A i \in 1 .. n : RayDone(b, H, at, team, Directions[i])
  /\ Range(flips) = UNION {RayFlips(b, at, Directions[i], team) : i \in 1 .. n}

Free(b, H, at) == Watched(H, at) /\ b[at] = Empty

Scanned(b, H, at, team, flips) ==
  /\ Watched(H, at)
  /\ \/ b[at] = Empty /\ RaysDone(b, H, at, team, Len(Directions), flips)
     \/ b[at] # Empty /\ flips = <<>>

ScanningOK(p) ==
  LET ray == job[p].ray IN
  /\ Free(cells, Held(p), job[p].at)
  /\ RaysDone(cells, Held(p), job[p].at, TeamOf[p], ray.dir - 1, job[p].flips)
  /\ ray.dir \in DOMAIN Directions =>
       /\ SeenTo(cells, Held(p), job[p].at, TeamOf[p], Directions[ray.dir], ray.step)
       /\ Range(ray.run) = {Along(job[p].at, Directions[ray.dir], j) : j \in 1 .. ray.step - 1}

ScannedOK(p) == Scanned(cells, Held(p), job[p].at, TeamOf[p], job[p].flips)

(* A second scan that has read an unlocked chunk is none of this.           *)
ScanOf(p) ==
  /\ pc[p] = "scan" \/ (pc[p] = "rescan" /\ ~strayed[p]) => ScanningOK(p)
  /\ pc[p] = "occ" \/ (pc[p] = "decide" /\ ~strayed[p]) => ScannedOK(p)

ScanInv ==
  /\ BoardInv
  /\ ~overwrote => \A p \in Placers : ScanOf(p)

-----------------------------------------------------------------------------
(* Rays                                                                      *)

(* A cell of a ray that lies on the board is one of its cells.              *)
LEMMA AlongType ==
  ASSUME NEW at \in Coord, NEW i \in DOMAIN Directions, NEW k \in Nat
  PROVE  InBounds(Along(at, Directions[i], k)) => Along(at, Directions[i], k) \in Coord
BY DEF Along, InBounds, Coord

(* A ray that has left the board does not come back.                        *)
LEMMA RayConvex ==
  ASSUME NEW at \in Coord, NEW i \in DOMAIN Directions,
         NEW n \in Nat, InBounds(Along(at, Directions[i], n)), NEW k \in 0 .. n
  PROVE  InBounds(Along(at, Directions[i], k))
<1> DEFINE d == Directions[i]
<1>1. d[1] \in {-1, 0, 1} /\ d[2] \in {-1, 0, 1}
  BY EightDirections DEF Directions
<1>2. /\ at[1] \in Axis /\ at[2] \in Axis
      /\ at[1] + n * d[1] \in Axis /\ at[2] + n * d[2] \in Axis
  BY DEF Along, InBounds, Coord
<1> HIDE DEF d
<1>3. ASSUME NEW a \in Axis, NEW e \in {-1, 0, 1}, a + n * e \in Axis
      PROVE  a + k * e \in Axis
  <2>1. BoardSize \in Nat
    BY GeometryAssumption
  <2>2. CASE e = -1
    <3>1. n * e = 0 - n /\ k * e = 0 - k
      BY <2>2
    <3> QED BY <1>3, <2>1, <3>1 DEF Axis
  <2>3. CASE e = 0
    <3>1. k * e = 0
      BY <2>3
    <3> QED BY <2>1, <3>1 DEF Axis
  <2>4. CASE e = 1
    <3>1. n * e = n /\ k * e = k
      BY <2>4
    <3> QED BY <1>3, <2>1, <3>1 DEF Axis
  <2> QED BY <2>2, <2>3, <2>4
<1>4. at[1] + k * d[1] \in Axis /\ at[2] + k * d[2] \in Axis
  BY <1>1, <1>2, <1>3
<1> QED BY <1>4 DEF Along, InBounds, d

(* Where a ray ends says what it flips.                                     *)
LEMMA RayStop ==
  ASSUME NEW b, NEW H, NEW at \in Coord, NEW team \in Team, NEW i \in DOMAIN Directions,
         NEW k \in 1 .. MaxFlipDistance + 1,
         SeenTo(b, H, at, team, Directions[i], k), EndsAt(b, H, at, team, Directions[i], k)
  PROVE  RayFlips(b, at, Directions[i], team) =
           IF k <= MaxFlipDistance /\ InBounds(Along(at, Directions[i], k))
                                   /\ b[Along(at, Directions[i], k)] = team
           THEN {Along(at, Directions[i], j) : j \in 1 .. k - 1} ELSE {}
<1> DEFINE d == Directions[i]
           q(j) == Along(at, d, j)
<1>1. Opponent(team) # team /\ MaxFlipDistance \in Nat
  BY GeometryAssumption DEF Opponent, Team, Black, White
<1>2. ASSUME NEW n \in 1 .. MaxFlipDistance, Brackets(b, at, d, n, team)
      PROVE  n = k
  <2>1. /\ InBounds(q(n)) /\ b[q(n)] = team
        /\ \A j \in 1 .. n - 1 : b[q(j)] = Opponent(team)
    BY <1>2 DEF Brackets
  <2>2. CASE n < k
    <3>1. n \in 1 .. k - 1
      BY <1>1, <2>2
    <3> QED BY <1>1, <2>1, <3>1 DEF SeenTo
  <2>3. CASE k < n
    <3>1. k \in 1 .. n - 1 /\ k \in 0 .. n /\ n \in Nat /\ k # MaxFlipDistance + 1
      BY <1>1, <2>3
    <3>2. b[q(k)] = Opponent(team)
      BY <2>1, <3>1
    <3>3. InBounds(q(k))
      BY <2>1, <3>1, RayConvex
    <3> QED BY <3>1, <3>2, <3>3 DEF EndsAt
  <2> QED BY <1>1, <2>2, <2>3
<1>3. k <= MaxFlipDistance => (Brackets(b, at, d, k, team) <=> InBounds(q(k)) /\ b[q(k)] = team)
  BY DEF Brackets, SeenTo
<1>4. {n \in 1 .. MaxFlipDistance : Brackets(b, at, d, n, team)} =
        IF k <= MaxFlipDistance /\ InBounds(q(k)) /\ b[q(k)] = team THEN {k} ELSE {}
  BY <1>1, <1>2, <1>3
<1> HIDE DEF q
<1>5. RayFlips(b, at, d, team) =
        UNION {{q(j) : j \in 1 .. n - 1} :
                 n \in {m \in 1 .. MaxFlipDistance : Brackets(b, at, d, m, team)}}
  BY DEF RayFlips, q
<1>6. CASE k <= MaxFlipDistance /\ InBounds(q(k)) /\ b[q(k)] = team
  <2>1. RayFlips(b, at, d, team) = {q(j) : j \in 1 .. k - 1}
    BY <1>4, <1>5, <1>6
  <2> QED BY <1>6, <2>1 DEF q
<1>7. CASE ~(k <= MaxFlipDistance /\ InBounds(q(k)) /\ b[q(k)] = team)
  <2>1. RayFlips(b, at, d, team) = {}
    BY <1>4, <1>5, <1>7
  <2> QED BY <1>7, <2>1 DEF q
<1> QED BY <1>6, <1>7

(* A board that agrees in the held chunks reads the same.                   *)
LEMMA SameRay ==
  ASSUME NEW b, NEW b2, NEW H, NEW H2, H \subseteq H2,
         NEW at \in Coord, NEW team \in Team, NEW i \in DOMAIN Directions,
         \A q \in Coord : ChunkOf(q) \in H => b2[q] = b[q]
  PROVE  /\ \A k \in Nat : SeenTo(b, H, at, team, Directions[i], k)
                             => SeenTo(b2, H2, at, team, Directions[i], k)
         /\ RayDone(b, H, at, team, Directions[i]) =>
              /\ RayDone(b2, H2, at, team, Directions[i])
              /\ RayFlips(b2, at, Directions[i], team) = RayFlips(b, at, Directions[i], team)
<1> DEFINE d == Directions[i]
<1>1. ASSUME NEW j \in Nat, Watched(H, Along(at, d, j))
      PROVE  Watched(H2, Along(at, d, j)) /\ b2[Along(at, d, j)] = b[Along(at, d, j)]
  <2>1. Along(at, d, j) \in Coord
    BY <1>1, AlongType DEF Watched
  <2> QED BY <1>1, <2>1 DEF Watched
<1>2. ASSUME NEW k \in Nat, SeenTo(b, H, at, team, d, k)
      PROVE  SeenTo(b2, H2, at, team, d, k)
  <2>1. \A j \in 1 .. k - 1 : j \in Nat
    OBVIOUS
  <2> HIDE DEF d
  <2> QED BY <1>1, <1>2, <2>1 DEF SeenTo
<1>3. ASSUME NEW k \in Nat, EndsAt(b, H, at, team, d, k)
      PROVE  EndsAt(b2, H2, at, team, d, k)
  <2> HIDE DEF d
  <2> QED BY <1>1, <1>3 DEF EndsAt
<1>4. ASSUME NEW k \in 1 .. MaxFlipDistance + 1,
             SeenTo(b, H, at, team, d, k), EndsAt(b, H, at, team, d, k)
      PROVE  /\ RayDone(b2, H2, at, team, d)
             /\ RayFlips(b2, at, d, team) = RayFlips(b, at, d, team)
  <2>1. k \in Nat
    BY GeometryAssumption
  <2>2. SeenTo(b2, H2, at, team, d, k) /\ EndsAt(b2, H2, at, team, d, k)
    BY <1>2, <1>3, <1>4, <2>1
  <2>3. RayFlips(b, at, d, team) =
          IF k <= MaxFlipDistance /\ InBounds(Along(at, d, k)) /\ b[Along(at, d, k)] = team
          THEN {Along(at, d, j) : j \in 1 .. k - 1} ELSE {}
    BY <1>4, RayStop
  <2>4. RayFlips(b2, at, d, team) =
          IF k <= MaxFlipDistance /\ InBounds(Along(at, d, k)) /\ b2[Along(at, d, k)] = team
          THEN {Along(at, d, j) : j \in 1 .. k - 1} ELSE {}
    BY <2>2, RayStop
  <2> DEFINE e == Along(at, d, k)
  <2>5. k <= MaxFlipDistance /\ InBounds(e) => (b2[e] = team <=> b[e] = team)
    <3>1. CASE Watched(H, e)
      BY <1>1, <2>1, <3>1
    <3>2. CASE k = MaxFlipDistance + 1 \/ ~InBounds(e)
      BY <3>2, GeometryAssumption
    <3> QED BY <1>4, <3>1, <3>2 DEF EndsAt
  <2> HIDE DEF e
  <2>6. RayFlips(b2, at, d, team) = RayFlips(b, at, d, team)
    BY <2>3, <2>4, <2>5 DEF e
  <2> QED BY <1>4, <2>2, <2>6 DEF RayDone
<1> HIDE DEF d
<1>5. RayDone(b, H, at, team, d) =>
        /\ RayDone(b2, H2, at, team, d)
        /\ RayFlips(b2, at, d, team) = RayFlips(b, at, d, team)
  BY <1>4 DEF RayDone
<1> QED BY <1>2, <1>5 DEF d

(* Nor do the rays that are done change.                                    *)
LEMMA SameScan ==
  ASSUME NEW b, NEW b2, NEW H, NEW H2, H \subseteq H2,
         NEW at \in Coord, NEW team \in Team, NEW n \in 0 .. Len(Directions), NEW flips,
         \A q \in Coord : ChunkOf(q) \in H => b2[q] = b[q],
         RaysDone(b, H, at, team, n, flips)
  PROVE  RaysDone(b2, H2, at, team, n, flips)
<1>2. ASSUME NEW i \in 1 .. n
      PROVE  /\ RayDone(b2, H2, at, team, Directions[i])
             /\ RayFlips(b2, at, Directions[i], team) = RayFlips(b, at, Directions[i], team)
  <2>1. i \in DOMAIN Directions /\ RayDone(b, H, at, team, Directions[i])
    BY EightDirections DEF RaysDone
  <2> QED BY <2>1, SameRay
<1>3. UNION {RayFlips(b2, at, Directions[i], team) : i \in 1 .. n} =
        UNION {RayFlips(b, at, Directions[i], team) : i \in 1 .. n}
  BY <1>2
<1> QED BY <1>2, <1>3 DEF RaysDone

(* One more ray is done.                                                    *)
LEMMA MoreRays ==
  ASSUME NEW b, NEW H, NEW at \in Coord, NEW team \in Team, NEW n \in DOMAIN Directions,
         NEW flips, RaysDone(b, H, at, team, n - 1, flips),
         NEW k \in 1 .. MaxFlipDistance + 1,
         SeenTo(b, H, at, team, Directions[n], k), EndsAt(b, H, at, team, Directions[n], k),
         NEW more, Range(more) = Range(flips) \cup RayFlips(b, at, Directions[n], team)
  PROVE  RaysDone(b, H, at, team, n, more)
<1>1. n \in Nat /\ 1 .. n = (1 .. n - 1) \cup {n}
  BY EightDirections
<1>2. RayDone(b, H, at, team, Directions[n])
  BY DEF RayDone
<1> DEFINE F(i) == RayFlips(b, at, Directions[i], team)
<1>3. Range(flips) = UNION {F(i) : i \in 1 .. n - 1} /\ Range(more) = Range(flips) \cup F(n)
  BY DEF RaysDone
<1> HIDE DEF F
<1>4. Range(more) = UNION {F(i) : i \in 1 .. n}
  BY <1>1, <1>3
<1> QED BY <1>1, <1>2, <1>4 DEF RaysDone, F

(* A finished scan has found what the rule says.                            *)
LEMMA ScanFinds ==
  ASSUME NEW b, NEW H, NEW at \in Coord, NEW team \in Team, NEW flips,
         Scanned(b, H, at, team, flips)
  PROVE  Range(flips) = Flips(b, at, team)
<1>1. CASE b[at] = Empty
  <2>1. Range(flips) = UNION {RayFlips(b, at, Directions[i], team) : i \in DOMAIN Directions}
    BY <1>1, EightDirections DEF Scanned, RaysDone
  <2> QED BY <1>1, <2>1 DEF Flips, Scanned, Watched
<1>2. CASE b[at] # Empty
  BY <1>2, EmptyRange DEF Scanned, Flips
<1> QED BY <1>1, <1>2

-----------------------------------------------------------------------------
(* Scanning                                                                  *)

(* The types of what a scan is about.                                       *)
LEMMA JobFields ==
  ASSUME TypeInv, NEW p \in Placers
  PROVE  /\ job[p] \in JobType /\ job[p].at \in Coord /\ job[p].flips \in Seq(Coord)
         /\ job[p].ray \in RayType /\ job[p].ray.run \in Seq(Coord)
         /\ job[p].ray.dir \in 1 .. Len(Directions) + 1
         /\ job[p].ray.step \in 1 .. MaxFlipDistance
         /\ TeamOf[p] \in Team /\ p \in Proc
BY PlacementAssumption DEF TypeInv, TypeOK, JobType, RayType, Proc

(* Nobody else changes what a scan has read.                                *)
LEMMA ScanOthers ==
  ASSUME LockInv, HoldsOK, FootOK, CellsOK, NEW r \in Proc, StepOf(r),
         NEW p \in Placers \ {r}, ScanOf(p)
  PROVE  ScanOf(p)'
<1>1. p \in Proc \ {r} /\ TypeInv
  BY DEF LockInv, Proc
<1>2. pc'[p] = pc[p] /\ job'[p] = job[p] /\ strayed'[p] = strayed[p]
  BY <1>1, OthersStay
<1>3. PICK H, H2, at, n, step, dir, flips :
        /\ H = Held(p) /\ H2 = Held(p)' /\ at = job[p].at /\ flips = job[p].flips
        /\ dir = job[p].ray.dir /\ n = dir - 1 /\ step = job[p].ray.step
  OBVIOUS
<1>4. H \subseteq H2
  BY <1>1, <1>3, LocksKept DEF Held
<1>5. \A q \in Coord : ChunkOf(q) \in H => cells'[q] = cells[q]
  BY <1>1, <1>3, CellSteps
<1>6. /\ at \in Coord /\ TeamOf[p] \in Team /\ n \in 0 .. Len(Directions)
      /\ dir \in 1 .. Len(Directions) + 1 /\ step \in Nat
  BY <1>1, <1>3, JobFields, EightDirections, GeometryAssumption
<1>7. Watched(H, at) => Watched(H2, at) /\ cells'[at] = cells[at]
  BY <1>4, <1>5, <1>6 DEF Watched
<1>8. ASSUME NEW m \in 0 .. Len(Directions), RaysDone(cells, H, at, TeamOf[p], m, flips)
      PROVE  RaysDone(cells', H2, at, TeamOf[p], m, flips)
  BY <1>4, <1>5, <1>6, <1>8, SameScan
<1>9. ASSUME ScanningOK(p)
      PROVE  ScanningOK(p)'
  <2>1. /\ Free(cells, H, at) /\ RaysDone(cells, H, at, TeamOf[p], n, flips)
        /\ dir \in DOMAIN Directions =>
             /\ SeenTo(cells, H, at, TeamOf[p], Directions[dir], step)
             /\ Range(job[p].ray.run) = {Along(at, Directions[dir], j) : j \in 1 .. step - 1}
    BY <1>3, <1>9 DEF ScanningOK
  <2>2. Free(cells', H2, at) /\ RaysDone(cells', H2, at, TeamOf[p], n, flips)
    BY <1>6, <1>7, <1>8, <2>1 DEF Free
  <2>3. dir \in DOMAIN Directions => SeenTo(cells', H2, at, TeamOf[p], Directions[dir], step)
    BY <1>4, <1>5, <1>6, <2>1, SameRay
  <2> QED BY <1>2, <1>3, <2>1, <2>2, <2>3 DEF ScanningOK
<1>10. ASSUME ScannedOK(p)
       PROVE  ScannedOK(p)'
  <2>1. Scanned(cells, H, at, TeamOf[p], flips)
    BY <1>3, <1>10 DEF ScannedOK
  <2>2. Scanned(cells', H2, at, TeamOf[p], flips)
    BY <1>6, <1>7, <1>8, <2>1, EightDirections DEF Scanned
  <2> QED BY <1>2, <1>3, <2>2 DEF ScannedOK
<1> QED BY <1>2, <1>9, <1>10 DEF ScanOf

(* Where a scan reads a cell it has the chunk locked, unless it strays.     *)
LEMMA ReadHeldCell ==
  ASSUME LockInv, HoldsOK, NEW p \in Placers
  PROVE  /\ pc[p] \in {"probe", "reprobe"} => Watched(Held(p), job[p].at)
         /\ (Scanning(p) /\ InBounds(RayCell(p))
              /\ (pc[p] = "rescan" => ChunkOf(RayCell(p)) \in job[p].touched))
              => Watched(Held(p), RayCell(p))
<1> USE DEF ScanLabel1, ScanLabel2, Watched, Held
<1>0. TypeInv /\ Holds(p)
  BY DEF LockInv, HoldsOK
<1>1. /\ job[p].at \in Coord /\ job[p].ray.step \in 1 .. MaxFlipDistance
      /\ InBounds(job[p].at)
  BY <1>0, JobFields DEF Coord, InBounds
<1>2. ASSUME pc[p] \in {"probe", "reprobe"}
      PROVE  Watched(Held(p), job[p].at)
  BY <1>0, <1>1, <1>2, RayInBox DEF Holds
<1>3. ASSUME Scanning(p), InBounds(RayCell(p)),
             pc[p] = "rescan" => ChunkOf(RayCell(p)) \in job[p].touched
      PROVE  Watched(Held(p), RayCell(p))
  <2>1. CASE pc[p] = "scan"
    <3>1. ChunkOf(RayCell(p)) \in Box(p)
      BY <1>1, <1>3, RayInBox DEF RayCell, Scanning
    <3> QED BY <1>0, <1>3, <2>1, <3>1 DEF Holds
  <2>2. CASE pc[p] = "rescan"
    BY <1>0, <1>3, <2>2 DEF Holds
  <2> QED BY <1>3, <2>1, <2>2 DEF Scanning
<1> QED BY <1>2, <1>3

(* A call is scanning, or has scanned, after these steps only, and they     *)
(* change neither the cells nor the locks.                                  *)
LEMMA ScanSteps ==
  ASSUME TypeInv, NEW p \in Placers, StepOf(p), pc'[p] \in {"scan", "rescan", "occ", "decide"}
  PROVE  /\ \/ CooldownPasses(p) \/ Probe(p) \/ RayLeavesBoard(p) \/ RayMeetsEmpty(p)
            \/ RayMeetsOpponent(p) \/ RayMeetsTeam(p) \/ ScanEnds(p)
         /\ cells' = cells /\ Held(p)' = Held(p)
<1>0. /\ pc \in [Proc -> Label] /\ p \in Proc /\ p \notin Readers
  BY PlacementAssumption DEF TypeInv, TypeOK, Proc
<1>1. CASE Waits(p)
  BY <1>1 DEF Waits, AwaitRLock, AwaitLock, CooldownPasses, board, Held, ReadHeld, WriteHeld
<1>2. CASE RLocked(p)
  BY <1>0, <1>2 DEF RLocked, Goto
<1>3. CASE Returns(p)
  BY <1>0, <1>3 DEF Returns, RUnlockOne, ReadReturns, UnlockOne, WriteReturns, ReadSucceeds, Goto
<1>4. ASSUME NEW q \in Targets, BeginPlace(p, q) PROVE FALSE
  BY <1>0, <1>4 DEF BeginPlace, Goto
<1>5. CASE Locked(p)
  BY <1>0, <1>5 DEF Locked, Goto
<1>6. CASE Recheck(p)
  BY <1>0, <1>6 DEF Recheck, AfterRecheck, Goto
<1>7. CASE Scans(p)
  <2>1. ~ReadOccupied(p)
    BY <1>0 DEF ReadOccupied, Goto
  <2>2. cells' = cells /\ locks' = locks
    BY <1>7 DEF Scans, Probe, RayLeavesBoard, RayMeetsEmpty, RayMeetsOpponent, RayMeetsTeam,
                ScanEnds, ReadOccupied, board
  <2> QED BY <1>7, <2>1, <2>2 DEF Scans, Held, ReadHeld, WriteHeld
<1>8. CASE Applies(p)
  <2>1. CASE NoFlips(p) \/ Commit(p)
    BY <1>0, <2>1 DEF NoFlips, Commit, Goto
  <2>2. CASE ReadPrev(p)
    BY <1>0, <2>2 DEF ReadPrev, AfterPrev, Goto
  <2>3. CASE LoadCount(p) \/ StoreCount(p)
    BY <1>0, <2>3 DEF LoadCount, StoreCount, Goto
  <2>4. CASE LoadByte(p) \/ StoreByte(p) \/ Applied(p)
    BY <1>0, <2>4 DEF LoadByte, StoreByte, Applied, Goto
  <2>5. CASE LoadVersion(p) \/ StoreVersion(p)
    BY <1>0, <2>5 DEF LoadVersion, StoreVersion, Goto
  <2> QED BY <1>8, <2>1, <2>2, <2>3, <2>4, <2>5 DEF Applies
<1> QED BY <1>0, <1>1, <1>2, <1>3, <1>4, <1>5, <1>6, <1>7, <1>8, StepKinds

(* A ray that ends is done, and the next one has seen nothing yet.          *)
LEMMA RayEnds ==
  ASSUME TypeInv, NEW p \in Placers, ScanningOK(p), Scanning(p),
         NEW k \in 1 .. MaxFlipDistance + 1,
         SeenTo(cells, Held(p), job[p].at, TeamOf[p], Directions[job[p].ray.dir], k),
         EndsAt(cells, Held(p), job[p].at, TeamOf[p], Directions[job[p].ray.dir], k),
         cells' = cells, Held(p)' = Held(p),
         job'[p].at = job[p].at, job'[p].ray = NextRay(job[p].ray),
         Range(job'[p].flips) = Range(job[p].flips) \cup
           RayFlips(cells, job[p].at, Directions[job[p].ray.dir], TeamOf[p])
  PROVE  ScanningOK(p)'
<1>1. PICK dir, at, ray2, flips2 :
        /\ dir = job[p].ray.dir /\ at = job[p].at
        /\ ray2 = job'[p].ray /\ flips2 = job'[p].flips
  OBVIOUS
<1>2. at \in Coord /\ TeamOf[p] \in Team /\ dir \in DOMAIN Directions
  BY <1>1, JobFields DEF Scanning
<1>3. Free(cells, Held(p), at) /\ RaysDone(cells, Held(p), at, TeamOf[p], dir - 1, job[p].flips)
  BY <1>1 DEF ScanningOK
<1>4. RaysDone(cells, Held(p), at, TeamOf[p], dir, flips2)
  BY <1>1, <1>2, <1>3, MoreRays
<1>5. ray2.dir = dir + 1 /\ ray2.step = 1 /\ ray2.run = <<>>
  BY <1>1 DEF NextRay
<1>6. dir \in Nat /\ ray2.dir - 1 = dir
  BY <1>2, <1>5, EightDirections
<1>7. /\ SeenTo(cells, Held(p), at, TeamOf[p], Directions[ray2.dir], ray2.step)
      /\ Range(ray2.run) = {Along(at, Directions[ray2.dir], j) : j \in 1 .. ray2.step - 1}
  <2>1. 1 .. ray2.step - 1 = {}
    BY <1>5
  <2> QED BY <1>5, <2>1, EmptyRange DEF SeenTo
<1> QED BY <1>1, <1>3, <1>4, <1>6, <1>7 DEF ScanningOK

(* What the steps of a scan do to a call.                                   *)
LEMMA ScanEffects ==
  ASSUME TypeInv, NEW p \in Placers
  PROVE  /\ Probe(p) =>
              /\ pc[p] \in {"probe", "reprobe"} /\ strayed'[p] = strayed[p]
              /\ pc'[p] = IF cells[job[p].at] = Empty THEN ScanLabel(pc[p]) ELSE ExitLabel(pc[p])
              /\ job'[p] = [job[p] EXCEPT !.flips = <<>>, !.ray = NoRay]
         /\ RayLeavesBoard(p) =>
              /\ Scanning(p) /\ pc'[p] = pc[p] /\ strayed'[p] = strayed[p]
              /\ ~InBounds(RayCell(p))
              /\ job'[p] = [job[p] EXCEPT !.ray = NextRay(@)]
         /\ RayMeetsEmpty(p) \/ RayMeetsOpponent(p) \/ RayMeetsTeam(p) =>
              /\ Scanning(p) /\ pc'[p] = pc[p] /\ InBounds(RayCell(p))
              /\ ~strayed'[p] =>
                   ~strayed[p] /\ (pc[p] = "rescan" => ChunkOf(RayCell(p)) \in job[p].touched)
         /\ RayMeetsEmpty(p) =>
              /\ cells[RayCell(p)] = Empty
              /\ job'[p] = [job[p] EXCEPT !.ray = NextRay(@)]
         /\ RayMeetsOpponent(p) =>
              /\ cells[RayCell(p)] = Opponent(TeamOf[p])
              /\ job'[p] = [job[p] EXCEPT !.ray = LongerRay(@, RayCell(p))]
         /\ RayMeetsTeam(p) =>
              /\ cells[RayCell(p)] = TeamOf[p]
              /\ job'[p] = [job[p] EXCEPT !.ray = NextRay(@), !.flips = @ \o job[p].ray.run]
         /\ ScanEnds(p) =>
              /\ pc[p] \in {"scan", "rescan"} /\ pc'[p] = ExitLabel(pc[p])
              /\ job[p].ray.dir \notin DOMAIN Directions
              /\ strayed'[p] = strayed[p] /\ job'[p] = job[p]
<1>0. /\ pc \in [Proc -> Label] /\ job \in [Placers -> JobType]
      /\ strayed \in [Placers -> BOOLEAN] /\ p \in Proc
  BY DEF TypeInv, TypeOK, Proc
<1>2. ASSUME RayLeavesBoard(p)
      PROVE  /\ Scanning(p) /\ pc'[p] = pc[p] /\ strayed'[p] = strayed[p]
             /\ ~InBounds(RayCell(p))
             /\ job'[p] = [job[p] EXCEPT !.ray = NextRay(@)]
  BY <1>0, <1>2 DEF RayLeavesBoard, history
<1>3. ASSUME Stray(p)
      PROVE  ~strayed'[p] =>
               ~strayed[p] /\ (pc[p] = "rescan" => ChunkOf(RayCell(p)) \in job[p].touched)
  BY <1>0, <1>3 DEF Stray
<1>4. RayMeetsEmpty(p) =>
        /\ Stray(p) /\ Scanning(p) /\ pc'[p] = pc[p] /\ InBounds(RayCell(p))
        /\ cells[RayCell(p)] = Empty
        /\ job'[p] = [job[p] EXCEPT !.ray = NextRay(@)]
  BY <1>0 DEF RayMeetsEmpty
<1>5. RayMeetsOpponent(p) =>
        /\ Stray(p) /\ Scanning(p) /\ pc'[p] = pc[p] /\ InBounds(RayCell(p))
        /\ cells[RayCell(p)] = Opponent(TeamOf[p])
        /\ job'[p] = [job[p] EXCEPT !.ray = LongerRay(@, RayCell(p))]
  BY <1>0 DEF RayMeetsOpponent
<1>6. RayMeetsTeam(p) =>
        /\ Stray(p) /\ Scanning(p) /\ pc'[p] = pc[p] /\ InBounds(RayCell(p))
        /\ cells[RayCell(p)] = TeamOf[p]
        /\ job'[p] = [job[p] EXCEPT !.ray = NextRay(@), !.flips = @ \o job[p].ray.run]
  BY <1>0 DEF RayMeetsTeam
<1>7. ScanEnds(p) =>
        /\ pc[p] \in {"scan", "rescan"} /\ pc'[p] = ExitLabel(pc[p])
        /\ job[p].ray.dir \notin DOMAIN Directions
        /\ strayed'[p] = strayed[p] /\ job'[p] = job[p]
  BY <1>0 DEF ScanEnds, Goto, history
<1>8. Probe(p) =>
        /\ pc[p] \in {"probe", "reprobe"} /\ strayed'[p] = strayed[p]
        /\ pc'[p] = IF cells[job[p].at] = Empty THEN ScanLabel(pc[p]) ELSE ExitLabel(pc[p])
        /\ job'[p] = [job[p] EXCEPT !.flips = <<>>, !.ray = NoRay]
  BY <1>0 DEF Probe, Goto, history
<1> QED BY <1>2, <1>3, <1>4, <1>5, <1>6, <1>7, <1>8

(* A ray step of a scan that has read only what is locked keeps what the    *)
(* scan knows.                                                              *)
LEMMA RaySteps ==
  ASSUME LockInv, HoldsOK, NEW p \in Placers, ScanningOK(p),
         RayLeavesBoard(p) \/ RayMeetsEmpty(p) \/ RayMeetsOpponent(p) \/ RayMeetsTeam(p),
         pc[p] = "rescan" => ~strayed'[p], cells' = cells, Held(p)' = Held(p)
  PROVE  ScanningOK(p)'
<1> DEFINE at == job[p].at
           ray == job[p].ray
           d == Directions[job[p].ray.dir]
           flips == job[p].flips
           team == TeamOf[p]
<1>0. TypeInv
  BY DEF LockInv
<1>1. /\ at \in Coord /\ team \in Team /\ ray.dir \in DOMAIN Directions /\ Scanning(p)
      /\ ray.step \in 1 .. MaxFlipDistance /\ flips \in Seq(Coord) /\ ray.run \in Seq(Coord)
  BY <1>0, JobFields, ScanEffects DEF Scanning
<1>2. /\ SeenTo(cells, Held(p), at, team, d, ray.step)
      /\ Range(ray.run) = {Along(at, d, j) : j \in 1 .. ray.step - 1}
      /\ RayCell(p) = Along(at, d, ray.step)
  BY <1>1 DEF ScanningOK, RayCell
<1>3. /\ MaxFlipDistance \in Nat \ {0} /\ ray.step \in 1 .. MaxFlipDistance + 1
      /\ ray.step <= MaxFlipDistance
  BY <1>1, GeometryAssumption
<1>4. /\ Opponent(team) # Empty /\ Empty # team /\ Opponent(team) # team
  BY <1>1 DEF Opponent, Team, Black, White, Empty
<1>5. ASSUME RayMeetsEmpty(p) \/ RayMeetsOpponent(p) \/ RayMeetsTeam(p)
      PROVE  Watched(Held(p), RayCell(p))
  BY <1>0, <1>5, ReadHeldCell, ScanEffects
<1>6. job[p] \in JobType /\ ray \in RayType
  BY <1>0, JobFields
<1>7. CASE RayLeavesBoard(p)
  <2>1. EndsAt(cells, Held(p), at, team, d, ray.step)
    BY <1>0, <1>2, <1>7, ScanEffects DEF EndsAt
  <2>2. RayFlips(cells, at, d, team) = {}
    <3>1. ~InBounds(Along(at, d, ray.step))
      BY <1>0, <1>2, <1>7, ScanEffects
    <3> QED BY <1>1, <1>2, <1>3, <2>1, <3>1, RayStop
  <2>3. job'[p].at = at /\ job'[p].ray = NextRay(ray) /\ job'[p].flips = flips
    BY <1>0, <1>6, <1>7, ScanEffects DEF JobType
  <2> QED BY <1>0, <1>1, <1>2, <1>3, <2>1, <2>2, <2>3, RayEnds
<1>8. CASE RayMeetsEmpty(p)
  <2>1. EndsAt(cells, Held(p), at, team, d, ray.step)
    BY <1>0, <1>2, <1>4, <1>5, <1>8, ScanEffects DEF EndsAt
  <2>2. cells[Along(at, d, ray.step)] # team
    BY <1>0, <1>2, <1>4, <1>8, ScanEffects
  <2>3. RayFlips(cells, at, d, team) = {}
    BY <1>1, <1>2, <1>3, <2>1, <2>2, RayStop
  <2>4. job'[p].at = at /\ job'[p].ray = NextRay(ray) /\ job'[p].flips = flips
    BY <1>0, <1>6, <1>8, ScanEffects DEF JobType
  <2> QED BY <1>0, <1>1, <1>2, <1>3, <2>1, <2>3, <2>4, RayEnds
<1>9. CASE RayMeetsTeam(p)
  <2>1. InBounds(Along(at, d, ray.step)) /\ cells[Along(at, d, ray.step)] = team
    <3>1. InBounds(RayCell(p)) /\ cells[RayCell(p)] = team
      BY <1>0, <1>9, ScanEffects
    <3> QED BY <1>2, <3>1
  <2>2. EndsAt(cells, Held(p), at, team, d, ray.step)
    BY <1>2, <1>4, <1>5, <1>9, <2>1 DEF EndsAt
  <2>3. RayFlips(cells, at, d, team) = Range(ray.run)
    BY <1>1, <1>2, <1>3, <2>1, <2>2, RayStop
  <2>4. job'[p].at = at /\ job'[p].ray = NextRay(ray) /\ job'[p].flips = flips \o ray.run
    BY <1>0, <1>6, <1>9, ScanEffects DEF JobType
  <2>5. Range(job'[p].flips) = Range(flips) \cup RayFlips(cells, at, d, team)
    BY <1>1, <2>3, <2>4, ConcatRange
  <2> QED BY <1>0, <1>1, <1>2, <1>3, <2>2, <2>4, <2>5, RayEnds
<1>10. CASE RayMeetsOpponent(p)
  <2>1. Watched(Held(p), Along(at, d, ray.step)) /\ cells[Along(at, d, ray.step)] = Opponent(team)
    BY <1>0, <1>2, <1>5, <1>10, ScanEffects
  <2>2. ray.step + 1 - 1 = ray.step /\ 1 .. ray.step = (1 .. ray.step - 1) \cup {ray.step}
    BY <1>1, <1>3
  <2>3. SeenTo(cells, Held(p), at, team, d, ray.step + 1)
    <3> HIDE DEF at, d, team, ray
    <3> QED BY <1>2, <2>1, <2>2 DEF SeenTo
  <2>4. job'[p].at = at /\ job'[p].ray = LongerRay(ray, RayCell(p)) /\ job'[p].flips = flips
    BY <1>0, <1>6, <1>10, ScanEffects DEF JobType
  <2>5. CASE ray.step = MaxFlipDistance
    <3>1. /\ ray.step + 1 \in 1 .. MaxFlipDistance + 1 /\ ~(ray.step + 1 <= MaxFlipDistance)
          /\ EndsAt(cells, Held(p), at, team, d, ray.step + 1)
      BY <1>3, <2>5 DEF EndsAt
    <3>2. RayFlips(cells, at, d, team) = {}
      BY <1>1, <2>3, <3>1, RayStop
    <3>3. job'[p].ray = NextRay(ray)
      BY <2>4, <2>5 DEF LongerRay
    <3> QED BY <1>0, <1>1, <2>3, <2>4, <3>1, <3>2, <3>3, RayEnds
  <2>6. CASE ray.step # MaxFlipDistance
    <3>1. job'[p].ray = [ray EXCEPT !.step = @ + 1, !.run = Append(@, RayCell(p))]
      BY <2>4, <2>6 DEF LongerRay
    <3>2. /\ job'[p].ray.dir = ray.dir /\ job'[p].ray.step = ray.step + 1
          /\ job'[p].ray.run = Append(ray.run, RayCell(p))
      BY <1>6, <3>1 DEF RayType
    <3>3. RayCell(p) \in Coord /\ Append(ray.run, RayCell(p)) = ray.run \o <<RayCell(p)>>
      <4>1. RayCell(p) \in Coord
        BY <1>1, <1>2, <2>1, AlongType DEF Watched
      <4>2. \A s \in Seq(Coord), q \in Coord : Append(s, q) = s \o <<q>>
        OBVIOUS
      <4> QED BY <1>1, <4>1, <4>2
    <3>4. Range(job'[p].ray.run) = Range(ray.run) \cup {RayCell(p)}
      <4>1. PICK one : one = <<RayCell(p)>>
        OBVIOUS
      <4>2. one \in Seq(Coord) /\ Range(one) = {RayCell(p)}
        BY <3>3, <4>1, OneRange
      <4>3. Range(ray.run \o one) = Range(ray.run) \cup Range(one)
        BY <1>1, <4>2, ConcatRange
      <4> QED BY <3>2, <3>3, <4>1, <4>2, <4>3
    <3>5. Range(job'[p].ray.run) = {Along(at, d, j) : j \in 1 .. ray.step}
      <4> HIDE DEF at, d, ray
      <4> QED BY <1>2, <2>2, <3>4
    <3>6. Free(cells, Held(p), at) /\ RaysDone(cells, Held(p), at, team, ray.dir - 1, flips)
      BY DEF ScanningOK
    <3>7. PICK a, r2 : a = job[p].at /\ r2 = job'[p].ray
      OBVIOUS
    <3>8. /\ r2.dir = ray.dir /\ r2.step - 1 = ray.step
          /\ SeenTo(cells, Held(p), a, team, Directions[r2.dir], r2.step)
          /\ Range(r2.run) = {Along(a, Directions[r2.dir], j) : j \in 1 .. r2.step - 1}
      <4>1. /\ r2.dir = ray.dir /\ r2.step = ray.step + 1 /\ a = at
            /\ Range(r2.run) = {Along(at, d, j) : j \in 1 .. ray.step}
        BY <3>2, <3>5, <3>7
      <4>2. SeenTo(cells, Held(p), a, team, Directions[r2.dir], r2.step)
        BY <2>3, <4>1
      <4>3. Directions[r2.dir] = d
        BY <4>1
      <4>4. r2.step - 1 = ray.step
        <5>1. ray.step \in Int /\ r2.step = ray.step + 1
          BY <1>1, <1>3, <4>1
        <5> HIDE DEF ray
        <5> QED BY <5>1
      <4> HIDE DEF at, d, ray
      <4> QED BY <4>1, <4>2, <4>3, <4>4 DEF ray
    <3> QED BY <2>4, <3>6, <3>7, <3>8 DEF ScanningOK
  <2> QED BY <2>5, <2>6
<1> QED BY <1>7, <1>8, <1>9, <1>10

(* A scan starts with nothing done, and only on an empty cell.              *)
LEMMA ProbeStep ==
  ASSUME LockInv, HoldsOK, NEW p \in Placers, Probe(p), cells' = cells, Held(p)' = Held(p)
  PROVE  ScanOf(p)'
<1>0. TypeInv
  BY DEF LockInv
<1>1. /\ job[p] \in JobType /\ job[p].at \in Coord /\ TeamOf[p] \in Team
  BY <1>0, JobFields
<1>2. job'[p].at = job[p].at /\ job'[p].flips = <<>> /\ job'[p].ray = NoRay
  BY <1>0, <1>1, ScanEffects DEF JobType
<1>3. Watched(Held(p), job[p].at)
  BY <1>0, ReadHeldCell, ScanEffects
<1>4. cells[job[p].at] = Empty => ScanningOK(p)'
  <2>1. PICK at, ray : at = job[p].at /\ ray = job'[p].ray
    OBVIOUS
  <2>2. ray.dir = 1 /\ ray.step = 1 /\ ray.run = <<>>
    BY <1>2, <2>1 DEF NoRay
  <2>3. RaysDone(cells, Held(p), at, TeamOf[p], 0, <<>>)
    <3>1. 1 .. 0 = {}
      OBVIOUS
    <3> QED BY <3>1, EmptyRange DEF RaysDone
  <2>4. /\ SeenTo(cells, Held(p), at, TeamOf[p], Directions[ray.dir], 1)
        /\ Range(ray.run) = {Along(at, Directions[ray.dir], j) : j \in 1 .. 1 - 1}
    <3>1. 1 .. 1 - 1 = {}
      OBVIOUS
    <3> QED BY <2>2, <3>1, EmptyRange DEF SeenTo
  <2>5. ray.dir - 1 = 0
    BY <2>2
  <2> QED BY <1>2, <1>3, <2>1, <2>2, <2>3, <2>4, <2>5 DEF ScanningOK, Free
<1>5. cells[job[p].at] # Empty => ScannedOK(p)'
  BY <1>2, <1>3 DEF ScannedOK, Scanned
<1>6. pc'[p] = IF cells[job[p].at] = Empty THEN ScanLabel(pc[p]) ELSE ExitLabel(pc[p])
  BY <1>0, ScanEffects
<1> QED BY <1>4, <1>5, <1>6 DEF ScanOf, ScanLabel, ExitLabel

(* A scan keeps what it knows, and ends with what the rule asks.            *)
LEMMA ScanSelf ==
  ASSUME LockInv, HoldsOK, NEW p \in Placers, StepOf(p), ScanOf(p)
  PROVE  ScanOf(p)'
<1>0. TypeInv
  BY DEF LockInv
<1>1. SUFFICES ASSUME pc'[p] \in {"scan", "rescan", "occ", "decide"}
               PROVE  ScanOf(p)'
  BY DEF ScanOf
<1>2. cells' = cells /\ Held(p)' = Held(p)
  BY <1>0, <1>1, ScanSteps
<1>3. CASE CooldownPasses(p)
  <2>1. job' = job /\ pc' = pc /\ strayed' = strayed
    BY <1>3 DEF CooldownPasses, history
  <2>2. ScanningOK(p)' <=> ScanningOK(p)
    BY <1>2, <2>1 DEF ScanningOK
  <2>3. ScannedOK(p)' <=> ScannedOK(p)
    BY <1>2, <2>1 DEF ScannedOK
  <2> QED BY <2>1, <2>2, <2>3 DEF ScanOf
<1>4. CASE Probe(p)
  BY <1>2, <1>4, ProbeStep
<1>5. CASE RayLeavesBoard(p) \/ RayMeetsEmpty(p) \/ RayMeetsOpponent(p) \/ RayMeetsTeam(p)
  <2>1. /\ pc[p] \in {"scan", "rescan"} /\ pc'[p] = pc[p]
        /\ ~strayed'[p] => ~strayed[p]
    BY <1>0, <1>5, ScanEffects DEF Scanning
  <2>2. pc[p] = "scan" \/ ~strayed'[p] => ScanningOK(p)'
    BY <1>2, <1>5, <2>1, RaySteps DEF ScanOf
  <2> QED BY <2>1, <2>2 DEF ScanOf
<1>6. CASE ScanEnds(p)
  <2>1. /\ pc[p] \in {"scan", "rescan"} /\ pc'[p] = ExitLabel(pc[p])
        /\ job[p].ray.dir \notin DOMAIN Directions
        /\ strayed'[p] = strayed[p] /\ job'[p] = job[p]
    BY <1>0, <1>6, ScanEffects
  <2>2. job[p].ray.dir - 1 = Len(Directions)
    BY <1>0, <2>1, JobFields, EightDirections
  <2>3. ScanningOK(p) => ScannedOK(p)'
    <3> SUFFICES ASSUME ScanningOK(p) PROVE ScannedOK(p)'
      OBVIOUS
    <3>1. /\ Free(cells, Held(p), job[p].at)
          /\ RaysDone(cells, Held(p), job[p].at, TeamOf[p], Len(Directions), job[p].flips)
      BY <2>2 DEF ScanningOK
    <3>2. Scanned(cells, Held(p), job[p].at, TeamOf[p], job[p].flips)
      BY <3>1 DEF Scanned, Free
    <3> QED BY <1>2, <2>1, <3>2 DEF ScannedOK
  <2> QED BY <2>1, <2>3 DEF ScanOf, ExitLabel
<1> QED BY <1>0, <1>1, <1>3, <1>4, <1>5, <1>6, ScanSteps

(* Initially nobody scans.                                                  *)
LEMMA ScanInit == Init => ScanInv
<1>1. Init => \A p \in Placers : ScanOf(p)
  BY DEF Init, ScanOf, Proc
<1> QED BY <1>1, BoardInit DEF ScanInv

(* Every step keeps what each scan knows, for as long as no placement       *)
(* writes bytes of a chunk it has not locked.                               *)
LEMMA ScanNext ==
  ASSUME ScanInv, [Next]_vars
  PROVE  ScanInv'
<1>1. BoardInv' /\ LockInv /\ HoldsOK
  BY BoardNext DEF ScanInv, BoardInv
<1>2. CASE UNCHANGED vars
  <2>1. \A p \in Placers : ScanningOK(p)' <=> ScanningOK(p)
    BY <1>2 DEF vars, ScanningOK, Held, ReadHeld, WriteHeld
  <2>2. \A p \in Placers : ScannedOK(p)' <=> ScannedOK(p)
    BY <1>2 DEF vars, ScannedOK, Held, ReadHeld, WriteHeld
  <2> QED BY <1>1, <1>2, <2>1, <2>2 DEF vars, ScanInv, ScanOf
<1>3. ASSUME NEW r \in Proc, StepOf(r), ~overwrote', NEW p \in Placers
      PROVE  ScanOf(p)'
  <2>1. FootOK /\ CellsOK /\ ScanOf(p)
    BY <1>3, BoardSteps DEF ScanInv, BoardInv
  <2> QED BY <1>1, <1>3, <2>1, ScanOthers, ScanSelf
<1> QED BY <1>1, <1>2, <1>3, StepKinds DEF ScanInv

(* As long as no placement writes bytes of a chunk it has not locked, every *)
(* scan that keeps to its locks knows a part of what the rule says.         *)
THEOREM ScansProtected == Spec => []ScanInv
BY ScanInit, ScanNext, PTL DEF Spec

(* ComputeFlips returns what the rule says of the board.                    *)
THEOREM ScanFollowsRuleCorrect == Spec => []ScanFollowsRule
<1>1. ScanInv => ScanFollowsRule
  <2> SUFFICES ASSUME ScanInv, ~overwrote, NEW p \in Placers,
                      pc[p] = "occ" \/ (pc[p] = "decide" /\ ~strayed[p])
               PROVE  Range(job[p].flips) = Flips(cells, job[p].at, TeamOf[p])
    BY DEF ScanFollowsRule
  <2>1. Scanned(cells, Held(p), job[p].at, TeamOf[p], job[p].flips)
    BY DEF ScanInv, ScanOf, ScannedOK
  <2>2. job[p].at \in Coord /\ TeamOf[p] \in Team
    BY JobFields DEF ScanInv, BoardInv, LockInv
  <2> QED BY <2>1, <2>2, ScanFinds
<1> QED BY <1>1, ScansProtected, PTL

-----------------------------------------------------------------------------
(* Placements                                                                *)

(* AtomicBoard means by the rule what this module means.                    *)
LEMMA SameRule ==
  ASSUME NEW b, NEW at, NEW team
  PROVE  AB!Flips(b, at, team) = Flips(b, at, team) /\ AB!Placed(b, at, team) = Placed(b, at, team)
<1>1. AB!Flips(b, at, team) = Flips(b, at, team)
  BY DEF AB!Flips, AB!RayFlips, AB!Brackets, AB!Along, AB!Directions, AB!InBounds, AB!Axis,
         AB!Opponent, AB!Empty, AB!Black, AB!White,
         Flips, RayFlips, Brackets, Along, Directions, InBounds, Axis,
         Opponent, Empty, Black, White
<1>2. AB!Coord = Coord
  BY DEF AB!Coord, AB!Axis, Coord, Axis
<1> QED BY <1>1, <1>2 DEF AB!Placed, Placed

(* What is decided on by a second scan that kept to its locks is legal on   *)
(* the board with every earlier placement completed: where it differs from  *)
(* the board scanned, somebody else has the chunk.                          *)
LEMMA DecidedLegal ==
  ASSUME ScanInv, ~overwrote, NEW p \in Placers, pc[p] = "decide", ~strayed[p]
  PROVE  /\ Range(job[p].flips) = Flips(committed, job[p].at, TeamOf[p])
         /\ job[p].flips # <<>> => committed[job[p].at] = Empty
         /\ job[p].at \in Coord /\ job[p].flips \in Seq(Coord) /\ TeamOf[p] \in Team
<1> DEFINE at == job[p].at
           flips == job[p].flips
           team == TeamOf[p]
<1>1. LockInv /\ HoldsOK /\ FootOK /\ CellsOK /\ TypeInv
  BY DEF ScanInv, BoardInv, LockInv
<1>2. at \in Coord /\ flips \in Seq(Coord) /\ team \in Team
  BY <1>1, JobFields
<1>3. Scanned(cells, Held(p), at, team, flips)
  BY DEF ScanInv, ScanOf, ScannedOK
<1>4. ASSUME NEW q \in Coord, ChunkOf(q) \in Held(p), committed[q] # cells[q]
      PROVE  FALSE
  <2>1. PICK p2 \in Placers : Writing(p2, q)
    BY <1>1, <1>4 DEF CellsOK
  <2>2. q \in Stones(p2)
    BY <1>1, <2>1 DEF Writing, FootOK, PlacingLabel
  <2>3. ChunkOf(q) \in WriteHeld(p2)
    BY <1>1, <2>1, <2>2, OwnFoot DEF Writing, PlacingLabel
  <2>4. p2 # p /\ p \in Proc /\ p2 \in Proc
    BY <2>1 DEF Writing, ApplyLabel, CellLabel, Proc
  <2> QED BY <1>4, <2>3, <2>4, Exclusive
<1>5. Scanned(committed, Held(p), at, team, flips)
  <2>1. committed[at] = cells[at]
    BY <1>2, <1>3, <1>4 DEF Scanned, Watched
  <2>2. RaysDone(cells, Held(p), at, team, Len(Directions), flips)
          => RaysDone(committed, Held(p), at, team, Len(Directions), flips)
    <3>1. Len(Directions) \in 0 .. Len(Directions)
      BY EightDirections
    <3>2. \A q \in Coord : ChunkOf(q) \in Held(p) => committed[q] = cells[q]
      BY <1>4
    <3> HIDE DEF at, flips, team
    <3> QED BY <1>2, <3>1, <3>2, SameScan
  <2> QED BY <1>3, <2>1, <2>2 DEF Scanned
<1>6. Range(flips) = Flips(committed, at, team)
  BY <1>2, <1>5, ScanFinds
<1> QED BY <1>2, <1>5, <1>6 DEF Scanned

(* So committing it is a step of AtomicBoard.                               *)
LEMMA CommitPlaces ==
  ASSUME ScanInv, ~overwrote, NEW p \in Placers, Commit(p), ~strayed[p]
  PROVE  AB!Place(job[p].at, TeamOf[p])
<1> DEFINE at == job[p].at
           flips == job[p].flips
           team == TeamOf[p]
<1>1. /\ Range(flips) = Flips(committed, at, team) /\ flips # <<>>
      /\ committed[at] = Empty
      /\ at \in Coord /\ flips \in Seq(Coord) /\ team \in Team
  BY DecidedLegal DEF Commit
<1>2. committed' = Placed(committed, at, team)
  <2>1. committed' = [q \in Coord |-> IF q \in {at} \cup Range(flips) THEN team ELSE committed[q]]
    BY DEF Commit, Stones
  <2> HIDE DEF at, flips, team
  <2> QED BY <1>1, <2>1 DEF Placed
<1>3. committed'[at] = team
  BY <1>1, <1>2 DEF Placed
<1>4. Flips(committed, at, team) # {}
  <2>1. Head(flips) \in Range(flips)
    BY <1>1, HeadTail
  <2> QED BY <1>1, <2>1
<1> HIDE DEF at, flips, team
<1>5. AB!Place(at, team)
  BY <1>1, <1>2, <1>3, <1>4, SameRule DEF AB!Place, AB!Empty, Empty
<1> QED BY <1>5 DEF at, team

(* A placement that kept to its locks is one legal placement on the board   *)
(* as it is when it is decided on.                                          *)
THEOREM LockedPlacementsLegalCorrect == Spec => LockedPlacementsLegal
<1>1. ASSUME ScanInv, [Next]_vars, NEW p \in Placers,
             pc[p] = "decide", pc'[p] = "prev", ~strayed[p], ~overwrote'
      PROVE  AB!Place(job[p].at, TeamOf[p])
  <2>1. PICK r \in Proc : StepOf(r)
    BY <1>1, StepKinds DEF vars
  <2>2. TypeInv /\ p \in Proc
    BY <1>1 DEF ScanInv, BoardInv, LockInv, Proc
  <2>3. r = p
    BY <1>1, <2>1, <2>2, OthersStay
  <2>4. Commit(p)
    <3>1. pc'[p] \in PlacingLabel /\ ~CooldownPasses(p)
      BY <1>1 DEF CooldownPasses, PlacingLabel, ApplyLabel
    <3> QED BY <1>1, <2>1, <2>2, <2>3, <3>1, PlacingSteps, PlacingEffects
  <2>5. ~overwrote
    BY <1>1, <2>1, BoardSteps
  <2> QED BY <1>1, <2>4, <2>5, CommitPlaces
<1>2. ASSUME ScanInv, [Next]_vars
      PROVE  [\A p \in Placers :
                (pc[p] = "decide" /\ pc'[p] = "prev" /\ ~strayed[p] /\ ~overwrote')
                  => AB!Place(job[p].at, TeamOf[p])]_vars
  BY <1>1, <1>2
<1> QED BY <1>2, ScansProtected, PTL DEF Spec, LockedPlacementsLegal

-----------------------------------------------------------------------------
(* Implementing AtomicBoard                                                  *)

(* No placement is decided on by what has been read without a lock, or     *)
(* written where there is none; and the stronger: no second scan has read   *)
(* without a lock at all.                                                  *)
DecidesWithinLocks ==
  /\ ~overwrote
  /\ \A p \in Placers : pc[p] = "decide" => ~strayed[p]

KeepsToLocks ==
  /\ ~overwrote
  /\ \A p \in Placers : ~strayed[p]

(* As long as placements are decided on within their locks the server       *)
(* implements AtomicBoard, whatever the geometry of the board.              *)
THEOREM AtomicWithinLocks == Spec /\ []DecidesWithinLocks => Atomic
<1>1. Init => AB!Init
  BY DEF Init, AB!Init
<1>2. ASSUME ScanInv, DecidesWithinLocks, [Next]_vars
      PROVE  [AB!Next]_committed
  <2>1. CASE UNCHANGED vars
    BY <2>1 DEF vars
  <2>2. ASSUME NEW r \in Placers, Commit(r)
        PROVE  AB!Next
    <3>1. AB!Place(job[r].at, TeamOf[r])
      BY <1>2, <2>2, CommitPlaces DEF DecidesWithinLocks, Commit
    <3>2. job[r].at \in Coord /\ TeamOf[r] \in Team
      BY <1>2, JobFields DEF ScanInv, BoardInv, LockInv
    <3>3. AB!Coord = Coord /\ AB!Team = Team
      BY DEF AB!Coord, AB!Axis, AB!Team, AB!Black, AB!White, Coord, Axis, Team, Black, White
    <3> QED BY <3>1, <3>2, <3>3 DEF AB!Next
  <2>3. ASSUME NEW r \in Proc, StepOf(r)
        PROVE  committed' = committed \/ (r \in Placers /\ Commit(r))
    BY <2>3, BoardSteps
  <2> QED BY <1>2, <2>1, <2>2, <2>3, StepKinds
<1> QED BY <1>1, <1>2, ScansProtected, PTL DEF Spec, Atomic, AB!Spec

(* Where one lock covers the board there is nothing else to lock.           *)
LEMMA OneChunk ==
  ASSUME BoardSize = ChunkSize
  PROVE  Chunk = {0}
<1>1. ChunkSize \in Nat \ {0}
  BY GeometryAssumption
<1>2. ChunksPerAxis = 1
  BY <1>1 DEF ChunksPerAxis
<1> QED BY <1>2 DEF Chunk

(* A call that has a lock has the only one, so nothing strays.              *)
LEMMA OneLockNext ==
  ASSUME BoardSize = ChunkSize, LockInv, HoldsOK, KeepsToLocks, [Next]_vars
  PROVE  KeepsToLocks'
<1>0. TypeInv /\ Chunk = {0} /\ strayed \in [Placers -> BOOLEAN]
  BY OneChunk DEF LockInv, TypeInv, TypeOK
<1>1. CASE UNCHANGED vars
  BY <1>1 DEF vars, KeepsToLocks
<1>2. ASSUME NEW p \in Placers, pc[p] \in {"rescan", "decide"}
      PROVE  Chunk \subseteq job[p].touched
  <2>1. ChunkOf(job[p].at) \in Chunk /\ ChunkOf(job[p].at) \in job[p].touched
    BY <1>0, <1>2, JobFields, ChunkOfType DEF HoldsOK, Holds, ScanLabel2
  <2> QED BY <1>0, <2>1
<1>3. ASSUME NEW p \in Placers, Commit(p)
      PROVE  ~overwrote'
  <2>1. Stones(p) \subseteq Coord
    BY <1>0, JobFields DEF Stones, Range
  <2>2. Footprint(p) \subseteq Chunk
    BY <2>1, ByteOfType, ChunkOfType DEF Footprint
  <2> QED BY <1>2, <1>3, <2>2 DEF Commit, KeepsToLocks
<1>4. ASSUME NEW p \in Placers, Stray(p), Scanning(p), InBounds(RayCell(p))
      PROVE  ~strayed'[p]
  <2>1. RayCell(p) \in Coord
    BY <1>0, <1>4, JobFields, AlongType, GeometryAssumption DEF RayCell, Scanning
  <2>2. pc[p] = "rescan" => ChunkOf(RayCell(p)) \in job[p].touched
    BY <1>2, <2>1, ChunkOfType
  <2> QED BY <1>0, <1>4, <2>2 DEF Stray, KeepsToLocks
<1>5. ASSUME NEW p \in Placers, StepOf(p)
      PROVE  ~strayed'[p]
  <2> USE DEF history, KeepsToLocks
  <2>1. CASE Waits(p) \/ RLocked(p) \/ Returns(p)
    BY <1>0, <2>1 DEF Waits, AwaitRLock, AwaitLock, CooldownPasses, RLocked, Returns, RUnlockOne,
                ReadReturns, UnlockOne, WriteReturns, ReadSucceeds
  <2>2. CASE \E q \in Targets : BeginPlace(p, q)
    BY <1>0, <2>2 DEF BeginPlace
  <2>3. CASE RayMeetsEmpty(p) \/ RayMeetsOpponent(p) \/ RayMeetsTeam(p)
    BY <1>4, <2>3 DEF RayMeetsEmpty, RayMeetsOpponent, RayMeetsTeam
  <2>4. CASE Probe(p) \/ RayLeavesBoard(p) \/ ScanEnds(p) \/ ReadOccupied(p)
    BY <1>0, <2>4 DEF Probe, RayLeavesBoard, ScanEnds, ReadOccupied
  <2>5. CASE Locked(p) \/ Recheck(p)
    BY <1>0, <2>5 DEF Locked, Recheck
  <2>6. CASE Applies(p)
    BY <1>0, <2>6 DEF Applies, NoFlips, Commit, ReadPrev, LoadCount, StoreCount, LoadByte,
                StoreByte, Applied, LoadVersion, StoreVersion
  <2>7. p \in Proc /\ p \notin Readers
    BY PlacementAssumption DEF Proc
  <2> QED BY <1>5, <2>1, <2>2, <2>3, <2>4, <2>5, <2>6, <2>7, StepKinds DEF Scans
<1>6. ASSUME NEW r \in Proc, StepOf(r)
      PROVE  KeepsToLocks'
  <2>1. ~overwrote'
    BY <1>3, <1>6, BoardSteps DEF KeepsToLocks
  <2>2. \A p \in Placers \ {r} : ~strayed'[p]
    BY <1>0, <1>6, OthersStay DEF KeepsToLocks
  <2> QED BY <1>5, <1>6, <2>1, <2>2 DEF KeepsToLocks
<1> QED BY <1>1, <1>6, StepKinds

(* Where one chunk lock covers the board, placements are atomic: the server *)
(* implements AtomicBoard.                                                  *)
THEOREM AtomicUnderOneLock ==
  ASSUME BoardSize = ChunkSize
  PROVE  Spec => Atomic
<1>1. Init => KeepsToLocks
  BY DEF Init, KeepsToLocks
<1>2. LockInv /\ HoldsOK /\ KeepsToLocks /\ [Next]_vars => KeepsToLocks'
  BY OneLockNext
<1>3. KeepsToLocks => DecidesWithinLocks
  BY DEF KeepsToLocks, DecidesWithinLocks
<1> QED BY <1>1, <1>2, <1>3, LocksHeld, AtomicWithinLocks, PTL DEF Spec
=============================================================================
