----------------------------- MODULE Persistence -----------------------------
(***************************************************************************)
(* How the board survives the process: handlers commit placements and then *)
(* append a record of each to wal.log through a buffer (store.go); walSyncer*)
(* flushes the buffer; snapshotWriter writes the whole board to a file,    *)
(* points meta.json at it and compacts the log; restoreFromDisk rebuilds   *)
(* the board from meta.json, the snapshot it names and the log.            *)
(*                                                                         *)
(* The process may crash between any two of these steps: what was written  *)
(* to a file stays, what was in memory is lost.  Files are sequences of    *)
(* units: a record of the log is RecordUnits of them (21 bytes in the      *)
(* code), so that a write can end inside a record.                         *)
(*                                                                         *)
(* A placement is one step here, on the board of Othello.tla: Placement.tla*)
(* says how far that holds.                                                *)
(***************************************************************************)
EXTENDS Packing

CONSTANTS
  Handlers,      \* goroutines that handle a Place frame
  TeamOf,        \* TeamOf[h]: the team of the session of handler h
  Targets,       \* the coordinates clients ask for
  RecordUnits,   \* units of a record of the log (21 bytes)
  BufferUnits,   \* capacity of the bufio.Writer of the log (4096 bytes)
  OldLogs,       \* the logs that earlier lives of the process may have left
  Garbage,       \* the records a group of 21 bytes that is none may be read as
  MaxClock,      \* bound: the clock, in units shorter than the period of snapshots
  MaxLives       \* bound: starts of the process

Time   == 0 .. MaxClock
Record == [at : Targets, team : Team, ts : Time]
Unit   == [rec : Record, part : 1 .. RecordUnits]

None == [at |-> <<0, 0>>, team |-> Empty, ts |-> 0]   \* no record
NoMeta == [ts |-> 0, file |-> -1]                     \* there is no meta.json
NoFile == <<>>

VARIABLES
  board,      \* Board.cells; while the process is down, what it was when it stopped
  phase,      \* "up", "closed" (WAL.Close has run) or "down"
  clock,      \* time.Now().UnixMilli()
  lives,      \* how often the process was started
  pc,         \* pc[h]: what handler h does next
  rec,        \* rec[h]: the record it is about to append
  buffer,     \* WAL.bw: the units not yet written
  broken,     \* WAL.bw has met a write error, which it keeps
  log,        \* wal.log
  writer,     \* what snapshotWriter does next
  fired,      \* when its ticker last fired, or was made
  cut,        \* its variable ts
  image,      \* its variable data
  kept,       \* the variable kept of CompactAfter
  files,      \* files[t]: the snapshot file of time t
  meta,       \* meta.json
  trail,      \* history: the boards since the process started
  order,      \* history: order[h]: how many boards there were at the commit of h
  secured,    \* history: cells placed on and then synced, or in a snapshot
  appended,   \* history: cells of the records appended since the process started
  mishaps,    \* history: which of the cases restore does not handle took place
  graceful    \* history: the process stopped after WAL.Close, with nothing under way

memory  == <<pc, rec, buffer, broken>>
taking  == <<writer, fired, cut, image, kept>>
disk    == <<log, files, meta>>
history == <<trail, order, secured, appended, mishaps, graceful>>
vars    == <<board, phase, clock, lives, memory, taking, disk, history>>

Occupied(b) == {q \in Coord : b[q] # Empty}

-----------------------------------------------------------------------------
(* The log as ReplayWAL and CompactAfter read it: groups of RecordUnits;   *)
(* a group that is not the units of one record is read as some garbage.    *)

UnitsOf(r) == [i \in 1 .. RecordUnits |-> [rec |-> r, part |-> i]]

GroupCount(units)  == Len(units) \div RecordUnits
Group(units, g)    == SubSeq(units, (g - 1) * RecordUnits + 1, g * RecordUnits)
Groups(units)      == [g \in 1 .. GroupCount(units) |-> Group(units, g)]
WholeGroup(group)  == group = UnitsOf(group[1].rec)
ReadAs(group, bad) == IF WholeGroup(group) THEN group[1].rec ELSE bad
RecordsOf(units, bad) ==
  [g \in 1 .. GroupCount(units) |-> ReadAs(Group(units, g), bad)]

Torn(units) == Len(units) % RecordUnits # 0

(* The records that earlier lives left are older than the clock, and a log  *)
(* that does not end inside a record consists of records.                  *)
ASSUME PersistenceAssumption ==
  /\ TeamOf \in [Handlers -> Team]
  /\ Targets \subseteq Coord
  /\ RecordUnits \in Nat \ {0}
  /\ BufferUnits \in Nat \ {0}
  /\ RecordUnits <= BufferUnits
  /\ MaxClock \in Nat \ {0}
  /\ MaxLives \in Nat \ {0}
  /\ OldLogs \subseteq Seq(Unit)
  /\ \A l \in OldLogs : Torn(l) \/ \A g \in 1 .. GroupCount(l) :
       WholeGroup(Group(l, g)) /\ Group(l, g)[1].rec.ts = 0

-----------------------------------------------------------------------------
(* restoreFromDisk *)

FreshBoard == SeedBoard

replayCommittedPlacement(b, r) ==
  IF InBounds(r.at) /\ r.team \in Team /\ Flips(b, r.at, r.team) # {}
  THEN Placed(b, r.at, r.team)
  ELSE b

SkipNone(ts, since) == FALSE            \* mutant: every record is replayed
SkipNext(ts, since) == ts <= since + 1  \* mutant: records after the snapshot are skipped
Skipped(ts, since)  == ts <= since

ReplayWAL(b, since, bad) ==
  FoldLeft(LAMBDA c, r : IF Skipped(r.ts, since) THEN c ELSE replayCommittedPlacement(c, r),
           b, RecordsOf(log, bad))

Loadable == meta # NoMeta /\ files[meta.file] # NoFile

(* Without a snapshot the function returns before it looks at the log.     *)
Restored(bad) ==
  IF Loadable THEN ReplayWAL(decodeBoard(files[meta.file]), meta.ts, bad) ELSE FreshBoard

-----------------------------------------------------------------------------
Init ==
  /\ board = FreshBoard
  /\ phase = "up" /\ clock = 1 /\ lives = 1
  /\ pc = [h \in Handlers |-> "idle"]
  /\ rec = [h \in Handlers |-> None]
  /\ buffer = <<>> /\ broken = FALSE
  /\ writer = "wait" /\ fired = 1 /\ cut = 0 /\ image = NoFile /\ kept = <<>>
  /\ files = [t \in Time |-> IF t = 0 THEN encodeBoard(FreshBoard) ELSE NoFile]
  /\ meta \in {NoMeta, [ts |-> 0, file |-> 0]}
  /\ log \in OldLogs
  /\ trail = <<FreshBoard>>
  /\ order = [h \in Handlers |-> 0]
  /\ secured = {} /\ appended = {} /\ graceful = FALSE
  /\ mishaps = IF Torn(log) THEN {"torn"} ELSE {}

Running == phase \in {"up", "closed"}

Tick ==
  /\ clock < MaxClock
  /\ clock' = clock + 1
  /\ UNCHANGED <<board, phase, lives, memory, taking, disk, history>>

-----------------------------------------------------------------------------
(* handlePlace *)

Commit(h) ==
  /\ Running /\ pc[h] = "idle"
  /\ \E q \in Targets :
       /\ Flips(board, q, TeamOf[h]) # {}
       /\ board' = Placed(board, q, TeamOf[h])
       /\ rec' = [rec EXCEPT ![h] = [None EXCEPT !.at = q, !.team = TeamOf[h]]]
  /\ pc' = [pc EXCEPT ![h] = "stamp"]
  /\ trail' = Append(trail, board')
  /\ order' = [order EXCEPT ![h] = Len(trail')]
  /\ UNCHANGED <<phase, clock, lives, buffer, broken, taking, disk,
                 secured, appended, mishaps, graceful>>

(* The time of the record is read after Place has returned.  It can still  *)
(* be the millisecond of a snapshot whose image lacks the placement.       *)
Misses(data, ts, h) ==
  data # NoFile /\ ts = clock /\ decodeBoard(data)[rec[h].at] = Empty

Stamp(h) ==
  /\ Running /\ pc[h] = "stamp"
  /\ rec' = [rec EXCEPT ![h].ts = clock]
  /\ pc' = [pc EXCEPT ![h] = "append"]
  /\ mishaps' = IF \/ Misses(image, cut, h)
                   \/ (Loadable /\ Misses(files[meta.file], meta.ts, h))
                THEN mishaps \cup {"same time"} ELSE mishaps
  /\ UNCHANGED <<board, phase, clock, lives, buffer, broken, taking, disk,
                 trail, order, secured, appended, graceful>>

(* bufio.Writer.Write fills the buffer and writes it out only when the     *)
(* record does not fit; the error of Append is ignored, and the buffer     *)
(* takes nothing more after one.                                           *)
Overtakes(h) ==
  \E g \in Handlers : pc[g] \in {"stamp", "append"} /\ order[g] < order[h]

Unlocked == writer \notin {"truncate", "rewrite"}   \* CompactAfter holds WAL.mu

FitsAnyway(units) == TRUE              \* mutant: the buffer has no end
Fits(units)       == Len(units) <= BufferUnits

AppendRecord(h) ==
  /\ Running /\ pc[h] = "append" /\ Unlocked
  /\ LET all == buffer \o UnitsOf(rec[h]) IN
     \/ /\ broken
        /\ UNCHANGED <<buffer, broken, log, appended>>
     \/ /\ ~broken /\ Fits(all)
        /\ buffer' = all
        /\ appended' = appended \cup {rec[h].at}
        /\ UNCHANGED <<broken, log>>
     \/ /\ ~broken /\ ~Fits(all) /\ phase = "up"
        /\ log' = log \o SubSeq(all, 1, BufferUnits)
        /\ buffer' = SubSeq(all, BufferUnits + 1, Len(all))
        /\ appended' = appended \cup {rec[h].at}
        /\ UNCHANGED broken
     \/ /\ ~broken /\ ~Fits(all)
        /\ \E n \in 0 .. IF phase = "up" THEN BufferUnits - 1 ELSE 0 :
             /\ log' = log \o SubSeq(all, 1, n)
             /\ buffer' = SubSeq(all, n + 1, BufferUnits)
        /\ broken' = TRUE
        /\ UNCHANGED appended
  /\ pc' = [pc EXCEPT ![h] = "idle"]
  /\ rec' = [rec EXCEPT ![h] = None]
  /\ mishaps' = IF Overtakes(h) THEN mishaps \cup {"overtaken"} ELSE mishaps
  /\ UNCHANGED <<board, phase, clock, lives, taking, files, meta,
                 trail, order, secured, graceful>>

-----------------------------------------------------------------------------
(* WAL.Sync, called by walSyncer every 250 ms, and WAL.Close.              *)

FlushSucceeds ==
  /\ ~broken /\ phase = "up"
  /\ log' = log \o buffer
  /\ buffer' = <<>>
  /\ UNCHANGED broken

FlushFails ==
  /\ ~broken /\ phase = "up" /\ buffer # <<>>
  /\ \E n \in 0 .. Len(buffer) - 1 :
       /\ log' = log \o SubSeq(buffer, 1, n)
       /\ buffer' = SubSeq(buffer, n + 1, Len(buffer))
  /\ broken' = TRUE

SyncWAL ==
  /\ Unlocked
  /\ \/ FlushSucceeds /\ secured' = secured \cup appended
     \/ FlushFails /\ UNCHANGED secured
  /\ UNCHANGED <<board, phase, clock, lives, pc, rec, taking, files, meta,
                 trail, order, appended, mishaps, graceful>>

CloseWAL ==
  /\ Unlocked /\ phase = "up"
  /\ \/ FlushSucceeds /\ secured' = secured \cup appended
     \/ FlushFails /\ UNCHANGED secured
     \/ broken /\ UNCHANGED <<log, buffer, broken, secured>>
  /\ phase' = "closed"
  /\ UNCHANGED <<board, clock, lives, pc, rec, taking, files, meta,
                 trail, order, appended, mishaps, graceful>>

-----------------------------------------------------------------------------
(* snapshotWriter *)

WriterAt(here, there) ==
  /\ Running /\ writer = here
  /\ writer' = there

TakeTime ==
  /\ WriterAt("wait", "image")
  /\ clock > fired
  /\ fired' = clock
  /\ cut' = clock
  /\ UNCHANGED <<board, phase, clock, lives, memory, image, kept, disk, history>>

RoundEnds(here) ==
  /\ WriterAt(here, "wait")
  /\ cut' = 0 /\ image' = NoFile /\ kept' = <<>>
  /\ UNCHANGED fired

(* Under the read locks of all chunks. *)
EncodeBoard ==
  /\ WriterAt("image", "data")
  /\ image' = encodeBoard(board)
  /\ UNCHANGED <<board, phase, clock, lives, memory, fired, cut, kept, disk, history>>

(* Renaming the finished file makes it appear at once, under a name made   *)
(* of the time.                                                            *)
WriteData ==
  /\ WriterAt("data", "meta")
  /\ files' = [files EXCEPT ![cut] = image]
  /\ UNCHANGED <<board, phase, clock, lives, memory, fired, cut, image, kept, log, meta,
                 history>>

WriteMeta ==
  /\ WriterAt("meta", "compact")
  /\ meta' = [ts |-> cut, file |-> cut]
  /\ secured' = secured \cup Occupied(decodeBoard(image))
  /\ UNCHANGED <<board, phase, clock, lives, memory, fired, cut, image, kept, log, files,
                 trail, order, appended, mishaps, graceful>>

(* WriteSnapshot fails, and the round ends; or Flush fails in CompactAfter. *)
WriteSnapshotFails ==
  /\ writer \in {"data", "meta"}
  /\ RoundEnds(writer)
  /\ UNCHANGED <<board, phase, clock, lives, memory, disk, history>>

CompactFails ==
  /\ RoundEnds("compact")
  /\ \/ broken /\ UNCHANGED <<log, buffer, broken>>
     \/ FlushFails
     \/ phase = "closed" /\ UNCHANGED <<log, buffer, broken>>
  /\ UNCHANGED <<board, phase, clock, lives, pc, rec, files, meta, history>>

(* CompactAfter flushes, reads the log, picks the records to keep ...      *)
KeepsNone(ts) == FALSE                 \* mutant: the log is just emptied
Keeps(ts)     == ts > cut

Compact ==
  /\ WriterAt("compact", "truncate")
  /\ FlushSucceeds
  /\ \E bad \in Garbage :
       kept' = FoldLeft(LAMBDA k, group : IF Keeps(ReadAs(group, bad).ts) THEN k \o group ELSE k,
                        <<>>, Groups(log'))
  /\ UNCHANGED <<board, phase, clock, lives, pc, rec, fired, cut, image, files, meta,
                 history>>

(* ... truncates the file, and writes those records.  A write error leaves *)
(* some of them, and the process, which goes on, appends behind a part of  *)
(* one; the process may crash before it.                                   *)
Truncate ==
  /\ WriterAt("truncate", "rewrite")
  /\ log' = <<>>
  /\ UNCHANGED <<board, phase, clock, lives, memory, fired, cut, image, kept, files, meta,
                 history>>

Rewrite ==
  /\ RoundEnds("rewrite")
  /\ \/ log' = kept /\ UNCHANGED mishaps
     \/ /\ \E n \in 0 .. Len(kept) - 1 : log' = SubSeq(kept, 1, n)
        /\ mishaps' = mishaps \cup IF Torn(log') THEN {"log cut", "torn"} ELSE {"log cut"}
  /\ UNCHANGED <<board, phase, clock, lives, memory, files, meta, trail,
                 order, secured, appended, graceful>>

-----------------------------------------------------------------------------
(* The process ends: main returns after WAL.Close, or it crashes.  Then it *)
(* starts again.                                                           *)

Stop(gracefully) ==
  /\ phase' = "down"
  /\ pc' = [h \in Handlers |-> "idle"]
  /\ rec' = [h \in Handlers |-> None]
  /\ buffer' = <<>> /\ broken' = FALSE
  /\ writer' = "wait" /\ cut' = 0 /\ image' = NoFile /\ kept' = <<>>
  /\ mishaps' = IF writer = "rewrite" /\ kept # <<>>
                THEN mishaps \cup {"log cut"} ELSE mishaps
  /\ order' = [h \in Handlers |-> 0]
  /\ appended' = {}
  /\ graceful' = gracefully
  /\ UNCHANGED <<board, clock, lives, fired, disk, trail, secured>>

Exit ==
  /\ phase = "closed"
  /\ Stop(/\ \A h \in Handlers : pc[h] = "idle"
          /\ buffer = <<>> /\ ~broken)

Crash ==
  /\ Running /\ lives < MaxLives
  /\ Stop(FALSE)

(* Starting takes more than a millisecond.  OpenWAL appends to whatever is *)
(* there, a torn record included.                                          *)
Restart ==
  /\ phase = "down" /\ lives < MaxLives /\ clock < MaxClock
  /\ phase' = "up"
  /\ clock' = clock + 1
  /\ lives' = lives + 1
  /\ \E bad \in Garbage : board' = Restored(bad)
  /\ fired' = clock'
  /\ trail' = <<board'>>
  /\ secured' = secured \cap Occupied(board')
  /\ mishaps' = IF Torn(log) THEN mishaps \cup {"torn"} ELSE mishaps
  /\ graceful' = FALSE
  /\ UNCHANGED <<memory, writer, cut, image, kept, disk, order, appended>>

Next ==
  \/ Tick
  \/ \E h \in Handlers : Commit(h) \/ Stamp(h) \/ AppendRecord(h)
  \/ SyncWAL \/ CloseWAL
  \/ TakeTime \/ EncodeBoard \/ WriteData \/ WriteMeta \/ WriteSnapshotFails
  \/ CompactFails \/ Compact \/ Truncate \/ Rewrite
  \/ Exit \/ Crash \/ Restart

Spec == Init /\ [][Next]_vars

-----------------------------------------------------------------------------
(* Properties *)

(* Every variable has its type: main.go:226-361 and store.go.              *)
TypeOK ==
  /\ board \in [Coord -> Cell]
  /\ phase \in {"up", "closed", "down"}
  /\ clock \in Time /\ fired \in Time /\ cut \in Time
  /\ lives \in 1 .. MaxLives
  /\ pc \in [Handlers -> {"idle", "stamp", "append"}]
  /\ rec \in [Handlers -> Record \cup {None}]
  /\ buffer \in Seq(Unit) /\ Len(buffer) <= BufferUnits
  /\ broken \in BOOLEAN
  /\ log \in Seq(Unit) /\ kept \in Seq(Unit)
  /\ image \in Seq(Nat) /\ files \in [Time -> Seq(Nat)]
  /\ meta \in {NoMeta} \cup [ts : Time, file : Time]
  /\ writer \in {"wait", "image", "data", "meta", "compact", "truncate", "rewrite"}
  /\ trail \in Seq([Coord -> Cell]) /\ order \in [Handlers -> Nat]
  /\ secured \subseteq Coord /\ appended \subseteq Targets
  /\ mishaps \subseteq {"same time", "overtaken", "log cut", "torn"}

(* A placement that was synced, or is in a snapshot that was completed, can *)
(* be found again on disk at every moment: in the snapshot meta.json names  *)
(* or in a record of the log that the replay does not skip.  Compaction     *)
(* (store.go:146) only runs after the new meta.json is in place, and takes  *)
(* only what the snapshot has, unless the time of a record is that of the   *)
(* snapshot, the log was torn, or the process stopped inside compaction.    *)
Durably(units) ==
  (IF Loadable THEN Occupied(decodeBoard(files[meta.file])) ELSE {}) \cup
  {r.at : r \in {s \in Range(RecordsOf(units, None)) : s.ts > meta.ts \/ ~Loadable}}

NothingFallsBetween ==
  mishaps \cap {"same time", "log cut", "torn"} = {} =>
    secured \subseteq Durably(IF writer = "rewrite" THEN kept ELSE log)

(* A restart never invents a stone: every cell that is occupied after       *)
(* restoreFromDisk (main.go:301) was occupied when the process stopped, also*)
(* when older logs are around, records are replayed onto a snapshot that    *)
(* has them, and placements are judged anew in another order.               *)
NothingInvented ==
  [][phase = "down" /\ phase' = "up" /\ "torn" \notin mishaps
       => Occupied(board') \subseteq Occupied(board)]_vars

(* Across restarts the server keeps the promise of DurableBoard, provided   *)
(* there is a snapshot (main.go:303) and none of the cases that the restore *)
(* does not handle took place: then the snapshot, which may have more or    *)
(* less than its time says, and the log together give a board the game was  *)
(* in, with everything that was synced.                                     *)
DB == INSTANCE DurableBoard

Handled == mishaps = {} /\ (phase = "down" => meta # NoMeta)

Durable == DB!Init /\ [][Handled => DB!Next]_<<trail, secured>>

(* PLAN.md:44: the server "preserves board state across restart".  A server *)
(* that was stopped by a signal, with WAL.Close run and nothing under way,  *)
(* comes back with the board it had.                                        *)
PreservesBoard ==
  [][phase = "down" /\ phase' = "up" /\ graceful => board' = board]_vars
=============================================================================
