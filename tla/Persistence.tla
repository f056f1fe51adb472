---------------------------- MODULE Persistence ----------------------------
(***************************************************************************)
(* Durability of one node: src/persistence.js and src/local-wal.js, with    *)
(* the start sequence of src/index.js.                                      *)
(*                                                                          *)
(* Every change of the memory store is queued twice: for object storage     *)
(* (pend) and for the local write-ahead log (walPend).  A flush takes all   *)
(* that is pending and makes one storage call after another; a checkpoint   *)
(* writes a snapshot while flushes are paused; the log is appended to in    *)
(* the background, acknowledges writes, and is truncated by a flush that    *)
(* leaves nothing pending.  Writes and schema changes go on between any two *)
(* of these calls, each call may fail, and the process may stop at any      *)
(* moment.  A restart reads tombstones, snapshot, journals and the log.     *)
(*                                                                          *)
(* One database with one collection in one shard.  Objects are not told     *)
(* apart: what counts is which operations the memory and the storage hold.  *)
(* deletePrefix is one step.  Not covered: other nodes (module Replication),*)
(* retention of old snapshots, restores of a chosen snapshot.               *)
(***************************************************************************)
EXTENDS Integers, SequencesExt, FiniteSetsExt

CONSTANTS
    SchemaChanges,       \* which of SchemaKinds clients use
    AtomicTruncate,      \* no append overtakes a truncation, and one that fails
                         \* leaves the log as it was
    TornWrites,          \* an append that stops half-way may leave half a line
    MaxOps,              \* bound: largest sequence number
    MaxSchemaChanges,    \* bound: schema changes
    MaxFailures,         \* bound: storage and log calls that fail
    MaxRestarts          \* bound: restarts

SchemaKinds == {"createDb", "dropDb", "createColl", "dropColl"}

ASSUME PersistenceAssumption ==
    /\ SchemaChanges \subseteq SchemaKinds
    /\ AtomicTruncate \in BOOLEAN /\ TornWrites \in BOOLEAN
    /\ {MaxOps, MaxSchemaChanges, MaxFailures, MaxRestarts} \subseteq Nat

VARIABLES
    mem,                 \* memory: tombstones and applied operations
    seq,                 \* node.seq
    pend,                \* queued for object storage
    batch,               \* what the flush in progress took
    todo,                \* its calls that remain, made in the order of Stage
    s3,                  \* object storage
    ckpt,                \* checkpoint in progress
    walPend,             \* records queued for the log
    walBusy,             \* records being appended
    wal,                 \* the log file
    up,                  \* the process runs
    boots,               \* restarts so far
    schema,              \* schema changes so far
    failures,            \* failed calls so far
    acked,               \* history: acknowledged operations, not dropped since
    replayed,            \* history: kinds of log records that restarts replayed
    lapses               \* history: what put storage or log out of step with memory

data == <<mem, seq, pend, batch, todo, s3, ckpt, walPend, walBusy, wal>>
vars == <<data, up, boots, schema, failures, acked, replayed, lapses>>

Op == [run : 0..MaxRestarts, seq : 1..MaxOps]
NoOp == [run |-> 0, seq |-> 0]

Nothing == [ops |-> {}, db |-> FALSE, dbDrop |-> FALSE, meta |-> FALSE,
            collDrop |-> FALSE]
Idle == [phase |-> "idle", ops |-> {}, cursor |-> 0]
EmptyStorage == [dbTomb |-> FALSE, collTomb |-> FALSE, journal |-> {},
                 snap |-> {}, cursor |-> 0]

Rec(type) == [type |-> type, op |-> NoOp]
OpRec(o) == [type |-> "ops", op |-> o]
Torn == Rec("torn")      \* half a line at the end of the file
Glued == Rec("glued")    \* half a line and the record written after it
RecordTypes == {"ops", "database", "dropDatabase", "meta", "dropCollection"}

Queue == [ops : SUBSET Op, db : BOOLEAN, dbDrop : BOOLEAN, meta : BOOLEAN,
          collDrop : BOOLEAN]
Record == [type : RecordTypes \cup {"torn", "glued"}, op : Op \cup {NoOp}]
CallNames == {"deleteDb", "tombDb", "deleteColl", "tombColl", "untombDb", "untombColl",
          "journal", "truncate"}
\* Lapses that leave in storage what memory no longer shows; the others hide there
\* what memory does show.
LeftBehind == {"withdrawn", "requeued", "skipped"}
Lapses == {"unrecorded", "discarded", "renumbered"} \cup LeftBehind

TypeOK ==
    /\ mem \in [dbGone : BOOLEAN, collGone : BOOLEAN, ops : SUBSET Op]
    /\ seq \in 0..MaxOps
    /\ pend \in Queue /\ batch \in Queue
    /\ todo \subseteq CallNames
    /\ s3 \in [dbTomb : BOOLEAN, collTomb : BOOLEAN, journal : SUBSET Op,
               snap : SUBSET Op, cursor : 0..MaxOps]
    /\ ckpt \in [phase : {"idle", "flushing", "reading", "latest", "compact"},
                 ops : SUBSET Op, cursor : 0..MaxOps]
    /\ Range(walPend) \cup Range(walBusy) \cup Range(wal) \subseteq Record
    /\ \A r \in Range(walPend) \cup Range(walBusy) : r.type \in RecordTypes
    /\ up \in BOOLEAN /\ boots \in 0..MaxRestarts
    /\ schema \in 0..MaxSchemaChanges /\ failures \in 0..MaxFailures
    /\ acked \subseteq Op /\ replayed \subseteq RecordTypes \cup {"torn"}
    /\ lapses \subseteq Lapses

----------------------------------------------------------------------------
\* Queues: what each kind of change does to pend and to walPend.

WithoutCollection(records) ==
    LET kept[i \in 0..Len(records)] ==
            IF i = 0 THEN <<>>
            ELSE IF records[i].type \in {"ops", "meta", "dropCollection"} THEN kept[i - 1]
            ELSE Append(kept[i - 1], records[i])
    IN  kept[Len(records)]

\* Mutant: the operation is queued under the number the next one will get.
QueueNextNumber(p, o) == [p EXCEPT !.ops = @ \cup {[o EXCEPT !.seq = @ + 1]}]

QueueOp(p, o) == [p EXCEPT !.ops = @ \cup {o}]

\* A new database withdraws a drop that has not been flushed.
QueueDatabase(p) == [p EXCEPT !.db = TRUE, !.dbDrop = FALSE]

QueueDatabaseDrop(p) == [Nothing EXCEPT !.dbDrop = TRUE]

QueueMeta(p) == [p EXCEPT !.meta = TRUE]

QueueCollectionDrop(p) == [p EXCEPT !.collDrop = TRUE, !.meta = FALSE, !.ops = {}]

\* Mutant: a failed flush gives back schema changes only.
RequeuedSchemaOnly(p, b) ==
    [p EXCEPT !.db = @ \/ b.db, !.dbDrop = @ \/ b.dbDrop,
              !.meta = @ \/ b.meta, !.collDrop = @ \/ b.collDrop]

\* What a failed flush puts back.
Requeued(p, b) ==
    [ops |-> b.ops \cup p.ops, db |-> p.db \/ b.db, dbDrop |-> p.dbDrop \/ b.dbDrop,
     meta |-> p.meta \/ b.meta, collDrop |-> p.collDrop \/ b.collDrop]

If(c, calls) == IF c THEN calls ELSE {}

\* The calls of one flush.
CallsOf(b) ==
    If(b.dbDrop, {"deleteDb", "tombDb"}) \cup If(b.collDrop, {"deleteColl", "tombColl"})
    \cup If(b.db, {"untombDb"}) \cup If(b.meta, {"untombColl"})
    \cup If(b.ops # {}, {"journal"})

\* Mutant: collection metadata is written before collections are deleted.
StageMetaFirst ==
    [deleteDb |-> 1, tombDb |-> 2, untombDb |-> 3, untombColl |-> 4, deleteColl |-> 5,
     tombColl |-> 6, journal |-> 7, truncate |-> 8]

\* The order of the calls.
Stage ==
    [deleteDb |-> 1, tombDb |-> 2, deleteColl |-> 3, tombColl |-> 4, untombDb |-> 5,
     untombColl |-> 6, journal |-> 7, truncate |-> 8]

\* Object storage after some calls of a flush, made in that order.
Stored(s, calls, b) ==
    LET wiped == calls \cap {"deleteDb", "deleteColl"} # {} IN
    [dbTomb |-> "untombDb" \notin calls /\ ("tombDb" \in calls \/ s.dbTomb),
     collTomb |-> /\ "untombColl" \notin calls
                  /\ "tombColl" \in calls \/ (s.collTomb /\ "deleteDb" \notin calls),
     journal |-> (IF wiped THEN {} ELSE s.journal) \cup If("journal" \in calls, b.ops),
     snap |-> IF wiped THEN {} ELSE s.snap,
     cursor |-> IF wiped THEN 0 ELSE s.cursor]

\* The file after an append: half a line at its end takes the next record in.
Appended(file, records) ==
    IF records # <<>> /\ file # <<>> /\ Last(file) = Torn
    THEN Front(file) \o <<Glued>> \o Tail(records)
    ELSE file \o records

\* What an append that stops somewhere may leave.
Stopped(file, records) ==
    LET whole == {Appended(file, SubSeq(records, 1, k)) : k \in 0..Len(records)}
    IN  whole \cup
        IF TornWrites
        THEN {Append(f, Torn) : f \in whole \ {Appended(file, records)}}
        ELSE {}

----------------------------------------------------------------------------
\* Restore: tombstones, snapshot, journals after its cursor, then the log.

\* Mutant: numbering goes on after the journals, whatever the snapshot covers.
RestoredByJournals(s) ==
    LET gone == s.dbTomb \/ s.collTomb IN
    [ok |-> TRUE, dbGone |-> s.dbTomb, collGone |-> s.collTomb,
     ops |-> IF gone THEN {} ELSE s.snap \cup {o \in s.journal : o.seq > s.cursor},
     seq |-> IF gone THEN 0 ELSE Max({0} \cup {o.seq : o \in s.journal})]

Restored(s) ==
    LET gone == s.dbTomb \/ s.collTomb IN
    [ok |-> TRUE, dbGone |-> s.dbTomb, collGone |-> s.collTomb,
     ops |-> IF gone THEN {} ELSE s.snap \cup {o \in s.journal : o.seq > s.cursor},
     seq |-> IF gone THEN 0
             ELSE Max({0, s.cursor} \cup {o.seq : o \in s.journal})]

\* As record i of the log is replayed: removed before, and not created since.
Gone(i, drop, create, before) ==
    \/ before /\ \A j \in 1..i-1 : wal[j].type # create
    \/ \E j \in 1..i-1 :
          wal[j].type = drop /\ \A k \in j+1..i-1 : wal[k].type # create

\* No removal is replayed after record i.
Kept(i) == \A j \in i+1..Len(wal) : wal[j].type \notin {"dropDatabase", "dropCollection"}

\* Storage, then the log record by record; applyRemote skips what is removed, and
\* setCollectionMeta throws in a deleted database.
Recovered ==
    LET stored == Restored(s3)
        dbGone(i) == Gone(i, "dropDatabase", "database", stored.dbGone)
        collGone(i) == Gone(i, "dropCollection", "meta", stored.collGone)
        applied == {i \in DOMAIN wal : /\ wal[i].type = "ops" /\ Kept(i)
                                       /\ ~dbGone(i) /\ ~collGone(i)}
    IN  [ok |-> \A i \in DOMAIN wal : /\ wal[i].type # "glued"
                                      /\ wal[i].type = "meta" => ~dbGone(i),
         dbGone |-> dbGone(Len(wal) + 1), collGone |-> collGone(Len(wal) + 1),
         ops |-> {o \in stored.ops : Kept(0)} \cup {wal[i].op : i \in applied},
         seq |-> Max({stored.seq} \cup {r.op.seq : r \in Range(wal)})]

----------------------------------------------------------------------------
Init ==
    /\ mem = [dbGone |-> FALSE, collGone |-> FALSE, ops |-> {}]
    /\ seq = 0 /\ pend = Nothing /\ batch = Nothing /\ todo = {}
    /\ s3 = EmptyStorage /\ ckpt = Idle
    /\ walPend = <<>> /\ walBusy = <<>> /\ wal = <<>>
    /\ up = TRUE /\ boots = 0 /\ schema = 0 /\ failures = 0
    /\ acked = {} /\ replayed = {} /\ lapses = {}

\* insertMany: apply in memory and queue.
Insert ==
    LET o == [run |-> boots, seq |-> seq + 1] IN
    /\ up /\ ~mem.dbGone /\ ~mem.collGone /\ seq < MaxOps
    /\ seq' = seq + 1
    /\ mem' = [mem EXCEPT !.ops = @ \cup {o}]
    /\ pend' = QueueOp(pend, o)
    /\ walPend' = Append(walPend, OpRec(o))
    /\ UNCHANGED <<batch, todo, s3, ckpt, walBusy, wal, up, boots, schema, failures,
                   acked, replayed, lapses>>

Schema(kind) ==
    /\ up /\ kind \in SchemaChanges /\ schema < MaxSchemaChanges
    /\ schema' = schema + 1
    /\ UNCHANGED <<seq, batch, todo, s3, ckpt, walBusy, wal, up, boots, failures,
                   replayed>>

CreateDatabase ==
    /\ Schema("createDb")
    /\ mem' = [mem EXCEPT !.dbGone = FALSE]
    /\ pend' = QueueDatabase(pend)
    /\ walPend' = Append(walPend, Rec("database"))
    /\ lapses' = lapses \cup If(pend.dbDrop, {"withdrawn"})
    /\ UNCHANGED acked

\* A removal of the collection has left the queues.
CollectionDropTaken ==
    \/ s3.collTomb \/ batch.collDrop
    \/ \E r \in Range(wal) \cup Range(walBusy) : r.type = "dropCollection"

\* removeDatabase tells persistence of the first removal only.  Queued metadata is
\* discarded, and with it what would have undone the removal of the collection.
RemoveDatabase ==
    /\ Schema("dropDb") /\ ~mem.dbGone
    /\ mem' = [mem EXCEPT !.dbGone = TRUE, !.ops = {}]
    /\ pend' = QueueDatabaseDrop(pend)
    /\ walPend' = <<Rec("dropDatabase")>>
    /\ acked' = {}
    /\ lapses' = lapses \cup If(/\ pend.meta \/ Rec("meta") \in Range(walPend)
                               /\ CollectionDropTaken, {"discarded"})

\* createCollection forgets the tombstone even when the database is gone: then it
\* throws, and queues nothing.
CreateCollection ==
    /\ Schema("createColl")
    /\ mem' = [mem EXCEPT !.collGone = FALSE]
    /\ IF mem.dbGone
       THEN UNCHANGED <<pend, walPend>>
       ELSE /\ pend' = QueueMeta(pend)
            /\ walPend' = Append(walPend, Rec("meta"))
    /\ lapses' = lapses \cup If(mem.dbGone /\ mem.collGone, {"unrecorded"})
    /\ UNCHANGED acked

RemoveCollection ==
    /\ Schema("dropColl") /\ ~mem.collGone
    /\ mem' = [mem EXCEPT !.collGone = TRUE, !.ops = {}]
    /\ pend' = QueueCollectionDrop(pend)
    /\ walPend' = Append(WithoutCollection(walPend), Rec("dropCollection"))
    /\ acked' = {}
    /\ UNCHANGED lapses

----------------------------------------------------------------------------
\* _flushOnce takes all that is pending.
TakeBatch ==
    /\ todo = {} /\ pend # Nothing
    /\ batch' = pend /\ pend' = Nothing /\ todo' = CallsOf(pend)

StartFlush ==
    /\ up /\ ckpt = Idle /\ TakeBatch
    /\ UNCHANGED <<mem, seq, s3, ckpt, walPend, walBusy, wal, up, boots, schema, failures,
                   acked, replayed, lapses>>

\* Mutant: truncate without looking at what was queued meanwhile.
MayTruncateAlways == TRUE

\* _truncateLocalWalIfDurable: nothing queued, nothing being appended.
MayTruncate == walPend = <<>> /\ walBusy = <<>> /\ pend = Nothing

IsNext(call) == call \in todo /\ \A other \in todo : Stage[call] <= Stage[other]

\* One call of the flush succeeds; after the last one the log may be truncated.
FlushCall == \E call \in todo :
    /\ up /\ IsNext(call)
    /\ s3' = Stored(s3, {call}, batch)
    /\ wal' = IF call = "truncate" THEN <<>> ELSE wal
    /\ todo' = IF todo = {call} /\ call # "truncate" /\ MayTruncate
               THEN {"truncate"} ELSE todo \ {call}
    /\ batch' = IF todo' = {} THEN Nothing ELSE batch
    /\ UNCHANGED <<mem, seq, pend, ckpt, walPend, walBusy, up, boots, schema, failures,
                   acked, replayed, lapses>>

\* A call fails, with or without its effect: the batch is queued again, also what a
\* removal has discarded meanwhile.  A checkpoint that waits for this flush is given up.
FailFlush == \E call \in todo :
    /\ up /\ IsNext(call) /\ failures < MaxFailures
    /\ failures' = failures + 1
    /\ s3' \in {s3, Stored(s3, {call}, batch)}
    /\ wal' \in {wal, IF call = "truncate" /\ ~AtomicTruncate THEN <<>> ELSE wal}
    /\ pend' = Requeued(pend, batch)
    /\ batch' = Nothing /\ todo' = {}
    /\ ckpt' = IF ckpt.phase = "flushing" THEN Idle ELSE ckpt
    /\ lapses' = lapses \cup If(/\ pend.dbDrop \/ pend.collDrop
                                /\ batch.ops # {} \/ batch.db \/ batch.meta, {"requeued"})
    /\ UNCHANGED <<mem, seq, walPend, walBusy, up, boots, schema, acked, replayed>>

----------------------------------------------------------------------------
\* checkpoint waits for a flush: the one in progress, or a new one.
RequestCheckpoint ==
    /\ up /\ ckpt = Idle
    /\ ckpt' = [Idle EXCEPT !.phase = "flushing"]
    /\ TakeBatch \/ (~(todo = {} /\ pend # Nothing) /\ UNCHANGED <<pend, batch, todo>>)
    /\ UNCHANGED <<mem, seq, s3, walPend, walBusy, wal, up, boots, schema,
                   failures, acked, replayed, lapses>>

\* Flushes are paused and the coverage is read; a removed collection has no scope.
PauseFlushes ==
    /\ up /\ ckpt.phase = "flushing" /\ todo = {}
    /\ ckpt' = IF mem.dbGone \/ mem.collGone THEN Idle
               ELSE [phase |-> "reading", ops |-> {}, cursor |-> seq]
    /\ UNCHANGED <<mem, seq, pend, batch, todo, s3, walPend, walBusy, wal, up, boots,
                   schema, failures, acked, replayed, lapses>>

\* The segments are read from memory when they are written.
ReadSegments ==
    /\ up /\ ckpt.phase = "reading"
    /\ ckpt' = [ckpt EXCEPT !.phase = "latest", !.ops = mem.ops]
    /\ UNCHANGED <<mem, seq, pend, batch, todo, s3, walPend, walBusy, wal, up, boots,
                   schema, failures, acked, replayed, lapses>>

Latest(s, c) == [s EXCEPT !.snap = c.ops, !.cursor = c.cursor]

WriteLatest ==
    /\ up /\ ckpt.phase = "latest"
    /\ s3' = Latest(s3, ckpt)
    /\ ckpt' = [ckpt EXCEPT !.phase = "compact"]
    /\ UNCHANGED <<mem, seq, pend, batch, todo, walPend, walBusy, wal, up, boots,
                   schema, failures, acked, replayed, lapses>>

\* Mutant: a finished checkpoint leaves the flushes paused.
ResumedNever(c) == [c EXCEPT !.phase = "latest"]

\* finally: flushPaused = false.
Resumed(c) == Idle

\* _compactJournals: journals up to the cursor are deleted; of one that goes beyond
\* it, a restore skips the operations up to the cursor, so they count as deleted.
CompactJournals ==
    /\ up /\ ckpt.phase = "compact"
    /\ s3' = [s3 EXCEPT !.journal = {o \in @ : o.seq > ckpt.cursor}]
    /\ ckpt' = Resumed(ckpt)
    /\ UNCHANGED <<mem, seq, pend, batch, todo, walPend, walBusy, wal, up, boots,
                   schema, failures, acked, replayed, lapses>>

\* A storage call of the checkpoint fails.
FailCheckpoint ==
    /\ up /\ ckpt.phase \in {"reading", "latest", "compact"} /\ failures < MaxFailures
    /\ failures' = failures + 1
    /\ s3' \in {s3, IF ckpt.phase = "latest" THEN Latest(s3, ckpt) ELSE s3}
    /\ ckpt' = Resumed(ckpt)
    /\ UNCHANGED <<mem, seq, pend, batch, todo, walPend, walBusy, wal, up, boots,
                   schema, acked, replayed, lapses>>

----------------------------------------------------------------------------
\* _flushLocalOnce takes the queued records.
StartAppend ==
    /\ up /\ walBusy = <<>> /\ walPend # <<>>
    /\ AtomicTruncate => todo # {"truncate"}
    /\ walBusy' = walPend /\ walPend' = <<>>
    /\ UNCHANGED <<mem, seq, pend, batch, todo, s3, ckpt, wal, up, boots, schema,
                   failures, acked, replayed, lapses>>

\* The records are in the file: afterWrite returns and the writes are acknowledged.
FinishAppend ==
    /\ up /\ walBusy # <<>>
    /\ wal' = Appended(wal, walBusy) /\ walBusy' = <<>>
    /\ acked' = acked \cup ({r.op : r \in Range(walBusy)} \cap mem.ops)
    /\ UNCHANGED <<mem, seq, pend, batch, todo, s3, ckpt, walPend, up, boots, schema,
                   failures, replayed, lapses>>

\* The append fails: some of it may be in the file, all of it is queued again.
FailAppend ==
    /\ up /\ walBusy # <<>> /\ failures < MaxFailures
    /\ failures' = failures + 1
    /\ wal' \in Stopped(wal, walBusy)
    /\ walPend' = walBusy \o walPend /\ walBusy' = <<>>
    /\ UNCHANGED <<mem, seq, pend, batch, todo, s3, ckpt, up, boots, schema, acked,
                   replayed, lapses>>

\* The process stops: memory and everything queued or in progress is lost.
Crash ==
    /\ up /\ boots < MaxRestarts
    /\ up' = FALSE
    /\ wal' \in Stopped(wal, walBusy)
    /\ mem' = [dbGone |-> FALSE, collGone |-> FALSE, ops |-> {}]
    /\ seq' = 0 /\ pend' = Nothing /\ batch' = Nothing /\ todo' = {} /\ ckpt' = Idle
    /\ walPend' = <<>> /\ walBusy' = <<>>
    /\ UNCHANGED <<s3, boots, schema, failures, acked, replayed, lapses>>

\* restore, then start: only what changes from now on is queued.  When a snapshot was
\* written for a collection that storage holds as removed, its cursor is not restored.
Restart ==
    /\ ~up /\ Recovered.ok
    /\ up' = TRUE /\ boots' = boots + 1
    /\ mem' = [dbGone |-> Recovered.dbGone, collGone |-> Recovered.collGone,
               ops |-> Recovered.ops]
    /\ seq' = Recovered.seq
    /\ replayed' = replayed \cup {r.type : r \in Range(wal)}
    /\ lapses' = lapses \cup If((s3.dbTomb \/ s3.collTomb) /\ Recovered.seq < s3.cursor,
                               {"renumbered"})
                      \cup If((s3.dbTomb \/ s3.collTomb) /\ s3.snap # {}, {"skipped"})
    /\ UNCHANGED <<pend, batch, todo, s3, ckpt, walPend, walBusy, wal, schema, failures,
                   acked>>

Next ==
    \/ Insert
    \/ CreateDatabase \/ RemoveDatabase \/ CreateCollection \/ RemoveCollection
    \/ StartFlush \/ FlushCall \/ FailFlush
    \/ RequestCheckpoint \/ PauseFlushes \/ ReadSegments \/ WriteLatest
    \/ CompactJournals \/ FailCheckpoint
    \/ StartAppend \/ FinishAppend \/ FailAppend
    \/ Crash \/ Restart

Spec == Init /\ [][Next]_vars

----------------------------------------------------------------------------
\* Object storage once everything that is queued has been written, in order.
Drained ==
    LET written == Stored(s3, todo, batch)
        snapped == IF ckpt.phase = "latest" THEN Latest(written, ckpt) ELSE written
    IN  Stored(snapped, CallsOf(pend), pend)

(***************************************************************************)
(* Nothing that memory accepted is forgotten: an operation that this        *)
(* process applied and memory still shows is in object storage, or will be  *)
(* once the queues have been written and nothing queued with it takes it    *)
(* away again, whatever fails, is dropped, or is checkpointed meanwhile     *)
(* (_flushOnce, its requeueing, _writeSnapshot, _compactJournals).          *)
(* Excepted are a process that replayed schema changes from the log, which  *)
(* it never queues for object storage, and three lapses: a collection       *)
(* created in a removed database while its own removal is remembered,       *)
(* metadata discarded with a removed database, and numbers that begin again *)
(* below the cursor of a snapshot.                                          *)
(***************************************************************************)
NothingForgotten ==
    up /\ replayed \subseteq {"ops"} /\ lapses \subseteq LeftBehind =>
        {o \in mem.ops : o.run = boots} \subseteq Restored(Drained).ops

(***************************************************************************)
(* An operation acknowledged by the local log survives the next stop of the *)
(* process, unless the restore refuses to start at all: at every moment     *)
(* object storage and the log together bring it back (flushLocal,           *)
(* _truncateLocalWalIfDurable, _restoreLocalWal).  Excepted as above.       *)
(***************************************************************************)
AckedRecoverable ==
    Recovered.ok /\ replayed \subseteq {"ops"} /\ lapses \subseteq LeftBehind =>
        {o \in acked : o.run = boots} \subseteq Recovered.ops

(***************************************************************************)
(* The queues lead to memory: once they are written, a restart shows what   *)
(* memory shows: the same operations and no dropped one, the same database, *)
(* and a collection that accepts writes if memory does (_queueDatabase,     *)
(* _queueDatabaseDrop, _queueMeta, _queueCollectionDrop, _flushOnce).  A    *)
(* process that replayed the log is excepted, the lapses above, and three   *)
(* that leave behind what was removed: a database created again before its  *)
(* removal was flushed, a failed flush that queues again what a removal has *)
(* meanwhile discarded, and a snapshot that a restart skipped because its   *)
(* collection was still removed in storage.                                 *)
(***************************************************************************)
QueuesLeadToMemory ==
    up /\ replayed = {} /\ lapses = {} =>
        /\ Restored(Drained).ops = mem.ops
        /\ Restored(Drained).dbGone = mem.dbGone
        /\ Restored(Drained).collGone => mem.dbGone \/ mem.collGone

(***************************************************************************)
(* API.md, Delete Database: "Deletion removes the database metadata and     *)
(* objects".  Whatever is created or fails afterwards, an operation that a  *)
(* removal took out of memory is not left behind in object storage for the  *)
(* next restart (_queueDatabase, _queueDatabaseDrop).                       *)
(***************************************************************************)
RemovedStaysRemoved ==
    up /\ replayed = {} => Restored(Drained).ops \subseteq mem.ops

(***************************************************************************)
(* SERVER.md: "Process exits after WAL acknowledgement: the WAL is replayed *)
(* before the node becomes ready".  An acknowledged operation stays within  *)
(* reach however often the process stops (_restoreLocalWal, then start).    *)
(***************************************************************************)
AckedSurvives == Recovered.ok => acked \subseteq Recovered.ops

(***************************************************************************)
(* The same line of SERVER.md: after an acknowledgement the log can be      *)
(* replayed, so the node does become ready (append, readRecords).           *)
(***************************************************************************)
Restartable == acked # {} => Recovered.ok

----------------------------------------------------------------------------
\* Liveness.  The flush timer is a setInterval that is never cleared while the
\* process lives, storage calls return, and a stopped process is started again.
\* Checked with MaxFailures = 0: an outage is over.
Fairness ==
    /\ WF_vars(StartFlush) /\ WF_vars(FlushCall)
    /\ WF_vars(PauseFlushes) /\ WF_vars(ReadSegments) /\ WF_vars(WriteLatest)
    /\ WF_vars(CompactJournals) /\ WF_vars(Restart)

FairSpec == Spec /\ Fairness

(***************************************************************************)
(* Once clients stop, everything reaches object storage: the queues run     *)
(* empty and a restart from storage alone shows what memory shows, although *)
(* checkpoints pause the flushes again and again.  A process that replayed  *)
(* the log is excepted as above.                                            *)
(***************************************************************************)
Drains ==
    <>[](up /\ replayed = {} /\ lapses = {} => Restored(s3).ops = mem.ops)

============================================================================
