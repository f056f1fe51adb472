---------------------------- MODULE DerivedState ----------------------------
(***************************************************************************)
(* The derived state of a collection: src/store.js (Collection, FieldIndex, *)
(* TypedRidColumn, RidBitmapQueue) with src/derived-state-scheduler.js and  *)
(* src/query-planner.js.                                                    *)
(*                                                                          *)
(* One field of the rows may be indexed, kept in a column, or both.  A      *)
(* column takes the field out of the stored row, so the row is read through *)
(* it; an index answers queries without looking at the rows.  Both are      *)
(* built by jobs that scan the rows a few at a time while writes go on, and *)
(* a large batch of writes leaves its rows dirty for a third job.           *)
(*                                                                          *)
(* Simplifications: one collection and one field; rows are named by their   *)
(* rid; every write is newer than the row (module RowMeta has the rest);    *)
(* the field is a number, null or absent; a job yields after every row.     *)
(***************************************************************************)
EXTENDS Integers, FiniteSets, SequencesExt

CONSTANTS
    MaxRid,              \* bound: rows
    Values,              \* the numbers the field may hold
    Shards,              \* shard names a row may carry
    Scenarios,           \* what the collection starts with and what may happen
    MaxWrites            \* bound: batches of writes

Rids == 1..MaxRid
Null == -1
Absent == -2             \* the row has no such field
Gone == -3               \* there is no row
Untouched == -4
Fields == Values \cup {Null, Absent}
Cells == Fields \cup {Gone}
NoShard == "none"

\* How many rows a batch has: fewer than INDEX_DEFER_MIN_ROWS; more, but not
\* all of them newer than the row; or more.
Sizes == {"small", "shrunk", "large"}

\* What a scenario may allow: batches of two rows, or of one row twice, failing
\* builds, drops, the same metadata again, and a second write of a row while an
\* index is built from a scan.
Chances == {"pairs", "twice", "fails", "drops", "repeat", "again"}

ASSUME DerivedStateAssumption ==
    /\ MaxRid \in Nat /\ MaxWrites \in Nat
    /\ Values \subseteq Nat /\ NoShard \notin Shards
    /\ \A sc \in Scenarios :
          /\ sc.start \in {"empty", "ready", "restored"}
          /\ sc.rows \in Seq(Fields) /\ Len(sc.rows) <= MaxRid
          /\ sc.meta \in [index : BOOLEAN, column : BOOLEAN]
          /\ sc.metas \subseteq [index : BOOLEAN, column : BOOLEAN]
          /\ sc.sizes \subseteq Sizes
          /\ sc.fields \subseteq Fields
          /\ sc.shards \subseteq Shards \cup {NoShard}
          /\ sc.may \subseteq Chances

VARIABLES
    scenario,
    written,             \* the field as it was last written
    coll,                \* the collection in memory
    jobs,                \* derived state jobs: the active one and the queue
    writes               \* batches so far

vars == <<scenario, written, coll, jobs, writes>>

----------------------------------------------------------------------------
\* The three structures.

EmptyIndex == [entries |-> {}, forward |-> [r \in Rids |-> Gone]]

AddValue(index, r, v) ==
    [entries |-> index.entries \cup {<<r, v>>}, forward |-> [index.forward EXCEPT ![r] = v]]

RemoveValue(index, r, v) ==
    [entries |-> index.entries \ {<<r, v>>}, forward |-> [index.forward EXCEPT ![r] = Gone]]

RemoveRid(index, r) ==
    IF index.forward[r] = Gone THEN index ELSE RemoveValue(index, r, index.forward[r])

\* A row leaves its old entry and enters the new one.
Moved(index, r, before, after) ==
    LET left == IF before = Gone THEN index ELSE RemoveValue(index, r, before)
    IN IF after = Gone THEN left ELSE AddValue(left, r, after)

EmptyColumn ==
    [status |-> "ready", vals |-> [r \in Rids |-> Absent],
     pending |-> [r \in Rids |-> Untouched], id |-> 0,
     sum |-> 0, numbers |-> 0, entries |-> 0]

Number(v) == IF v \in Values THEN v ELSE 0
One(condition) == IF condition THEN 1 ELSE 0
ColumnState(v) == IF v = Gone THEN Absent ELSE v

\* Mutant: the summaries forget what the row counted for.
AddState(column, r, v) ==
    [column EXCEPT !.vals[r] = v,
        !.sum = @ + Number(v),
        !.numbers = @ + One(v \in Values),
        !.entries = @ + One(v # Absent) - One(column.vals[r] # Absent)]

ApplyState(column, r, v) ==
    LET old == column.vals[r]
    IN [column EXCEPT !.vals[r] = v,
           !.sum = @ - Number(old) + Number(v),
           !.numbers = @ - One(old \in Values) + One(v \in Values),
           !.entries = @ - One(old # Absent) + One(v # Absent)]

UpdateState(column, r, v) ==
    IF column.status = "building" THEN [column EXCEPT !.pending[r] = v]
    ELSE ApplyState(column, r, v)

StartBuild(column) ==
    [column EXCEPT !.status = "building", !.pending = EmptyColumn.pending, !.id = @ + 1]

\* What was written during the build is replayed over what was scanned, up to rid n.
Replay(column, built, n) ==
    LET upTo[r \in 0..n] ==
            IF r = 0 THEN built
            ELSE IF column.pending[r] = Untouched THEN upTo[r - 1]
            ELSE ApplyState(upTo[r - 1], r, column.pending[r])
    IN upTo[n]

Install(column, built) == [Replay(column, built, MaxRid) EXCEPT !.id = column.id]

NoChange == [before |-> Gone, after |-> Gone]
NoBuild == [status |-> "none", token |-> 0, pending |-> [r \in Rids |-> NoChange]]

----------------------------------------------------------------------------
\* The collection.

NewCollection ==
    [exists |-> TRUE, rows |-> 0, base |-> [r \in Rids |-> Gone],
     meta |-> [index |-> FALSE, column |-> FALSE],
     indexed |-> FALSE, index |-> EmptyIndex, build |-> NoBuild, tokens |-> 0,
     columned |-> FALSE, column |-> EmptyColumn,
     dirty |-> <<>>, dirtyBuild |-> FALSE, indexBuildPending |-> FALSE,
     live |-> 0, shard |-> [r \in Rids |-> NoShard],
     shardRids |-> [s \in Shards |-> {}], unsharded |-> 0]

Dirty(c) == Range(c.dirty)
LiveRids(c) == {r \in Rids : c.base[r] # Gone}
Ready(c) == c.columned /\ c.column.status = "ready"
Building(c) == c.columned /\ c.column.status = "building"

\* Mutant: a dirty row is read through the column as well.
HydratedAlways(c, r) ==
    IF c.base[r] # Gone /\ c.columned /\ c.column.vals[r] # Absent
    THEN c.column.vals[r] ELSE c.base[r]

\* What a read of the row finds in the field.
Hydrated(c, r) ==
    IF /\ c.base[r] # Gone /\ r \notin Dirty(c)
       /\ c.columned /\ c.column.vals[r] # Absent
    THEN c.column.vals[r] ELSE c.base[r]

\* What is stored of a row: without the field when a ready column has it.
BaseValue(c, v) == IF Ready(c) THEN Absent ELSE v

HasIndexWork ==
    \/ coll.indexed \/ coll.columned \/ coll.build.status # "none"
    \/ \E i \in DOMAIN jobs : jobs[i].kind = "column"

AddShardRid(c, r, s) ==
    IF s = NoShard THEN [c EXCEPT !.unsharded = @ + 1]
    ELSE [c EXCEPT !.shardRids[s] = @ \cup {r}]

RemoveShardRid(c, r, s) ==
    IF s = NoShard THEN [c EXCEPT !.unsharded = IF @ > 0 THEN @ - 1 ELSE @]
    ELSE [c EXCEPT !.shardRids[s] = @ \ {r}]

\* Mutant: a row that moves is not taken out of the shard it leaves.
ShardKept(c, r, was, shard) ==
    IF was # shard THEN AddShardRid(c, r, shard) ELSE c

ShardMoved(c, r, was, shard) ==
    IF was # shard THEN AddShardRid(RemoveShardRid(c, r, was), r, shard) ELSE c

\* A put of one row; what the indexes must learn goes to the deltas.
PutObject(s, row, keep) ==
    LET c == s.c
        r == row.rid
        isLive == c.base[r] # Gone
        shard == IF row.shard = NoShard THEN c.shard[r] ELSE row.shard
        stored == [c EXCEPT
            !.base[r] = IF keep \/ c.dirty # <<>> THEN row.field ELSE BaseValue(c, row.field),
            !.rows = IF r > @ THEN r ELSE @,
            !.live = @ + One(~isLive),
            !.shard[r] = shard]
    IN [c |-> IF isLive THEN ShardMoved(stored, r, c.shard[r], shard)
              ELSE AddShardRid(stored, r, shard),
        deltas |-> Append(s.deltas, [rid |-> r, before |-> Hydrated(c, r), after |-> row.field])]

\* The first n puts of a batch.
Put(c, rows, keep, n) ==
    LET upTo[i \in 0..n] ==
            IF i = 0 THEN [c |-> c, deltas |-> <<>>] ELSE PutObject(upTo[i - 1], rows[i], keep)
    IN upTo[n]

\* A delete of one row keeps its shard in the metadata.
DeleteObject(s, r) ==
    LET c == s.c
        removed == [c EXCEPT !.base[r] = Gone, !.live = @ - 1]
    IN IF c.base[r] = Gone THEN s
       ELSE [c |-> RemoveShardRid(removed, r, c.shard[r]),
             deltas |-> Append(s.deltas, [rid |-> r, before |-> Hydrated(c, r), after |-> Gone])]

\* A build keeps the first value a row had and the last it was given.
RecordFieldBuildDelta(c, d) ==
    LET old == c.build.pending[d.rid]
        first == IF old = NoChange THEN d.before ELSE old.before
    IN IF c.build.status # "building" THEN c
       ELSE [c EXCEPT !.build.pending[d.rid] = [before |-> first, after |-> d.after]]

RecordColumnBuildDelta(c, d) ==
    IF Building(c) THEN [c EXCEPT !.column = UpdateState(@, d.rid, ColumnState(d.after))] ELSE c

Recorded(c, d) == RecordColumnBuildDelta(RecordFieldBuildDelta(c, d), d)

MarkIndexDirty(c, d) ==
    [Recorded(c, d) EXCEPT !.dirty = IF d.rid \in Dirty(c) THEN @ ELSE Append(@, d.rid)]

ApplyIndexDelta(c, d) ==
    LET told == Recorded(c, d)
        moved == IF c.indexed THEN [told EXCEPT !.index = Moved(@, d.rid, d.before, d.after)]
                 ELSE told
    IN IF d.rid \in Dirty(c) THEN told
       ELSE IF ~c.columned \/ c.column.status = "building" THEN moved
       ELSE [moved EXCEPT !.column = UpdateState(@, d.rid, ColumnState(d.after))]

\* The first n changes of a batch, marked or applied in order.
Told(c, deltas, defer, n) ==
    LET upTo[i \in 0..n] ==
            IF i = 0 THEN c
            ELSE IF defer THEN MarkIndexDirty(upTo[i - 1], deltas[i])
            ELSE ApplyIndexDelta(upTo[i - 1], deltas[i])
    IN upTo[n]

\* A large batch is left to the catch-up job.
ApplyIndexDeltas(s, defer) ==
    LET told == Told(s.c, s.deltas, defer, Len(s.deltas))
    IN IF s.deltas # <<>> /\ defer THEN [told EXCEPT !.dirtyBuild = TRUE] ELSE told

----------------------------------------------------------------------------
\* Jobs.

Job(kind, token) ==
    [kind |-> kind, token |-> token, phase |-> "scan", at |-> 0,
     index |-> EmptyIndex, column |-> EmptyColumn]

\* Mutant: every large batch schedules a catch-up job.
CatchupEach(c) == IF c.dirtyBuild THEN <<Job("dirty", 0)>> ELSE <<>>

\* The catch-up job is scheduled by the write that finds none.
Catchup(c) == IF c.dirtyBuild /\ ~coll.dirtyBuild THEN <<Job("dirty", 0)>> ELSE <<>>

\* What one scan of all rows would put into an index.
ScannedIndex(c) ==
    [entries |-> {<<r, Hydrated(c, r)>> : r \in LiveRids(c)},
     forward |-> [r \in Rids |-> Hydrated(c, r)]]

StartFieldBuild(c) ==
    [c EXCEPT !.indexed = FALSE, !.index = EmptyIndex, !.tokens = @ + 1,
        !.build = [NoBuild EXCEPT !.status = "building", !.token = c.tokens + 1]]

MetaIndexes(c, background) ==
    IF ~c.meta.index THEN [c EXCEPT !.indexed = FALSE, !.index = EmptyIndex, !.build = NoBuild]
    ELSE IF (c.indexed \/ c.build.status # "none") /\ ~background THEN c
    ELSE IF c.live = 0 THEN [c EXCEPT !.indexed = TRUE, !.index = EmptyIndex, !.build = NoBuild]
    ELSE IF background THEN StartFieldBuild(c)
    ELSE [c EXCEPT !.indexed = TRUE, !.index = ScannedIndex(c), !.build = NoBuild]

MetaColumns(c, rebuild) ==
    LET column == StartBuild(c.column)
    IN IF ~c.meta.column THEN [c EXCEPT !.columned = FALSE, !.column = EmptyColumn]
       ELSE IF c.live = 0
       THEN [c EXCEPT !.columned = TRUE, !.column = Install(column, EmptyColumn)]
       ELSE IF ~c.columned \/ rebuild \/ c.column.status = "error"
       THEN [c EXCEPT !.columned = TRUE, !.column = column]
       ELSE c

\* The jobs a change of the metadata starts.
Builds(c) ==
    (IF c.build.status = "building" /\ c.build.token # coll.build.token
     THEN <<Job("index", c.build.token)>> ELSE <<>>)
    \o (IF Building(c) /\ (~Building(coll) \/ c.column.id # coll.column.id)
        THEN <<Job("column", c.column.id)>> ELSE <<>>)

\* A restored collection has its rows, and its indexes to come.
Restored(c, rows) ==
    [c EXCEPT !.rows = Len(rows), !.live = Len(rows), !.unsharded = Len(rows),
        !.base = [r \in Rids |-> IF r <= Len(rows) THEN rows[r] ELSE Gone],
        !.indexBuildPending = TRUE]

WithMeta(c, meta) == MetaColumns(MetaIndexes([c EXCEPT !.meta = meta], FALSE), FALSE)

Filled(c, rows) ==
    LET puts == [r \in 1..Len(rows) |-> [rid |-> r, field |-> rows[r], shard |-> NoShard]]
    IN ApplyIndexDeltas(Put(c, puts, FALSE, Len(rows)), FALSE)

Init ==
    /\ scenario \in Scenarios
    /\ coll = CASE scenario.start = "empty" -> Filled(NewCollection, scenario.rows)
                [] scenario.start = "ready" ->
                       Filled(WithMeta(NewCollection, scenario.meta), scenario.rows)
                [] scenario.start = "restored" ->
                       Restored([NewCollection EXCEPT !.meta = scenario.meta], scenario.rows)
    /\ written = [r \in Rids |-> IF r <= Len(scenario.rows) THEN scenario.rows[r] ELSE Gone]
    /\ jobs = <<>>
    /\ writes = 0

----------------------------------------------------------------------------
\* Writes and metadata.

Write(c, fields) ==
    /\ coll' = c
    /\ jobs' = jobs \o Catchup(c)
    /\ written' = [r \in Rids |-> IF r \in DOMAIN fields THEN fields[r] ELSE written[r]]
    /\ writes' = writes + 1
    /\ UNCHANGED scenario

\* The rows a batch may name: new rows take the next rid.  Unless the scenario
\* says so a row is not written again while an index is built from a scan.
Writable(rids) ==
    /\ coll.exists /\ writes < MaxWrites
    /\ \A r \in rids : \A q \in 1..(r - 1) : q <= coll.rows \/ q \in rids
    /\ coll.build.status = "building" =>
          "again" \in scenario.may \/ \A r \in rids : coll.build.pending[r] = NoChange

PutObjects(rows, size) ==
    LET keep == size # "small" /\ HasIndexWork
        done == Put(coll, rows, keep, Len(rows))
    IN /\ Writable({rows[i].rid : i \in DOMAIN rows})
       /\ Write(ApplyIndexDeltas(done, size = "large" /\ HasIndexWork),
                [r \in {rows[i].rid : i \in DOMAIN rows} |->
                   rows[Max({i \in DOMAIN rows : rows[i].rid = r})].field])

DeleteObjects(rids, size) ==
    LET deleted[i \in 0..Len(rids)] ==
            IF i = 0 THEN [c |-> coll, deltas |-> <<>>] ELSE DeleteObject(deleted[i - 1], rids[i])
        done == deleted[Len(rids)]
    IN /\ Writable(Range(rids)) /\ done.deltas # <<>>
       /\ Write(ApplyIndexDeltas(done, size = "large" /\ HasIndexWork),
                [r \in Range(rids) |-> Gone])

\* createCollection or setCollectionMeta.
SetMeta(meta) ==
    LET c == WithMeta(IF coll.exists THEN coll ELSE NewCollection, meta)
    IN /\ coll.exists => coll.meta # meta \/ "repeat" \in scenario.may
       /\ writes < MaxWrites
       /\ coll' = c
       /\ jobs' = jobs \o Builds(c)
       /\ writes' = writes + 1
       /\ UNCHANGED <<scenario, written>>

\* The warm-up after a restore, which may wait for memory.
StartIndexWarmup ==
    LET c == [MetaColumns(MetaIndexes(coll, TRUE), TRUE) EXCEPT !.indexBuildPending = FALSE]
    IN /\ coll.indexBuildPending
       /\ coll' = c
       /\ jobs' = jobs \o Builds(c)
       /\ UNCHANGED <<scenario, written, writes>>

\* What is left of the jobs: the active one finds the collection disposed.
Cancelled ==
    IF jobs = <<>> THEN <<>> ELSE <<Job("cancelled", 0)>>

DropCollection ==
    /\ coll.exists /\ "drops" \in scenario.may
    /\ coll' = [NewCollection EXCEPT !.exists = FALSE]
    /\ jobs' = Cancelled
    /\ written' = [r \in Rids |-> Gone]
    /\ UNCHANGED <<scenario, writes>>

----------------------------------------------------------------------------
\* The scheduler runs one job at a time, a slice per step.

Active(kind) == jobs # <<>> /\ Head(jobs).kind = kind
Slice(job) == jobs' = [jobs EXCEPT ![1] = job]
End == jobs' = Tail(jobs)
Derive(c) == coll' = c /\ UNCHANGED <<scenario, written, writes>>

\* The next live row of a scan, or none.
Ahead == {r \in LiveRids(coll) : r > Head(jobs).at}
NextRid == CHOOSE r \in Ahead : \A q \in Ahead : r <= q

ScanField ==
    LET job == Head(jobs)
        r == NextRid
    IN /\ Active("index") /\ Ahead # {}
       /\ Slice([job EXCEPT !.at = r, !.index = AddValue(@, r, Hydrated(coll, r))])
       /\ Derive(coll)

\* Mutant: the index is installed as scanned.
Scanned(index, build) == index

\* What was written during the build is replayed over what was scanned.
Replayed(index, build) ==
    LET upTo[r \in 0..MaxRid] ==
            IF r = 0 THEN index
            ELSE Moved(upTo[r - 1], r, build.pending[r].before, build.pending[r].after)
    IN upTo[MaxRid]

InstallField ==
    LET job == Head(jobs)
        current == coll.build.status = "building" /\ coll.build.token = job.token
    IN /\ Active("index") /\ Ahead = {}
       /\ End
       /\ Derive(IF current
                 THEN [coll EXCEPT !.indexed = TRUE, !.build = NoBuild,
                                   !.index = Replayed(job.index, coll.build)]
                 ELSE coll)

FailField ==
    LET current == coll.build.status = "building" /\ coll.build.token = Head(jobs).token
    IN /\ Active("index") /\ "fails" \in scenario.may
       /\ End
       /\ Derive(IF current
                 THEN [coll EXCEPT !.build.status = "error", !.build.pending = NoBuild.pending]
                 ELSE coll)

ScanColumn ==
    LET job == Head(jobs)
        r == NextRid
    IN /\ Active("column") /\ job.phase = "scan" /\ Ahead # {}
       /\ Slice([job EXCEPT !.at = r, !.column = ApplyState(@, r, ColumnState(Hydrated(coll, r)))])
       /\ Derive(coll)

\* The field is taken out of the stored row, whose value the column now has.
Stripped(c, r) == [c EXCEPT !.base[r] = Absent]

\* The first row is stripped in the slice that installs the column.
InstallColumn ==
    LET job == Head(jobs)
        current == coll.columned /\ coll.column.id = job.token
        installed == [coll EXCEPT !.column = Install(@, job.column)]
        first == CHOOSE r \in LiveRids(coll) : \A q \in LiveRids(coll) : r <= q
    IN /\ Active("column") /\ job.phase = "scan" /\ Ahead = {}
       /\ IF current /\ LiveRids(coll) # {}
          THEN /\ Slice([job EXCEPT !.phase = "strip", !.at = first])
               /\ Derive(Stripped(installed, first))
          ELSE End /\ Derive(IF current THEN installed ELSE coll)

StripColumn ==
    /\ Active("column") /\ Head(jobs).phase = "strip"
    /\ IF Ahead = {} THEN End /\ Derive(coll)
       ELSE /\ Slice([Head(jobs) EXCEPT !.at = NextRid])
            /\ Derive(Stripped(coll, NextRid))

FailColumn ==
    LET current == coll.columned /\ coll.column.id = Head(jobs).token
    IN /\ Active("column") /\ "fails" \in scenario.may
       /\ End
       /\ Derive(IF current
                 THEN [coll EXCEPT !.column.status = "error",
                                   !.column.pending = EmptyColumn.pending]
                 ELSE coll)

\* The first dirty row is read, indexed anew and stored without its column.
RefreshedRid(c, r) ==
    LET v == Hydrated(c, r)
        index == IF v = Gone THEN RemoveRid(c.index, r) ELSE AddValue(RemoveRid(c.index, r), r, v)
        folded == [c EXCEPT !.index = IF c.indexed THEN index ELSE @,
                            !.column = IF c.columned THEN UpdateState(@, r, ColumnState(v)) ELSE @]
    IN [folded EXCEPT !.base[r] = IF v = Gone THEN Gone ELSE BaseValue(folded, v),
                      !.dirty = Tail(@)]

RunDirtyIndexCatchup ==
    LET job == Head(jobs)
    IN /\ Active("dirty") /\ job.phase = "scan"
       /\ IF coll.dirty # <<>>
          THEN jobs' = jobs /\ Derive(RefreshedRid(coll, Head(coll.dirty)))
          ELSE Slice([job EXCEPT !.phase = "settle"]) /\ Derive(coll)

\* Mutant: the catch-up that ends does not look for rows marked meanwhile.
SettledFor(c) == <<>>

\* A catch-up that ends schedules the next when rows were marked meanwhile.
Rescheduled(c) == IF c.dirty # <<>> THEN <<Job("dirty", 0)>> ELSE <<>>

SettleCatchup ==
    /\ Active("dirty") /\ Head(jobs).phase = "settle"
    /\ jobs' = Tail(jobs) \o Rescheduled(coll)
    /\ Derive([coll EXCEPT !.dirtyBuild = coll.dirty # <<>>])

EndCancelled == Active("cancelled") /\ End /\ Derive(coll)

RunJob ==
    \/ ScanField \/ InstallField \/ FailField
    \/ ScanColumn \/ InstallColumn \/ StripColumn \/ FailColumn
    \/ RunDirtyIndexCatchup \/ SettleCatchup \/ EndCancelled

----------------------------------------------------------------------------

Row == [rid : Rids, field : scenario.fields, shard : scenario.shards]

\* Batches of one row and, in some scenarios, of two.
Batches ==
    {<<row>> : row \in Row}
    \cup {pair \in Row \X Row : "pairs" \in scenario.may
                                /\ (pair[1].rid # pair[2].rid \/ "twice" \in scenario.may)}
=============================================================================
