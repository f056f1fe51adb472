---------------------------- MODULE PlannedReads ----------------------------
(***************************************************************************)
(* How reads use the derived state: src/query-planner.js with the plans of  *)
(* Collection.find, count and aggregate in src/store.js.  The planner takes *)
(* an index or a column where it can and trusts it: with an exact plan no   *)
(* row is looked at again.                                                  *)
(***************************************************************************)
EXTENDS DerivedState

Agg == INSTANCE Aggregates WITH Numbers <- Values, Missing <- Absent

\* {field: v} is answered by an index alone, except for the dirty rows, which
\* are read.
DirtyAwareIndexedRids(c, v) ==
    LET hits == {r \in Rids : <<r, v>> \in c.index.entries}
    IN (hits \ Dirty(c)) \cup {r \in Dirty(c) : Hydrated(c, r) = v}

\* What a query for field = v finds.
FindEqual(c, v) ==
    IF c.indexed THEN DirtyAwareIndexedRids(c, v)
    ELSE {r \in LiveRids(c) : Hydrated(c, r) = v}

\* Sorting and grouping by the index need all of it.
HasOrderedIndex(c) == c.indexed /\ c.dirty = <<>>

\* Every rid in its bucket: how often an ordered read visits a row.
Visits(c, r) == Cardinality({entry \in c.index.entries : entry[1] = r})

\* A column answers aggregates when it is built and no row is dirty.
ReadyColumn(c) == Ready(c) /\ c.dirty = <<>>

\* The rows of some shards by the rids kept for each; not known while a row has
\* no shard.
KnowsShards(c, shards) == shards # {} /\ c.unsharded = 0
IdsForShards(c, shards) == UNION {c.shardRids[s] : s \in shards}

\* A value of null or none groups as null.
GroupOf(v) == IF v \in Values THEN v ELSE Null

\* The groups that the values of a field make; flat is one group of all rows.
GroupsOf(values) == [r \in Rids |-> GroupOf(values[r])]
Flat == [r \in Rids |-> Null]

\* The aggregate of some rows, with what each is grouped by and the field's values.
Scan(rids, groups, values) ==
    Agg!AggregatePartialObjects(
        [i \in DOMAIN SetToSeq(rids) |->
            [group |-> groups[SetToSeq(rids)[i]], field |-> values[SetToSeq(rids)[i]]]])

\* $sum, $avg and $count: true of all rows, from the column's own totals.
AggregateFlatFromColumnSummary(c) ==
    [rows |-> c.live, sum |-> c.column.sum, numbers |-> c.column.numbers]

\* A flat aggregate of the rows an exact plan names, over the column.
ColumnScan(c, rids) == Scan(rids, Flat, c.column.vals)

\* Groups by the buckets of the index, then merges buckets of the same group.
GroupIndex(c) ==
    LET keys == SetToSeq({entry[2] : entry \in c.index.entries})
        rids(v) == {r \in Rids : <<r, v>> \in c.index.entries}
    IN Agg!MergeAggregatePartials(
           [i \in DOMAIN keys |->
               Scan(rids(keys[i]), [r \in Rids |-> GroupOf(keys[i])], c.column.vals)])

\* Groups the rows of an exact plan by the forward map of the index.
GroupForwardIndex(c, rids) == Scan(rids, GroupsOf(c.index.forward), c.column.vals)

\* Groups by the column itself.
GroupColumnScan(c, rids) == Scan(rids, GroupsOf(c.column.vals), c.column.vals)

----------------------------------------------------------------------------
\* The references: the rows as they were written.

WrittenRids == {r \in Rids : written[r] # Gone}
WrittenWith(v) == {r \in WrittenRids : written[r] = v}
Expected(rids, groups) == Scan(rids, groups, written)

\* The collection in memory has its shape, and the scheduler never holds more
\* than one catch-up job of it (Collection.indexDirtyBuild).
TypeOK ==
    /\ written \in [Rids -> Cells]
    /\ coll.base \in [Rids -> Cells]
    /\ coll.index.entries \subseteq Rids \X Fields
    /\ coll.index.forward \in [Rids -> Cells]
    /\ coll.column.vals \in [Rids -> Fields]
    /\ coll.column.pending \in [Rids -> Fields \cup {Untouched}]
    /\ coll.live \in 0..MaxRid
    /\ Dirty(coll) \subseteq Rids /\ Len(coll.dirty) = Cardinality(Dirty(coll))
    /\ coll.dirtyBuild <=> \E i \in DOMAIN jobs : jobs[i].kind = "dirty"
    /\ Cardinality({i \in DOMAIN jobs : jobs[i].kind = "dirty"}) <= 1

\* A read of a row returns what was written to it last, whatever is being
\* built, installed, stripped or caught up (Collection._hydrateColumns).
ReadsReturnWrites == \A r \in Rids : Hydrated(coll, r) = written[r]

\* A query answered by an index finds exactly the rows that have the value, and
\* one sorted or grouped by it visits every row once, with the value it has
\* (Collection._dirtyAwareIndexedRids, FieldIndex.orderedIds, valueForRid).
QueriesMatchWrites ==
    /\ \A v \in Values : FindEqual(coll, v) = WrittenWith(v)
    /\ HasOrderedIndex(coll) =>
          /\ \A r \in Rids : Visits(coll, r) = One(r \in WrittenRids)
          /\ coll.index.forward = written

\* An aggregate gives the same answer from a column's totals, from a scan of the
\* column and from the buckets or the forward map of the index as from the rows
\* (Collection._executeAggregatePlan).  $count of a field is not among the
\* totals compared: there the column counts rows whose field is null.
AggregatesMatchWrites ==
    ReadyColumn(coll) =>
        LET flat == Expected(WrittenRids, Flat)
            grouped == Expected(WrittenRids, GroupsOf(written))
        IN /\ AggregateFlatFromColumnSummary(coll) =
                  IF WrittenRids = {} THEN [rows |-> 0, sum |-> 0, numbers |-> 0]
                  ELSE [rows |-> flat[Null].rows, sum |-> flat[Null].sum, numbers |-> flat[Null].numbers]
           /\ GroupColumnScan(coll, LiveRids(coll)) = grouped
           /\ \A v \in Values :
                 ColumnScan(coll, FindEqual(coll, v)) = Expected(WrittenWith(v), Flat)
           /\ HasOrderedIndex(coll) =>
                 /\ GroupIndex(coll) = grouped
                 /\ \A v \in Values :
                       GroupForwardIndex(coll, FindEqual(coll, v)) =
                           Expected(WrittenWith(v), GroupsOf(written))

\* The rids kept per shard, by which reads are limited to shards, are the live
\* rows of those shards (Collection._addShardRid, _removeShardRid, idsForShards).
ScopesMatchRows ==
    /\ \A shards \in SUBSET Shards : KnowsShards(coll, shards) =>
          IdsForShards(coll, shards) = {r \in WrittenRids : coll.shard[r] \in shards}
    /\ coll.unsharded = Cardinality({r \in WrittenRids : coll.shard[r] = NoShard})
    /\ coll.live = Cardinality(WrittenRids)
=============================================================================
