---------------------------- MODULE ShardedReads ----------------------------
(***************************************************************************)
(* Reads of a collection whose shards have several owners: find and         *)
(* aggregate of src/shard-router.js.  The node that was asked reads its own *)
(* shards in one local query, asks an owner of every other shard, and       *)
(* merges what they answer.                                                 *)
(*                                                                          *)
(* parts[1] is what the asked node holds itself, the others one shard each; *)
(* an owner's public query never returns more than Cap rows                 *)
(* (MAX_PUBLIC_QUERY_LIMIT).                                                *)
(***************************************************************************)
EXTENDS Aggregates, FiniteSets

CONSTANT Cap

\* compareSortValues: numbers in order, then what has no value.
Rank(row) == IF row.field \in Numbers THEN <<0, row.field>> ELSE <<1, 0>>
Less(a, b) == a[1] < b[1] \/ (a[1] = b[1] /\ a[2] < b[2])

\* A stable sort by the field, ascending or descending.
SortObjects(rows, desc) ==
    LET less(a, b) == IF desc THEN Less(Rank(b), Rank(a)) ELSE Less(Rank(a), Rank(b))
        before(j, i) == less(rows[j], rows[i]) \/ (~less(rows[i], rows[j]) /\ j < i)
        place(i) == 1 + Cardinality({j \in DOMAIN rows : before(j, i)})
    IN [p \in DOMAIN rows |-> rows[CHOOSE i \in DOMAIN rows : place(i) = p]]

Paginate(rows, offset, limit) == SubSeq(rows, offset + 1, IF offset + limit < Len(rows)
                                                         THEN offset + limit ELSE Len(rows))

\* Mutant: the owners are asked for the page itself.
FetchPage(offset, limit) == limit

\* Every owner must send all rows that may come before the end of the page.
ShardFetchLimit(offset, limit) == offset + limit

PublicQueryLimit(limit) == IF limit < Cap THEN limit ELSE Cap

\* What an owner answers, sorted and cut.
OwnerRows(parts, k, desc, limit) ==
    Paginate(SortObjects(parts[k], desc), 0, IF k = 1 THEN limit ELSE PublicQueryLimit(limit))

FindSharded(parts, desc, offset, limit) ==
    LET fetched == [k \in DOMAIN parts |-> OwnerRows(parts, k, desc, ShardFetchLimit(offset, limit))]
    IN Paginate(SortObjects(FlattenSeq(fetched), desc), offset, limit)

AggregateSharded(parts) ==
    MergeAggregatePartials([k \in DOMAIN parts |-> AggregatePartialObjects(parts[k])])
=============================================================================
