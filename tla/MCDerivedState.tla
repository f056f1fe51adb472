--------------------------- MODULE MCDerivedState ---------------------------
(***************************************************************************)
(* Small collections for DerivedState, and the reads of a cluster that has  *)
(* their rows spread over two owners.                                     *)
(***************************************************************************)
EXTENDS Collection

CONSTANT Cap             \* bound: rows of an owner's answer, 250 in the code

Meta(index, column) == [index |-> index, column |-> column]
Both == Meta(TRUE, TRUE)
None == Meta(FALSE, FALSE)
IndexOnly == Meta(TRUE, FALSE)
ColumnOnly == Meta(FALSE, TRUE)

\* Shard maps: all rows in one shard, or one row by itself.
OneShard == [r \in Rids |-> "s1"]
TwoShards == [r \in Rids |-> IF r = 1 THEN "s1" ELSE "s2"]

Given(start, meta, rows, metas, sizes, fields, may) ==
    [start |-> start, meta |-> meta, rows |-> rows, metas |-> metas, sizes |-> sizes,
     fields |-> fields, shards |-> {NoShard}, may |-> may, asks |-> {},
     vectors |-> {NoVector}, searches |-> {},
     placements |-> {OneShard}]
Sharded(sc) == [sc EXCEPT !.shards = Shards \cup {NoShard}]

----------------------------------------------------------------------------

Q == INSTANCE Queries

One1 == Q!Lit(Q!Num(1))
Two == Q!Lit(Q!Num(2))
NullLit == Q!Lit(Q!Null)
With(op, c) == Q!Operators(<<Q!Op(op, c)>>)
OneTwo == Q!List(<<One1, Two>>)

\* Stored values: one type of scalar to a field, alone and in arrays; all of them
\* in one table, and those that keep $contains in the index in another.
Plain == <<Q!Undefined, Q!Arr(<<>>), Q!Arr(<<Q!Num(1), Q!Num(2)>>), Q!Arr(<<Q!Null>>)>>
Mixed == Plain \o <<Q!Null, Q!Num(1), Q!Num(2), Q!Arr(<<Q!Arr(<<Q!Num(1)>>)>>)>>

Tables ==
    {[rows |-> [r \in DOMAIN as |-> [a |-> as[r], b |-> Q!Str(1 + (r % 2)), _id |-> Q!Str(r)]],
      indexed |-> indexed, columns |-> columns] :
        as \in {Plain, Mixed}, indexed \in SUBSET {"a", "b"}, columns \in {{}, {"a", "b"}}}

\* Constraints of every kind, at most one of them by value.
Constraints ==
    {One1, NullLit, OneTwo, Q!List(<<One1, NullLit>>),
     Q!Operators(<<Q!Op("$gte", One1), Q!Op("$lt", Two)>>),
     With("$between", Q!List(<<Q!Lit(Q!Num(0)), Two>>)), With("$mod", Q!List(<<Two, One1>>)),
     With("$or", Q!List(<<One1, With("$gt", One1)>>)),
     With("$or", Q!List(<<One1, With("$in", Q!List(<<Two>>))>>)),
     With("$type", Q!Lit(<<"string", "number">>))}
    \cup {With(op, One1) : op \in {"$eq", "$ne", "$not", "$contains", "$gt", "$lte", "$size"}}
    \cup {With(op, OneTwo) : op \in {"$in", "$nin", "$any", "$all", "$nor"}}
    \cup {With(op, Q!Lit(Q!Bool(b))) : op \in {"$null", "$exists"}, b \in BOOLEAN}

OfA == {Q!Field("a", c) : c \in Constraints}
OfB == {Q!Field("b", Q!Lit(Q!Str(1))), Q!Field("b", With("$ne", Q!Lit(Q!Str(1)))),
        Q!Field("_id", Q!List(<<Q!Lit(Q!Str(1)), Q!Lit(Q!Str(3))>>))}

\* One criterion, two, and two under a logical operator with a third beside it.
Criteria ==
    {<<>>} \cup {<<e>> : e \in OfA \cup OfB} \cup {<<e, f>> : e \in OfA, f \in OfB}
    \cup {<<Q!Logical(op, <<<<e>>, <<f>>>>)>> : op \in {"$and", "$or", "$nor"}, e \in OfA, f \in OfB}
    \cup {<<Q!Logical("$and", <<<<>>, <<e, Q!Logical("$or", <<<<f>>, <<Q!Field("a", One1)>>>>)>>>>)>> :
            e \in OfA, f \in OfB}
    \cup {<<Q!CountOf(<<<<e>>, <<f>>>>, One1), f>> : e \in OfA, f \in OfB}

----------------------------------------------------------------------------

\* Vectors are written and searched, in one index of both shards and one of each.
WithVectors(sc, vectors, searches, placements) ==
    [sc EXCEPT !.vectors = vectors, !.searches = searches, !.placements = placements]

\* A collection that is only asked a query.
Asking(criteria) ==
    [Given("ready", None, <<1>>, {}, {}, {1}, {}) EXCEPT !.asks = {criteria}]

MCScenarios == {Asking(criteria) : criteria \in Criteria} \cup {
    Given("ready", Both, <<1, 2>>, {}, Sizes, {1, 2}, {"pairs"}),
    Given("ready", ColumnOnly, <<1>>, {}, Sizes, {2, Absent}, {"pairs", "twice"}),
    Given("ready", IndexOnly, <<Null>>, {}, Sizes, {1, Absent}, {"pairs", "twice"}),
    Given("empty", None, <<1, 2>>, {Both}, {"small", "shrunk"}, {1, Null}, {"fails"}),
    Given("empty", None, <<1>>, {Both, ColumnOnly}, {"small", "shrunk"}, {1, Absent}, {}),
    Given("restored", Both, <<1, 2>>, {}, {"small", "shrunk"}, {2, Absent}, {"pairs", "fails"}),
    Given("restored", IndexOnly, <<1, 1>>, {}, Sizes, {2}, {"pairs"}),
    Given("ready", Both, <<1, 2>>, {Both}, Sizes, {2}, {"drops"}),
    Sharded(Given("ready", None, <<1>>, {}, {"small"}, {1}, {"pairs", "twice"})),
    WithVectors(Given("ready", None, <<1, 1>>, {}, {"small"}, {1}, {}), {1, 2, NoVector},
                {{"s1"}}, {OneShard, TwoShards}),
    WithVectors(Given("ready", None, <<1>>, {Both}, {"small"}, {1}, {"drops"}), {1}, {},
                {TwoShards})}

\* What the theorems say of regular scenarios, they say of every one above.
ASSUME ScenariosAreRegular == \A sc \in MCScenarios : Regular(sc)

\* A column is taken from the metadata.
DroppedColumn == {Given("ready", ColumnOnly, <<1>>, {None}, {"small"}, {1}, {})}

----------------------------------------------------------------------------

Cluster == INSTANCE ShardedReads WITH Numbers <- Values, Missing <- Absent

\* Even rows are on the node that is asked, odd ones on another owner.
Parts ==
    LET owned(k) == SetToSortSeq({r \in WrittenRids : r % 2 = k - 1}, <)
    IN [k \in 1..2 |-> [i \in DOMAIN owned(k) |->
            [rid |-> owned(k)[i], group |-> GroupOf(written[owned(k)[i]]), field |-> written[owned(k)[i]]]]]

\* As long as no owner cuts its answer, the pages of a sorted query over all
\* owners are the pages of one sorted list of their rows, whichever size they
\* are asked in: none is lost or told twice (ShardRouter.find, shardFetchOptions).
PagesAreWhole ==
    \A desc \in BOOLEAN, offset \in 0..Cap, limit \in 1..Cap :
        offset + limit <= Cap =>
            Cluster!FindSharded(Parts, desc, offset, limit) =
                Cluster!Paginate(Cluster!SortObjects(FlattenSeq(Parts), desc), offset, limit)

\* Owners' partial aggregates merge into the aggregate of all rows, as one node
\* would answer it (ShardRouter.aggregate, mergeAggregatePartials).
PartialsAddUp == Cluster!AggregateSharded(Parts) = Cluster!AggregateObjects(FlattenSeq(Parts))

----------------------------------------------------------------------------

Specs == {[metric |-> m, groupBy |-> g, summary |-> g = ""] : m \in {"rows", "a"}, g \in {"", "b"}}

\* However the query that is asked is planned, a find, a count and an aggregate
\* take exactly the rows that match it, with any indexes, sorted or not, over all
\* rows or those of some shards (planRead, planCount, planAggregate,
\* Collection._ridsForPlan).
PlansTakeQueriedRows ==
    \A criteria \in scenario.asks, t \in Tables :
    \A matching \in {Q!Matching(t, criteria)}, read \in {Q!PlanRead(t, criteria, "")} :
        /\ \A sortBy \in {"", "a", "b"} :
              Q!Find(t, criteria, sortBy, Q!PlanRead(t, criteria, sortBy)) = matching
        /\ \A scope \in {Q!Rids(t), {1, 3}} :
              /\ Q!Count(t, criteria, scope, Q!PlanCount(t, criteria)) =
                     Cardinality(matching \cap scope)
              /\ \A spec \in Specs :
                    LET scoped == scope # Q!Rids(t)
                    IN Q!AggregatedRids(t, criteria, scope, spec,
                           Q!PlanAggregate(t, criteria, scope, scoped, spec), read)
                           = matching \cap scope
=============================================================================
