------------------------------ MODULE Queries ------------------------------
(***************************************************************************)
(* What a query means (matchesQuery of src/query.js) and how it is planned  *)
(* (src/query-planner.js with the id sets of Collection in src/store.js).   *)
(* The planner narrows a query by field indexes; where it takes the rows it *)
(* got for exactly those of the query, no row is looked at again.           *)
(*                                                                          *)
(* A JavaScript value is a pair of its type and a number: the string "1",   *)
(* the number 1 and true are <<"string", 1>>, <<"number", 1>> and           *)
(* <<"boolean", 1>>, the empty string is <<"string", 0>>; an array holds    *)
(* its entries.  So == of two values that are not nullish is equality of    *)
(* the numbers.  Not covered: objects and dates as values, array operands   *)
(* of $eq, operators on text, $elemMatch, functions.                        *)
(*                                                                          *)
(* A constraint is a literal, a list of constraints, or operators with      *)
(* their operands; a criterion is a path with a constraint or a logical     *)
(* operator with a list of criteria.                                        *)
(***************************************************************************)
EXTENDS Integers, FiniteSets, Sequences

Undefined == <<"undefined", 0>>
Null == <<"null", 0>>
Str(n) == <<"string", n>>
Num(n) == <<"number", n>>
Bool(b) == <<"boolean", IF b THEN 1 ELSE 0>>
Arr(entries) == <<"array", entries>>

Lit(v) == [kind |-> "literal", value |-> v, list |-> <<>>, ops |-> <<>>]
List(cs) == [kind |-> "list", value |-> Undefined, list |-> cs, ops |-> <<>>]
Operators(ops) == [kind |-> "operators", value |-> Undefined, list |-> <<>>, ops |-> ops]
Op(name, c) == [op |-> name, operand |-> c]

Field(path, c) == [path |-> path, expected |-> c, list |-> <<>>]
Logical(name, criteria) == [path |-> name, expected |-> Lit(Undefined), list |-> criteria]
CountOf(criteria, c) == [path |-> "$count", expected |-> c, list |-> criteria]

IsScalar(v) == v[1] \in {"string", "number", "boolean"}
IsArray(v) == v[1] = "array"
IsNullish(v) == v \in {Undefined, Null, Str(0)}
Entries(v) == {v[2][i] : i \in DOMAIN v[2]}
EachOf(v) == IF IsArray(v) THEN Entries(v) ELSE {v}

----------------------------------------------------------------------------
\* matchesQuery.

RECURSIVE NullOperator(_)
NullOperator(v) ==
    IF IsArray(v) THEN \A e \in Entries(v) : NullOperator(e) ELSE IsNullish(v)

RECURSIVE Equal(_, _)
Equal(left, right) ==
    \/ left = right
    \/ IsArray(left) /\ \E e \in Entries(left) : Equal(e, right)
    \/ ~IsArray(left) /\ IF IsNullish(right) \/ IsNullish(left)
                         THEN IsNullish(right) /\ IsNullish(left)
                         ELSE left[2] = right[2]

\* A value as a number: an array of one entry is that entry, an empty one 0.
RECURSIVE Ordinal(_)
Ordinal(v) ==
    IF v = Undefined THEN {} ELSE IF ~IsArray(v) THEN {v[2]}
    ELSE IF Len(v[2]) = 0 THEN {0}
    ELSE IF Len(v[2]) = 1 THEN Ordinal(v[2][1]) ELSE {}

Sign(n) == IF n > 0 THEN 1 ELSE IF n = 0 THEN 0 ELSE -1

\* By the sign of their difference.
Compares(v, operand, signs) ==
    ~NullOperator(v) /\ \E n \in Ordinal(v), m \in Ordinal(operand) : Sign(n - m) \in signs

SizeOf(v) ==
    IF IsArray(v) THEN {Len(v[2])}
    ELSE IF v[1] = "string" THEN {IF v = Str(0) THEN 0 ELSE 1} ELSE {}

TypeOf(v) == IF v = Null THEN "object" ELSE v[1]

RECURSIVE MatchesConstraint(_, _)

InOperator(v, cs) == \E e \in EachOf(v) : \E i \in DOMAIN cs : MatchesConstraint(e, cs[i])
AndOperator(v, cs) == \A i \in DOMAIN cs : MatchesConstraint(v, cs[i])

MatchesOperator(op, v, operand) ==
    CASE op \in {"$eq", "$equal"} -> Equal(v, operand.value)
      [] op \in {"$ne", "$not"} -> ~MatchesConstraint(v, operand)
      [] op \in {"$and", "$all"} -> AndOperator(v, operand.list)
      [] op \in {"$or", "$any", "$in"} -> InOperator(v, operand.list)
      [] op \in {"$nor", "$nin"} -> ~InOperator(v, operand.list)
      [] op = "$null" -> NullOperator(v) = (operand.value = Bool(TRUE))
      [] op = "$exists" -> (v \notin {Undefined, Null}) = (operand.value = Bool(TRUE))
      [] op = "$contains" -> IsArray(v) /\ \E e \in Entries(v) : Equal(e, operand.value)
      [] op = "$gt" -> Compares(v, operand.value, {1})
      [] op = "$gte" -> Compares(v, operand.value, {0, 1})
      [] op = "$lt" -> Compares(v, operand.value, {-1})
      [] op = "$lte" -> Compares(v, operand.value, {-1, 0})
      [] op = "$between" -> Compares(v, operand.list[1].value, {1})
                            /\ Compares(v, operand.list[2].value, {-1})
      [] op = "$type" -> TypeOf(v) = operand.value[2]
      [] op = "$size" -> operand.value[2] \in SizeOf(v)
      [] op = "$mod" -> \E n \in Ordinal(v) :
                            n % operand.list[1].value[2] = operand.list[2].value[2]

MatchesConstraint(v, c) ==
    CASE c.kind = "list" -> InOperator(v, c.list)
      [] c.kind = "operators" ->
             \A i \in DOMAIN c.ops : MatchesOperator(c.ops[i].op, v, c.ops[i].operand)
      [] c.kind = "literal" ->
             \/ v = c.value
             \/ IF IsArray(v) THEN \E e \in Entries(v) : Equal(e, c.value)
                ELSE Equal(v, c.value)

RECURSIVE MatchesQuery(_, _)

MatchesCriterion(row, e) ==
    LET holding == {i \in DOMAIN e.list : MatchesQuery(row, e.list[i])} IN
    CASE e.path = "$and" -> holding = DOMAIN e.list
      [] e.path = "$or" -> holding # {}
      [] e.path \in {"$nor", "$not"} -> holding = {}
      [] e.path = "$count" -> MatchesConstraint(Num(Cardinality(holding)), e.expected)
      [] OTHER -> MatchesConstraint(row[e.path], e.expected)

MatchesQuery(row, criteria) == \A i \in DOMAIN criteria : MatchesCriterion(row, criteria[i])

----------------------------------------------------------------------------
\* What the field indexes know of a query.  A table t has rows t.rows by rid,
\* indexes on the paths t.indexed and ready columns for t.columns.

Unknown == [known |-> FALSE, set |-> {}]
Known(set) == [known |-> TRUE, set |-> set]
Rids(t) == DOMAIN t.rows

\* indexedStoredValues: the scalars in a value, whatever they are nested in.
RECURSIVE IndexedStoredValues(_)
IndexedStoredValues(v) ==
    IF IsArray(v) THEN UNION {IndexedStoredValues(e) : e \in Entries(v)}
    ELSE IF IsScalar(v) THEN {v} ELSE {}

IdsForValues(t, path, values) ==
    {r \in Rids(t) : IndexedStoredValues(t.rows[r][path]) \cap values # {}}

\* $contains means something else for text, and for arrays in arrays.
IdsForContains(t, path, v) ==
    IF \E r \in Rids(t) :
          LET stored == t.rows[r][path]
          IN IsScalar(stored) \/ (IsArray(stored) /\ \E e \in Entries(stored) : IsArray(e))
    THEN Unknown ELSE Known(IdsForValues(t, path, {v}))

Has(c, names) == \E i \in DOMAIN c.ops : c.ops[i].op \in names
OperandOf(c, names) == c.ops[CHOOSE i \in DOMAIN c.ops : c.ops[i].op \in names].operand

\* Mutant: a branch that the indexes do not know is left out.
UnionOfKnown(results) == Known(UNION {k.set : k \in results})

AllKnown(results) ==
    IF \E k \in results : ~k.known THEN Unknown ELSE Known(UNION {k.set : k \in results})

\* indexableEqualityValue and indexableValueList: only scalars are looked up.
EqualityValue(c) ==
    IF c.kind = "literal" /\ IsScalar(c.value) THEN Known({c.value}) ELSE Unknown
ValueList(cs) == AllKnown({EqualityValue(cs[i]) : i \in DOMAIN cs})

\* The values a constraint asks for, if it asks for values.
RECURSIVE IndexableConstraintValues(_)
IndexableConstraintValues(c) ==
    CASE c.kind = "literal" -> EqualityValue(c)
      [] c.kind = "list" -> ValueList(c.list)
      [] c.kind = "operators" ->
           IF Has(c, {"$eq"}) THEN EqualityValue(OperandOf(c, {"$eq"}))
           ELSE IF Has(c, {"$equal"}) THEN EqualityValue(OperandOf(c, {"$equal"}))
           ELSE IF Has(c, {"$in"}) THEN ValueList(OperandOf(c, {"$in"}).list)
           ELSE IF Has(c, {"$or", "$any"})
                THEN LET cs == OperandOf(c, {"$or", "$any"}).list
                     IN AllKnown({IndexableConstraintValues(cs[i]) : i \in DOMAIN cs})
           ELSE Unknown

\* _id is looked up in the rows themselves; its text is the rid.
RidsForObjectIdConstraint(t, values) ==
    IF values.known THEN Known({r \in Rids(t) : \E v \in values.set : v[2] = r}) ELSE Unknown

RidsForValues(t, path, values) ==
    IF values.known THEN Known(IdsForValues(t, path, values.set)) ELSE Unknown

IndexableContains(c) ==
    /\ c.kind = "operators" /\ Len(c.ops) = 1 /\ c.ops[1].op = "$contains"
    /\ IsScalar(c.ops[1].operand.value)

RidsForFieldConstraint(t, path, c) ==
    IF path = "_id" THEN RidsForObjectIdConstraint(t, IndexableConstraintValues(c))
    ELSE IF path \notin t.indexed THEN Unknown
    ELSE IF IndexableContains(c) THEN IdsForContains(t, path, c.ops[1].operand.value)
    ELSE RidsForValues(t, path, IndexableConstraintValues(c))

Intersected(t, results) ==
    IF results = {} THEN Unknown ELSE Known({r \in Rids(t) : \A k \in results : r \in k.set})

AllOf(t, results) ==
    IF \E k \in results : ~k.known THEN Unknown ELSE Intersected(t, results)

RECURSIVE RidsForCriteria(_, _), PartialRidsForCriteria(_, _)

\* What must hold of a row for one criterion: an empty criterion of $and says
\* nothing, and $or is known when all its branches are.
RidsForCriterion(t, e) ==
    LET branches == {RidsForCriteria(t, e.list[i]) : i \in DOMAIN e.list} IN
    CASE e.path = "$and" ->
           {RidsForCriteria(t, e.list[i]) : i \in {j \in DOMAIN e.list : e.list[j] # <<>>}}
      [] e.path = "$or" -> {AllKnown(branches)}
      [] e.path \in {"$nor", "$not", "$count"} -> {Unknown}
      [] OTHER -> {RidsForFieldConstraint(t, e.path, e.expected)}

\* _ridsForCriteria: exactly the rows of the query.
RidsForCriteria(t, criteria) ==
    AllOf(t, UNION {RidsForCriterion(t, criteria[i]) : i \in DOMAIN criteria})

FirstKnown(exact, partial) == IF exact.known THEN exact ELSE partial

\* What the indexes can say of one criterion at all.
NarrowingRids(t, e) ==
    IF e.path = "$and"
    THEN {FirstKnown(RidsForCriteria(t, e.list[i]), PartialRidsForCriteria(t, e.list[i])) :
             i \in {j \in DOMAIN e.list : e.list[j] # <<>>}}
    ELSE RidsForCriterion(t, e)

\* _partialRidsForCriteria: no row of the query is missing.
PartialRidsForCriteria(t, criteria) ==
    Intersected(t, {k \in UNION {NarrowingRids(t, criteria[i]) : i \in DOMAIN criteria} :
                      k.known})

----------------------------------------------------------------------------
\* Plans.

AllIdsPlan(t) == [found |-> TRUE, all |-> TRUE, ids |-> Rids(t), verify |-> FALSE]
NoPlan(t) == [found |-> FALSE, all |-> TRUE, ids |-> Rids(t), verify |-> TRUE]

IdPlan(t, exact, partial) ==
    IF exact.known THEN [found |-> TRUE, all |-> FALSE, ids |-> exact.set, verify |-> FALSE]
    ELSE IF partial.known
    THEN [found |-> TRUE, all |-> FALSE, ids |-> partial.set, verify |-> TRUE]
    ELSE NoPlan(t)

PlanIndexedIds(t, criteria) ==
    IdPlan(t, RidsForCriteria(t, criteria), PartialRidsForCriteria(t, criteria))

ReadPlan(t, criteria, sortBy, idPlan) ==
    [idPlan |-> idPlan,
     path |-> IF sortBy \in t.indexed THEN "ordered-index"
              ELSE IF criteria = <<>> \/ ~idPlan.found THEN "scan"
              ELSE IF idPlan.verify THEN "index-partial" ELSE "index-exact"]

PlanRead(t, criteria, sortBy) ==
    ReadPlan(t, criteria, sortBy,
             IF criteria = <<>> THEN AllIdsPlan(t) ELSE PlanIndexedIds(t, criteria))

PlanCount(t, criteria) == PlanRead(t, criteria, "")

\* aggregateIdPlan: the planned rows, limited to the scope.
Limited(idPlan, scope, scoped) ==
    IF scoped /\ idPlan.found THEN [idPlan EXCEPT !.all = FALSE, !.ids = @ \cap scope] ELSE idPlan

AggregateIdPlan(t, criteria, scope, scoped) ==
    Limited(IF criteria = <<>> THEN AllIdsPlan(t) ELSE PlanIndexedIds(t, criteria), scope, scoped)

\* planAggregate for one metric and at most one group field ("" is none); the
\* metric "rows" counts rows and needs no column.
AggregatePath(t, criteria, idPlan, scoped, spec) ==
    CASE spec.metric \notin t.columns \cup {"rows"} -> "scan"
      [] spec.groupBy = "" /\ criteria = <<>> /\ ~scoped /\ spec.summary -> "column-summary"
      [] ~idPlan.found -> "scan"
      [] spec.groupBy = "" -> "column-scan"
      [] spec.groupBy \in t.indexed ->
           IF spec.metric # "rows" /\ ~idPlan.verify /\ ~idPlan.all
           THEN "group-forward-index" ELSE "group-index"
      [] spec.groupBy \in t.columns -> "group-column-scan"
      [] OTHER -> "scan"

AggregatePlan(t, criteria, idPlan, scoped, spec) ==
    [path |-> AggregatePath(t, criteria, idPlan, scoped, spec), idPlan |-> idPlan]

PlanAggregate(t, criteria, scope, scoped, spec) ==
    AggregatePlan(t, criteria, AggregateIdPlan(t, criteria, scope, scoped), scoped, spec)

----------------------------------------------------------------------------
\* Reads with a plan.

Matching(t, criteria) == {r \in Rids(t) : MatchesQuery(t.rows[r], criteria)}

RidsForPlan(t, idPlan, criteria) ==
    IF idPlan.verify THEN idPlan.ids \cap Matching(t, criteria) ELSE idPlan.ids

\* The index gives the rows in order; they are looked at unless the plan is exact.
FindWithOrderedIndex(t, criteria, idPlan) ==
    IF idPlan.found /\ ~idPlan.verify THEN idPlan.ids ELSE idPlan.ids \cap Matching(t, criteria)

\* Collection.find: a sort without an index looks at every row again.
Find(t, criteria, sortBy, plan) ==
    CASE plan.path = "ordered-index" -> FindWithOrderedIndex(t, criteria, plan.idPlan)
      [] plan.path # "ordered-index" /\ sortBy = "" -> RidsForPlan(t, plan.idPlan, criteria)
      [] OTHER -> RidsForPlan(t, plan.idPlan, criteria) \cap Matching(t, criteria)

\* Collection.count of the rows of some shards.
Count(t, criteria, scope, plan) ==
    IF plan.path = "index-exact" THEN Cardinality(plan.idPlan.ids \cap scope)
    ELSE Cardinality(RidsForPlan(t, plan.idPlan, criteria) \cap scope)

\* The buckets of the group's index, cut to the planned rows.
GroupIndexRids(t, path, filter) ==
    LET bucket(v) == {r \in Rids(t) : t.rows[r][path] = v}
    IN UNION {bucket(t.rows[r][path]) \cap filter : r \in Rids(t)}

\* The rows an aggregate is taken over; without a plan those that are found.
AggregatedRids(t, criteria, scope, spec, plan, read) ==
    CASE plan.path = "column-summary" -> Rids(t)
      [] plan.path = "scan" -> RidsForPlan(t, read.idPlan, criteria) \cap scope
      [] plan.path = "group-index" ->
             GroupIndexRids(t, spec.groupBy, RidsForPlan(t, plan.idPlan, criteria))
      [] OTHER -> RidsForPlan(t, plan.idPlan, criteria)
============================================================================
