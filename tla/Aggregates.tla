----------------------------- MODULE Aggregates -----------------------------
(***************************************************************************)
(* src/aggregate.js: an aggregate of one numeric field, grouped or not, in  *)
(* two halves, so that the owners of shards can each answer for their rows  *)
(* and the node that was asked can merge the answers.                       *)
(*                                                                          *)
(* A row is its group and the field.  A partial answer maps the groups it   *)
(* saw to the state of $sum, $avg, $min, $max, $count: true and $count of   *)
(* the field; finishField only divides the sum by the count.                *)
(***************************************************************************)
EXTENDS Integers, SequencesExt

CONSTANTS Numbers, Null, Missing

\* The state of the operators before the first row.
FieldState == [rows |-> 0, present |-> 0, numbers |-> 0, sum |-> 0, min |-> Missing, max |-> Missing]

Lesser(a, b) == IF a = Missing THEN b ELSE IF b = Missing THEN a ELSE IF b < a THEN b ELSE a
Greater(a, b) == IF a = Missing THEN b ELSE IF b = Missing THEN a ELSE IF a < b THEN b ELSE a

\* Null and missing values are neither summed nor compared nor counted.
StepField(state, v) ==
    LET number == v \in Numbers
        operand == IF number THEN v ELSE Missing
    IN [rows |-> state.rows + 1,
        present |-> state.present + (IF v \in {Null, Missing} THEN 0 ELSE 1),
        numbers |-> state.numbers + (IF number THEN 1 ELSE 0),
        sum |-> state.sum + (IF number THEN v ELSE 0),
        min |-> Lesser(state.min, operand), max |-> Greater(state.max, operand)]

\* Mutant: an average is merged as if every owner had counted one row.
MergeFieldOnce(state, part) ==
    [rows |-> state.rows + part.rows, present |-> state.present + part.present,
     numbers |-> state.numbers + 1, sum |-> state.sum + part.sum,
     min |-> Lesser(state.min, part.min), max |-> Greater(state.max, part.max)]

\* Sums and counts add up; an owner without a comparable value has no say.
MergePartialField(state, part) ==
    [rows |-> state.rows + part.rows, present |-> state.present + part.present,
     numbers |-> state.numbers + part.numbers, sum |-> state.sum + part.sum,
     min |-> Lesser(state.min, part.min), max |-> Greater(state.max, part.max)]

\* One owner's answer; a missing group value is the group of null.
AggregatePartialObjects(rows) ==
    [g \in {rows[i].group : i \in DOMAIN rows} |->
        FoldLeft(LAMBDA state, row : StepField(state, row.field), FieldState,
                 SelectSeq(rows, LAMBDA row : row.group = g))]

\* The buckets of all answers.
MergeAggregatePartials(partials) ==
    [g \in UNION {DOMAIN partials[i] : i \in DOMAIN partials} |->
        FoldLeft(LAMBDA state, part : IF g \in DOMAIN part THEN MergePartialField(state, part[g]) ELSE state,
                 FieldState, partials)]

\* What one node answers over all rows.
AggregateObjects(rows) == MergeAggregatePartials(<<AggregatePartialObjects(rows)>>)
=============================================================================
