----------------------------- MODULE Collection -----------------------------
(***************************************************************************)
(* A collection with all its derived state: field index, column and vector  *)
(* indexes, built by one scheduler, and the reads that use them.            *)
(***************************************************************************)
EXTENDS PlannedReads, VectorIndexes

collectionVars == <<vars, vecs>>

CollectionInit == Init /\ InitVectors

\* A put writes the rows and their vectors, a delete removes both.
PutRows(rows, size) ==
    /\ PutObjects(rows, size)
    /\ \E xs \in [DOMAIN rows -> scenario.vectors] : PutVectors(rows, xs)

DeleteRows(rids, size) == DeleteObjects(rids, size) /\ DeleteVectors(rids)

Drop == DropCollection /\ DropVectors

RunAnyJob == (RunJob /\ UNCHANGED vecs) \/ RunVectorJob
Warmup == StartIndexWarmup /\ UNCHANGED vecs

CollectionNext ==
    \/ \E rows \in Batches, size \in scenario.sizes : PutRows(rows, size)
    \/ \E r \in Rids, size \in scenario.sizes : DeleteRows(<<r>>, size)
    \/ \E meta \in scenario.metas : SetMeta(meta) /\ UNCHANGED vecs
    \/ Warmup
    \/ WarmVectorIndexes
    \/ \E k \in scenario.searches : VectorSearch(k)
    \/ \E placement \in scenario.placements : ReplaceShardMap(placement)
    \/ Drop
    \/ RunAnyJob

\* The event loop gives every job its turn; the warm-ups are retried by timers and
\* by the next write.
Spec ==
    /\ CollectionInit /\ [][CollectionNext]_collectionVars
    /\ WF_collectionVars(RunAnyJob) /\ WF_collectionVars(Warmup)
    /\ WF_collectionVars(WarmVectorIndexes)

\* In the end every job is done, no row is dirty, what the metadata asks for is
\* built or has failed, and vectors can be searched (DerivedStateScheduler,
\* startIndexWarmup, startVectorIndexWarmup).
CatchesUp ==
    <>[](/\ jobs = <<>> /\ coll.dirty = <<>> /\ ~coll.indexBuildPending
         /\ coll.meta.index => coll.indexed \/ coll.build.status = "error"
         /\ coll.meta.column => coll.columned /\ coll.column.status # "building"
         /\ VectorRids(vecs) # {} => \A k \in WarmKeys : vecs.entries[k].status = "ready")

----------------------------------------------------------------------------
(***************************************************************************)
(* What reads are right after.  A row may be written, queried and rebuilt   *)
(* in any order as long as a column is neither taken away nor rebuilt over  *)
(* values it already has, no large batch meets a column that is still to be *)
(* built, and no row is written twice where only its first write is known.  *)
(***************************************************************************)

\* The column may be built from rows that are there already.
LateColumn(sc) ==
    \/ sc.start = "restored" /\ sc.meta.column
    \/ ~(sc.start = "ready" /\ sc.meta.column) /\ \E m \in sc.metas : m.column

\* A column stays in the metadata once it is there.
ColumnsStay(sc) ==
    \A m \in sc.metas : /\ \A q \in sc.metas : m.column = q.column
                        /\ sc.start # "empty" /\ sc.meta.column => m.column

\* A column that has values is not built again.
BuiltOnce(sc) ==
    /\ sc.start = "restored" => \A m \in sc.metas : ~m.column
    /\ LateColumn(sc) /\ "fails" \in sc.may =>
           "repeat" \notin sc.may /\ \A m, q \in sc.metas : m = q

\* No large batch while a column may be built.
LargeElsewhere(sc) == LateColumn(sc) => "large" \notin sc.sizes

\* A row is written once while an index is built from a scan, and once in a batch
\* when the field is both indexed and in a column.
WrittenOnce(sc) ==
    /\ sc.start = "restored" => "again" \notin sc.may
    /\ "twice" \in sc.may => \A m \in {sc.meta} \cup sc.metas : ~(m.index /\ m.column)

Regular(sc) ==
    ColumnsStay(sc) /\ BuiltOnce(sc) /\ LargeElsewhere(sc) /\ WrittenOnce(sc)
=============================================================================
