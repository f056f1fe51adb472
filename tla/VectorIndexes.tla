---------------------------- MODULE VectorIndexes ----------------------------
(***************************************************************************)
(* The vectors of a collection and the indexes they are searched by:        *)
(* src/store.js (Collection._setVector to _vectorIndexStatus) and the       *)
(* warm-up of src/crdt.js.  A vector is kept beside its row.  There is one  *)
(* index for each set of shards that is searched together; it is built by a *)
(* job of the same scheduler that builds the other derived state, while     *)
(* vectors are written, and thrown away when the shard map is replaced.     *)
(*                                                                          *)
(* External: the graph of src/hnsw.js is the vectors inserted into it.  A   *)
(* scan takes the vectors in any order; the code takes the order of a Map.  *)
(***************************************************************************)
EXTENDS DerivedState

CONSTANT Vectors         \* what may be written as a row's vector

NoVector == 0
Keys == (SUBSET Shards) \ {{}}

\* The indexes the warm-up plans for a node that owns all shards: one for all of
\* them and one for each.
WarmKeys == {Shards} \cup {{s} : s \in Shards}

ASSUME VectorIndexesAssumption ==
    /\ Vectors \subseteq Nat \ {NoVector}
    /\ IsFiniteSet(Shards)
    /\ \A sc \in Scenarios :
          /\ sc.vectors \subseteq Vectors \cup {NoVector} /\ sc.searches \subseteq Keys
          /\ sc.placements # {} /\ sc.placements \subseteq [Rids -> Shards]

VARIABLE vecs            \* vectors and their indexes

NoEntry == [status |-> "none", nodes |-> [r \in Rids |-> NoVector], visited |-> {}, id |-> 0]

NoVectors(placement) ==
    [stored |-> [r \in Rids |-> NoVector], placement |-> placement,
     entries |-> [k \in Keys |-> NoEntry], ids |-> 0]

VectorRids(v) == {r \in Rids : v.stored[r] # NoVector}

\* A placement is what a shard map says: the shard of every row.
InitVectors == vecs \in {NoVectors(p) : p \in scenario.placements}

----------------------------------------------------------------------------
\* Writes.

\* Every index that is there takes the vectors of its own shards.
SetVector(v, r, x) ==
    LET told(k) == v.entries[k].status # "none" /\ v.placement[r] \in k
    IN [v EXCEPT !.stored[r] = x,
           !.entries = [k \in Keys |-> IF told(k) THEN [v.entries[k] EXCEPT !.nodes[r] = x]
                                       ELSE v.entries[k]]]

\* Mutant: an index that is being built is not told of a removal.
RemoveFromReady(v, r) ==
    LET told(k) == v.entries[k].status = "ready"
    IN [v EXCEPT !.stored[r] = NoVector,
           !.entries = [k \in Keys |-> IF told(k) THEN [v.entries[k] EXCEPT !.nodes[r] = NoVector]
                                       ELSE v.entries[k]]]

\* A vector that is removed leaves every index, and its place in a scan.
RemoveVector(v, r) ==
    [v EXCEPT !.stored[r] = NoVector,
        !.entries = [k \in Keys |-> [v.entries[k] EXCEPT !.nodes[r] = NoVector, !.visited = @ \ {r}]]]

\* A row that is put without a vector loses it.
ApplyVectorUpdate(v, r, x) == IF x = NoVector THEN RemoveVector(v, r) ELSE SetVector(v, r, x)

PutVectors(rows, xs) ==
    LET upTo[i \in 0..Len(rows)] ==
            IF i = 0 THEN vecs ELSE ApplyVectorUpdate(upTo[i - 1], rows[i].rid, xs[i])
    IN vecs' = upTo[Len(rows)]

DeleteVectors(rids) ==
    LET upTo[i \in 0..Len(rids)] == IF i = 0 THEN vecs ELSE RemoveVector(upTo[i - 1], rids[i])
    IN vecs' = upTo[Len(rids)]

ClearVectorIndexes(v) == [v EXCEPT !.entries = [k \in Keys |-> NoEntry]]

DropVectors == vecs' = [NoVectors(vecs.placement) EXCEPT !.ids = vecs.ids]

----------------------------------------------------------------------------
\* Builds.

\* The indexes of some keys are begun, each by a job of its own.
StartVectorIndexWarmups(keys) ==
    LET sorted == SetToSeq(keys)
        id(k) == vecs.ids + (CHOOSE i \in DOMAIN sorted : sorted[i] = k)
    IN /\ vecs' = [vecs EXCEPT !.ids = @ + Cardinality(keys),
                      !.entries = [k \in Keys |->
                          IF k \in keys THEN [NoEntry EXCEPT !.status = "building", !.id = id(k)]
                          ELSE vecs.entries[k]]]
       /\ jobs' = jobs \o [i \in DOMAIN sorted |-> Job("vector", [key |-> sorted[i], id |-> id(sorted[i])])]
       /\ UNCHANGED <<scenario, written, coll, writes>>

Unbuilt(keys) == {k \in keys : vecs.entries[k].status = "none"}

\* After the start, every write and a new shard map the warm-up looks for the
\* indexes that are planned and not there.
WarmVectorIndexes ==
    /\ coll.exists /\ VectorRids(vecs) # {} /\ Unbuilt(WarmKeys) # {}
    /\ StartVectorIndexWarmups(Unbuilt(WarmKeys))

\* A search without its index starts it and is answered 503.
VectorSearch(key) ==
    /\ coll.exists /\ VectorRids(vecs) # {} /\ Unbuilt({key}) # {}
    /\ StartVectorIndexWarmups({key})

\* CRDTNode.replaceShardMap: what an index holds is no longer its shards' rows.
ReplaceShardMap(placement) ==
    /\ writes < MaxWrites /\ placement # vecs.placement
    /\ vecs' = [ClearVectorIndexes(vecs) EXCEPT !.placement = placement]
    /\ writes' = writes + 1
    /\ UNCHANGED <<scenario, written, coll, jobs>>

\* The entry of the active job is still the one of its key.
CurrentEntry(token) == vecs.entries[token.key].id = token.id

ScanVector ==
    LET token == Head(jobs).token
        entry == vecs.entries[token.key]
    IN /\ Active("vector") /\ CurrentEntry(token)
       /\ \E r \in VectorRids(vecs) \ entry.visited :
             vecs' = [vecs EXCEPT !.entries[token.key] =
                [entry EXCEPT !.visited = @ \cup {r},
                    !.nodes[r] = IF vecs.placement[r] \in token.key THEN vecs.stored[r] ELSE @]]
       /\ UNCHANGED jobs /\ Derive(coll)

ReadyVector ==
    LET token == Head(jobs).token
    IN /\ Active("vector") /\ CurrentEntry(token)
       /\ VectorRids(vecs) \subseteq vecs.entries[token.key].visited
       /\ vecs' = [vecs EXCEPT !.entries[token.key].status = "ready", !.entries[token.key].visited = {}]
       /\ End /\ Derive(coll)

\* The build of an index that was thrown away ends without a trace.
EndStaleVector ==
    /\ Active("vector") /\ ~CurrentEntry(Head(jobs).token)
    /\ End /\ Derive(coll) /\ UNCHANGED vecs

RunVectorJob == ScanVector \/ ReadyVector \/ EndStaleVector

----------------------------------------------------------------------------

\* An index that answers searches holds exactly the vectors of the rows of its
\* shards, as they were last written, whatever was written, removed or moved to
\* other shards while it was built (Collection._setVector, _removeVector,
\* _runVectorIndexBuild); no vector is kept of a row that is gone.
VectorSearchesMatchWrites ==
    /\ \A r \in VectorRids(vecs) : written[r] # Gone
    /\ \A k \in Keys : vecs.entries[k].status = "ready" =>
          vecs.entries[k].nodes =
              [r \in Rids |-> IF vecs.placement[r] \in k THEN vecs.stored[r] ELSE NoVector]
=============================================================================
