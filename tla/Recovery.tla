------------------------------ MODULE Recovery ------------------------------
(***************************************************************************)
(* A cluster over shared object storage: the restore, catch-up, checkpoint  *)
(* and compaction of src/persistence.js, the cursors of src/crdt.js, the    *)
(* generations of src/shard-map.js and src/shard-map-store.js and the start *)
(* and stop of src/index.js.                                                *)
(*                                                                          *)
(* Every node flushes what it wrote or pulled into journals of its own, and *)
(* the primary of a shard replaces journals by a snapshot that names, for   *)
(* each journal directory, how far it reaches.  A node that starts rebuilds *)
(* its rows, its numbering and its cursors from these files; a replica that *)
(* finds its cursor behind a pruned log reads them again.  A change of the  *)
(* shard count is published while every node is down: each node that starts *)
(* afterwards reads the source shards, keeps the rows of its target shards, *)
(* checkpoints those it is primary of, and the one that finds every target  *)
(* written activates the new generation; the others wait for that.          *)
(*                                                                          *)
(* Objects are abstracted to the operations a store has taken in: module    *)
(* Replication shows that these determine the rows.  A pull, a flush and    *)
(* the checkpoint of one scope are one step each (modules Replication and   *)
(* Persistence take them apart).  One collection, known to every node.  Not *)
(* covered: the local log, restores of a chosen snapshot or of configured   *)
(* scopes, changes of peers, storage errors.                                *)
(***************************************************************************)
EXTENDS Integers, FiniteSetsExt, SequencesExt

CONSTANTS
    Nodes,         \* node ids
    Ids,           \* object ids
    Generations,   \* Generations[g]: the shards of generation g
    DefaultShard,  \* the shard that is pulled without a scope
    Route,         \* Route[g][id]: shardForObject in generation g
    Plans          \* what happens to the cluster, and the bounds: records of
                   \*   peers     the peers of each shard, the primary first
                   \*   writers   the nodes that take writes in each generation
                   \*   ids       the objects they write
                   \*   retain    retainOps, acknowledged operations kept in the log
                   \*   writes    bound: operations
                   \*   stops     bound: graceful stops
                   \*   crashes   bound: crashes
                   \*   crashAt   the phases in which nodes crash
                   \*   reshard   the nodes are stopped to publish the second
                   \*             generation, not to be started as they were

Shards == UNION Range(Generations)

ASSUME RecoveryAssumption ==
    /\ IsFiniteSet(Nodes) /\ DOMAIN Generations = 1..2
    /\ Generations[1] \cap Generations[2] = {}
    /\ \A g \in 1..2 : Route[g] \in [Ids -> Generations[g]]
    /\ \A p \in Plans :
          /\ p.peers \in [Shards -> Seq(Nodes) \ {<<>>}]
          /\ {p.retain, p.writes, p.stops, p.crashes} \subseteq Nat

VARIABLES
    plan,      \* the scenario
    node,      \* node[n]: the process, or what is left of it
    journals,  \* object storage: journal files
    latest,    \* object storage: latest[sh], the last snapshot of a shard
    shardMap,  \* object storage: the stored shard map
    used,      \* how much of each bound is used
    stored,    \* history: the operations that their writer flushed
    crashed    \* history: a serving node has crashed

vars == <<plan, node, journals, latest, shardMap, used, stored, crashed>>

MaxOf(a, b) == IF a >= b THEN a ELSE b

NoSnapshot ==
    [node |-> "none", gen |-> 0, seq |-> 0, cursors |-> [m \in Nodes |-> 0],
     ops |-> {}]

Stopped ==
    [phase |-> "down", map |-> [gen |-> 0, resharding |-> FALSE],
     ops |-> {}, seq |-> 0, log |-> {}, trimmed |-> 0,
     scopeTrimmed |-> [sh \in Shards |-> 0],
     pulled |-> [m \in Nodes |-> [sh \in Shards |-> 0]],
     restored |-> [m \in Nodes |-> [sh \in Shards |-> 0]],
     acks |-> [m \in Nodes |-> [sh \in Shards |-> -1]],
     pending |-> {}, dirty |-> {}, todo |-> {}]

Op == [from : Nodes, seq : Nat \ {0}, id : Ids, boot : Nat]
Cursors == [Nodes -> [Shards -> Nat]]
Map == [gen : 0..2, resharding : BOOLEAN]

TypeOK ==
    /\ node \in [Nodes ->
         [phase : {"down", "restored", "waiting", "up"}, map : Map,
          ops : SUBSET Op, seq : Nat, log : SUBSET Op, trimmed : Nat,
          scopeTrimmed : [Shards -> Nat], pulled : Cursors, restored : Cursors,
          acks : [Nodes -> [Shards -> Nat \cup {-1}]],
          pending : SUBSET Op, dirty : SUBSET Shards, todo : SUBSET Shards]]
    /\ journals \subseteq [dir : Nodes, shard : Shards, ops : SUBSET Op, last : Nat]
    /\ latest \in [Shards -> [node : Nodes \cup {"none"}, gen : 0..2, seq : Nat,
                              cursors : [Nodes -> Nat], ops : SUBSET Op]]
    /\ shardMap \in Map /\ stored \subseteq Op /\ crashed \in BOOLEAN
    /\ used \in [writes : 0..plan.writes, stops : 0..plan.stops,
                 crashes : 0..plan.crashes]

----------------------------------------------------------------------------
\* The shard map.

ShardsOf(map) == Generations[map.gen]
Source(map) == IF map.resharding THEN Generations[map.gen - 1] ELSE Generations[map.gen]
PeersFor(sh) == Range(plan.peers[sh])
IsPrimary(n, sh) == Head(plan.peers[sh]) = n
Owned(n, map) == {sh \in ShardsOf(map) : n \in PeersFor(sh)}
ShardForObject(map, o) == Route[map.gen][o.id]
OfShard(ops, map, sh) == {o \in ops : ShardForObject(map, o) = sh}

\* uniqueScopes: the shards that have files.
Scopes(shards) ==
    {sh \in shards : latest[sh] # NoSnapshot \/ \E j \in journals : j.shard = sh}

----------------------------------------------------------------------------
\* Restore.

Covered(j, snap) == snap.cursors[j.dir] >= j.last

\* The journals of a shard that its snapshot does not cover, and their operations.
OpenJournals(sh) == {j \in journals : j.shard = sh /\ ~Covered(j, latest[sh])}
Beyond(j) == {o \in j.ops : o.seq > latest[j.shard].cursors[j.dir]}
JournalOps(shards) == UNION {UNION {Beyond(j) : j \in OpenJournals(sh)} : sh \in shards}
SnapshotOps(shards) == UNION {latest[sh].ops : sh \in shards}
Recoverable(shards) == SnapshotOps(shards) \cup JournalOps(shards)

\* applySnapshotObjects, _rememberSnapshotCursors and rememberRestoredCursor:
\* the cursor of a collection on the files of node m in shard sh, of which the
\* rows in kept are taken in.
RestoredCursor(old, m, sh, kept) ==
    LET snap == latest[sh]
        base == IF m = snap.node /\ (\E o \in snap.ops : o.id \in kept) THEN snap.seq ELSE old
        read == {o \in UNION {Beyond(j) : j \in {k \in OpenJournals(sh) : k.dir = m}} :
                   o.id \in kept}
    IN  Max({base, snap.cursors[m]} \cup {o.seq : o \in read})

\* maxLocalSeq: the numbers of n that the files show.
RestoredSeq(n, shards) ==
    Max({0} \cup {latest[sh].seq : sh \in {t \in shards : latest[t].node = n}}
            \cup {o.seq : o \in {p \in JournalOps(shards) : p.from = n}})

\* _restoreScopeSet: the process of n after reading the files of some shards.
RestoreScopeSet(me, n, shards, kept) ==
    LET seq == MaxOf(me.seq, RestoredSeq(n, shards)) IN
    [me EXCEPT
       !.ops = @ \cup {o \in Recoverable(shards) : o.id \in kept},
       !.seq = seq,
       !.trimmed = IF me.log = {} THEN MaxOf(@, seq) ELSE @,
       !.restored = [m \in Nodes |-> [sh \in Shards |->
          IF sh \in shards THEN RestoredCursor(@[m][sh], m, sh, kept) ELSE @[m][sh]]]]

----------------------------------------------------------------------------
Init ==
    /\ plan \in Plans
    /\ shardMap = [gen |-> 1, resharding |-> FALSE]
    /\ node = [n \in Nodes |->
                 IF Owned(n, shardMap) = {} THEN Stopped
                 ELSE [Stopped EXCEPT !.phase = "up", !.map = shardMap]]
    /\ journals = {}
    /\ latest = [sh \in Shards |-> NoSnapshot]
    /\ used = [writes |-> 0, stops |-> 0, crashes |-> 0]
    /\ stored = {}
    /\ crashed = FALSE

Storage == <<journals, latest, shardMap, stored>>

\* _queueOps: operations to flush, and the scopes they make dirty.
Queued(me, ops) ==
    [me EXCEPT !.pending = @ \cup ops,
               !.dirty = @ \cup {ShardForObject(me.map, o) : o \in ops}]

\* _commitLocalOps: number, log, apply and queue.
Write(n, id) ==
    LET me == node[n]
        op == [from |-> n, seq |-> me.seq + 1, id |-> id,
               boot |-> used.stops + used.crashes]
    IN  /\ me.phase = "up" /\ n \in plan.writers[me.map.gen] /\ id \in plan.ids
        /\ Route[me.map.gen][id] \in Owned(n, me.map)
        /\ used.writes < plan.writes
        /\ used' = [used EXCEPT !.writes = @ + 1]
        /\ node' = [node EXCEPT ![n] =
             Queued([me EXCEPT !.seq = @ + 1, !.log = @ \cup {op}, !.ops = @ \cup {op}],
                    {op})]
        /\ UNCHANGED <<plan, Storage, crashed>>

Own(n, ops) == {o \in ops : o.from = n}

\* The journal files of one flush: one for each scope.
JournalsOf(n, me) ==
    {[dir |-> n, shard |-> sh, ops |-> OfShard(me.pending, me.map, sh),
      last |-> Max({o.seq : o \in OfShard(me.pending, me.map, sh)})] :
       sh \in {ShardForObject(me.map, o) : o \in me.pending}}

Flush(n) ==
    /\ node[n].phase = "up" /\ node[n].pending # {}
    /\ journals' = journals \cup JournalsOf(n, node[n])
    /\ stored' = stored \cup Own(n, node[n].pending)
    /\ node' = [node EXCEPT ![n].pending = {}]
    /\ UNCHANGED <<plan, latest, shardMap, used, crashed>>

\* _snapshotCursors: the node's own number and the cursors it restored.
SnapshotCursors(n, me, sh) ==
    [m \in Nodes |-> IF m = n THEN MaxOf(me.seq, me.restored[m][sh])
                     ELSE me.restored[m][sh]]

SnapshotOf(n, me, sh) ==
    [node |-> n, gen |-> me.map.gen, seq |-> me.seq,
     cursors |-> SnapshotCursors(n, me, sh),
     ops |-> OfShard(me.ops, me.map, sh)]

\* Mutant: files of the other shards of the collection go as well.
CompactedAnywhere(files, sh, snap) == {j \in files : ~Covered(j, snap)}

\* _compactJournals: the files the snapshot covers go.
Compacted(files, sh, snap) == {j \in files : ~(j.shard = sh /\ Covered(j, snap))}

\* _writeSnapshot: segments, manifest, latest.json, then compaction.
WriteSnapshot(files, n, me, sh) ==
    LET snap == SnapshotOf(n, me, sh) IN
    /\ latest' = [latest EXCEPT ![sh] = snap]
    /\ journals' = Compacted(files, sh, snap)

\* The snapshot timer: a flush, then the dirty scopes of which n is primary.
Checkpoint(n, sh) ==
    LET me == node[n] IN
    /\ me.phase = "up" /\ sh \in me.dirty \cap Owned(n, me.map) /\ IsPrimary(n, sh)
    /\ WriteSnapshot(journals \cup JournalsOf(n, me), n, me, sh)
    /\ stored' = stored \cup Own(n, me.pending)
    /\ node' = [node EXCEPT ![n].pending = {}, ![n].dirty = @ \ {sh}]
    /\ UNCHANGED <<plan, shardMap, used, crashed>>

----------------------------------------------------------------------------
\* Pulls.

NeedsSnapshot(me, after, sh) ==
    IF sh = DefaultShard THEN after < me.trimmed ELSE after < me.scopeTrimmed[sh]

OpsAfter(me, after, sh) ==
    {o \in me.log : o.seq > after /\ (sh = DefaultShard \/ ShardForObject(me.map, o) = sh)}

\* applyRemote: what is new is applied and queued for storage.
Applied(me, ops) == Queued([me EXCEPT !.ops = @ \cup ops], ops \ me.ops)

\* Mutant: the cut is not held at what was cut before.
AckedUnclamped(me, r, sh, after) ==
    LET acks == [me.acks EXCEPT ![r][sh] = after]
        cut == Min({acks[m][t] : m \in Nodes, t \in Shards} \ {-1}) - plan.retain
    IN  [me EXCEPT !.acks = acks, !.log = {o \in @ : o.seq > cut}, !.trimmed = cut]

\* receiveAck and prune: the log up to the smallest acknowledgement goes.
Acked(me, r, sh, after) ==
    LET acks == [me.acks EXCEPT ![r][sh] = after]
        cut == Min({acks[m][t] : m \in Nodes, t \in Shards} \ {-1}) - plan.retain
        gone == {o \in me.log : o.seq <= cut}
    IN  IF cut <= me.trimmed THEN [me EXCEPT !.acks = acks]
        ELSE [me EXCEPT !.acks = acks, !.log = @ \ gone, !.trimmed = cut,
                !.scopeTrimmed = [t \in Shards |->
                   Max({@[t]} \cup {o.seq : o \in OfShard(gone, me.map, t)})]]

Peers(r, s, sh) ==
    /\ r # s /\ node[r].phase = "up" /\ node[s].phase = "up"
    /\ {r, s} \subseteq PeersFor(sh) /\ sh \in ShardsOf(node[r].map)

\* syncPeer until the log is used up; the acknowledgement may be lost.
Pull(r, s, sh) ==
    LET after == node[r].pulled[s][sh]
        me == [Applied(node[r], OpsAfter(node[s], after, sh)) EXCEPT
                 !.pulled[s][sh] = MaxOf(@, node[s].seq)]
    IN  /\ Peers(r, s, sh) /\ ~NeedsSnapshot(node[s], after, sh)
        /\ \E owner \in {node[s], Acked(node[s], r, sh, node[s].seq)} :
              node' = [node EXCEPT ![r] = me, ![s] = owner]
        /\ UNCHANGED <<plan, Storage, used, crashed>>

\* restoreScope: the files of the scope, read by a node that serves.
RestoreScope(me, n, shards) ==
    Queued(RestoreScopeSet(me, n, shards, Ids), JournalOps(shards) \ me.ops)

\* _rememberUnscopedCursors and _rememberScopeSetCursors: a log is as far read
\* as the least of the scopes' cursors.
Remembered(me, shards, sh) ==
    [me EXCEPT !.pulled = [m \in Nodes |-> [t \in Shards |->
       IF t = sh /\ shards # {}
       THEN MaxOf(@[m][t], Min({me.restored[m][u] : u \in shards})) ELSE @[m][t]]]]

\* Mutant: the cursor jumps to the owner's number.
DurableFloorAtSeq(me, s, sh, rows) ==
    IF rows = {} THEN me ELSE [me EXCEPT !.pulled[s][sh] = MaxOf(@, node[s].seq)]

\* The durable floor: what the owner pruned counts as read when files were.
DurableFloor(me, s, sh, rows) ==
    IF rows = {} THEN me ELSE [me EXCEPT !.pulled[s][sh] = MaxOf(@, node[s].trimmed)]

\* 410: the files are read; if that moves no cursor the pull fails (and the rows
\* that were read stay), otherwise it goes on with the new cursor.
CatchUp(r, s, sh) ==
    LET shards == Scopes(IF sh = DefaultShard THEN Owned(r, node[r].map) ELSE {sh})
        rows == (SnapshotOps(shards) \ node[r].ops) \cup JournalOps(shards)
        read == Remembered(RestoreScope(node[r], r, shards), shards, sh)
    IN  /\ Peers(r, s, sh) /\ NeedsSnapshot(node[s], node[r].pulled[s][sh], sh)
        /\ node' = [node EXCEPT ![r] = DurableFloor(read, s, sh, rows)]
        /\ UNCHANGED <<plan, Storage, used, crashed>>

----------------------------------------------------------------------------
\* Stops and starts.

\* SIGTERM: intake is closed, then what is pending is flushed.
Stop(n) ==
    LET me == node[n] IN
    /\ me.phase = "up" /\ used.stops < plan.stops
    /\ used' = [used EXCEPT !.stops = @ + 1]
    /\ journals' = journals \cup JournalsOf(n, me)
    /\ stored' = stored \cup Own(n, me.pending)
    /\ node' = [node EXCEPT ![n] = Stopped]
    /\ UNCHANGED <<plan, latest, shardMap, crashed>>

Crash(n) ==
    /\ node[n].phase \in plan.crashAt /\ used.crashes < plan.crashes
    /\ used' = [used EXCEPT !.crashes = @ + 1]
    /\ node' = [node EXCEPT ![n] = Stopped]
    /\ crashed' = (crashed \/ node[n].phase = "up")
    /\ UNCHANGED <<plan, Storage>>

\* restore with an active map: the shards the node owns.
Start(n) ==
    LET fresh == [Stopped EXCEPT !.phase = "up", !.map = shardMap] IN
    /\ node[n].phase = "down" /\ ~shardMap.resharding
    /\ plan.reshard => shardMap.gen = 2
    /\ node' = [node EXCEPT ![n] =
         RestoreScopeSet(fresh, n, Scopes(Owned(n, shardMap)), Ids)]
    /\ UNCHANGED <<plan, Storage, used, crashed>>

\* publishShardMap: a new partition is published while the cluster is stopped.
PublishReshard ==
    /\ plan.reshard /\ shardMap = [gen |-> 1, resharding |-> FALSE]
    /\ \A n \in Nodes : node[n].phase = "down"
    /\ shardMap' = [gen |-> 2, resharding |-> TRUE]
    /\ UNCHANGED <<plan, node, journals, latest, used, stored, crashed>>

\* Mutant: only the primary of a target keeps its rows.
KeptAsPrimary(n) == {id \in Ids : IsPrimary(n, Route[shardMap.gen][id])}

\* _filterRestoreObject and _filterRestoreOps: the rows of the node's targets.
Kept(n) == {id \in Ids : Route[shardMap.gen][id] \in Owned(n, shardMap)}

\* _filterRestoreScopes: every source shard, for a node that owns a target.
ReshardScopes(n, map) ==
    IF Owned(n, map) = {} THEN {} ELSE Scopes(Source(map))

\* restore of a map that is resharding, up to its checkpoint.
StartReshard(n) ==
    LET fresh == [Stopped EXCEPT !.phase = "restored", !.map = shardMap,
                    !.todo = {sh \in Owned(n, shardMap) : IsPrimary(n, sh)}]
    IN  /\ node[n].phase = "down" /\ shardMap.resharding
        /\ node' = [node EXCEPT ![n] =
             RestoreScopeSet(fresh, n, ReshardScopes(n, shardMap), Kept(n))]
        /\ UNCHANGED <<plan, Storage, used, crashed>>

\* checkpoint({primaryOnly, shards}): one target after the other.
CheckpointTarget(n, sh) ==
    /\ node[n].phase = "restored" /\ sh \in node[n].todo
    /\ WriteSnapshot(journals, n, node[n], sh)
    /\ node' = [node EXCEPT ![n].todo = @ \ {sh}]
    /\ UNCHANGED <<plan, shardMap, used, stored, crashed>>

\* Mutant: a node looks at the targets it wrote itself.
ReadyOwnTargets(n) ==
    \A sh \in Owned(n, node[n].map) :
        IsPrimary(n, sh) => latest[sh].gen = node[n].map.gen

\* reshardReadiness: a manifest of this generation for every target of every
\* collection that the restore came across.
Ready(n) ==
    ReshardScopes(n, node[n].map) # {} =>
        \A sh \in ShardsOf(node[n].map) : latest[sh].gen = node[n].map.gen

Activated(map) == [map EXCEPT !.resharding = FALSE]

Serving(n, map) == [node EXCEPT ![n].phase = "up", ![n].map = map]

\* shardMapStore.finalize: the node that finds every target written activates.
Finalize(n) ==
    /\ node[n].phase = "restored" /\ node[n].todo = {} /\ Ready(n)
    /\ shardMap' = Activated(shardMap)
    /\ node' = Serving(n, shardMap')
    /\ UNCHANGED <<plan, journals, latest, used, stored, crashed>>

Wait(n) ==
    /\ node[n].phase = "restored" /\ node[n].todo = {} /\ ~Ready(n)
    /\ node' = [node EXCEPT ![n].phase = "waiting"]
    /\ UNCHANGED <<plan, Storage, used, crashed>>

\* waitForActive polls the stored map.
Activate(n) ==
    /\ node[n].phase = "waiting" /\ ~shardMap.resharding
    /\ node' = Serving(n, shardMap)
    /\ UNCHANGED <<plan, Storage, used, crashed>>

Next ==
    \/ \E n \in Nodes, id \in Ids : Write(n, id)
    \/ \E n \in Nodes :
          \/ Flush(n) \/ Stop(n) \/ Crash(n) \/ Start(n)
          \/ StartReshard(n) \/ Finalize(n) \/ Wait(n) \/ Activate(n)
    \/ \E n \in Nodes, sh \in Shards : Checkpoint(n, sh) \/ CheckpointTarget(n, sh)
    \/ \E r, s \in Nodes, sh \in Shards : Pull(r, s, sh) \/ CatchUp(r, s, sh)
    \/ PublishReshard

\* Deployments start nodes again; timers flush and pull; a restoring node goes on.
Fairness ==
    \A n \in Nodes :
        /\ WF_vars(Start(n)) /\ WF_vars(StartReshard(n)) /\ WF_vars(Flush(n))
        /\ WF_vars(\E sh \in Shards : CheckpointTarget(n, sh))
        /\ WF_vars(Finalize(n)) /\ WF_vars(Wait(n)) /\ WF_vars(Activate(n))
        /\ \A s \in Nodes, sh \in Shards :
              WF_vars(Pull(n, s, sh)) /\ WF_vars(CatchUp(n, s, sh))

Spec == Init /\ [][Next]_vars /\ Fairness

----------------------------------------------------------------------------
(***************************************************************************)
(* SERVER.md, "Gracefully stop every peer and flush durable writes" and     *)
(* "Activate the new topology only after every target shard is ready": an   *)
(* operation that its writer has flushed can always be restored from the    *)
(* generation a node would start with now, whatever is compacted,           *)
(* checkpointed or activated meanwhile (_compactJournals, _snapshotCursors, *)
(* restore, reshardReadiness, finalize).                                    *)
(***************************************************************************)
FlushedSurvives == stored \subseteq Recoverable(Source(shardMap))

(***************************************************************************)
(* A cursor never passes what the replica lacks: across graceful restarts,  *)
(* 410 answers and a reshard, a replica holds every operation of a peer     *)
(* that its cursor on that peer has passed (syncPeer, restoreScope, the     *)
(* durable floor).  A crash of a serving node is excepted: it may lose      *)
(* operations it had acknowledged to the peer.                              *)
(***************************************************************************)
CursorsCover ==
    crashed \/
    \A r, s \in Nodes, sh \in Shards : Peers(r, s, sh) =>
        \A o \in node[s].ops :
            /\ o.from = s /\ o.seq <= node[r].pulled[s][sh]
            /\ sh = DefaultShard \/ ShardForObject(node[s].map, o) = sh
            => o \in node[r].ops

(***************************************************************************)
(* test/persistence.test.js, "topology reshard preserves source snapshots": *)
(* until the new generation is active nothing of the source generation      *)
(* changes, so that a node that fails in the middle can start over.         *)
(***************************************************************************)
SourceStays ==
    [][shardMap.resharding =>
         \A sh \in Source(shardMap) :
            /\ latest'[sh] = latest[sh]
            /\ \A j \in journals \cup journals' :
                  j.shard = sh => j \in journals \cap journals']_vars

(***************************************************************************)
(* However nodes crash while they restore, repartition or wait, the cluster *)
(* comes to serve one generation, and unless a serving node has crashed the *)
(* owners of a shard come to hold the same operations (waitForActive,       *)
(* syncAll).                                                                *)
(***************************************************************************)
Agree(sh) ==
    \A r, s \in PeersFor(sh) :
        OfShard(node[r].ops, shardMap, sh) = OfShard(node[s].ops, shardMap, sh)

AllServe == \A n \in Nodes : node[n].phase = "up" /\ node[n].map = shardMap

ServesAgain ==
    <>[](\/ plan.reshard /\ shardMap.gen = 1
         \/ AllServe /\ (crashed \/ \A sh \in ShardsOf(shardMap) : Agree(sh)))

============================================================================
