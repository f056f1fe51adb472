--------------------------- MODULE RecoveryProofs ---------------------------
(***************************************************************************)
(* Proofs about Recovery, for every cluster.                                *)
(*                                                                          *)
(* 1. While a change of the shard count is under way nothing of the source  *)
(*    generation changes: no node serves meanwhile, and a node that         *)
(*    restores has only shards of the new generation to write.              *)
(* 2. The types.  Max of a set is defined by a choice, so that it has a     *)
(*    type only where the set is bounded: every number is at most the       *)
(*    count of writes.                                                      *)
(* 3. What was flushed is still found by a restore.  A shard's files are    *)
(*    its primary's; a primary that serves, restores or waits holds all     *)
(*    that was flushed of its shards and numbers beyond their snapshots, so *)
(*    that the snapshot it writes and the journals it removes for it lose   *)
(*    nothing; and a target of a reshard is whole when it is written.       *)
(***************************************************************************)
EXTENDS Recovery, NatLemmas, TLAPS

Fields == {"phase", "map", "ops", "seq", "log", "trimmed", "scopeTrimmed", "pulled",
           "restored", "acks", "pending", "dirty", "todo"}

\* Every variable that steps update in part is a function with its domain.
Shape ==
    /\ DOMAIN node = Nodes
    /\ \A n \in Nodes : DOMAIN node[n] = Fields
    /\ DOMAIN latest = Shards

\* A map that is resharding is of the second generation.
MapKnown ==
    /\ shardMap \in [gen : {1, 2}, resharding : BOOLEAN]
    /\ shardMap.resharding => shardMap.gen = 2

\* While the map is resharding nobody serves, and what is left to checkpoint are
\* targets.
Quiet ==
    shardMap.resharding =>
        \A n \in Nodes : /\ node[n].phase # "up"
                         /\ node[n].phase = "restored" => node[n].todo \subseteq Generations[2]

RInv == Shape /\ MapKnown /\ Quiet

----------------------------------------------------------------------------
(***************************************************************************)
(* What a node is keeps its fields under every helper that changes some.    *)
(***************************************************************************)

\* Stopped is a whole node (the state of a process that is not there).
LEMMA StoppedShape == DOMAIN Stopped = Fields
  BY DEF Stopped, Fields

\* Queueing keeps the fields (_queueOps).
LEMMA QueuedShape ==
    ASSUME NEW me, NEW ops PROVE DOMAIN Queued(me, ops) = DOMAIN me
  BY DEF Queued

\* Applying a batch keeps the fields (applyRemote).
LEMMA AppliedShape ==
    ASSUME NEW me, NEW ops PROVE DOMAIN Applied(me, ops) = DOMAIN me
  BY QueuedShape DEF Applied

\* An acknowledgement keeps the fields (receiveAck, prune).
LEMMA AckedShape ==
    ASSUME NEW me, NEW r, NEW sh, NEW after
    PROVE  DOMAIN Acked(me, r, sh, after) = DOMAIN me
  BY DEF Acked

\* A restore keeps the fields (_restoreScopeSet).
LEMMA RestoreShape ==
    ASSUME NEW me, NEW n, NEW shards, NEW kept
    PROVE  DOMAIN RestoreScopeSet(me, n, shards, kept) = DOMAIN me
  BY DEF RestoreScopeSet

\* A restore of a scope while serving keeps the fields (restoreScope).
LEMMA RestoreScopeShape ==
    ASSUME NEW me, NEW n, NEW shards
    PROVE  DOMAIN RestoreScope(me, n, shards) = DOMAIN me
  BY QueuedShape, RestoreShape DEF RestoreScope

\* So do the cursors it leads to (_rememberScopeSetCursors, the durable floor).
LEMMA CursorShape ==
    ASSUME NEW me, NEW s, NEW sh, NEW rows, NEW shards
    PROVE  DOMAIN DurableFloor(Remembered(me, shards, sh), s, sh, rows) = DOMAIN me
  BY DEF DurableFloor, Remembered

----------------------------------------------------------------------------
\* A step that replaces nodes by whole nodes keeps Shape.
LEMMA NodeReplaced ==
    ASSUME Shape, NEW n \in Nodes, NEW v, DOMAIN v = Fields,
           node' = [node EXCEPT ![n] = v], DOMAIN latest' = Shards
    PROVE  Shape'
  BY DEF Shape

\* One step keeps Shape: every action replaces whole nodes by whole nodes.
LEMMA ShapeStep ==
    ASSUME Shape, Next PROVE Shape'
  <1>0. \A n \in Nodes : DOMAIN node[n] = Fields
    BY DEF Shape
  <1>00. DOMAIN latest = Shards
    BY DEF Shape
  <1>1. ASSUME NEW n \in Nodes, NEW id \in Ids, Write(n, id) PROVE Shape'
    <2> DEFINE me == node[n]
    <2> DEFINE op == [from |-> n, seq |-> me.seq + 1, id |-> id,
                      boot |-> used.stops + used.crashes]
    <2> DEFINE wrote == [me EXCEPT !.seq = @ + 1, !.log = @ \cup {op}, !.ops = @ \cup {op}]
    <2>1. node' = [node EXCEPT ![n] = Queued(wrote, {op})] /\ latest' = latest
      BY <1>1 DEF Write, Storage
    <2>2. DOMAIN wrote = Fields
      BY <1>0
    <2>3. DOMAIN Queued(wrote, {op}) = Fields
      <3> HIDE DEF wrote, op
      <3> QED BY <2>2, QueuedShape
    <2> HIDE DEF wrote, op
    <2> QED BY <1>00, <2>1, <2>3, NodeReplaced
  <1>2. ASSUME NEW n \in Nodes, Flush(n) PROVE Shape'
    <2>1. node' = [node EXCEPT ![n].pending = {}] /\ latest' = latest
      BY <1>2 DEF Flush
    <2> QED BY <2>1 DEF Shape
  <1>3. ASSUME NEW n \in Nodes, Stop(n) \/ Crash(n) PROVE Shape'
    <2>1. node' = [node EXCEPT ![n] = Stopped] /\ latest' = latest
      BY <1>3 DEF Stop, Crash, Storage
    <2> QED BY <2>1, <1>00, StoppedShape, NodeReplaced
  <1>4. ASSUME NEW n \in Nodes, Start(n) PROVE Shape'
    <2> DEFINE fresh == [Stopped EXCEPT !.phase = "up", !.map = shardMap]
    <2> DEFINE v == RestoreScopeSet(fresh, n, Scopes(Owned(n, shardMap)), Ids)
    <2>1. node' = [node EXCEPT ![n] = v] /\ latest' = latest
      BY <1>4 DEF Start, Storage
    <2>2. DOMAIN fresh = Fields
      BY StoppedShape
    <2>3. DOMAIN v = Fields
      <3> HIDE DEF fresh
      <3> QED BY <2>2, RestoreShape
    <2> HIDE DEF v
    <2> QED BY <1>00, <2>1, <2>3, NodeReplaced
  <1>5. ASSUME NEW n \in Nodes, StartReshard(n) PROVE Shape'
    <2> DEFINE fresh == [Stopped EXCEPT !.phase = "restored", !.map = shardMap,
                    !.todo = {sh \in Owned(n, shardMap) : IsPrimary(n, sh)}]
    <2> DEFINE v == RestoreScopeSet(fresh, n, ReshardScopes(n, shardMap), Kept(n))
    <2>1. node' = [node EXCEPT ![n] = v] /\ latest' = latest
      BY <1>5 DEF StartReshard, Storage
    <2>2. DOMAIN fresh = Fields
      BY StoppedShape
    <2>3. DOMAIN v = Fields
      <3> HIDE DEF fresh
      <3> QED BY <2>2, RestoreShape
    <2> HIDE DEF v
    <2> QED BY <1>00, <2>1, <2>3, NodeReplaced
  <1>6. ASSUME NEW n \in Nodes, Finalize(n) \/ Wait(n) \/ Activate(n) PROVE Shape'
    <2>1. latest' = latest
      BY <1>6 DEF Finalize, Wait, Activate, Storage
    <2>2. \/ node' = [node EXCEPT ![n].phase = "up", ![n].map = shardMap']
          \/ node' = [node EXCEPT ![n].phase = "waiting"]
          \/ node' = [node EXCEPT ![n].phase = "up", ![n].map = shardMap]
      BY <1>6 DEF Finalize, Wait, Activate, Serving
    <2> QED BY <2>1, <2>2 DEF Shape
  <1>7. ASSUME NEW n \in Nodes, NEW sh \in Shards, Checkpoint(n, sh) \/ CheckpointTarget(n, sh)
        PROVE Shape'
    <2>1. DOMAIN latest' = DOMAIN latest
      BY <1>7 DEF Checkpoint, CheckpointTarget, WriteSnapshot
    <2>2. \/ node' = [node EXCEPT ![n].pending = {}, ![n].dirty = @ \ {sh}]
          \/ node' = [node EXCEPT ![n].todo = @ \ {sh}]
      BY <1>7 DEF Checkpoint, CheckpointTarget
    <2> QED BY <2>1, <2>2 DEF Shape
  <1>8. ASSUME NEW r \in Nodes, NEW s \in Nodes, NEW sh \in Shards, Pull(r, s, sh) PROVE Shape'
    <2> DEFINE after == node[r].pulled[s][sh]
    <2> DEFINE applied == Applied(node[r], OpsAfter(node[s], after, sh))
    <2> DEFINE me == [applied EXCEPT !.pulled[s][sh] = MaxOf(@, node[s].seq)]
    <2>1. PICK owner \in {node[s], Acked(node[s], r, sh, node[s].seq)} :
             node' = [node EXCEPT ![r] = me, ![s] = owner]
      BY <1>8 DEF Pull
    <2>2. latest' = latest
      BY <1>8 DEF Pull, Storage
    <2>3. DOMAIN owner = Fields
      BY <1>0, <2>1, AckedShape
    <2>4. DOMAIN applied = Fields
      BY <1>0, AppliedShape
    <2>5. DOMAIN me = Fields
      <3> HIDE DEF applied
      <3> QED BY <2>4
    <2> HIDE DEF me
    <2> QED BY <2>1, <2>2, <2>3, <2>5 DEF Shape
  <1>9. ASSUME NEW r \in Nodes, NEW s \in Nodes, NEW sh \in Shards, CatchUp(r, s, sh) PROVE Shape'
    <2> DEFINE shards == Scopes(IF sh = DefaultShard THEN Owned(r, node[r].map) ELSE {sh})
    <2> DEFINE rows == (SnapshotOps(shards) \ node[r].ops) \cup JournalOps(shards)
    <2> DEFINE scope == RestoreScope(node[r], r, shards)
    <2> DEFINE v == DurableFloor(Remembered(scope, shards, sh), s, sh, rows)
    <2>1. node' = [node EXCEPT ![r] = v] /\ latest' = latest
      BY <1>9 DEF CatchUp, Storage
    <2>2. DOMAIN scope = Fields
      BY <1>0, RestoreScopeShape
    <2>3. DOMAIN v = Fields
      <3> HIDE DEF scope, rows, shards
      <3> QED BY <2>2, CursorShape
    <2> HIDE DEF v
    <2> QED BY <1>00, <2>1, <2>3, NodeReplaced
  <1>10. ASSUME PublishReshard PROVE Shape'
    BY <1>10 DEF PublishReshard, Shape
  <1> QED
    BY <1>1, <1>2, <1>3, <1>4, <1>5, <1>6, <1>7, <1>8, <1>9, <1>10 DEF Next

----------------------------------------------------------------------------
(***************************************************************************)
(* What a node is doing.                                                   *)
(***************************************************************************)

\* A restore leaves the phase and the targets alone (_restoreScopeSet).
LEMMA RestoreKeeps ==
    ASSUME NEW me, NEW n, NEW shards, NEW kept, DOMAIN me = Fields
    PROVE  /\ RestoreScopeSet(me, n, shards, kept).phase = me.phase
           /\ RestoreScopeSet(me, n, shards, kept).todo = me.todo
  BY DEF RestoreScopeSet, Fields

\* The shards a node is given are shards of its map (ownedShards).
LEMMA OwnedTargets ==
    ASSUME NEW n \in Nodes, shardMap.gen = 2
    PROVE  Owned(n, shardMap) \subseteq Generations[2]
  BY DEF Owned, ShardsOf

\* While the map is resharding a step is one of a start, and the node that takes
\* it does not serve afterwards unless it activates the map.
LEMMA ReshardSteps ==
    ASSUME RInv, Next, shardMap.resharding
    PROVE  \/ \E n \in Nodes : Crash(n) \/ StartReshard(n) \/ Finalize(n) \/ Wait(n)
           \/ \E n \in Nodes, sh \in Generations[2] : CheckpointTarget(n, sh)
  <1>1. \A n \in Nodes : node[n].phase # "up"
    BY DEF RInv, Quiet
  <1>2. \A n \in Nodes, sh \in Shards :
           CheckpointTarget(n, sh) => sh \in Generations[2]
    BY DEF RInv, Quiet, CheckpointTarget
  <1>3. shardMap.gen = 2
    BY DEF RInv, MapKnown
  <1>4. ~PublishReshard
    BY <1>3 DEF PublishReshard
  <1>5. \A n \in Nodes : ~Flush(n) /\ ~Stop(n) /\ ~Start(n) /\ ~Activate(n)
    BY <1>1 DEF Flush, Stop, Start, Activate
  <1>6. \A n \in Nodes, id \in Ids : ~Write(n, id)
    BY <1>1 DEF Write
  <1>7. \A n \in Nodes, sh \in Shards : ~Checkpoint(n, sh)
    BY <1>1 DEF Checkpoint
  <1>8. \A r, s \in Nodes, sh \in Shards : ~Pull(r, s, sh) /\ ~CatchUp(r, s, sh)
    BY <1>1 DEF Pull, CatchUp, Peers
  <1> QED
    BY <1>2, <1>4, <1>5, <1>6, <1>7, <1>8 DEF Next

\* The stored map goes from the first generation over the resharding one to the
\* second, and a step leaves the resharding one only by activating it.
LEMMA MapStep ==
    ASSUME MapKnown, Next
    PROVE  /\ MapKnown'
           /\ shardMap'.resharding => shardMap' = shardMap \/ PublishReshard
  <1>1. shardMap' = shardMap \/ PublishReshard \/ \E n \in Nodes : Finalize(n)
    <2>1. \A n \in Nodes, id \in Ids : Write(n, id) => shardMap' = shardMap
      BY DEF Write, Storage
    <2>2. \A n \in Nodes : Flush(n) \/ Stop(n) \/ Crash(n) => shardMap' = shardMap
      BY DEF Flush, Stop, Crash, Storage
    <2>3. \A n \in Nodes : Start(n) \/ StartReshard(n) => shardMap' = shardMap
      BY DEF Start, StartReshard, Storage
    <2>4. \A n \in Nodes : Wait(n) \/ Activate(n) => shardMap' = shardMap
      BY DEF Wait, Activate, Storage
    <2>5. \A n \in Nodes, sh \in Shards :
             Checkpoint(n, sh) \/ CheckpointTarget(n, sh) => shardMap' = shardMap
      BY DEF Checkpoint, CheckpointTarget
    <2>6. ASSUME NEW r \in Nodes, NEW s \in Nodes, NEW sh \in Shards, Pull(r, s, sh)
          PROVE  shardMap' = shardMap
      BY <2>6 DEF Pull, Storage
    <2>7. ASSUME NEW r \in Nodes, NEW s \in Nodes, NEW sh \in Shards, CatchUp(r, s, sh)
          PROVE  shardMap' = shardMap
      BY <2>7 DEF CatchUp, Storage
    <2> QED BY <2>1, <2>2, <2>3, <2>4, <2>5, <2>6, <2>7 DEF Next
  <1>2. CASE shardMap' = shardMap
    BY <1>2 DEF MapKnown
  <1>3. CASE PublishReshard
    BY <1>3 DEF PublishReshard, MapKnown
  <1>4. CASE \E n \in Nodes : Finalize(n)
    <2>1. shardMap' = [shardMap EXCEPT !.resharding = FALSE]
      BY <1>4 DEF Finalize, Activated
    <2>2. shardMap' \in [gen : {1, 2}, resharding : BOOLEAN] /\ ~shardMap'.resharding
      BY <2>1 DEF MapKnown
    <2> QED BY <2>2 DEF MapKnown
  <1> QED BY <1>1, <1>2, <1>3, <1>4

\* A step into or within a reshard leaves no node serving.
LEMMA QuietStep ==
    ASSUME RInv, Next PROVE Quiet'
  <1> SUFFICES ASSUME shardMap'.resharding PROVE Quiet'
    BY DEF Quiet
  <1>1. shardMap' = shardMap \/ PublishReshard
    BY MapStep DEF RInv
  <1>2. CASE PublishReshard
    BY <1>2 DEF PublishReshard, Quiet
  <1>3. CASE shardMap' = shardMap
    <2>1. shardMap.resharding /\ shardMap.gen = 2
      BY <1>3 DEF RInv, MapKnown
    <2>2. \A n \in Nodes : /\ node[n].phase # "up"
                           /\ node[n].phase = "restored" => node[n].todo \subseteq Generations[2]
      BY <2>1 DEF RInv, Quiet
    <2>3. DOMAIN node = Nodes /\ \A n \in Nodes : DOMAIN node[n] = Fields
      BY DEF RInv, Shape
    <2>4. ASSUME NEW n \in Nodes, Crash(n) PROVE Quiet'
      <3>1. node' = [node EXCEPT ![n] = Stopped]
        BY <2>4 DEF Crash
      <3>2. Stopped.phase = "down"
        BY DEF Stopped
      <3> QED BY <2>2, <2>3, <3>1, <3>2 DEF Quiet
    <2>5. ASSUME NEW n \in Nodes, StartReshard(n) PROVE Quiet'
      <3> DEFINE targets == {sh \in Owned(n, shardMap) : IsPrimary(n, sh)}
      <3> DEFINE fresh == [Stopped EXCEPT !.phase = "restored", !.map = shardMap,
                             !.todo = targets]
      <3> DEFINE v == RestoreScopeSet(fresh, n, ReshardScopes(n, shardMap), Kept(n))
      <3>1. node' = [node EXCEPT ![n] = v]
        BY <2>5 DEF StartReshard
      <3>2. DOMAIN fresh = Fields
        BY StoppedShape
      <3>3. fresh.phase = "restored" /\ fresh.todo = targets
        BY StoppedShape DEF Fields
      <3>4. v.phase = "restored" /\ v.todo = targets
        <4> HIDE DEF fresh, targets
        <4> QED BY <3>2, <3>3, RestoreKeeps
      <3>5. targets \subseteq Generations[2]
        BY <2>1, OwnedTargets
      <3> HIDE DEF v, targets
      <3> QED BY <2>2, <2>3, <3>1, <3>4, <3>5 DEF Quiet
    <2>6. ASSUME NEW n \in Nodes, Finalize(n) PROVE Quiet'
      <3>1. shardMap' = [shardMap EXCEPT !.resharding = FALSE]
        BY <2>6 DEF Finalize, Activated
      <3> QED BY <1>3, <2>1, <3>1 DEF RInv, MapKnown
    <2>7. ASSUME NEW n \in Nodes, Wait(n) PROVE Quiet'
      <3>1. node' = [node EXCEPT ![n].phase = "waiting"]
        BY <2>7 DEF Wait
      <3> QED BY <2>2, <2>3, <3>1 DEF Quiet, Fields
    <2>8. ASSUME NEW n \in Nodes, NEW sh \in Generations[2], CheckpointTarget(n, sh)
          PROVE Quiet'
      <3>1. node' = [node EXCEPT ![n].todo = @ \ {sh}]
        BY <2>8 DEF CheckpointTarget
      <3> QED BY <2>2, <2>3, <3>1 DEF Quiet, Fields
    <2> QED BY <2>1, <2>4, <2>5, <2>6, <2>7, <2>8, ReshardSteps
  <1> QED BY <1>1, <1>2, <1>3

----------------------------------------------------------------------------
(***************************************************************************)
(* The invariant.                                                          *)
(***************************************************************************)

\* A cluster starts with the first generation active.
LEMMA InitRInv == Init => RInv
  <1> SUFFICES ASSUME Init PROVE RInv
    OBVIOUS
  <1>1. shardMap = [gen |-> 1, resharding |-> FALSE]
    BY DEF Init
  <1>2. DOMAIN latest = Shards /\ DOMAIN node = Nodes
    BY DEF Init
  <1>3. \A n \in Nodes :
           node[n] = Stopped \/ node[n] = [Stopped EXCEPT !.phase = "up", !.map = shardMap]
    BY DEF Init
  <1>4. \A n \in Nodes : DOMAIN node[n] = Fields
    BY <1>3, StoppedShape
  <1>5. ~shardMap.resharding /\ MapKnown
    BY <1>1 DEF MapKnown
  <1> QED BY <1>1, <1>2, <1>4, <1>5 DEF RInv, Shape, Quiet

\* Every step keeps the invariant, and so does a stutter.
LEMMA NextRInv == RInv /\ [Next]_vars => RInv'
  <1> SUFFICES ASSUME RInv, [Next]_vars PROVE RInv'
    OBVIOUS
  <1>1. CASE Next
    BY <1>1, ShapeStep, MapStep, QuietStep DEF RInv
  <1>2. CASE UNCHANGED vars
    BY <1>2 DEF vars, RInv, Shape, MapKnown, Quiet
  <1> QED BY <1>1, <1>2

\* RInv holds in every state of every behaviour.
THEOREM ReshardInvariant == Spec => []RInv
  BY InitRInv, NextRInv, PTL DEF Spec

----------------------------------------------------------------------------
(***************************************************************************)
(* The source of a reshard.                                                *)
(***************************************************************************)

SourceKept ==
    shardMap.resharding =>
        \A sh \in Source(shardMap) :
            /\ latest'[sh] = latest[sh]
            /\ \A j \in journals \cup journals' :
                  j.shard = sh => j \in journals \cap journals'

\* A checkpoint of a target writes that target's snapshot and compacts that
\* target's journals, which are no shard of the source (checkpoint, _compactJournals).
LEMMA TargetKeepsSource ==
    ASSUME shardMap.gen = 2, shardMap.resharding, RInv, NEW n \in Nodes, NEW t \in Generations[2],
           CheckpointTarget(n, t)
    PROVE  SourceKept
  <1> DEFINE snap == SnapshotOf(n, node[n], t)
  <1>1. /\ latest' = [latest EXCEPT ![t] = snap]
        /\ journals' = {j \in journals : ~(j.shard = t /\ Covered(j, snap))}
    BY DEF CheckpointTarget, WriteSnapshot, Compacted
  <1>2. Source(shardMap) = Generations[1]
    BY DEF Source
  <1>3. t \notin Generations[1]
    BY RecoveryAssumption
  <1> HIDE DEF snap
  <1>4. \A sh \in Generations[1] : latest'[sh] = latest[sh]
    BY <1>1, <1>3
  <1>5. \A sh \in Generations[1] : \A j \in journals \cup journals' :
           j.shard = sh => j \in journals \cap journals'
    BY <1>1, <1>3
  <1> QED BY <1>2, <1>4, <1>5 DEF SourceKept

\* No step of a reshard touches the source.
LEMMA SourceStep == RInv /\ [Next]_vars => SourceKept
  <1> SUFFICES ASSUME RInv, [Next]_vars, shardMap.resharding PROVE SourceKept
    BY DEF SourceKept
  <1>1. shardMap.gen = 2
    BY DEF RInv, MapKnown
  <1>2. CASE UNCHANGED vars
    BY <1>2 DEF vars, SourceKept
  <1>3. CASE \E n \in Nodes : Crash(n) \/ StartReshard(n) \/ Finalize(n) \/ Wait(n)
    BY <1>3 DEF Crash, StartReshard, Finalize, Wait, Storage, SourceKept
  <1>4. CASE \E n \in Nodes, t \in Generations[2] : CheckpointTarget(n, t)
    BY <1>1, <1>4, TargetKeepsSource
  <1> QED BY <1>2, <1>3, <1>4, ReshardSteps

(***************************************************************************)
(* In every cluster, with any peers, routes and plans: until the new        *)
(* generation is active nothing of the source generation changes, so that a *)
(* node that fails in the middle can start over (checkpoint with shards,    *)
(* _compactJournals, shardMapStore.finalize).                               *)
(***************************************************************************)
THEOREM SourceStaysHolds == Spec => SourceStays
  BY InitRInv, NextRInv, SourceStep, PTL DEF Spec, SourceStays, SourceKept

----------------------------------------------------------------------------
(***************************************************************************)
(* Types and bounds.                                                       *)
(***************************************************************************)

\* Operations numbered up to k.
UpTo(k) == [from : Nodes, seq : 1..k, id : Ids, boot : Nat]

\* The state of a process, the snapshots and the files, with operations up to k.
Proc(k) ==
    [phase : {"down", "restored", "waiting", "up"}, map : Map,
     ops : SUBSET UpTo(k), seq : 0..k, log : SUBSET UpTo(k), trimmed : Nat,
     scopeTrimmed : [Shards -> Nat], pulled : Cursors, restored : Cursors,
     acks : [Nodes -> [Shards -> Nat \cup {-1}]],
     pending : SUBSET UpTo(k), dirty : SUBSET Shards, todo : SUBSET Shards]

Snapshot(k) ==
    [node : Nodes \cup {"none"}, gen : 0..2, seq : 0..k, cursors : [Nodes -> Nat],
     ops : SUBSET UpTo(k)]

File(k) == [dir : Nodes, shard : Shards, ops : SUBSET UpTo(k), last : Nat]

FilesTyped(k) == journals \subseteq File(k) /\ latest \in [Shards -> Snapshot(k)]

\* A process that is there has a map.
Mapped == \A n \in Nodes : node[n].phase # "down" => node[n].map.gen \in 1..2

Numbered ==
    /\ plan \in Plans
    /\ used \in [writes : 0..plan.writes, stops : 0..plan.stops, crashes : 0..plan.crashes]
    /\ node \in [Nodes -> Proc(used.writes)]
    /\ FilesTyped(used.writes)
    /\ shardMap \in Map
    /\ stored \subseteq UpTo(used.writes)
    /\ crashed \in BOOLEAN

TInv == RInv /\ Numbered /\ Mapped

\* What the plans are.
LEMMA PlanFacts ==
    ASSUME plan \in Plans
    PROVE  /\ plan.peers \in [Shards -> Seq(Nodes) \ {<<>>}]
           /\ plan.retain \in Nat /\ plan.writes \in Nat
           /\ plan.stops \in Nat /\ plan.crashes \in Nat
  BY RecoveryAssumption

\* The shards are those of the two generations.
LEMMA ShardFacts ==
    /\ Shards = Generations[1] \cup Generations[2]
    /\ \A g \in 1..2, id \in Ids : Route[g][id] \in Generations[g]
    /\ \A g \in 1..2 : Generations[g] \subseteq Shards
  BY RecoveryAssumption DEF Shards, Range

\* The bound is a type.
LEMMA NumberedTypes == Numbered => TypeOK
  <1> SUFFICES ASSUME Numbered PROVE TypeOK  OBVIOUS
  <1>1. used.writes \in Nat  BY PlanFacts DEF Numbered
  <1>2. \A k \in Nat : UpTo(k) \subseteq Op  BY DEF UpTo, Op
  <1>3. \A k \in Nat : 0..k \subseteq Nat  OBVIOUS
  <1>4. node \in [Nodes ->
         [phase : {"down", "restored", "waiting", "up"}, map : Map,
          ops : SUBSET Op, seq : Nat, log : SUBSET Op, trimmed : Nat,
          scopeTrimmed : [Shards -> Nat], pulled : Cursors, restored : Cursors,
          acks : [Nodes -> [Shards -> Nat \cup {-1}]],
          pending : SUBSET Op, dirty : SUBSET Shards, todo : SUBSET Shards]]
    BY <1>1, <1>2, <1>3 DEF Numbered, Proc
  <1>5. journals \subseteq [dir : Nodes, shard : Shards, ops : SUBSET Op, last : Nat]
    BY <1>1, <1>2 DEF Numbered, FilesTyped, File
  <1>6. latest \in [Shards -> [node : Nodes \cup {"none"}, gen : 0..2, seq : Nat,
                              cursors : [Nodes -> Nat], ops : SUBSET Op]]
    BY <1>1, <1>2, <1>3 DEF Numbered, FilesTyped, Snapshot
  <1>7. stored \subseteq Op  BY <1>1, <1>2 DEF Numbered
  <1> QED  BY <1>4, <1>5, <1>6, <1>7 DEF Numbered, TypeOK

\* More operations are no harm.
LEMMA Grows ==
    ASSUME NEW k \in Nat
    PROVE  /\ UpTo(k) \subseteq UpTo(k + 1) /\ Proc(k) \subseteq Proc(k + 1)
           /\ Snapshot(k) \subseteq Snapshot(k + 1) /\ File(k) \subseteq File(k + 1)
  <1>1. UpTo(k) \subseteq UpTo(k + 1)  BY DEF UpTo
  <1>2. 0..k \subseteq 0..(k + 1)  OBVIOUS
  <1> QED  BY <1>1, <1>2 DEF Proc, Snapshot, File

----------------------------------------------------------------------------
\* The helpers keep the types.

\* MaxOf of two numbers is one of them, and at least both.
LEMMA MaxOfType ==
    ASSUME NEW a \in Nat, NEW b \in Nat
    PROVE  MaxOf(a, b) \in {a, b} /\ MaxOf(a, b) >= a /\ MaxOf(a, b) >= b
  BY DEF MaxOf

\* _queueOps keeps the types: what is queued is pending, its shards are dirty.
LEMMA QueuedType ==
    ASSUME NEW k \in Nat, NEW me \in Proc(k), me.map.gen \in 1..2, NEW ops \in SUBSET UpTo(k)
    PROVE  Queued(me, ops) \in Proc(k)
  <1>1. \A o \in ops : ShardForObject(me.map, o) \in Shards
    BY ShardFacts DEF ShardForObject, UpTo
  <1>2. {ShardForObject(me.map, o) : o \in ops} \subseteq Shards  BY <1>1
  <1> DEFINE d == {ShardForObject(me.map, o) : o \in ops}
  <1> HIDE DEF d
  <1> QED  BY <1>2 DEF Queued, Proc, d

\* applyRemote keeps the types.
LEMMA AppliedType ==
    ASSUME NEW k \in Nat, NEW me \in Proc(k), me.map.gen \in 1..2, NEW ops \in SUBSET UpTo(k)
    PROVE  Applied(me, ops) \in Proc(k)
  <1>1. [me EXCEPT !.ops = @ \cup ops] \in Proc(k) /\ [me EXCEPT !.ops = @ \cup ops].map = me.map
    BY DEF Proc
  <1> QED  BY <1>1, QueuedType DEF Applied

\* The numbers of a set of operations.
LEMMA SeqsType ==
    ASSUME NEW k \in Nat, NEW ops \in SUBSET UpTo(k)
    PROVE  {o.seq : o \in ops} \subseteq 1..k
  BY DEF UpTo

\* What a restore reads of typed files are operations up to k.
LEMMA FilesRead ==
    ASSUME NEW k \in Nat, FilesTyped(k), NEW shards \in SUBSET Shards
    PROVE  /\ SnapshotOps(shards) \subseteq UpTo(k)
           /\ JournalOps(shards) \subseteq UpTo(k)
           /\ Recoverable(shards) \subseteq UpTo(k)
  <1>1. SnapshotOps(shards) \subseteq UpTo(k)
    BY DEF FilesTyped, Snapshot, SnapshotOps
  <1>2. \A j \in journals : Beyond(j) \subseteq UpTo(k)
    BY DEF FilesTyped, File, Beyond
  <1>3. JournalOps(shards) \subseteq UpTo(k)
    BY <1>2 DEF JournalOps, OpenJournals
  <1> QED  BY <1>1, <1>3 DEF Recoverable

\* maxLocalSeq is a number up to k, at least every number of n that the files show.
LEMMA RestoredSeqType ==
    ASSUME NEW k \in Nat, FilesTyped(k), NEW n \in Nodes, NEW shards \in SUBSET Shards
    PROVE  /\ RestoredSeq(n, shards) \in 0..k
           /\ \A sh \in shards : latest[sh].node = n => latest[sh].seq <= RestoredSeq(n, shards)
           /\ \A o \in JournalOps(shards) : o.from = n => o.seq <= RestoredSeq(n, shards)
  <1> DEFINE S == {latest[sh].seq : sh \in {t \in shards : latest[t].node = n}}
             T == {o.seq : o \in {p \in JournalOps(shards) : p.from = n}}
  <1>1. S \subseteq 0..k  BY DEF FilesTyped, Snapshot
  <1>2. T \subseteq 0..k  BY FilesRead, SeqsType DEF UpTo
  <1>3. Max({0} \cup S \cup T) \in {0} \cup S \cup T
        /\ \A x \in {0} \cup S \cup T : x <= Max({0} \cup S \cup T)
    <2> HIDE DEF S, T
    <2>1. {0} \cup S \cup T \subseteq Nat /\ {0} \cup S \cup T # {}
          /\ \A x \in {0} \cup S \cup T : x <= k
      BY <1>1, <1>2
    <2> QED  BY <2>1, MaxOfNats
  <1>4. RestoredSeq(n, shards) = Max({0} \cup S \cup T)  BY DEF RestoredSeq
  <1>5. RestoredSeq(n, shards) \in 0..k
    <2> HIDE DEF S, T
    <2>1. {0} \cup S \cup T \subseteq 0..k  BY <1>1, <1>2
    <2> QED  BY <2>1, <1>3, <1>4
  <1>6. ASSUME NEW sh \in shards, latest[sh].node = n PROVE latest[sh].seq <= RestoredSeq(n, shards)
    <2>1. latest[sh].seq \in S  BY <1>6
    <2> HIDE DEF S, T
    <2> QED  BY <2>1, <1>3, <1>4
  <1>7. ASSUME NEW o \in JournalOps(shards), o.from = n PROVE o.seq <= RestoredSeq(n, shards)
    <2>1. o.seq \in T  BY <1>7
    <2> HIDE DEF S, T
    <2> QED  BY <2>1, <1>3, <1>4
  <1> QED  BY <1>5, <1>6, <1>7

\* rememberRestoredCursor: a restored cursor is a number.
LEMMA RestoredCursorType ==
    ASSUME NEW k \in Nat, FilesTyped(k), NEW old \in Nat, NEW m \in Nodes, NEW sh \in Shards,
           NEW kept
    PROVE  RestoredCursor(old, m, sh, kept) \in Nat
  <1> DEFINE snap == latest[sh]
             base == IF m = snap.node /\ (\E o \in snap.ops : o.id \in kept) THEN snap.seq ELSE old
             read == {o \in UNION {Beyond(j) : j \in {i \in OpenJournals(sh) : i.dir = m}} :
                        o.id \in kept}
             T == {o.seq : o \in read}
  <1>1. base \in Nat /\ snap.cursors[m] \in Nat  BY DEF FilesTyped, Snapshot
  <1>2. read \subseteq UpTo(k)
    <2>1. \A j \in journals : Beyond(j) \subseteq UpTo(k)
      BY DEF FilesTyped, File, Beyond
    <2> QED  BY <2>1 DEF OpenJournals
  <1>3. T \subseteq 1..k
    <2> HIDE DEF read
    <2> QED  BY <1>2, SeqsType
  <1>4. Max({base, snap.cursors[m]} \cup T) \in Nat
    <2>1. \A b, c \in Nat : T \subseteq 1..k => Max({b, c} \cup T) \in Nat
      <3> HIDE DEF T, base
      <3> SUFFICES ASSUME NEW b \in Nat, NEW c \in Nat, T \subseteq 1..k
                   PROVE  Max({b, c} \cup T) \in Nat
        OBVIOUS
      <3>1. {b, c} \cup T \subseteq Nat /\ {b, c} \cup T # {} /\ b + c + k \in Nat
            /\ \A x \in {b, c} \cup T : x <= b + c + k
        OBVIOUS
      <3>2. Max({b, c} \cup T) \in {b, c} \cup T  BY <3>1, MaxOfNats
      <3> QED  BY <3>1, <3>2
    <2> HIDE DEF T, base, snap
    <2> QED  BY <1>1, <1>3, <2>1
  <1>5. RestoredCursor(old, m, sh, kept) = Max({base, snap.cursors[m]} \cup T)
    BY DEF RestoredCursor
  <1> HIDE DEF T, base, snap
  <1> QED  BY <1>4, <1>5

\* _restoreScopeSet keeps the types.
LEMMA RestoreScopeSetType ==
    ASSUME NEW k \in Nat, FilesTyped(k), NEW n \in Nodes, NEW shards \in SUBSET Shards, NEW kept,
           NEW me \in Proc(k)
    PROVE  RestoreScopeSet(me, n, shards, kept) \in Proc(k)
  <1> DEFINE seq == MaxOf(me.seq, RestoredSeq(n, shards))
             ops == me.ops \cup {o \in Recoverable(shards) : o.id \in kept}
             tr == IF me.log = {} THEN MaxOf(me.trimmed, seq) ELSE me.trimmed
             cu == [m \in Nodes |-> [sh \in Shards |->
                      IF sh \in shards THEN RestoredCursor(me.restored[m][sh], m, sh, kept)
                      ELSE me.restored[m][sh]]]
  <1>1. seq \in 0..k
    <2>1. RestoredSeq(n, shards) \in 0..k  BY RestoredSeqType
    <2>2. me.seq \in 0..k  BY DEF Proc
    <2> QED  BY <2>1, <2>2, MaxOfType
  <1>2. ops \in SUBSET UpTo(k)  BY FilesRead DEF Proc
  <1>3. tr \in Nat
    <2>1. me.trimmed \in Nat  BY DEF Proc
    <2> HIDE DEF seq
    <2> QED  BY <1>1, <2>1, MaxOfType
  <1>4. cu \in Cursors
    <2>1. \A m \in Nodes, sh \in Shards : me.restored[m][sh] \in Nat  BY DEF Proc, Cursors
    <2>2. \A m \in Nodes, sh \in Shards : RestoredCursor(me.restored[m][sh], m, sh, kept) \in Nat
      BY <2>1, RestoredCursorType
    <2> QED  BY <2>1, <2>2 DEF Cursors
  <1>5. RestoreScopeSet(me, n, shards, kept) =
          [me EXCEPT !.ops = ops, !.seq = seq, !.trimmed = tr, !.restored = cu]
    BY DEF RestoreScopeSet
  <1> HIDE DEF seq, ops, tr, cu
  <1> QED  BY <1>1, <1>2, <1>3, <1>4, <1>5 DEF Proc

\* restoreScope keeps the types.
LEMMA RestoreScopeType ==
    ASSUME NEW k \in Nat, FilesTyped(k), NEW n \in Nodes, NEW shards \in SUBSET Shards,
           NEW me \in Proc(k), me.map.gen \in 1..2
    PROVE  RestoreScope(me, n, shards) \in Proc(k)
  <1> DEFINE r == RestoreScopeSet(me, n, shards, Ids)
  <1>1. r \in Proc(k)  BY RestoreScopeSetType
  <1>2. r.map = me.map  BY DEF RestoreScopeSet, Proc
  <1>3. JournalOps(shards) \ me.ops \in SUBSET UpTo(k)  BY FilesRead
  <1> HIDE DEF r
  <1>4. Queued(r, JournalOps(shards) \ me.ops) \in Proc(k)  BY <1>1, <1>2, <1>3, QueuedType
  <1> QED  BY <1>4 DEF RestoreScope, r

\* _rememberScopeSetCursors keeps the types.
LEMMA RememberedType ==
    ASSUME NEW k \in Nat, NEW shards \in SUBSET Shards, NEW sh \in Shards, NEW me \in Proc(k)
    PROVE  Remembered(me, shards, sh) \in Proc(k)
  <1> DEFINE pulled == [m \in Nodes |-> [t \in Shards |->
                 IF t = sh /\ shards # {}
                 THEN MaxOf(me.pulled[m][t], Min({me.restored[m][u] : u \in shards}))
                 ELSE me.pulled[m][t]]]
  <1>1. \A m \in Nodes, t \in Shards : me.restored[m][t] \in Nat /\ me.pulled[m][t] \in Nat
    BY DEF Proc, Cursors
  <1>2. ASSUME NEW m \in Nodes, NEW t \in Shards, shards # {}
        PROVE  MaxOf(me.pulled[m][t], Min({me.restored[m][u] : u \in shards})) \in Nat
    <2> DEFINE T == {me.restored[m][u] : u \in shards}
    <2>1. T \subseteq Nat /\ T # {}  BY <1>1, <1>2
    <2> HIDE DEF T
    <2>2. Min(T) \in Nat  BY <2>1, MinOfNats
    <2>3. MaxOf(me.pulled[m][t], Min(T)) \in Nat  BY <1>1, <2>2, MaxOfType
    <2> QED  BY <2>3 DEF T
  <1>4. pulled \in Cursors  BY <1>1, <1>2 DEF Cursors
  <1>5. Remembered(me, shards, sh) = [me EXCEPT !.pulled = pulled]  BY DEF Remembered
  <1> HIDE DEF pulled
  <1> QED  BY <1>4, <1>5 DEF Proc

\* The durable floor of syncPeer keeps the types.
LEMMA DurableFloorType ==
    ASSUME NEW k \in Nat, NEW s \in Nodes, NEW sh \in Shards, NEW me \in Proc(k), NEW rows,
           node[s].trimmed \in Nat
    PROVE  DurableFloor(me, s, sh, rows) \in Proc(k)
  <1>1. me.pulled \in [Nodes -> [Shards -> Nat]]  BY DEF Proc, Cursors
  <1>2. MaxOf(me.pulled[s][sh], node[s].trimmed) \in Nat  BY <1>1, MaxOfType
  <1> DEFINE p == [me.pulled EXCEPT ![s][sh] = MaxOf(@, node[s].trimmed)]
  <1>3. p \in Cursors  BY <1>1, <1>2 DEF Cursors
  <1>4. [me EXCEPT !.pulled[s][sh] = MaxOf(@, node[s].trimmed)] = [me EXCEPT !.pulled = p]
    OBVIOUS
  <1> HIDE DEF p
  <1> QED  BY <1>3, <1>4 DEF DurableFloor, Proc

\* receiveAck and prune keep the types: the cut is the least of a bounded set.
LEMMA AckedType ==
    ASSUME NEW k \in Nat, NEW me \in Proc(k), me.map.gen \in 1..2, NEW r \in Nodes,
           NEW sh \in Shards, NEW after \in Nat, plan \in Plans
    PROVE  Acked(me, r, sh, after) \in Proc(k)
  <1> DEFINE acks == [me.acks EXCEPT ![r][sh] = after]
             A == {acks[m][t] : m \in Nodes, t \in Shards} \ {-1}
             cut == Min(A) - plan.retain
             gone == {o \in me.log : o.seq <= cut}
             sc == [t \in Shards |->
                      Max({me.scopeTrimmed[t]} \cup {o.seq : o \in OfShard(gone, me.map, t)})]
  <1>1. me.acks \in [Nodes -> [Shards -> Nat \cup {-1}]]  BY DEF Proc
  <1>2. acks \in [Nodes -> [Shards -> Nat \cup {-1}]]  BY <1>1
  <1>3. A \subseteq Nat /\ A # {}
    <2>1. acks[r][sh] = after  BY <1>1
    <2>2. after \in A  BY <2>1
    <2> HIDE DEF acks
    <2> QED  BY <1>2, <2>2
  <1>4. cut \in Int
    <2> HIDE DEF A
    <2>1. Min(A) \in Nat  BY <1>3, MinOfNats
    <2> QED  BY <2>1, PlanFacts
  <1>5. sc \in [Shards -> Nat]
    <2> HIDE DEF acks, cut, gone
    <2> SUFFICES ASSUME NEW t \in Shards
                 PROVE  Max({me.scopeTrimmed[t]} \cup {o.seq : o \in OfShard(gone, me.map, t)}) \in Nat
      OBVIOUS
    <2> USE DEF gone
    <2> DEFINE b == me.scopeTrimmed[t]
               G == OfShard(gone, me.map, t)
               T == {o.seq : o \in G}
    <2>1. b \in Nat  BY DEF Proc
    <2>2. gone \subseteq UpTo(k)  BY DEF Proc
    <2>3. G \in SUBSET UpTo(k)
      <3> HIDE DEF gone
      <3> QED  BY <2>2 DEF OfShard
    <2> HIDE DEF b, G, gone
    <2>4. T \subseteq 1..k  BY <2>3, SeqsType
    <2> HIDE DEF T
    <2>5. {b} \cup T \subseteq Nat /\ {b} \cup T # {} /\ b + k \in Nat
          /\ \A x \in {b} \cup T : x <= b + k
      BY <2>1, <2>4
    <2>6. Max({b} \cup T) \in Nat  BY <2>5, MaxOfNats
    <2> QED  BY <2>6 DEF b, T, G
  <1>6. me.log \ gone \in SUBSET UpTo(k)  BY DEF Proc
  <1>7. Acked(me, r, sh, after) =
          IF cut <= me.trimmed THEN [me EXCEPT !.acks = acks]
          ELSE [me EXCEPT !.acks = acks, !.log = me.log \ gone, !.trimmed = cut, !.scopeTrimmed = sc]
    BY DEF Acked
  <1>8. me.trimmed \in Nat  BY DEF Proc
  <1> HIDE DEF acks, cut, gone, sc
  <1>9. [me EXCEPT !.acks = acks] \in Proc(k)  BY <1>2 DEF Proc
  <1>10. CASE cut <= me.trimmed  BY <1>7, <1>9, <1>10
  <1>11. CASE ~(cut <= me.trimmed)
    <2>1. cut \in Nat  BY <1>4, <1>8, <1>11
    <2>2. [me EXCEPT !.acks = acks, !.log = me.log \ gone, !.trimmed = cut, !.scopeTrimmed = sc]
             \in Proc(k)
      BY <1>2, <1>5, <1>6, <2>1 DEF Proc
    <2> QED  BY <1>7, <1>11, <2>2
  <1> QED  BY <1>10, <1>11

\* The journals of a flush are journal files.
LEMMA JournalsOfType ==
    ASSUME NEW k \in Nat, NEW n \in Nodes, NEW me \in Proc(k), me.map.gen \in 1..2
    PROVE  JournalsOf(n, me) \subseteq File(k)
  <1> SUFFICES ASSUME NEW o \in me.pending
               PROVE  [dir |-> n, shard |-> ShardForObject(me.map, o),
                       ops |-> OfShard(me.pending, me.map, ShardForObject(me.map, o)),
                       last |-> Max({p.seq : p \in OfShard(me.pending, me.map, ShardForObject(me.map, o))})]
                       \in File(k)
    BY DEF JournalsOf
  <1> DEFINE sh == ShardForObject(me.map, o)
             G == OfShard(me.pending, me.map, sh)
             T == {p.seq : p \in G}
  <1>1. me.pending \subseteq UpTo(k)  BY DEF Proc
  <1>2. sh \in Shards  BY <1>1, ShardFacts DEF ShardForObject, UpTo
  <1>3. G \in SUBSET UpTo(k) /\ o \in G  BY <1>1 DEF OfShard
  <1> HIDE DEF sh, G
  <1>4. T \subseteq 1..k /\ T # {}  BY <1>3, SeqsType
  <1> HIDE DEF T
  <1>5. T \subseteq Nat /\ \A x \in T : x <= k  BY <1>4
  <1>6. Max(T) \in Nat  BY <1>4, <1>5, MaxOfNats
  <1>7. [dir |-> n, shard |-> sh, ops |-> G, last |-> Max(T)] \in File(k)
    BY <1>2, <1>3, <1>6 DEF File
  <1> QED  BY <1>7 DEF sh, G, T

\* What _writeSnapshot writes is a snapshot.
LEMMA SnapshotOfType ==
    ASSUME NEW k \in Nat, NEW n \in Nodes, NEW me \in Proc(k), NEW sh \in Shards
    PROVE  SnapshotOf(n, me, sh) \in Snapshot(k)
  <1>1. SnapshotCursors(n, me, sh) \in [Nodes -> Nat]
    <2>1. me.seq \in Nat /\ \A m \in Nodes : me.restored[m][sh] \in Nat  BY DEF Proc, Cursors
    <2>2. MaxOf(me.seq, me.restored[n][sh]) \in Nat  BY <2>1, MaxOfType
    <2> QED  BY <2>1, <2>2 DEF SnapshotCursors
  <1>2. OfShard(me.ops, me.map, sh) \subseteq UpTo(k)  BY DEF OfShard, Proc
  <1>3. me.map.gen \in 0..2 /\ me.seq \in 0..k  BY DEF Proc, Map
  <1> QED  BY <1>1, <1>2, <1>3 DEF SnapshotOf, Snapshot

----------------------------------------------------------------------------
\* What the helpers leave alone.

\* The part of a process that only starts, stops and the map change.
SameServer(a, b) == a.phase = b.phase /\ a.map = b.map

\* _queueOps adds to what is pending, and to the dirty shards.
LEMMA QueuedFields ==
    ASSUME NEW k, NEW me \in Proc(k), NEW ops
    PROVE  /\ SameServer(Queued(me, ops), me)
           /\ Queued(me, ops).ops = me.ops /\ Queued(me, ops).seq = me.seq
           /\ Queued(me, ops).log = me.log /\ Queued(me, ops).restored = me.restored
           /\ Queued(me, ops).pending = me.pending \cup ops
  <1> DEFINE d == me.dirty \cup {ShardForObject(me.map, o) : o \in ops}
  <1>1. Queued(me, ops) = [me EXCEPT !.pending = me.pending \cup ops, !.dirty = d]
    BY DEF Queued
  <1> HIDE DEF d
  <1> QED  BY <1>1 DEF SameServer, Proc

\* applyRemote adds what is new to the rows and to what is pending.
LEMMA AppliedFields ==
    ASSUME NEW k, NEW me \in Proc(k), NEW ops \in SUBSET UpTo(k)
    PROVE  /\ SameServer(Applied(me, ops), me)
           /\ Applied(me, ops).ops = me.ops \cup ops /\ Applied(me, ops).seq = me.seq
           /\ Applied(me, ops).log = me.log /\ Applied(me, ops).restored = me.restored
           /\ Applied(me, ops).pending = me.pending \cup (ops \ me.ops)
  <1> DEFINE b == [me EXCEPT !.ops = me.ops \cup ops]
  <1>1. /\ b \in Proc(k) /\ SameServer(b, me)
        /\ b.ops = me.ops \cup ops /\ b.seq = me.seq /\ b.log = me.log
        /\ b.restored = me.restored /\ b.pending = me.pending
    BY DEF Proc, SameServer
  <1>2. Applied(me, ops) = Queued(b, ops \ me.ops)  BY DEF Applied
  <1> HIDE DEF b
  <1> QED  BY <1>1, <1>2, QueuedFields DEF SameServer

\* _restoreScopeSet adds the rows that are kept, raises the number and the cursors.
LEMMA RestoreSetFields ==
    ASSUME NEW k, NEW me \in Proc(k), NEW n, NEW shards, NEW kept
    PROVE  /\ SameServer(RestoreScopeSet(me, n, shards, kept), me)
           /\ RestoreScopeSet(me, n, shards, kept).ops
                = me.ops \cup {o \in Recoverable(shards) : o.id \in kept}
           /\ RestoreScopeSet(me, n, shards, kept).seq = MaxOf(me.seq, RestoredSeq(n, shards))
           /\ RestoreScopeSet(me, n, shards, kept).log = me.log
           /\ RestoreScopeSet(me, n, shards, kept).pending = me.pending
           /\ \A m \in Nodes, sh \in Shards :
                RestoreScopeSet(me, n, shards, kept).restored[m][sh] =
                   IF sh \in shards THEN RestoredCursor(me.restored[m][sh], m, sh, kept)
                   ELSE me.restored[m][sh]
  <1> DEFINE ops == me.ops \cup {o \in Recoverable(shards) : o.id \in kept}
             seq == MaxOf(me.seq, RestoredSeq(n, shards))
             tr == IF me.log = {} THEN MaxOf(me.trimmed, seq) ELSE me.trimmed
             cu == [m \in Nodes |-> [sh \in Shards |->
                      IF sh \in shards THEN RestoredCursor(me.restored[m][sh], m, sh, kept)
                      ELSE me.restored[m][sh]]]
  <1>1. RestoreScopeSet(me, n, shards, kept) =
          [me EXCEPT !.ops = ops, !.seq = seq, !.trimmed = tr, !.restored = cu]
    BY DEF RestoreScopeSet
  <1>2. LET b == RestoreScopeSet(me, n, shards, kept) IN
        /\ SameServer(b, me) /\ b.ops = ops /\ b.seq = seq /\ b.log = me.log
        /\ b.pending = me.pending /\ b.restored = cu
    <2> HIDE DEF ops, seq, tr, cu
    <2> QED  BY <1>1 DEF SameServer, Proc
  <1>3. \A m \in Nodes, sh \in Shards :
          cu[m][sh] = IF sh \in shards THEN RestoredCursor(me.restored[m][sh], m, sh, kept)
                      ELSE me.restored[m][sh]
    OBVIOUS
  <1> QED  BY <1>2, <1>3

\* restoreScope does, and queues the operations of the journals that are new.
LEMMA RestoreScopeFields ==
    ASSUME NEW k \in Nat, FilesTyped(k), NEW me \in Proc(k), NEW n \in Nodes,
           NEW shards \in SUBSET Shards
    PROVE  /\ SameServer(RestoreScope(me, n, shards), me)
           /\ RestoreScope(me, n, shards).ops
                = me.ops \cup {o \in Recoverable(shards) : o.id \in Ids}
           /\ RestoreScope(me, n, shards).seq = MaxOf(me.seq, RestoredSeq(n, shards))
           /\ RestoreScope(me, n, shards).log = me.log
           /\ RestoreScope(me, n, shards).pending
                = me.pending \cup (JournalOps(shards) \ me.ops)
           /\ \A m \in Nodes, sh \in Shards :
                RestoreScope(me, n, shards).restored[m][sh] =
                   IF sh \in shards THEN RestoredCursor(me.restored[m][sh], m, sh, Ids)
                   ELSE me.restored[m][sh]
  <1> DEFINE b == RestoreScopeSet(me, n, shards, Ids)
  <1>1. b \in Proc(k)  BY RestoreScopeSetType
  <1>2. RestoreScope(me, n, shards) = Queued(b, JournalOps(shards) \ me.ops)  BY DEF RestoreScope
  <1>3. /\ SameServer(b, me) /\ b.pending = me.pending /\ b.log = me.log
        /\ b.ops = me.ops \cup {o \in Recoverable(shards) : o.id \in Ids}
        /\ b.seq = MaxOf(me.seq, RestoredSeq(n, shards))
        /\ \A m \in Nodes, sh \in Shards :
             b.restored[m][sh] =
                   IF sh \in shards THEN RestoredCursor(me.restored[m][sh], m, sh, Ids)
                   ELSE me.restored[m][sh]
    BY RestoreSetFields
  <1> HIDE DEF b
  <1> QED  BY <1>1, <1>2, <1>3, QueuedFields DEF SameServer

\* The cursors on the logs of others are apart from everything else.
LEMMA CursorFields ==
    ASSUME NEW k \in Nat, NEW me \in Proc(k), NEW shards \in SUBSET Shards, NEW sh \in Shards,
           NEW s, NEW rows
    PROVE  LET a == DurableFloor(Remembered(me, shards, sh), s, sh, rows) IN
           /\ SameServer(a, me) /\ a.ops = me.ops /\ a.seq = me.seq /\ a.log = me.log
           /\ a.pending = me.pending /\ a.restored = me.restored
  <1> DEFINE b == Remembered(me, shards, sh)
  <1>1. /\ b \in Proc(k) /\ SameServer(b, me) /\ b.ops = me.ops /\ b.seq = me.seq
        /\ b.log = me.log /\ b.pending = me.pending /\ b.restored = me.restored
    <2>1. b \in Proc(k)  BY RememberedType
    <2>2. \A p : LET c == [me EXCEPT !.pulled = p] IN
             /\ SameServer(c, me) /\ c.ops = me.ops /\ c.seq = me.seq
             /\ c.log = me.log /\ c.pending = me.pending /\ c.restored = me.restored
      BY DEF SameServer, Proc
    <2> QED  BY <2>1, <2>2 DEF Remembered
  <1> HIDE DEF b
  <1>2. \A p : LET c == [b EXCEPT !.pulled = p] IN
             /\ SameServer(c, b) /\ c.ops = b.ops /\ c.seq = b.seq
             /\ c.log = b.log /\ c.pending = b.pending /\ c.restored = b.restored
    BY <1>1 DEF SameServer, Proc
  <1>3. LET c == DurableFloor(b, s, sh, rows) IN
             /\ SameServer(c, b) /\ c.ops = b.ops /\ c.seq = b.seq
             /\ c.log = b.log /\ c.pending = b.pending /\ c.restored = b.restored
    BY <1>2 DEF DurableFloor, SameServer
  <1> QED  BY <1>1, <1>3 DEF SameServer, b

\* receiveAck and prune only shorten the log.
LEMMA AckedFields ==
    ASSUME NEW k, NEW me \in Proc(k), NEW r, NEW sh, NEW after
    PROVE  LET a == Acked(me, r, sh, after) IN
           /\ SameServer(a, me) /\ a.ops = me.ops /\ a.seq = me.seq /\ a.log \subseteq me.log
           /\ a.pending = me.pending /\ a.restored = me.restored
  <1>1. \A p : LET c == [me EXCEPT !.acks = p] IN
             /\ SameServer(c, me) /\ c.ops = me.ops /\ c.seq = me.seq /\ c.log = me.log
             /\ c.pending = me.pending /\ c.restored = me.restored
    BY DEF SameServer, Proc
  <1> DEFINE acks == [me.acks EXCEPT ![r][sh] = after]
             cut == Min({acks[m][t] : m \in Nodes, t \in Shards} \ {-1}) - plan.retain
             gone == {o \in me.log : o.seq <= cut}
             sc == [t \in Shards |->
                      Max({me.scopeTrimmed[t]} \cup {o.seq : o \in OfShard(gone, me.map, t)})]
  <1>3. Acked(me, r, sh, after) =
          IF cut <= me.trimmed THEN [me EXCEPT !.acks = acks]
          ELSE [me EXCEPT !.acks = acks, !.log = me.log \ gone, !.trimmed = cut, !.scopeTrimmed = sc]
    BY DEF Acked
  <1> HIDE DEF acks, cut, gone, sc
  <1>4. CASE cut <= me.trimmed
    <2>1. Acked(me, r, sh, after) = [me EXCEPT !.acks = acks]  BY <1>3, <1>4
    <2> QED  BY <1>1, <2>1
  <1>5. CASE ~(cut <= me.trimmed)
    <2>1. Acked(me, r, sh, after) =
            [me EXCEPT !.acks = acks, !.log = me.log \ gone, !.trimmed = cut, !.scopeTrimmed = sc]
      BY <1>3, <1>5
    <2>2. PICK c : c = Acked(me, r, sh, after)  OBVIOUS
    <2>3. PICK q : q = me.log \ gone  OBVIOUS
    <2>4. q \subseteq me.log  BY <2>3
    <2>5. c = [me EXCEPT !.acks = acks, !.log = q, !.trimmed = cut, !.scopeTrimmed = sc]
      BY <2>1, <2>2, <2>3
    <2>6. /\ SameServer(c, me) /\ c.ops = me.ops /\ c.seq = me.seq /\ c.log \subseteq me.log
          /\ c.pending = me.pending /\ c.restored = me.restored
      BY <2>4, <2>5 DEF SameServer, Proc
    <2> QED  BY <2>2, <2>6
  <1> QED  BY <1>4, <1>5

----------------------------------------------------------------------------
\* Every step keeps the types.

\* The shards a map names are shards.
LEMMA MapShards ==
    ASSUME MapKnown, NEW n
    PROVE  /\ Source(shardMap) \subseteq Shards /\ ShardsOf(shardMap) \subseteq Shards
           /\ Owned(n, shardMap) \subseteq Shards
           /\ Scopes(Owned(n, shardMap)) \subseteq Shards
           /\ ReshardScopes(n, shardMap) \subseteq Shards
  <1>1. Source(shardMap) \subseteq Shards /\ ShardsOf(shardMap) \subseteq Shards
    BY ShardFacts DEF MapKnown, Source, ShardsOf
  <1>2. Owned(n, shardMap) \subseteq Shards  BY <1>1 DEF Owned
  <1> QED  BY <1>1, <1>2 DEF Scopes, ReshardScopes

\* A process that is not there is typed.
LEMMA StoppedType ==
    ASSUME NEW k \in Nat PROVE Stopped \in Proc(k)
  BY DEF Stopped, Proc, Map, Cursors

\* What one process does to itself.
LEMMA OneProc ==
    ASSUME TInv, NEW n \in Nodes, NEW v \in Proc(used.writes), v.phase # "down" => v.map.gen \in 1..2,
           node' = [node EXCEPT ![n] = v], used'.writes = used.writes
    PROVE  node' \in [Nodes -> Proc(used'.writes)] /\ Mapped'
  BY DEF TInv, Numbered, Mapped

\* The bounds that a step leaves alone.
LEMMA SameBounds ==
    ASSUME Numbered, UNCHANGED plan
    PROVE  /\ used' = used => used' \in [writes : 0..plan'.writes, stops : 0..plan'.stops,
                                         crashes : 0..plan'.crashes]
           /\ used.writes \in Nat
  BY PlanFacts DEF Numbered

\* _commitLocalOps keeps the types: the new number is within the bound on writes.
LEMMA TypedWrite ==
    ASSUME TInv, NEW n \in Nodes, NEW id \in Ids, Write(n, id)
    PROVE  Numbered' /\ Mapped'
  <1> DEFINE k == used.writes
             me == node[n]
             op == [from |-> n, seq |-> me.seq + 1, id |-> id, boot |-> used.stops + used.crashes]
             wrote == [me EXCEPT !.seq = me.seq + 1, !.log = me.log \cup {op}, !.ops = me.ops \cup {op}]
  <1>1. k \in Nat /\ used.stops \in Nat /\ used.crashes \in Nat
    BY PlanFacts DEF TInv, Numbered
  <1>2. me \in Proc(k + 1) /\ me.seq \in 0..k /\ me.map.gen \in 1..2
    <2>1. me \in Proc(k)  BY DEF TInv, Numbered
    <2>2. me.map.gen \in 1..2  BY DEF TInv, Mapped, Write
    <2> HIDE DEF me, k
    <2> QED  BY <1>1, <2>1, <2>2, Grows DEF Proc
  <1>3. op \in UpTo(k + 1)
    <2> HIDE DEF me, k
    <2> QED  BY <1>1, <1>2 DEF UpTo
  <1>4. wrote \in Proc(k + 1) /\ wrote.map = me.map
    <2>1. me.seq + 1 \in 0..(k + 1)  BY <1>1, <1>2
    <2> HIDE DEF me, k, op
    <2>2. me.log \cup {op} \in SUBSET UpTo(k + 1) /\ me.ops \cup {op} \in SUBSET UpTo(k + 1)
      BY <1>2, <1>3 DEF Proc
    <2> QED  BY <1>2, <2>1, <2>2 DEF Proc
  <1> DEFINE v == Queued(wrote, {op})
  <1>5. v \in Proc(k + 1) /\ SameServer(v, wrote)
    <2> HIDE DEF me, k, op, wrote
    <2> QED  BY <1>1, <1>2, <1>3, <1>4, QueuedType, QueuedFields
  <1>6. /\ node' = [node EXCEPT ![n] = v] /\ used' = [used EXCEPT !.writes = used.writes + 1]
        /\ used.writes < plan.writes
        /\ UNCHANGED <<plan, journals, latest, shardMap, stored, crashed>>
    BY DEF Write, Storage
  <1>7. used'.writes = k + 1  BY <1>6 DEF TInv, Numbered
  <1>8. used' \in [writes : 0..plan'.writes, stops : 0..plan'.stops, crashes : 0..plan'.crashes]
    BY <1>6, PlanFacts DEF TInv, Numbered
  <1>9. node' \in [Nodes -> Proc(k + 1)] /\ Mapped'
    <2>1. node \in [Nodes -> Proc(k + 1)]
      <3> HIDE DEF me, v
      <3> QED  BY <1>1, Grows DEF TInv, Numbered
    <2>2. v.map.gen \in 1..2  BY <1>2, <1>4, <1>5 DEF SameServer
    <2> HIDE DEF v, k
    <2> QED  BY <2>1, <2>2, <1>5, <1>6 DEF TInv, Mapped
  <1>10. FilesTyped(k + 1) /\ stored \subseteq UpTo(k + 1)
    <2> HIDE DEF me, v, op
    <2> QED  BY <1>1, Grows DEF TInv, Numbered, FilesTyped
  <1>11. FilesTyped(used.writes)'
    <2> HIDE DEF k, v
    <2> QED  BY <1>6, <1>7, <1>10 DEF FilesTyped
  <1> HIDE DEF k, v
  <1> QED  BY <1>6, <1>7, <1>8, <1>9, <1>10, <1>11 DEF TInv, Numbered

\* Journals of what is pending, with those there were.
LEMMA Journalled ==
    ASSUME TInv, NEW n \in Nodes, node[n].phase = "up"
    PROVE  /\ journals \cup JournalsOf(n, node[n]) \subseteq File(used.writes)
           /\ stored \cup Own(n, node[n].pending) \subseteq UpTo(used.writes)
  <1> DEFINE me == node[n]
  <1>1. used.writes \in Nat /\ me \in Proc(used.writes) /\ me.map.gen \in 1..2
    BY PlanFacts DEF TInv, Numbered, Mapped
  <1>2. JournalsOf(n, me) \subseteq File(used.writes)
    <2> HIDE DEF me
    <2> QED  BY <1>1, JournalsOfType
  <1>3. me.pending \subseteq UpTo(used.writes)  BY <1>1 DEF Proc
  <1> QED  BY <1>2, <1>3 DEF TInv, Numbered, FilesTyped, Own

\* A snapshot written, and the files it covers removed.
LEMMA SnapshotWritten ==
    ASSUME TInv, NEW n \in Nodes, NEW sh \in Shards, NEW files, files \subseteq File(used.writes),
           WriteSnapshot(files, n, node[n], sh), used' = used
    PROVE  FilesTyped(used.writes)'
  <1>1. used.writes \in Nat /\ node[n] \in Proc(used.writes)
    BY PlanFacts DEF TInv, Numbered
  <1>2. SnapshotOf(n, node[n], sh) \in Snapshot(used.writes)  BY <1>1, SnapshotOfType
  <1> QED  BY <1>2 DEF WriteSnapshot, Compacted, FilesTyped, TInv, Numbered

\* A flush, a graceful stop and a crash keep the types.
LEMMA TypedFlush ==
    ASSUME TInv, NEW n \in Nodes, Flush(n) \/ Stop(n) \/ Crash(n)
    PROVE  Numbered' /\ Mapped'
  <1>1. used.writes \in Nat /\ node[n] \in Proc(used.writes)  BY PlanFacts DEF TInv, Numbered
  <1>2. used' \in [writes : 0..plan'.writes, stops : 0..plan'.stops, crashes : 0..plan'.crashes]
        /\ used'.writes = used.writes
    BY PlanFacts DEF TInv, Numbered, Flush, Stop, Crash
  <1>3. FilesTyped(used.writes)' /\ stored' \subseteq UpTo(used'.writes)
    <2>1. CASE Crash(n)  BY <1>2, <2>1 DEF Crash, Storage, TInv, Numbered, FilesTyped
    <2>2. CASE Flush(n) \/ Stop(n)
      BY <1>2, <2>2, Journalled DEF Flush, Stop, TInv, Numbered, FilesTyped
    <2> QED  BY <2>1, <2>2
  <1>4. \E v \in Proc(used.writes) : /\ v.phase # "down" => v.map.gen \in 1..2
                                     /\ node' = [node EXCEPT ![n] = v]
    <2>1. CASE Flush(n)
      <3>1. node' = [node EXCEPT ![n] = [node[n] EXCEPT !.pending = {}]]
        BY <2>1 DEF Flush, TInv, Numbered
      <3>2. [node[n] EXCEPT !.pending = {}] \in Proc(used.writes)  BY <1>1 DEF Proc
      <3>3. [node[n] EXCEPT !.pending = {}].map = node[n].map
            /\ [node[n] EXCEPT !.pending = {}].phase = node[n].phase
        BY <1>1 DEF Proc
      <3> QED  BY <3>1, <3>2, <3>3 DEF TInv, Mapped
    <2>2. CASE Stop(n) \/ Crash(n)
      <3>1. node' = [node EXCEPT ![n] = Stopped]  BY <2>2 DEF Stop, Crash
      <3>2. Stopped \in Proc(used.writes)  BY <1>1, StoppedType
      <3>3. Stopped.phase = "down"  BY DEF Stopped
      <3> QED  BY <3>1, <3>2, <3>3
    <2> QED  BY <2>1, <2>2
  <1>5. node' \in [Nodes -> Proc(used'.writes)] /\ Mapped'  BY <1>2, <1>4, OneProc
  <1>6. plan' \in Plans /\ shardMap' \in Map /\ crashed' \in BOOLEAN
    BY DEF TInv, Numbered, Flush, Stop, Crash, Storage
  <1> QED  BY <1>2, <1>3, <1>5, <1>6 DEF Numbered

\* The checkpoints of a shard and of a target keep the types.
LEMMA TypedCheckpoint ==
    ASSUME TInv, NEW n \in Nodes, NEW sh \in Shards, Checkpoint(n, sh) \/ CheckpointTarget(n, sh)
    PROVE  Numbered' /\ Mapped'
  <1>1. used.writes \in Nat /\ node[n] \in Proc(used.writes)  BY PlanFacts DEF TInv, Numbered
  <1>2. used' = used /\ plan' = plan /\ shardMap' = shardMap /\ crashed' = crashed
    BY DEF Checkpoint, CheckpointTarget
  <1>3. FilesTyped(used.writes)'
    <2>1. CASE Checkpoint(n, sh)
      BY <1>2, <2>1, Journalled, SnapshotWritten DEF Checkpoint
    <2>2. CASE CheckpointTarget(n, sh)
      BY <1>2, <2>2, SnapshotWritten DEF CheckpointTarget, TInv, Numbered, FilesTyped
    <2> QED  BY <2>1, <2>2
  <1>4. stored' \subseteq UpTo(used'.writes)
    BY <1>2, Journalled DEF Checkpoint, CheckpointTarget, TInv, Numbered
  <1>5. \E v \in Proc(used.writes) : SameServer(v, node[n]) /\ node' = [node EXCEPT ![n] = v]
    <2>1. CASE Checkpoint(n, sh)
      <3> DEFINE d == node[n].dirty \ {sh}
      <3>1. node' = [node EXCEPT ![n] = [node[n] EXCEPT !.pending = {}, !.dirty = d]]
        BY <2>1 DEF Checkpoint, TInv, Numbered
      <3>2. d \in SUBSET Shards  BY <1>1 DEF Proc
      <3> HIDE DEF d
      <3>3. [node[n] EXCEPT !.pending = {}, !.dirty = d] \in Proc(used.writes)
        BY <1>1, <3>2 DEF Proc
      <3>4. SameServer([node[n] EXCEPT !.pending = {}, !.dirty = d], node[n])
        BY <1>1 DEF Proc, SameServer
      <3> QED  BY <3>1, <3>3, <3>4
    <2>2. CASE CheckpointTarget(n, sh)
      <3> DEFINE d == node[n].todo \ {sh}
      <3>1. node' = [node EXCEPT ![n] = [node[n] EXCEPT !.todo = d]]
        BY <2>2 DEF CheckpointTarget, TInv, Numbered
      <3>2. d \in SUBSET Shards  BY <1>1 DEF Proc
      <3> HIDE DEF d
      <3>3. [node[n] EXCEPT !.todo = d] \in Proc(used.writes)  BY <1>1, <3>2 DEF Proc
      <3>4. SameServer([node[n] EXCEPT !.todo = d], node[n])  BY <1>1 DEF Proc, SameServer
      <3> QED  BY <3>1, <3>3, <3>4
    <2> QED  BY <2>1, <2>2
  <1>7. \E v \in Proc(used.writes) : /\ v.phase # "down" => v.map.gen \in 1..2
                                     /\ node' = [node EXCEPT ![n] = v]
    BY <1>5 DEF TInv, Mapped, SameServer
  <1>8. node' \in [Nodes -> Proc(used'.writes)] /\ Mapped'  BY <1>2, <1>7, OneProc
  <1> QED  BY <1>2, <1>3, <1>4, <1>8 DEF Numbered, TInv

\* A pull keeps the types, at the replica and at the owner.
LEMMA TypedPull ==
    ASSUME TInv, NEW r \in Nodes, NEW s \in Nodes, NEW sh \in Shards, Pull(r, s, sh)
    PROVE  Numbered' /\ Mapped'
  <1> DEFINE after == node[r].pulled[s][sh]
             ops == OpsAfter(node[s], after, sh)
             a == Applied(node[r], ops)
             me == [a EXCEPT !.pulled[s][sh] = MaxOf(@, node[s].seq)]
  <1>1. /\ used.writes \in Nat /\ r # s
        /\ node[r] \in Proc(used.writes) /\ node[s] \in Proc(used.writes)
        /\ node[r].map.gen \in 1..2 /\ node[s].map.gen \in 1..2
    BY PlanFacts DEF TInv, Numbered, Mapped, Pull, Peers
  <1>2. ops \in SUBSET UpTo(used.writes)  BY <1>1 DEF OpsAfter, Proc
  <1>3. a \in Proc(used.writes) /\ SameServer(a, node[r])
    <2> HIDE DEF ops
    <2> QED  BY <1>1, <1>2, AppliedType, AppliedFields
  <1>4. me \in Proc(used.writes) /\ SameServer(me, a)
    <2> HIDE DEF a
    <2>1. a.pulled \in [Nodes -> [Shards -> Nat]] /\ node[s].seq \in Nat
      BY <1>1, <1>3 DEF Proc, Cursors
    <2> DEFINE p == [a.pulled EXCEPT ![s][sh] = MaxOf(@, node[s].seq)]
    <2>2. MaxOf(a.pulled[s][sh], node[s].seq) \in Nat  BY <2>1, MaxOfType
    <2>3. p \in Cursors  BY <2>1, <2>2 DEF Cursors
    <2>4. me = [a EXCEPT !.pulled = p]  OBVIOUS
    <2> HIDE DEF p, me
    <2> QED  BY <1>3, <2>3, <2>4 DEF Proc, SameServer
  <1>5. \A o \in {node[s], Acked(node[s], r, sh, node[s].seq)} :
           o \in Proc(used.writes) /\ SameServer(o, node[s])
    <2>1. node[s].seq \in Nat  BY <1>1 DEF Proc
    <2>2. Acked(node[s], r, sh, node[s].seq) \in Proc(used.writes)
      BY <1>1, <2>1, AckedType DEF TInv, Numbered
    <2>3. SameServer(Acked(node[s], r, sh, node[s].seq), node[s])  BY <1>1, AckedFields
    <2> QED  BY <1>1, <2>2, <2>3 DEF SameServer
  <1>6. PICK o \in {node[s], Acked(node[s], r, sh, node[s].seq)} :
           node' = [node EXCEPT ![r] = me, ![s] = o]
    BY DEF Pull
  <1>7. /\ used' = used /\ plan' = plan /\ journals' = journals /\ latest' = latest
        /\ shardMap' = shardMap /\ stored' = stored /\ crashed' = crashed
    BY DEF Pull, Storage
  <1>8. me.map = node[r].map /\ o.map = node[s].map  BY <1>3, <1>4, <1>5 DEF SameServer
  <1> HIDE DEF me, a, ops
  <1>9. node' \in [Nodes -> Proc(used'.writes)] /\ Mapped'
    BY <1>1, <1>4, <1>5, <1>6, <1>7, <1>8 DEF TInv, Numbered, Mapped
  <1> QED  BY <1>7, <1>9 DEF TInv, Numbered, FilesTyped

\* A step in which one process changes and storage does not.
LEMMA TypedProc ==
    ASSUME TInv, NEW n \in Nodes, NEW v \in Proc(used.writes), v.phase # "down" => v.map.gen \in 1..2,
           node' = [node EXCEPT ![n] = v],
           UNCHANGED <<plan, journals, latest, stored, used, crashed>>, shardMap' \in Map
    PROVE  Numbered' /\ Mapped'
  <1>1. node' \in [Nodes -> Proc(used'.writes)] /\ Mapped'  BY OneProc
  <1> QED  BY <1>1 DEF TInv, Numbered, FilesTyped

\* A 410 and the files read after it keep the types.
LEMMA TypedCatchUp ==
    ASSUME TInv, NEW r \in Nodes, NEW s \in Nodes, NEW sh \in Shards, CatchUp(r, s, sh)
    PROVE  Numbered' /\ Mapped'
  <1> DEFINE shards == Scopes(IF sh = DefaultShard THEN Owned(r, node[r].map) ELSE {sh})
             rows == (SnapshotOps(shards) \ node[r].ops) \cup JournalOps(shards)
             a == RestoreScope(node[r], r, shards)
             v == DurableFloor(Remembered(a, shards, sh), s, sh, rows)
  <1>1. /\ used.writes \in Nat /\ node[r] \in Proc(used.writes) /\ node[r].map.gen \in 1..2
        /\ FilesTyped(used.writes)
    BY PlanFacts DEF TInv, Numbered, Mapped, CatchUp, Peers
  <1>2. shards \in SUBSET Shards
    BY <1>1, ShardFacts DEF Scopes, Owned, ShardsOf
  <1> HIDE DEF shards
  <1>3. a \in Proc(used.writes) /\ SameServer(a, node[r])
    BY <1>1, <1>2, RestoreScopeType, RestoreScopeFields
  <1> HIDE DEF a, rows
  <1>4. v \in Proc(used.writes) /\ SameServer(v, a)
    <2>1. Remembered(a, shards, sh) \in Proc(used.writes)  BY <1>1, <1>2, <1>3, RememberedType
    <2>2. node[s].trimmed \in Nat  BY DEF TInv, Numbered, Proc
    <2>3. v \in Proc(used.writes)  BY <1>1, <2>1, <2>2, DurableFloorType
    <2>4. SameServer(v, a)  BY <1>1, <1>2, <1>3, CursorFields
    <2> QED  BY <2>3, <2>4
  <1>5. node' = [node EXCEPT ![r] = v]
    BY DEF CatchUp, shards, a, rows
  <1>6. UNCHANGED <<plan, journals, latest, shardMap, stored, used, crashed>>
    BY DEF CatchUp, Storage
  <1>7. v.map.gen \in 1..2  BY <1>1, <1>3, <1>4 DEF SameServer
  <1>8. shardMap' \in Map  BY <1>6 DEF TInv, Numbered
  <1> HIDE DEF v
  <1> QED  BY <1>4, <1>5, <1>6, <1>7, <1>8, TypedProc

\* restore keeps the types, under an active map and under one that is resharding.
LEMMA TypedStart ==
    ASSUME TInv, NEW n \in Nodes, Start(n) \/ StartReshard(n)
    PROVE  Numbered' /\ Mapped'
  <1>1. used.writes \in Nat /\ FilesTyped(used.writes) /\ MapKnown /\ shardMap \in Map
    BY PlanFacts DEF TInv, RInv, Numbered
  <1>2. shardMap.gen \in 1..2  BY <1>1 DEF MapKnown
  <1>3. \A fresh \in Proc(used.writes), shards \in SUBSET Shards, kept \in SUBSET Ids :
           LET v == RestoreScopeSet(fresh, n, shards, kept) IN
           v \in Proc(used.writes) /\ SameServer(v, fresh)
    BY <1>1, RestoreScopeSetType, RestoreSetFields
  <1>4. \E v \in Proc(used.writes) : v.map = shardMap /\ node' = [node EXCEPT ![n] = v]
    <2>1. CASE Start(n)
      <3> DEFINE fresh == [Stopped EXCEPT !.phase = "up", !.map = shardMap]
                 shards == Scopes(Owned(n, shardMap))
                 v == RestoreScopeSet(fresh, n, shards, Ids)
      <3>1. fresh \in Proc(used.writes) /\ fresh.map = shardMap
        BY <1>1, StoppedType DEF Proc
      <3>2. shards \in SUBSET Shards  BY <1>1, MapShards
      <3>3. node' = [node EXCEPT ![n] = v]  BY <2>1 DEF Start
      <3> HIDE DEF fresh, shards
      <3>4. v \in Proc(used.writes) /\ SameServer(v, fresh)  BY <1>3, <3>1, <3>2
      <3> HIDE DEF v
      <3> QED  BY <3>1, <3>3, <3>4 DEF SameServer
    <2>2. CASE StartReshard(n)
      <3> DEFINE fresh == [Stopped EXCEPT !.phase = "restored", !.map = shardMap,
                             !.todo = {sh \in Owned(n, shardMap) : IsPrimary(n, sh)}]
                 shards == ReshardScopes(n, shardMap)
                 v == RestoreScopeSet(fresh, n, shards, Kept(n))
      <3>1. fresh \in Proc(used.writes) /\ fresh.map = shardMap
        <4> DEFINE t == {sh \in Owned(n, shardMap) : IsPrimary(n, sh)}
        <4>1. t \in SUBSET Shards  BY <1>1, MapShards
        <4> HIDE DEF t
        <4>2. [Stopped EXCEPT !.phase = "restored", !.map = shardMap, !.todo = t] \in Proc(used.writes)
              /\ [Stopped EXCEPT !.phase = "restored", !.map = shardMap, !.todo = t].map = shardMap
          BY <1>1, <4>1, StoppedType DEF Proc
        <4> QED  BY <4>2 DEF t
      <3>2. shards \in SUBSET Shards  BY <1>1, MapShards
      <3>3. node' = [node EXCEPT ![n] = v]  BY <2>2 DEF StartReshard
      <3> HIDE DEF fresh, shards
      <3>4. Kept(n) \in SUBSET Ids  BY DEF Kept
      <3>5. v \in Proc(used.writes) /\ SameServer(v, fresh)  BY <1>3, <3>1, <3>2, <3>4
      <3> HIDE DEF v
      <3> QED  BY <3>1, <3>3, <3>5 DEF SameServer
    <2> QED  BY <2>1, <2>2
  <1>5. UNCHANGED <<plan, journals, latest, shardMap, stored, used, crashed>>
    BY DEF Start, StartReshard, Storage
  <1> QED  BY <1>1, <1>2, <1>4, <1>5, TypedProc

\* finalize, and waiting for it, keep the types.
LEMMA TypedTurn ==
    ASSUME TInv, NEW n \in Nodes, Finalize(n) \/ Wait(n) \/ Activate(n)
    PROVE  Numbered' /\ Mapped'
  <1>1. used.writes \in Nat /\ node[n] \in Proc(used.writes) /\ MapKnown /\ shardMap \in Map
        /\ node[n].phase # "down" /\ node[n].map.gen \in 1..2
    BY PlanFacts DEF TInv, RInv, Numbered, Mapped, Finalize, Wait, Activate
  <1>2. shardMap' \in Map /\ shardMap'.gen \in 1..2
    <2>1. shardMap' \in {shardMap, Activated(shardMap)}
      BY DEF Finalize, Wait, Activate, Storage
    <2>2. Activated(shardMap) \in Map /\ Activated(shardMap).gen = shardMap.gen
      BY <1>1 DEF Map, Activated
    <2> QED  BY <1>1, <2>1, <2>2 DEF MapKnown
  <1>3. UNCHANGED <<plan, journals, latest, stored, used, crashed>>
    BY DEF Finalize, Wait, Activate, Storage
  <1>4. CASE Wait(n)
    <2>1. node' = [node EXCEPT ![n] = [node[n] EXCEPT !.phase = "waiting"]]
      BY <1>4 DEF Wait, TInv, Numbered
    <2>2. [node[n] EXCEPT !.phase = "waiting"] \in Proc(used.writes)  BY <1>1 DEF Proc
    <2>3. [node[n] EXCEPT !.phase = "waiting"].map = node[n].map  BY <1>1 DEF Proc
    <2> QED  BY <1>1, <1>2, <1>3, <2>1, <2>2, <2>3, TypedProc
  <1>5. CASE Finalize(n) \/ Activate(n)
    <2>1. node' = [node EXCEPT ![n].phase = "up", ![n].map = shardMap']
      BY <1>5 DEF Finalize, Activate, Serving, Storage
    <2>2. node' = [node EXCEPT ![n] = [node[n] EXCEPT !.phase = "up", !.map = shardMap']]
      BY <2>1 DEF TInv, Numbered
    <2> DEFINE v == [node[n] EXCEPT !.phase = "up", !.map = shardMap']
    <2>3. v \in Proc(used.writes) /\ v.map = shardMap'  BY <1>1, <1>2 DEF Proc
    <2> HIDE DEF v
    <2>4. v.map.gen \in 1..2  BY <1>2, <2>3
    <2>5. node' = [node EXCEPT ![n] = v]  BY <2>2 DEF v
    <2> QED  BY <1>2, <1>3, <2>3, <2>4, <2>5, TypedProc
  <1> QED  BY <1>4, <1>5

\* publishShardMap keeps the types.
LEMMA TypedPublish == TInv /\ PublishReshard => Numbered' /\ Mapped'
  BY DEF TInv, Numbered, Mapped, PublishReshard, FilesTyped, Map

\* A cluster that has never run is typed.
LEMMA InitTInv == Init => TInv
  <1> SUFFICES ASSUME Init PROVE TInv  OBVIOUS
  <1>1. shardMap = [gen |-> 1, resharding |-> FALSE] /\ shardMap \in Map
    BY DEF Init, Map
  <1>2. used = [writes |-> 0, stops |-> 0, crashes |-> 0] /\ plan \in Plans  BY DEF Init
  <1>3. used \in [writes : 0..plan.writes, stops : 0..plan.stops, crashes : 0..plan.crashes]
    BY <1>2, PlanFacts
  <1>4. Stopped \in Proc(0) /\ Stopped.phase = "down"  BY StoppedType DEF Stopped
  <1>5. [Stopped EXCEPT !.phase = "up", !.map = shardMap] \in Proc(0)
        /\ [Stopped EXCEPT !.phase = "up", !.map = shardMap].map = shardMap
    BY <1>1, <1>4 DEF Proc
  <1>6. node \in [Nodes -> Proc(0)] /\ Mapped
    BY <1>1, <1>4, <1>5 DEF Init, Mapped
  <1>7. NoSnapshot \in Snapshot(0)  BY DEF NoSnapshot, Snapshot
  <1>8. FilesTyped(0)  BY <1>7 DEF Init, FilesTyped
  <1>9. used.writes = 0  BY <1>2
  <1>10. Numbered  BY <1>1, <1>2, <1>3, <1>6, <1>8, <1>9 DEF Init, Numbered
  <1> QED  BY <1>6, <1>10, InitRInv DEF TInv

\* Every step keeps the types.
LEMMA NextTInv == TInv /\ [Next]_vars => TInv'
  <1> SUFFICES ASSUME TInv, [Next]_vars PROVE TInv'  OBVIOUS
  <1>1. RInv'  BY NextRInv DEF TInv
  <1>2. CASE UNCHANGED vars
    BY <1>1, <1>2 DEF vars, TInv, Numbered, Mapped, FilesTyped
  <1>3. CASE Next
    BY <1>1, <1>3, TypedWrite, TypedFlush, TypedCheckpoint, TypedPull, TypedCatchUp, TypedStart,
       TypedTurn, TypedPublish DEF Next, TInv
  <1> QED  BY <1>2, <1>3

\* Every process, file and map is typed in every state: numbers, cursors and cuts stay
\* numbers through restores, acknowledgements and reshards (TypeOK).
THEOREM RecoveryTypes == Spec => []TypeOK
  <1>1. TInv => TypeOK  BY NumberedTypes DEF TInv
  <1> QED  BY <1>1, InitTInv, NextTInv, PTL DEF Spec

----------------------------------------------------------------------------
(***************************************************************************)
(* What is flushed.                                                        *)
(***************************************************************************)

\* The writes of a shard are taken by its primary.
PrimariesWrite ==
    \A g \in 1..2 : \A n \in plan.writers[g], id \in plan.ids :
        n \in PeersFor(Route[g][id]) => IsPrimary(n, Route[g][id])

\* Every node takes part in the new partition.
AllTakePart ==
    plan.reshard => \A n \in Nodes : \E sh \in Generations[2] : n \in PeersFor(sh)

Owner(sh) == Head(plan.peers[sh])
Home(g, o) == Route[g][o.id]
SourceGen(map) == IF map.resharding THEN map.gen - 1 ELSE map.gen

\* A restore that reads shard sh finds the operation o.
Found(o, sh) ==
    \/ o \in latest[sh].ops
    \/ \E j \in journals : /\ j.shard = sh /\ o \in j.ops
                           /\ ~Covered(j, latest[sh]) /\ o.seq > latest[sh].cursors[j.dir]

StoredFound == \A o \in stored : Found(o, Home(SourceGen(shardMap), o))

\* The files of a shard hold what its primary wrote.
FilesOfOwners ==
    /\ \A j \in journals : \A o \in j.ops :
          /\ o.from = Owner(j.shard)
          /\ \A g \in 1..2 : j.shard \in Generations[g] => Home(g, o) = j.shard
    /\ \A sh \in Shards :
          \/ latest[sh] = NoSnapshot
          \/ /\ latest[sh].node = Owner(sh)
             /\ latest[sh].cursors[Owner(sh)] <= latest[sh].seq

\* The targets of a reshard: nothing before it; then whole, and numbered as the source.
SourceSeq(n) == RestoredSeq(n, Scopes(Generations[1]))

TargetsWhole ==
    /\ shardMap.gen = 1 => \A t \in Generations[2] : latest[t] = NoSnapshot
    /\ shardMap.gen = 2 => plan.reshard
    /\ shardMap.resharding => \A t \in Generations[2] :
          /\ latest[t].cursors[Owner(t)] <= SourceSeq(Owner(t))
          /\ latest[t].gen = 2 => \A o \in stored : Home(2, o) = t => o \in latest[t].ops

\* A process that is there: what it has numbered and read.
InStep(n, me) ==
    /\ me.map.gen = shardMap.gen
    /\ me.phase = "up" => me.map = shardMap
    /\ me.phase # "up" => shardMap.gen = 2
    /\ me.phase = "restored" => \A sh \in me.todo : sh \in Generations[2] /\ Owner(sh) = n
    /\ shardMap.resharding => me.map = shardMap /\ me.seq = SourceSeq(n)

Ahead(n, me) ==
    \A sh \in Shards : Owner(sh) = n =>
        /\ me.restored[n][sh] <= me.seq
        /\ sh \in Generations[shardMap.gen] => latest[sh].cursors[n] <= me.seq

Holds(n, me) == \A o \in stored : Owner(Home(shardMap.gen, o)) = n => o \in me.ops

\* What it has still to write.
ToWrite(n, me) ==
    /\ me.phase # "up" => me.pending = {} /\ me.log = {}
    /\ \A o \in me.log : o.from = n /\ Owner(Home(shardMap.gen, o)) = n
    /\ \A o \in me.pending :
          /\ o \in me.ops /\ Owner(Home(shardMap.gen, o)) = o.from
          /\ o.from = n => \/ Found(o, Home(shardMap.gen, o))
                           \/ o.seq > latest[Home(shardMap.gen, o)].cursors[n]

ProcOk(n, me) ==
    /\ me.phase # "down" => InStep(n, me) /\ Ahead(n, me) /\ Holds(n, me)
    /\ ToWrite(n, me)

ProcsOk == \A n \in Nodes : ProcOk(n, node[n])

FInv == StoredFound /\ FilesOfOwners /\ TargetsWhole /\ ProcsOk

----------------------------------------------------------------------------
\* What a restore finds.

\* The primary of a shard is one of its peers.
LEMMA OwnerFacts ==
    ASSUME plan \in Plans, NEW sh \in Shards
    PROVE  Owner(sh) \in Nodes /\ Owner(sh) \in PeersFor(sh)
  <1>1. plan.peers[sh] \in Seq(Nodes) /\ plan.peers[sh] # <<>>  BY PlanFacts
  <1>2. PICK s \in Seq(Nodes) : s = plan.peers[sh] /\ s # <<>>  BY <1>1
  <1>3. 1 \in DOMAIN s /\ Head(s) = s[1] /\ s[1] \in Nodes  BY <1>2
  <1> QED  BY <1>2, <1>3 DEF Owner, PeersFor, Range

\* A restore reads what is found in one of its shards.
LEMMA FoundRecoverable ==
    ASSUME NEW shards, NEW o
    PROVE  o \in Recoverable(shards) <=> \E sh \in shards : Found(o, sh)
  <1>1. o \in SnapshotOps(shards) <=> \E sh \in shards : o \in latest[sh].ops
    BY DEF SnapshotOps
  <1>2. \A sh : o \in UNION {Beyond(j) : j \in OpenJournals(sh)} <=>
          \E j \in journals : /\ j.shard = sh /\ o \in j.ops
                              /\ ~Covered(j, latest[sh]) /\ o.seq > latest[sh].cursors[j.dir]
    BY DEF OpenJournals, Beyond
  <1>3. o \in JournalOps(shards) <=>
          \E sh \in shards : o \in UNION {Beyond(j) : j \in OpenJournals(sh)}
    BY DEF JournalOps
  <1>4. o \in Recoverable(shards) <=> o \in SnapshotOps(shards) \/ o \in JournalOps(shards)
    BY DEF Recoverable
  <1> QED  BY <1>1, <1>2, <1>3, <1>4 DEF Found

\* What only journals hold.
LEMMA JournalFound ==
    ASSUME NEW shards, NEW o \in JournalOps(shards)
    PROVE  \E sh \in shards : Found(o, sh) /\ \E j \in journals : j.shard = sh /\ o \in j.ops
  BY DEF JournalOps, OpenJournals, Beyond, Found

\* A shard without files is not read, and holds nothing.
LEMMA FoundInScopes ==
    ASSUME NEW shards, NEW sh \in shards, NEW o, Found(o, sh)
    PROVE  sh \in Scopes(shards) /\ o \in Recoverable(Scopes(shards))
  <1>1. sh \in Scopes(shards)  BY DEF Found, Scopes, NoSnapshot
  <1> QED  BY <1>1, FoundRecoverable

\* A shard without files has no snapshot.
LEMMA NotInScopes ==
    ASSUME NEW shards, NEW sh \in shards, sh \notin Scopes(shards)
    PROVE  latest[sh] = NoSnapshot
  BY DEF Scopes

\* The number a node takes up is not behind a snapshot it reads of a shard it owns.
LEMMA CursorBelow ==
    ASSUME NEW k \in Nat, FilesTyped(k), FilesOfOwners, NEW shards \in SUBSET Shards,
           NEW sh \in shards, NEW n \in Nodes, Owner(sh) = n
    PROVE  /\ latest[sh].cursors[n] \in Nat
           /\ latest[sh].cursors[n] <= RestoredSeq(n, shards)
           /\ latest[sh].node = n => latest[sh].seq <= RestoredSeq(n, shards)
  <1>1. /\ RestoredSeq(n, shards) \in 0..k
        /\ latest[sh].node = n => latest[sh].seq <= RestoredSeq(n, shards)
    BY RestoredSeqType
  <1>2. latest[sh].cursors[n] \in Nat /\ latest[sh].seq \in Nat  BY DEF FilesTyped, Snapshot
  <1>3. CASE latest[sh] = NoSnapshot  BY <1>1, <1>2, <1>3 DEF NoSnapshot
  <1>4. CASE latest[sh].node = n /\ latest[sh].cursors[n] <= latest[sh].seq
    BY <1>1, <1>2, <1>4
  <1> QED  BY <1>1, <1>2, <1>3, <1>4 DEF FilesOfOwners

\* Nor behind the cursor on its own files.
LEMMA RestoredBelow ==
    ASSUME NEW k \in Nat, FilesTyped(k), FilesOfOwners, NEW shards \in SUBSET Shards,
           NEW sh \in shards, NEW n \in Nodes, Owner(sh) = n, NEW old \in Nat, NEW s \in Nat, old <= s,
           NEW kept
    PROVE  RestoredCursor(old, n, sh, kept) <= MaxOf(s, RestoredSeq(n, shards))
  <1> DEFINE q == RestoredSeq(n, shards)
             snap == latest[sh]
             base == IF n = snap.node /\ (\E o \in snap.ops : o.id \in kept) THEN snap.seq ELSE old
             read == {o \in UNION {Beyond(j) : j \in {i \in OpenJournals(sh) : i.dir = n}} :
                        o.id \in kept}
             T == {o.seq : o \in read}
  <1>1. q \in 0..k  BY RestoredSeqType
  <1>2. /\ snap.cursors[n] \in Nat /\ snap.cursors[n] <= q
        /\ snap.seq \in Nat
        /\ snap.node = n => snap.seq <= q
    <2>1. snap.seq \in Nat  BY DEF FilesTyped, Snapshot
    <2> HIDE DEF q
    <2> QED  BY <2>1, CursorBelow DEF q
  <1>3. base \in Nat /\ (base <= s \/ base <= q)
    <2> HIDE DEF q, snap
    <2> QED  BY <1>1, <1>2
  <1>4. read \subseteq UpTo(k) /\ \A o \in read : o \in JournalOps(shards) /\ o.from = n
    <2>1. ASSUME NEW o \in read PROVE o \in UpTo(k) /\ o \in JournalOps(shards) /\ o.from = n
      <3>1. PICK j \in OpenJournals(sh) : o \in Beyond(j)  BY <2>1
      <3>2. j \in journals /\ j.shard = sh /\ o \in j.ops  BY <3>1 DEF OpenJournals, Beyond
      <3>3. o.from = n  BY <3>2 DEF FilesOfOwners
      <3>4. o \in JournalOps(shards)  BY <3>1 DEF JournalOps
      <3>5. o \in UpTo(k)  BY <3>2 DEF FilesTyped, File
      <3> QED  BY <3>3, <3>4, <3>5
    <2> QED  BY <2>1
  <1>5. T \subseteq 1..k /\ \A x \in T : x <= q
    <2>1. \A o \in read : o.seq \in 1..k  BY <1>4 DEF UpTo
    <2>2. \A o \in read : o.seq <= q  BY <1>4, RestoredSeqType
    <2> HIDE DEF read, q
    <2> QED  BY <2>1, <2>2
  <1>6. RestoredCursor(old, n, sh, kept) = Max({base, snap.cursors[n]} \cup T)
    BY DEF RestoredCursor
  <1> HIDE DEF T, base, snap, q
  <1> DEFINE R == {base, snap.cursors[n]} \cup T
  <1>7. R \subseteq Nat /\ R # {} /\ \A x \in R : x <= s \/ x <= q
    <2>1. snap.cursors[n] \in Nat /\ snap.cursors[n] <= q  BY <1>2
    <2>2. T \subseteq Nat /\ \A x \in T : x <= q  BY <1>5
    <2> QED  BY <1>3, <2>1, <2>2
  <1>8. s + q \in Nat /\ q \in Nat /\ \A x \in R : x <= s + q
    <2> HIDE DEF R
    <2> QED  BY <1>1, <1>7
  <1> HIDE DEF R
  <1>9. Max(R) \in R  BY <1>7, <1>8, MaxOfNats
  <1>10. MaxOf(s, q) >= s /\ MaxOf(s, q) >= q /\ MaxOf(s, q) \in Nat  BY <1>8, MaxOfType
  <1>11. Max(R) <= MaxOf(s, q)
    <2>1. Max(R) \in Nat /\ (Max(R) <= s \/ Max(R) <= q)  BY <1>7, <1>9
    <2> QED  BY <1>8, <1>10, <2>1
  <1> QED  BY <1>6, <1>11 DEF R, q

----------------------------------------------------------------------------
\* Steps that leave storage alone.

Files == <<plan, journals, latest, shardMap, stored>>

\* A step that leaves storage alone leaves the numbers that the files show,
LEMMA SameRestoredSeq ==
    ASSUME UNCHANGED Files, NEW n, NEW shards
    PROVE  RestoredSeq(n, Scopes(shards))' = RestoredSeq(n, Scopes(shards))
  <1>1. latest' = latest /\ journals' = journals  BY DEF Files
  <1>2. Scopes(shards)' = Scopes(shards)  BY <1>1 DEF Scopes
  <1>3. \A S : JournalOps(S)' = JournalOps(S)
    BY <1>1 DEF JournalOps, OpenJournals, Beyond, Covered
  <1>4. \A S : RestoredSeq(n, S)' = RestoredSeq(n, S)
    BY <1>1, <1>3 DEF RestoredSeq
  <1> QED  BY <1>2, <1>4

\* what is found,
LEMMA SameFound ==
    ASSUME UNCHANGED Files, NEW o, NEW sh
    PROVE  Found(o, sh)' <=> Found(o, sh)
  BY DEF Files, Found, Covered

\* what holds of a process,
LEMMA SameProcOk ==
    ASSUME UNCHANGED Files, NEW n, NEW me, ProcOk(n, me)
    PROVE  ProcOk(n, me)'
  <1>1. /\ plan' = plan /\ latest' = latest /\ shardMap' = shardMap /\ stored' = stored
        /\ \A sh : Owner(sh)' = Owner(sh)
    BY DEF Files, Owner
  <1>2. SourceSeq(n)' = SourceSeq(n)  BY SameRestoredSeq DEF SourceSeq
  <1>3. \A o, sh : Found(o, sh)' <=> Found(o, sh)  BY SameFound
  <1>4. InStep(n, me) => InStep(n, me)'  BY <1>1, <1>2 DEF InStep
  <1>5. Ahead(n, me) => Ahead(n, me)'  BY <1>1 DEF Ahead
  <1>6. Holds(n, me) => Holds(n, me)'  BY <1>1 DEF Holds
  <1>7. ToWrite(n, me)'
    <2>1. ToWrite(n, me)  BY DEF ProcOk
    <2> QED  BY <1>1, <1>3, <2>1 DEF ToWrite
  <1> QED  BY <1>4, <1>5, <1>6, <1>7 DEF ProcOk

\* and the invariant, when it holds of the processes as they are now.
LEMMA QuietKeeps ==
    ASSUME FInv, UNCHANGED Files, \A m \in Nodes : ProcOk(m, node'[m])
    PROVE  FInv'
  <1>1. /\ plan' = plan /\ latest' = latest /\ shardMap' = shardMap /\ stored' = stored
        /\ journals' = journals /\ \A sh : Owner(sh)' = Owner(sh)
    BY DEF Files, Owner
  <1>2. \A n : SourceSeq(n)' = SourceSeq(n)  BY SameRestoredSeq DEF SourceSeq
  <1>3. \A o, sh : Found(o, sh)' <=> Found(o, sh)  BY SameFound
  <1>4. StoredFound'  BY <1>1, <1>3 DEF FInv, StoredFound
  <1>5. FilesOfOwners'  BY <1>1 DEF FInv, FilesOfOwners
  <1>6. TargetsWhole'  BY <1>1, <1>2 DEF FInv, TargetsWhole
  <1>7. ProcsOk'
    <2> SUFFICES ASSUME NEW m \in Nodes PROVE ProcOk(m, node[m])'
      BY DEF ProcsOk
    <2>1. PICK v : v = node'[m]  OBVIOUS
    <2>2. ProcOk(m, v)  BY <2>1
    <2>3. ProcOk(m, v)'  BY <2>2, SameProcOk
    <2> QED  BY <2>1, <2>3 DEF ProcOk, InStep, Ahead, Holds, ToWrite
  <1> QED  BY <1>4, <1>5, <1>6, <1>7 DEF FInv

\* With one process changed.
LEMMA OneKeeps ==
    ASSUME TInv, FInv, UNCHANGED Files, NEW n \in Nodes, NEW v, ProcOk(n, v),
           node' = [node EXCEPT ![n] = v]
    PROVE  FInv'
  <1>1. \A m \in Nodes : ProcOk(m, node'[m])  BY DEF TInv, Numbered, FInv, ProcsOk
  <1> QED  BY <1>1, QuietKeeps

\* A process that serves while more is written, read or numbered.
LEMMA UpGrows ==
    ASSUME TInv, FInv, NEW n \in Nodes, node[n].phase = "up", NEW v \in Proc(used.writes + 1),
           SameServer(v, node[n]), node[n].ops \subseteq v.ops, v.seq >= node[n].seq,
           v.restored = node[n].restored
    PROVE  InStep(n, v) /\ Ahead(n, v) /\ Holds(n, v)
  <1>1. ~shardMap.resharding  BY DEF TInv, RInv, Quiet
  <1>2. InStep(n, node[n]) /\ Ahead(n, node[n]) /\ Holds(n, node[n])
    BY DEF FInv, ProcsOk, ProcOk
  <1>3. InStep(n, v)  BY <1>1, <1>2 DEF InStep, SameServer
  <1>4. Holds(n, v)  BY <1>2 DEF Holds
  <1>5. Ahead(n, v)
    <2> SUFFICES ASSUME NEW sh \in Shards, Owner(sh) = n
                 PROVE  /\ v.restored[n][sh] <= v.seq
                        /\ sh \in Generations[shardMap.gen] => latest[sh].cursors[n] <= v.seq
      BY DEF Ahead
    <2>1. node[n] \in Proc(used.writes) /\ used.writes \in Nat
          /\ FilesTyped(used.writes)
      BY PlanFacts DEF TInv, Numbered
    <2>2. node[n].seq \in Nat /\ v.seq \in Nat  BY <2>1 DEF Proc
    <2>3. node[n].restored[n][sh] \in Nat  BY <2>1 DEF Proc, Cursors
    <2>4. latest[sh].cursors[n] \in Nat  BY <2>1 DEF FilesTyped, Snapshot
    <2>5. /\ node[n].restored[n][sh] <= node[n].seq
          /\ sh \in Generations[shardMap.gen] => latest[sh].cursors[n] <= node[n].seq
      BY <1>2 DEF Ahead
    <2> QED  BY <2>2, <2>3, <2>4, <2>5
  <1> QED  BY <1>3, <1>4, <1>5

\* _commitLocalOps: the new operation is beyond the snapshot of its shard, whose primary
\* numbered it.
LEMMA FlushedWrite ==
    ASSUME PrimariesWrite, TInv, FInv, NEW n \in Nodes, NEW id \in Ids, Write(n, id)
    PROVE  FInv'
  <1> DEFINE me == node[n]
             op == [from |-> n, seq |-> me.seq + 1, id |-> id, boot |-> used.stops + used.crashes]
             wrote == [me EXCEPT !.seq = me.seq + 1, !.log = me.log \cup {op}, !.ops = me.ops \cup {op}]
             v == Queued(wrote, {op})
             sh == Route[shardMap.gen][id]
  <1>1. /\ used.writes \in Nat /\ me \in Proc(used.writes) /\ me.phase = "up"
        /\ me.seq \in Nat /\ InStep(n, me) /\ Ahead(n, me) /\ ToWrite(n, me)
        /\ used.stops \in Nat /\ used.crashes \in Nat
    <2>1. used.writes \in Nat /\ me \in Proc(used.writes) /\ me.phase = "up"
          /\ used.stops \in Nat /\ used.crashes \in Nat
      BY PlanFacts DEF TInv, Numbered, Write
    <2>2. me.seq \in Nat  BY <2>1 DEF Proc
    <2>3. ProcOk(n, me)  BY DEF FInv, ProcsOk
    <2> HIDE DEF me
    <2> QED  BY <2>1, <2>2, <2>3 DEF ProcOk
  <1>2. me.map = shardMap /\ shardMap.gen \in 1..2
    BY <1>1 DEF InStep, TInv, RInv, MapKnown
  <1>3. sh \in Generations[shardMap.gen] /\ sh \in Shards  BY <1>2, ShardFacts
  <1>4. Owner(sh) = n
    <2>1. n \in plan.writers[shardMap.gen] /\ id \in plan.ids /\ sh \in Owned(n, shardMap)
      BY <1>2 DEF Write
    <2>2. n \in PeersFor(sh)  BY <2>1 DEF Owned
    <2> QED  BY <1>2, <2>1, <2>2 DEF PrimariesWrite, IsPrimary, Owner
  <1>5. latest[sh].cursors[n] <= me.seq  BY <1>1, <1>3, <1>4 DEF Ahead
  <1>6. latest[sh].cursors[n] \in Nat
    BY <1>3 DEF TInv, Numbered, FilesTyped, Snapshot
  <1>7. op.from = n /\ Home(shardMap.gen, op) = sh /\ op.seq > latest[sh].cursors[n]
    BY <1>1, <1>5, <1>6 DEF Home
  <1>8. op \in UpTo(used.writes + 1)
    BY <1>1 DEF UpTo, Proc
  <1>9. /\ wrote \in Proc(used.writes + 1) /\ SameServer(wrote, me)
        /\ wrote.ops = me.ops \cup {op} /\ wrote.seq = me.seq + 1 /\ wrote.log = me.log \cup {op}
        /\ wrote.restored = me.restored /\ wrote.pending = me.pending
    <2>1. me \in Proc(used.writes + 1)
      <3> HIDE DEF me
      <3> QED  BY <1>1, Grows
    <2>2. me.seq + 1 \in 0..(used.writes + 1)  BY <1>1 DEF Proc
    <2> HIDE DEF me, op
    <2>3. me.log \cup {op} \in SUBSET UpTo(used.writes + 1)
          /\ me.ops \cup {op} \in SUBSET UpTo(used.writes + 1)
      BY <2>1, <1>8 DEF Proc
    <2> QED  BY <2>1, <2>2, <2>3 DEF Proc, SameServer
  <1> HIDE DEF wrote, op
  <1>10. /\ v \in Proc(used.writes + 1) /\ SameServer(v, me)
         /\ v.ops = me.ops \cup {op} /\ v.seq = me.seq + 1 /\ v.log = me.log \cup {op}
         /\ v.restored = me.restored /\ v.pending = me.pending \cup {op}
    <2> HIDE DEF me
    <2>1. wrote.map.gen \in 1..2  BY <1>2, <1>9 DEF SameServer
    <2>2. v \in Proc(used.writes + 1)
      <3>1. {op} \in SUBSET UpTo(used.writes + 1)  BY <1>8
      <3> QED  BY <1>1, <1>9, <2>1, <3>1, QueuedType
    <2>3. /\ SameServer(v, wrote) /\ v.ops = wrote.ops /\ v.seq = wrote.seq
          /\ v.log = wrote.log /\ v.restored = wrote.restored
          /\ v.pending = wrote.pending \cup {op}
      BY <1>9, QueuedFields
    <2> HIDE DEF v
    <2> QED  BY <1>9, <2>2, <2>3 DEF SameServer
  <1>11. node' = [node EXCEPT ![n] = v] /\ UNCHANGED Files
    BY DEF Write, Storage, Files, wrote, op
  <1> HIDE DEF v
  <1>12. ToWrite(n, v)
    <2> HIDE DEF me, sh
    <2>1. v.phase = "up"  BY <1>1, <1>10 DEF SameServer
    <2>2. \A o \in v.log : o.from = n /\ Owner(Home(shardMap.gen, o)) = n
      BY <1>1, <1>4, <1>7, <1>10 DEF ToWrite
    <2>3. ASSUME NEW o \in v.pending
          PROVE  /\ o \in v.ops /\ Owner(Home(shardMap.gen, o)) = o.from
                 /\ o.from = n => \/ Found(o, Home(shardMap.gen, o))
                                  \/ o.seq > latest[Home(shardMap.gen, o)].cursors[n]
      <3>1. CASE o = op  BY <3>1, <1>4, <1>7, <1>10
      <3>2. CASE o \in me.pending  BY <3>2, <1>1, <1>10 DEF ToWrite
      <3> QED  BY <2>3, <3>1, <3>2, <1>10
    <2> QED  BY <2>1, <2>2, <2>3 DEF ToWrite
  <1>13. InStep(n, v) /\ Ahead(n, v) /\ Holds(n, v)
    <2>1. me.seq + 1 >= me.seq  BY <1>1
    <2>2. me.ops \subseteq v.ops /\ v.seq >= me.seq  BY <2>1, <1>10
    <2> QED  BY <1>1, <1>10, <2>2, UpGrows
  <1>14. ProcOk(n, v)  BY <1>12, <1>13 DEF ProcOk
  <1> QED  BY <1>11, <1>14, OneKeeps

\* A pull: the operations of a log are its owner's.
LEMMA FlushedPull ==
    ASSUME TInv, FInv, NEW r \in Nodes, NEW s \in Nodes, NEW sh \in Shards, Pull(r, s, sh)
    PROVE  FInv'
  <1> DEFINE k == used.writes
             ops == OpsAfter(node[s], node[r].pulled[s][sh], sh)
             a == Applied(node[r], ops)
             v == [a EXCEPT !.pulled[s][sh] = MaxOf(@, node[s].seq)]
  <1>1. /\ k \in Nat /\ r # s /\ node[r].phase = "up" /\ node[s].phase = "up"
        /\ node[r] \in Proc(k) /\ node[s] \in Proc(k)
        /\ node[r].map.gen \in 1..2 /\ node[s].map.gen \in 1..2
        /\ ProcOk(r, node[r]) /\ ProcOk(s, node[s])
    BY PlanFacts DEF TInv, Numbered, Mapped, Pull, Peers, FInv, ProcsOk
  <1>2. ops \in SUBSET UpTo(k) /\ ops \subseteq node[s].log  BY <1>1 DEF OpsAfter, Proc
  <1>3. \A o \in ops : o.from = s /\ Owner(Home(shardMap.gen, o)) = s
    BY <1>1, <1>2 DEF ProcOk, ToWrite
  <1> HIDE DEF ops
  <1>4. /\ a \in Proc(k) /\ SameServer(a, node[r]) /\ a.ops = node[r].ops \cup ops
        /\ a.seq = node[r].seq /\ a.log = node[r].log /\ a.restored = node[r].restored
        /\ a.pending = node[r].pending \cup (ops \ node[r].ops)
    BY <1>1, <1>2, AppliedType, AppliedFields
  <1> HIDE DEF a
  <1>5. /\ v \in Proc(k) /\ SameServer(v, a) /\ v.ops = a.ops /\ v.seq = a.seq
        /\ v.log = a.log /\ v.restored = a.restored /\ v.pending = a.pending
    <2>1. a.pulled \in [Nodes -> [Shards -> Nat]] /\ node[s].seq \in Nat
      BY <1>1, <1>4 DEF Proc, Cursors
    <2> DEFINE p == [a.pulled EXCEPT ![s][sh] = MaxOf(@, node[s].seq)]
    <2>2. MaxOf(a.pulled[s][sh], node[s].seq) \in Nat  BY <2>1, MaxOfType
    <2>3. p \in Cursors  BY <2>1, <2>2 DEF Cursors
    <2>4. v = [a EXCEPT !.pulled = p]  OBVIOUS
    <2> HIDE DEF p, v
    <2> QED  BY <1>4, <2>3, <2>4 DEF Proc, SameServer
  <1>6. PICK w \in {node[s], Acked(node[s], r, sh, node[s].seq)} :
           node' = [node EXCEPT ![r] = v, ![s] = w]
    BY DEF Pull, a, ops
  <1>7. /\ w \in Proc(k) /\ SameServer(w, node[s]) /\ w.ops = node[s].ops /\ w.seq = node[s].seq
        /\ w.log \subseteq node[s].log /\ w.pending = node[s].pending
        /\ w.restored = node[s].restored
    <2>1. CASE w = node[s]  BY <1>1, <2>1 DEF SameServer
    <2>2. CASE w = Acked(node[s], r, sh, node[s].seq)
      <3>1. node[s].seq \in Nat  BY <1>1 DEF Proc
      <3>2. Acked(node[s], r, sh, node[s].seq) \in Proc(k)
        BY <1>1, <3>1, AckedType DEF TInv, Numbered
      <3> QED  BY <1>1, <2>2, <3>2, AckedFields
    <2> QED  BY <1>6, <2>1, <2>2
  <1> HIDE DEF v
  <1>8. ProcOk(r, v)
    <2>1. InStep(r, v) /\ Ahead(r, v) /\ Holds(r, v)
      <3>1. v \in Proc(k + 1)  BY <1>1, <1>5, Grows
      <3>2. SameServer(v, node[r])  BY <1>4, <1>5 DEF SameServer
      <3>3. node[r].ops \subseteq v.ops /\ v.seq >= node[r].seq /\ v.restored = node[r].restored
        BY <1>1, <1>4, <1>5 DEF Proc
      <3> QED  BY <1>1, <3>1, <3>2, <3>3, UpGrows
    <2>2. ToWrite(r, v)
      <3>1. v.phase = "up" /\ v.log = node[r].log  BY <1>1, <1>4, <1>5 DEF SameServer
      <3>2. \A o \in v.pending : o \in node[r].pending \/ o \in ops  BY <1>4, <1>5
      <3>3. v.ops = node[r].ops \cup ops  BY <1>4, <1>5
      <3>4. ToWrite(r, node[r])  BY <1>1 DEF ProcOk
      <3>5. ASSUME NEW o \in v.pending
            PROVE  /\ o \in v.ops /\ Owner(Home(shardMap.gen, o)) = o.from
                   /\ o.from = r => \/ Found(o, Home(shardMap.gen, o))
                                    \/ o.seq > latest[Home(shardMap.gen, o)].cursors[r]
        <4>1. CASE o \in ops  BY <4>1, <1>1, <1>3, <3>3
        <4>2. CASE o \in node[r].pending  BY <4>2, <3>3, <3>4 DEF ToWrite
        <4> QED  BY <3>2, <4>1, <4>2
      <3> QED  BY <3>1, <3>4, <3>5 DEF ToWrite
    <2> QED  BY <2>1, <2>2 DEF ProcOk
  <1>9. ProcOk(s, w)
    <2>1. InStep(s, w) /\ Ahead(s, w) /\ Holds(s, w)
      <3>1. w \in Proc(k + 1)  BY <1>1, <1>7, Grows
      <3>2. w.seq >= node[s].seq  BY <1>1, <1>7 DEF Proc
      <3> QED  BY <1>1, <1>7, <3>1, <3>2, UpGrows
    <2>2. ToWrite(s, w)
      <3>1. ToWrite(s, node[s])  BY <1>1 DEF ProcOk
      <3> QED  BY <1>1, <1>7, <3>1 DEF ToWrite, SameServer
    <2> QED  BY <2>1, <2>2 DEF ProcOk
  <1>10. UNCHANGED Files  BY DEF Pull, Storage, Files
  <1>11. \A m \in Nodes : ProcOk(m, node'[m])
    <2>1. \A m \in Nodes : node'[m] = IF m = s THEN w ELSE IF m = r THEN v ELSE node[m]
      BY <1>1, <1>6 DEF TInv, Numbered
    <2>2. \A m \in Nodes : ProcOk(m, node[m])  BY DEF FInv, ProcsOk
    <2> SUFFICES ASSUME NEW m \in Nodes PROVE ProcOk(m, node'[m])  OBVIOUS
    <2>3. CASE m = s  BY <1>9, <2>1, <2>3
    <2>4. CASE m = r /\ m # s  BY <1>8, <2>1, <2>4
    <2>5. CASE m # r /\ m # s  BY <2>1, <2>2, <2>5
    <2> QED  BY <2>3, <2>4, <2>5
  <1> QED  BY <1>10, <1>11, QuietKeeps

\* What a restore does to the numbers of a process (_restoreScopeSet).
LEMMA RestoreAhead ==
    ASSUME TInv, FilesOfOwners, NEW n \in Nodes, NEW me \in Proc(used.writes), NEW v,
           NEW shards \in SUBSET Shards, NEW kept,
           v.seq = MaxOf(me.seq, RestoredSeq(n, shards)),
           \A t \in Shards :
             v.restored[n][t] = IF t \in shards THEN RestoredCursor(me.restored[n][t], n, t, kept)
                                ELSE me.restored[n][t],
           NEW sh \in Shards, Owner(sh) = n, me.restored[n][sh] <= me.seq
    PROVE  v.restored[n][sh] <= v.seq /\ v.seq \in Nat
  <1>1. used.writes \in Nat /\ FilesTyped(used.writes)  BY PlanFacts DEF TInv, Numbered
  <1>2. me.seq \in Nat /\ me.restored[n][sh] \in Nat  BY <1>1 DEF Proc, Cursors
  <1>3. RestoredSeq(n, shards) \in Nat  BY <1>1, RestoredSeqType
  <1>4. v.seq >= me.seq /\ v.seq \in Nat  BY <1>2, <1>3, MaxOfType
  <1>5. CASE sh \in shards
    <2>1. RestoredCursor(me.restored[n][sh], n, sh, kept) <= v.seq
      BY <1>1, <1>2, <1>5, RestoredBelow
    <2> QED  BY <1>4, <1>5, <2>1
  <1>6. CASE sh \notin shards
    <2>1. v.restored[n][sh] = me.restored[n][sh]  BY <1>6
    <2> QED  BY <1>2, <1>4, <2>1
  <1> QED  BY <1>5, <1>6

\* restoreScope: what a node that serves reads of the files is found there, and its number
\* does not stay behind them.
LEMMA FlushedCatchUp ==
    ASSUME TInv, FInv, NEW r \in Nodes, NEW s \in Nodes, NEW sh \in Shards, CatchUp(r, s, sh)
    PROVE  FInv'
  <1> DEFINE k == used.writes
             me == node[r]
             shards == Scopes(IF sh = DefaultShard THEN Owned(r, node[r].map) ELSE {sh})
             rows == (SnapshotOps(shards) \ node[r].ops) \cup JournalOps(shards)
             a == RestoreScope(me, r, shards)
             v == DurableFloor(Remembered(a, shards, sh), s, sh, rows)
  <1>1. /\ k \in Nat /\ me \in Proc(k) /\ me.map.gen \in 1..2 /\ me.phase = "up"
        /\ FilesTyped(k) /\ ProcOk(r, me) /\ sh \in ShardsOf(me.map)
    BY PlanFacts DEF TInv, Numbered, Mapped, CatchUp, Peers, FInv, ProcsOk
  <1>2. me.map = shardMap /\ ~shardMap.resharding
    BY <1>1 DEF ProcOk, InStep, TInv, RInv, Quiet
  <1>3. shards \in SUBSET Shards /\ shards \subseteq Generations[shardMap.gen]
    BY <1>1, <1>2, ShardFacts DEF Scopes, Owned, ShardsOf
  <1> HIDE DEF shards, me
  <1>4. /\ a \in Proc(k) /\ SameServer(a, me)
        /\ a.ops = me.ops \cup {o \in Recoverable(shards) : o.id \in Ids}
        /\ a.seq = MaxOf(me.seq, RestoredSeq(r, shards)) /\ a.log = me.log
        /\ a.pending = me.pending \cup (JournalOps(shards) \ me.ops)
        /\ \A t \in Shards :
             a.restored[r][t] = IF t \in shards THEN RestoredCursor(me.restored[r][t], r, t, Ids)
                                ELSE me.restored[r][t]
    <2>1. a \in Proc(k)  BY <1>1, <1>3, RestoreScopeType
    <2>2. /\ SameServer(a, me)
          /\ a.ops = me.ops \cup {o \in Recoverable(shards) : o.id \in Ids}
          /\ a.seq = MaxOf(me.seq, RestoredSeq(r, shards)) /\ a.log = me.log
          /\ a.pending = me.pending \cup (JournalOps(shards) \ me.ops)
      BY <1>1, <1>3, RestoreScopeFields
    <2>3. \A t \in Shards :
             a.restored[r][t] = IF t \in shards THEN RestoredCursor(me.restored[r][t], r, t, Ids)
                                ELSE me.restored[r][t]
      BY <1>1, <1>3, RestoreScopeFields
    <2> QED  BY <2>1, <2>2, <2>3
  <1> HIDE DEF a, rows
  <1>5. /\ v \in Proc(k) /\ SameServer(v, a) /\ v.ops = a.ops /\ v.seq = a.seq /\ v.log = a.log
        /\ v.pending = a.pending /\ v.restored = a.restored
    <2>1. Remembered(a, shards, sh) \in Proc(k)  BY <1>1, <1>3, <1>4, RememberedType
    <2>2. node[s].trimmed \in Nat  BY DEF TInv, Numbered, Proc
    <2>3. v \in Proc(k)  BY <1>1, <2>1, <2>2, DurableFloorType
    <2> QED  BY <1>1, <1>3, <1>4, <2>3, CursorFields
  <1>6. node' = [node EXCEPT ![r] = v] /\ UNCHANGED Files
    BY DEF CatchUp, Storage, Files, shards, a, rows, me
  <1> HIDE DEF v
  <1>7. InStep(r, v)
    BY <1>1, <1>2, <1>4, <1>5 DEF ProcOk, InStep, SameServer
  <1>8. Holds(r, v)
    <2>1. Holds(r, me)  BY <1>1 DEF ProcOk
    <2>2. me.ops \subseteq v.ops  BY <1>4, <1>5
    <2> QED  BY <2>1, <2>2 DEF Holds
  <1>9. Ahead(r, v)
    <2> SUFFICES ASSUME NEW t \in Shards, Owner(t) = r
                 PROVE  /\ v.restored[r][t] <= v.seq
                        /\ t \in Generations[shardMap.gen] => latest[t].cursors[r] <= v.seq
      BY DEF Ahead
    <2>1. Ahead(r, me)  BY <1>1 DEF ProcOk
    <2>2. me.restored[r][t] <= me.seq  BY <2>1 DEF Ahead
    <2>3. FilesOfOwners  BY DEF FInv
    <2>4. a.restored[r][t] <= a.seq /\ a.seq \in Nat
      <3>1. me \in Proc(used.writes) /\ shards \in SUBSET Shards  BY <1>1, <1>3
      <3>2. a.seq = MaxOf(me.seq, RestoredSeq(r, shards))  BY <1>4
      <3>3. \A u \in Shards :
              a.restored[r][u] = IF u \in shards THEN RestoredCursor(me.restored[r][u], r, u, Ids)
                                 ELSE me.restored[r][u]
        BY <1>4
      <3> HIDE DEF k
      <3> QED  BY <3>1, <3>2, <3>3, <2>2, <2>3, RestoreAhead
    <2>5. me.seq \in Nat /\ a.seq >= me.seq
      <3>1. me.seq \in Nat  BY <1>1 DEF Proc
      <3>2. RestoredSeq(r, shards) \in Nat  BY <1>1, <1>3, RestoredSeqType
      <3> QED  BY <1>4, <3>1, <3>2, MaxOfType
    <2>6. latest[t].cursors[r] \in Nat  BY <1>1 DEF FilesTyped, Snapshot
    <2>7. t \in Generations[shardMap.gen] => latest[t].cursors[r] <= me.seq  BY <2>1 DEF Ahead
    <2> QED  BY <1>5, <2>4, <2>5, <2>6, <2>7
  <1>10. ToWrite(r, v)
    <2>1. v.phase = "up" /\ v.log = me.log  BY <1>1, <1>4, <1>5 DEF SameServer
    <2>2. ToWrite(r, me)  BY <1>1 DEF ProcOk
    <2>3. ASSUME NEW o \in v.pending
          PROVE  /\ o \in v.ops /\ Owner(Home(shardMap.gen, o)) = o.from
                 /\ o.from = r => \/ Found(o, Home(shardMap.gen, o))
                                  \/ o.seq > latest[Home(shardMap.gen, o)].cursors[r]
      <3>1. CASE o \in me.pending  BY <3>1, <1>4, <1>5, <2>2 DEF ToWrite
      <3>2. CASE o \in JournalOps(shards)
        <4>1. PICK t \in shards : Found(o, t) /\ \E j \in journals : j.shard = t /\ o \in j.ops
          BY <3>2, JournalFound
        <4>2. o.from = Owner(t) /\ Home(shardMap.gen, o) = t
          BY <1>1, <1>2, <1>3, <4>1 DEF FInv, FilesOfOwners
        <4>3. o \in Recoverable(shards)  BY <4>1, FoundRecoverable
        <4>4. o.id \in Ids  BY <1>1, <1>3, <4>3, FilesRead DEF UpTo
        <4>5. o \in v.ops  BY <1>4, <1>5, <4>3, <4>4
        <4> QED  BY <4>1, <4>2, <4>5
      <3> QED  BY <2>3, <3>1, <3>2, <1>4, <1>5
    <2> QED  BY <2>1, <2>2, <2>3 DEF ToWrite
  <1>11. ProcOk(r, v)  BY <1>7, <1>8, <1>9, <1>10 DEF ProcOk
  <1> QED  BY <1>6, <1>11, OneKeeps

\* A process that stops leaves nothing to write (the bounds of what it loses aside).
LEMMA StoppedOk == ASSUME NEW n PROVE ProcOk(n, Stopped)
  BY DEF ProcOk, Stopped, ToWrite

\* A crash leaves the files as they are.
LEMMA FlushedCrash ==
    ASSUME TInv, FInv, NEW n \in Nodes, Crash(n)
    PROVE  FInv'
  <1>1. node' = [node EXCEPT ![n] = Stopped] /\ UNCHANGED Files  BY DEF Crash, Storage, Files
  <1> QED  BY <1>1, StoppedOk, OneKeeps

\* A process that has just been restored from the files of some shards.
LEMMA FreshOk ==
    ASSUME TInv, FInv, NEW n \in Nodes, NEW fresh \in Proc(used.writes), NEW v,
           NEW shards \in SUBSET Shards, NEW kept,
           v = RestoreScopeSet(fresh, n, shards, kept),
           fresh.map = shardMap, fresh.seq = 0, fresh.pending = {}, fresh.log = {},
           \A sh \in Shards : fresh.restored[n][sh] = 0,
           \A o \in stored : Owner(Home(shardMap.gen, o)) = n =>
               o.id \in kept /\ o \in Recoverable(shards),
           \A sh \in Generations[shardMap.gen] : Owner(sh) = n =>
               latest[sh].cursors[n] <= RestoredSeq(n, shards),
           InStep(n, v)
    PROVE  ProcOk(n, v)
  <1>1. used.writes \in Nat /\ FilesTyped(used.writes) /\ FilesOfOwners
    BY PlanFacts DEF TInv, Numbered, FInv
  <1>2. RestoredSeq(n, shards) \in Nat  BY <1>1, RestoredSeqType
  <1>3. /\ v.pending = {} /\ v.log = {} /\ v.seq = MaxOf(0, RestoredSeq(n, shards))
        /\ v.ops = fresh.ops \cup {o \in Recoverable(shards) : o.id \in kept}
    BY RestoreSetFields
  <1>4. \A sh \in Shards :
          v.restored[n][sh] = IF sh \in shards THEN RestoredCursor(fresh.restored[n][sh], n, sh, kept)
                              ELSE fresh.restored[n][sh]
    BY RestoreSetFields
  <1>5. v.seq = RestoredSeq(n, shards)  BY <1>2, <1>3 DEF MaxOf
  <1>6. ToWrite(n, v)  BY <1>3 DEF ToWrite
  <1>7. Holds(n, v)  BY <1>3 DEF Holds
  <1>8. Ahead(n, v)
    <2> SUFFICES ASSUME NEW sh \in Shards, Owner(sh) = n
                 PROVE  v.restored[n][sh] <= v.seq
      BY <1>5 DEF Ahead
    <2>1. CASE sh \in shards
      <3>1. v.restored[n][sh] = RestoredCursor(0, n, sh, kept)  BY <1>4, <2>1
      <3>2. RestoredCursor(0, n, sh, kept) <= MaxOf(0, RestoredSeq(n, shards))
        BY <1>1, <2>1, RestoredBelow
      <3> QED  BY <1>3, <3>1, <3>2
    <2>2. CASE sh \notin shards
      <3>1. v.restored[n][sh] = 0  BY <1>4, <2>2
      <3> QED  BY <1>2, <1>5, <3>1
    <2> QED  BY <2>1, <2>2
  <1> QED  BY <1>6, <1>7, <1>8 DEF ProcOk

\* What was flushed belongs to a shard of each generation.
LEMMA StoredTyped ==
    ASSUME TInv, FInv, NEW o \in stored
    PROVE  /\ o.id \in Ids /\ shardMap.gen \in 1..2
           /\ SourceGen(shardMap) \in 1..2
           /\ \A g \in 1..2 : Home(g, o) \in Generations[g] /\ Home(g, o) \in Shards
  <1>1. shardMap.gen \in 1..2 /\ SourceGen(shardMap) \in 1..2
    BY DEF TInv, RInv, MapKnown, SourceGen
  <1>2. o.id \in Ids  BY DEF TInv, Numbered, UpTo
  <1> QED  BY <1>1, <1>2, ShardFacts DEF Home

\* restore under an active map: a primary reads all that was flushed of its shards, and its
\* number is not behind their snapshots.
LEMMA FlushedStart ==
    ASSUME TInv, FInv, NEW n \in Nodes, Start(n)
    PROVE  FInv'
  <1> DEFINE fresh == [Stopped EXCEPT !.phase = "up", !.map = shardMap]
             owned == Owned(n, shardMap)
             shards == Scopes(owned)
             v == RestoreScopeSet(fresh, n, shards, Ids)
  <1>1. /\ used.writes \in Nat /\ MapKnown /\ ~shardMap.resharding /\ shardMap \in Map
        /\ shardMap.gen \in 1..2 /\ FilesTyped(used.writes) /\ FilesOfOwners /\ plan \in Plans
    BY PlanFacts DEF TInv, RInv, Numbered, MapKnown, Start, FInv
  <1>2. /\ fresh \in Proc(used.writes) /\ fresh.map = shardMap /\ fresh.phase = "up"
        /\ fresh.seq = 0 /\ fresh.pending = {} /\ fresh.log = {}
        /\ \A sh \in Shards : fresh.restored[n][sh] = 0
    <2>1. Stopped \in Proc(used.writes)  BY <1>1, StoppedType
    <2>2. fresh \in Proc(used.writes)  BY <1>1, <2>1 DEF Proc
    <2> QED  BY <2>2 DEF Stopped
  <1>3. shards \in SUBSET Shards /\ owned \subseteq Shards  BY <1>1, MapShards
  <1>4. node' = [node EXCEPT ![n] = v] /\ UNCHANGED Files
    BY DEF Start, Storage, Files
  <1>5. \A sh \in Generations[shardMap.gen] : Owner(sh) = n => sh \in owned
    BY <1>1, ShardFacts, OwnerFacts DEF Owned, ShardsOf
  <1> HIDE DEF fresh, owned
  <1>6. ASSUME NEW o \in stored, Owner(Home(shardMap.gen, o)) = n
        PROVE  o.id \in Ids /\ o \in Recoverable(shards)
    <2>1. o.id \in Ids /\ Home(shardMap.gen, o) \in Generations[shardMap.gen]
      BY StoredTyped
    <2>2. Found(o, Home(shardMap.gen, o))  BY <1>1 DEF FInv, StoredFound, SourceGen
    <2>3. Home(shardMap.gen, o) \in owned  BY <1>5, <1>6, <2>1
    <2>4. o \in Recoverable(shards)  BY <2>2, <2>3, FoundInScopes
    <2> QED  BY <2>1, <2>4
  <1>7. ASSUME NEW sh \in Generations[shardMap.gen], Owner(sh) = n
        PROVE  latest[sh].cursors[n] <= RestoredSeq(n, shards)
    <2>1. sh \in owned /\ sh \in Shards  BY <1>5, <1>7, <1>3
    <2>2. CASE sh \in shards
      <3> HIDE DEF shards
      <3> QED  BY <1>1, <1>3, <1>7, <2>2, CursorBelow
    <2>3. CASE sh \notin shards
      <3>1. latest[sh] = NoSnapshot  BY <2>1, <2>3, NotInScopes
      <3>2. latest[sh].cursors[n] = 0  BY <3>1 DEF NoSnapshot
      <3> HIDE DEF shards
      <3>3. RestoredSeq(n, shards) \in Nat  BY <1>1, <1>3, RestoredSeqType
      <3> QED  BY <3>2, <3>3
    <2> QED  BY <2>2, <2>3
  <1> HIDE DEF shards
  <1>8. InStep(n, v)
    <2>1. v.map = shardMap /\ v.phase = "up"  BY <1>2, RestoreSetFields DEF SameServer
    <2> HIDE DEF v
    <2> QED  BY <1>1, <2>1 DEF InStep
  <1>9. ProcOk(n, v)
    <2>1. PICK w : w = v  OBVIOUS
    <2>2. InStep(n, w) /\ w = RestoreScopeSet(fresh, n, shards, Ids)  BY <1>8, <2>1
    <2> HIDE DEF v
    <2>3. ProcOk(n, w)  BY <1>2, <1>3, <1>6, <1>7, <2>2, FreshOk
    <2> QED  BY <2>1, <2>3
  <1> HIDE DEF v
  <1> QED  BY <1>4, <1>9, OneKeeps

\* restore under a map that is resharding: it reads every source shard, so that a primary
\* holds all that was flushed of its targets.
LEMMA FlushedStartReshard ==
    ASSUME AllTakePart, TInv, FInv, NEW n \in Nodes, StartReshard(n)
    PROVE  FInv'
  <1> DEFINE fresh == [Stopped EXCEPT !.phase = "restored", !.map = shardMap,
                         !.todo = {sh \in Owned(n, shardMap) : IsPrimary(n, sh)}]
             shards == ReshardScopes(n, shardMap)
             v == RestoreScopeSet(fresh, n, shards, Kept(n))
  <1>1. /\ used.writes \in Nat /\ MapKnown /\ shardMap.resharding /\ shardMap \in Map
        /\ shardMap.gen = 2 /\ FilesTyped(used.writes) /\ FilesOfOwners /\ plan \in Plans
        /\ plan.reshard
    BY PlanFacts DEF TInv, RInv, Numbered, MapKnown, StartReshard, FInv, TargetsWhole
  <1>2. /\ fresh \in Proc(used.writes) /\ fresh.map = shardMap /\ fresh.phase = "restored"
        /\ fresh.seq = 0 /\ fresh.pending = {} /\ fresh.log = {}
        /\ fresh.todo = {sh \in Owned(n, shardMap) : IsPrimary(n, sh)}
        /\ \A sh \in Shards : fresh.restored[n][sh] = 0
    <2> DEFINE t == {sh \in Owned(n, shardMap) : IsPrimary(n, sh)}
    <2>1. Stopped \in Proc(used.writes)  BY <1>1, StoppedType
    <2>2. t \in SUBSET Shards  BY <1>1, MapShards
    <2> HIDE DEF t
    <2>3. fresh \in Proc(used.writes)  BY <1>1, <2>1, <2>2 DEF Proc, t
    <2>4. fresh.todo = t  BY DEF Stopped, t
    <2> QED  BY <2>3, <2>4 DEF Stopped, t
  <1>3. shards \in SUBSET Shards  BY <1>1, MapShards
  <1>4. node' = [node EXCEPT ![n] = v] /\ UNCHANGED Files
    BY DEF StartReshard, Storage, Files
  <1>5. shards = Scopes(Generations[1])
    <2>1. Owned(n, shardMap) # {}
      <3>1. PICK sh \in Generations[2] : n \in PeersFor(sh)
        BY <1>1 DEF AllTakePart
      <3> QED  BY <1>1, <3>1 DEF Owned, ShardsOf
    <2> QED  BY <1>1, <2>1 DEF ReshardScopes, Source
  <1>6. \A sh \in Generations[2] : Owner(sh) = n => sh \in Owned(n, shardMap)
    BY <1>1, ShardFacts, OwnerFacts DEF Owned, ShardsOf
  <1>7. RestoredSeq(n, shards) = SourceSeq(n)  BY <1>5 DEF SourceSeq
  <1>8. ASSUME NEW o \in stored, Owner(Home(shardMap.gen, o)) = n
        PROVE  o.id \in Kept(n) /\ o \in Recoverable(shards)
    <2>1. o.id \in Ids /\ Home(1, o) \in Generations[1] /\ Home(2, o) \in Generations[2]
      BY StoredTyped
    <2>2. SourceGen(shardMap) = 1  BY <1>1 DEF SourceGen
    <2>3. Found(o, Home(1, o))  BY <2>2 DEF FInv, StoredFound
    <2>4. o \in Recoverable(shards)  BY <1>5, <2>1, <2>3, FoundInScopes
    <2>5. Home(2, o) \in Owned(n, shardMap)  BY <1>1, <1>6, <1>8, <2>1
    <2>6. o.id \in Kept(n)  BY <1>1, <2>1, <2>5 DEF Kept, Home
    <2> QED  BY <2>4, <2>6
  <1>9. ASSUME NEW sh \in Generations[shardMap.gen], Owner(sh) = n
        PROVE  latest[sh].cursors[n] <= RestoredSeq(n, shards)
    BY <1>1, <1>7, <1>9 DEF FInv, TargetsWhole
  <1> HIDE DEF shards, fresh
  <1>10. InStep(n, v)
    <2>1. v.map = shardMap /\ v.phase = "restored" /\ v.seq = MaxOf(0, RestoredSeq(n, shards))
      BY <1>2, RestoreSetFields DEF SameServer
    <2>2. v.seq = SourceSeq(n)
      <3>1. RestoredSeq(n, shards) \in Nat  BY <1>1, <1>3, RestoredSeqType
      <3> QED  BY <1>7, <2>1, <3>1 DEF MaxOf
    <2>3. v.todo = fresh.todo  BY <1>2 DEF RestoreScopeSet, Proc
    <2> HIDE DEF v
    <2>4. \A sh \in v.todo : sh \in Generations[2] /\ Owner(sh) = n
      BY <1>1, <1>2, <2>3 DEF Owned, ShardsOf, IsPrimary, Owner
    <2> QED  BY <1>1, <2>1, <2>2, <2>4 DEF InStep
  <1>11. ProcOk(n, v)
    <2>1. PICK w : w = v  OBVIOUS
    <2>2. InStep(n, w) /\ w = RestoreScopeSet(fresh, n, shards, Kept(n))  BY <1>10, <2>1
    <2> HIDE DEF v
    <2>3. ProcOk(n, w)  BY <1>2, <1>3, <1>8, <1>9, <2>2, FreshOk
    <2> QED  BY <2>1, <2>3
  <1> HIDE DEF v
  <1> QED  BY <1>4, <1>11, OneKeeps

\* waitForActive and the wait for it.
LEMMA FlushedTurn ==
    ASSUME TInv, FInv, NEW n \in Nodes, Wait(n) \/ Activate(n)
    PROVE  FInv'
  <1>1. node[n] \in Proc(used.writes) /\ ProcOk(n, node[n]) /\ node[n].phase # "down"
    BY DEF TInv, Numbered, FInv, ProcsOk, Wait, Activate
  <1>2. UNCHANGED Files  BY DEF Wait, Activate, Storage, Files
  <1>3. CASE Wait(n)
    <2> DEFINE v == [node[n] EXCEPT !.phase = "waiting"]
    <2>1. node' = [node EXCEPT ![n] = v]  BY <1>3 DEF Wait, TInv, Numbered
    <2>2. /\ v.phase = "waiting" /\ v.map = node[n].map /\ v.seq = node[n].seq
          /\ v.ops = node[n].ops /\ v.restored = node[n].restored
          /\ v.pending = node[n].pending /\ v.log = node[n].log
      BY <1>1 DEF Proc
    <2>3. node[n].phase = "restored"  BY <1>3 DEF Wait
    <2> HIDE DEF v
    <2>4. InStep(n, v) /\ Ahead(n, v) /\ Holds(n, v) /\ ToWrite(n, v)
      BY <1>1, <2>2, <2>3 DEF ProcOk, InStep, Ahead, Holds, ToWrite
    <2>5. ProcOk(n, v)  BY <2>4 DEF ProcOk
    <2> QED  BY <1>2, <2>1, <2>5, OneKeeps
  <1>4. CASE Activate(n)
    <2> DEFINE v == [node[n] EXCEPT !.phase = "up", !.map = shardMap]
    <2>1. node' = [node EXCEPT ![n] = v]
      <3>1. node' = [node EXCEPT ![n].phase = "up", ![n].map = shardMap]
        BY <1>4 DEF Activate, Serving
      <3> QED  BY <3>1 DEF TInv, Numbered
    <2>2. /\ v.phase = "up" /\ v.map = shardMap /\ v.seq = node[n].seq
          /\ v.ops = node[n].ops /\ v.restored = node[n].restored
          /\ v.pending = node[n].pending /\ v.log = node[n].log
      BY <1>1 DEF Proc
    <2>3. node[n].phase = "waiting" /\ ~shardMap.resharding  BY <1>4 DEF Activate
    <2> HIDE DEF v
    <2>4. InStep(n, v) /\ Ahead(n, v) /\ Holds(n, v) /\ ToWrite(n, v)
      BY <1>1, <2>2, <2>3 DEF ProcOk, InStep, Ahead, Holds, ToWrite
    <2>5. ProcOk(n, v)  BY <2>4 DEF ProcOk
    <2> QED  BY <1>2, <2>1, <2>5, OneKeeps
  <1> QED  BY <1>3, <1>4

----------------------------------------------------------------------------
\* Steps that write files.

\* What is found of a shard whose snapshot stays and whose journals are kept.
LEMMA FoundKept ==
    ASSUME NEW sh, latest'[sh] = latest[sh], \A j \in journals : j.shard = sh => j \in journals',
           NEW o, Found(o, sh)
    PROVE  Found(o, sh)'
  BY DEF Found, Covered

\* An operation that is pending gets into a journal of its shard.
LEMMA JournalHas ==
    ASSUME NEW k \in Nat, NEW n \in Nodes, NEW me \in Proc(k), NEW o \in me.pending
    PROVE  \E j \in JournalsOf(n, me) :
              /\ j.dir = n /\ j.shard = ShardForObject(me.map, o) /\ o \in j.ops
              /\ j.last \in Nat /\ o.seq <= j.last
  <1> DEFINE sh == ShardForObject(me.map, o)
             G == OfShard(me.pending, me.map, sh)
             T == {p.seq : p \in G}
             j == [dir |-> n, shard |-> sh, ops |-> G, last |-> Max(T)]
  <1>1. me.pending \subseteq UpTo(k)  BY DEF Proc
  <1>2. G \in SUBSET UpTo(k) /\ o \in G  BY <1>1 DEF OfShard
  <1>3. j \in JournalsOf(n, me)  BY DEF JournalsOf
  <1> HIDE DEF sh, G
  <1>4. T \subseteq 1..k /\ o.seq \in T  BY <1>2, SeqsType
  <1> HIDE DEF T
  <1>5. T \subseteq Nat /\ T # {} /\ \A x \in T : x <= k  BY <1>4
  <1>6. Max(T) \in Nat /\ o.seq <= Max(T)  BY <1>4, <1>5, MaxOfNats
  <1>7. j.dir = n /\ j.shard = sh /\ o \in j.ops /\ j.last = Max(T)  BY <1>2
  <1> HIDE DEF j
  <1> QED  BY <1>3, <1>6, <1>7 DEF sh

\* The journals of a flush hold what their shards' owners wrote.
LEMMA JournalsHome ==
    ASSUME TInv, FInv, NEW n \in Nodes, node[n].phase = "up",
           NEW j \in JournalsOf(n, node[n]), NEW o \in j.ops
    PROVE  /\ o.from = Owner(j.shard)
           /\ \A g \in 1..2 : j.shard \in Generations[g] => Home(g, o) = j.shard
  <1>1. /\ used.writes \in Nat /\ node[n] \in Proc(used.writes) /\ node[n].map = shardMap
        /\ shardMap.gen \in 1..2 /\ ToWrite(n, node[n])
    BY PlanFacts DEF TInv, RInv, MapKnown, Numbered, FInv, ProcsOk, ProcOk, InStep
  <1>2. o \in node[n].pending /\ ShardForObject(shardMap, o) = j.shard
    <2>1. PICK sh : j = [dir |-> n, shard |-> sh, ops |-> OfShard(node[n].pending, node[n].map, sh),
                         last |-> Max({p.seq : p \in OfShard(node[n].pending, node[n].map, sh)})]
      BY DEF JournalsOf
    <2>2. j.shard = sh /\ j.ops = OfShard(node[n].pending, node[n].map, sh)  BY <2>1
    <2> QED  BY <1>1, <2>2 DEF OfShard
  <1>3. Home(shardMap.gen, o) = j.shard  BY <1>2 DEF ShardForObject, Home
  <1>4. o.id \in Ids  BY <1>1, <1>2 DEF Proc, UpTo
  <1>5. j.shard \in Generations[shardMap.gen]  BY <1>1, <1>3, <1>4, ShardFacts DEF Home
  <1>6. \A g \in 1..2 : j.shard \in Generations[g] => g = shardMap.gen
    BY <1>1, <1>5, RecoveryAssumption
  <1> QED  BY <1>1, <1>2, <1>3, <1>6 DEF ToWrite

\* After a flush every own operation that was pending is found.
LEMMA PendingFound ==
    ASSUME TInv, FInv, NEW n \in Nodes, node[n].phase = "up", NEW o \in node[n].pending, o.from = n,
           NEW sh, sh = Home(shardMap.gen, o), latest'[sh] = latest[sh],
           \A j \in journals \cup JournalsOf(n, node[n]) : j.shard = sh => j \in journals'
    PROVE  Found(o, sh)'
  <1>1. /\ used.writes \in Nat /\ node[n] \in Proc(used.writes) /\ node[n].map = shardMap
        /\ shardMap.gen \in 1..2 /\ ToWrite(n, node[n])
        /\ FilesTyped(used.writes)
    BY PlanFacts DEF TInv, RInv, MapKnown, Numbered, FInv, ProcsOk, ProcOk, InStep
  <1>2. sh = ShardForObject(node[n].map, o)  BY <1>1 DEF ShardForObject, Home
  <1>3. o.seq \in Nat /\ sh \in Shards
    <2>1. o \in UpTo(used.writes)  BY <1>1 DEF Proc
    <2>2. o.seq \in Nat /\ o.id \in Ids  BY <2>1 DEF UpTo
    <2> QED  BY <1>1, <1>2, <2>2, ShardFacts DEF Home
  <1>4. Found(o, sh) \/ o.seq > latest[sh].cursors[n]  BY <1>1 DEF ToWrite
  <1>5. CASE Found(o, sh)  BY <1>5, FoundKept
  <1>6. CASE o.seq > latest[sh].cursors[n]
    <2>1. PICK j \in JournalsOf(n, node[n]) :
             /\ j.dir = n /\ j.shard = sh /\ o \in j.ops /\ j.last \in Nat /\ o.seq <= j.last
      BY <1>1, <1>2, JournalHas
    <2>2. j \in journals'  BY <2>1
    <2>3. latest[sh].cursors[n] \in Nat  BY <1>1, <1>3 DEF FilesTyped, Snapshot
    <2>4. ~(latest[sh].cursors[n] >= j.last)  BY <1>3, <1>6, <2>1, <2>3
    <2> QED  BY <1>6, <2>1, <2>2, <2>4 DEF Found, Covered
  <1> QED  BY <1>4, <1>5, <1>6

\* The processes that a step of n leaves alone, when it writes only files of the shards of n.
LEMMA OthersKeep ==
    ASSUME TInv, FInv, NEW n \in Nodes, plan' = plan, shardMap' = shardMap,
           shardMap.resharding => \A m \in Nodes : SourceSeq(m)' = SourceSeq(m),
           \A t \in Shards : Owner(t) # n =>
               /\ latest'[t] = latest[t]
               /\ \A j \in journals : j.shard = t => j \in journals',
           \A o \in stored' : o \in stored \/ Owner(Home(shardMap.gen, o)) = n,
           NEW m \in Nodes, m # n, NEW me, me = node[m]
    PROVE  ProcOk(m, me)'
  <1>1. /\ me \in Proc(used.writes) /\ ProcOk(m, me) /\ shardMap.gen \in 1..2
        /\ \A t : Owner(t)' = Owner(t)
    BY DEF TInv, Numbered, RInv, MapKnown, FInv, ProcsOk, Owner
  <1>2. InStep(m, me) => InStep(m, me)'  BY <1>1 DEF InStep
  <1>3. Ahead(m, me) => Ahead(m, me)'  BY <1>1 DEF Ahead
  <1>4. Holds(m, me) => Holds(m, me)'  BY <1>1 DEF Holds
  <1>5. ToWrite(m, me)'
    <2>1. ToWrite(m, me)  BY <1>1 DEF ProcOk
    <2>2. ASSUME NEW o \in me.pending, o.from = m
          PROVE  \/ Found(o, Home(shardMap.gen, o))'
                 \/ o.seq > latest'[Home(shardMap.gen, o)].cursors[m]
      <3>1. PICK sh : sh = Home(shardMap.gen, o)  OBVIOUS
      <3>2. o.id \in Ids  BY <1>1 DEF Proc, UpTo
      <3>3. sh \in Shards  BY <1>1, <3>1, <3>2, ShardFacts DEF Home
      <3>4. Owner(sh) # n  BY <2>1, <2>2, <3>1 DEF ToWrite
      <3>5. latest'[sh] = latest[sh] /\ \A j \in journals : j.shard = sh => j \in journals'
        BY <3>3, <3>4
      <3>6. Found(o, sh) \/ o.seq > latest[sh].cursors[m]  BY <2>1, <2>2, <3>1 DEF ToWrite
      <3>7. Found(o, sh)' \/ o.seq > latest'[sh].cursors[m]  BY <3>5, <3>6, FoundKept
      <3>8. sh = Home(shardMap.gen, o)'  BY <3>1 DEF Home
      <3> QED  BY <3>1, <3>7, <3>8 DEF Found
    <2> QED  BY <1>1, <2>1, <2>2 DEF ToWrite, Home
  <1> QED  BY <1>1, <1>2, <1>3, <1>4, <1>5 DEF ProcOk

\* The pieces of the invariant after a step of one process.
LEMMA OneWrites ==
    ASSUME TInv, FInv, NEW n \in Nodes, plan' = plan, shardMap' = shardMap,
           shardMap.resharding => \A m \in Nodes : SourceSeq(m)' = SourceSeq(m),
           \A t \in Shards : Owner(t) # n =>
               /\ latest'[t] = latest[t]
               /\ \A j \in journals : j.shard = t => j \in journals',
           \A o \in stored' : o \in stored \/ Owner(Home(shardMap.gen, o)) = n,
           NEW v, node' = [node EXCEPT ![n] = v], ProcOk(n, v)'
    PROVE  ProcsOk'
  <1> SUFFICES ASSUME NEW m \in Nodes PROVE ProcOk(m, node[m])'
    BY DEF ProcsOk
  <1>1. node'[m] = IF m = n THEN v ELSE node[m]  BY DEF TInv, Numbered
  <1>2. CASE m = n
    <2>1. node'[m] = v  BY <1>1, <1>2
    <2> QED  BY <1>2, <2>1 DEF ProcOk, InStep, Ahead, Holds, ToWrite
  <1>3. CASE m # n
    <2>1. PICK me : me = node[m]  OBVIOUS
    <2>2. ProcOk(m, me)'  BY <1>3, <2>1, OthersKeep
    <2>3. node'[m] = me  BY <1>1, <1>3, <2>1
    <2> QED  BY <2>2, <2>3 DEF ProcOk, InStep, Ahead, Holds, ToWrite
  <1> QED  BY <1>2, <1>3

\* A flush and a graceful stop: what was pending is in journals that no snapshot covers.
LEMMA FlushedFlush ==
    ASSUME TInv, FInv, NEW n \in Nodes, Flush(n) \/ Stop(n)
    PROVE  FInv'
  <1> DEFINE me == node[n]
  <1>1. /\ me \in Proc(used.writes) /\ me.phase = "up" /\ ~shardMap.resharding
        /\ shardMap.gen \in 1..2 /\ InStep(n, me) /\ Ahead(n, me) /\ Holds(n, me)
        /\ ToWrite(n, me)
    BY DEF TInv, Numbered, RInv, MapKnown, Quiet, FInv, ProcsOk, ProcOk, Flush, Stop
  <1>2. /\ plan' = plan /\ latest' = latest /\ shardMap' = shardMap
        /\ journals' = journals \cup JournalsOf(n, me)
        /\ stored' = stored \cup Own(n, me.pending)
        /\ \A sh : Owner(sh)' = Owner(sh)
    BY DEF Flush, Stop, Owner
  <1>3. \A o \in stored' : o \in stored \/ (o \in me.pending /\ o.from = n)
    BY <1>2 DEF Own
  <1>4. \A o \in me.pending : o.from = n => o \in me.ops /\ Owner(Home(shardMap.gen, o)) = n
    BY <1>1 DEF ToWrite
  <1>5. StoredFound'
    <2> SUFFICES ASSUME NEW o \in stored' PROVE Found(o, Home(SourceGen(shardMap), o))'
      BY DEF StoredFound
    <2>1. PICK sh : sh = Home(shardMap.gen, o)  OBVIOUS
    <2>2. sh = Home(SourceGen(shardMap), o)'  BY <1>1, <1>2, <2>1 DEF SourceGen, Home
    <2>3. CASE o \in stored
      <3>1. Found(o, sh)  BY <1>1, <2>1, <2>3 DEF FInv, StoredFound, SourceGen
      <3>2. Found(o, sh)'  BY <1>2, <3>1, FoundKept
      <3> QED  BY <2>2, <3>2 DEF Found
    <2>4. CASE o \in me.pending /\ o.from = n
      <3>1. Found(o, sh)'  BY <1>1, <1>2, <2>1, <2>4, PendingFound
      <3> QED  BY <2>2, <3>1 DEF Found
    <2> QED  BY <1>3, <2>3, <2>4
  <1>6. FilesOfOwners'
    <2>1. \A j \in journals : \A o \in j.ops :
            /\ o.from = Owner(j.shard)
            /\ \A g \in 1..2 : j.shard \in Generations[g] => Home(g, o) = j.shard
      BY DEF FInv, FilesOfOwners
    <2>2. \A j \in JournalsOf(n, me) : \A o \in j.ops :
            /\ o.from = Owner(j.shard)
            /\ \A g \in 1..2 : j.shard \in Generations[g] => Home(g, o) = j.shard
      BY <1>1, JournalsHome
    <2>3. \A j \in journals' : \A o \in j.ops :
            /\ o.from = Owner(j.shard)
            /\ \A g \in 1..2 : j.shard \in Generations[g] => Home(g, o) = j.shard
      <3> HIDE DEF me
      <3> QED  BY <1>2, <2>1, <2>2
    <2>4. \A sh \in Shards : Owner(sh)' = Owner(sh) /\ latest'[sh] = latest[sh]  BY <1>2
    <2> QED  BY <1>2, <2>3, <2>4 DEF FInv, FilesOfOwners
  <1>7. TargetsWhole'  BY <1>1, <1>2 DEF FInv, TargetsWhole
  <1>8. PICK v : /\ node' = [node EXCEPT ![n] = v]
                 /\ v = [me EXCEPT !.pending = {}] \/ v = Stopped
    <2>1. CASE Flush(n)
      <3>1. node' = [node EXCEPT ![n].pending = {}]  BY <2>1 DEF Flush
      <3>2. node' = [node EXCEPT ![n] = [me EXCEPT !.pending = {}]]
        BY <3>1 DEF TInv, Numbered
      <3> QED  BY <3>2
    <2>2. CASE Stop(n)  BY <2>2 DEF Stop
    <2> QED  BY <2>1, <2>2
  <1>9. ProcOk(n, v)'
    <2>1. CASE v = [me EXCEPT !.pending = {}]
      <3>1. /\ v.phase = "up" /\ v.map = me.map /\ v.seq = me.seq /\ v.ops = me.ops
            /\ v.restored = me.restored /\ v.pending = {} /\ v.log = me.log
        <4> HIDE DEF me
        <4> QED  BY <1>1, <2>1 DEF Proc
      <3> HIDE DEF me
      <3>2. InStep(n, v)'  BY <1>1, <1>2, <3>1 DEF InStep
      <3>3. Ahead(n, v)'  BY <1>1, <1>2, <3>1 DEF Ahead
      <3>4. Holds(n, v)'  BY <1>1, <1>2, <1>3, <1>4, <3>1 DEF Holds, Home
      <3>5. ToWrite(n, v)'  BY <1>1, <1>2, <3>1 DEF ToWrite, Home
      <3> QED  BY <3>2, <3>3, <3>4, <3>5 DEF ProcOk
    <2>2. CASE v = Stopped  BY <2>2 DEF ProcOk, Stopped, ToWrite
    <2> QED  BY <1>8, <2>1, <2>2
  <1>10. ProcsOk'
    <2>1. \A o \in stored' : o \in stored \/ Owner(Home(shardMap.gen, o)) = n  BY <1>3, <1>4
    <2>2. \A t \in Shards : latest'[t] = latest[t] /\ \A j \in journals : j \in journals'
      BY <1>2
    <2> HIDE DEF me
    <2> QED  BY <1>1, <1>2, <1>8, <1>9, <2>1, <2>2, OneWrites
  <1> QED  BY <1>5, <1>6, <1>7, <1>10 DEF FInv

\* What _writeSnapshot leaves: a snapshot of what the process holds of the shard, in which
\* nothing of the process itself is beyond its number, and the files of the other shards.
LEMMA SnapshotLeft ==
    ASSUME TInv, FInv, NEW n \in Nodes, NEW me \in Proc(used.writes), NEW sh \in Shards,
           Owner(sh) = n, me.restored[n][sh] <= me.seq, NEW files, WriteSnapshot(files, n, me, sh)
    PROVE  /\ latest'[sh].ops = OfShard(me.ops, me.map, sh) /\ latest'[sh].node = n
           /\ latest'[sh].seq = me.seq /\ latest'[sh].gen = me.map.gen
           /\ latest'[sh].cursors[n] = me.seq
           /\ \A t \in Shards : t # sh => latest'[t] = latest[t]
           /\ journals' \subseteq files
           /\ \A j \in files : j.shard # sh => j \in journals'
  <1> DEFINE snap == SnapshotOf(n, me, sh)
  <1>1. latest' = [latest EXCEPT ![sh] = snap] /\ journals' = Compacted(files, sh, snap)
    BY DEF WriteSnapshot
  <1>2. DOMAIN latest = Shards  BY DEF TInv, Numbered, FilesTyped
  <1>3. latest'[sh] = snap /\ \A t \in Shards : t # sh => latest'[t] = latest[t]
    <2> HIDE DEF snap
    <2> QED  BY <1>1, <1>2
  <1>4. journals' \subseteq files /\ \A j \in files : j.shard # sh => j \in journals'
    BY <1>1 DEF Compacted
  <1>5. /\ snap.ops = OfShard(me.ops, me.map, sh) /\ snap.node = n /\ snap.seq = me.seq
        /\ snap.gen = me.map.gen /\ snap.cursors[n] = MaxOf(me.seq, me.restored[n][sh])
    BY DEF SnapshotOf, SnapshotCursors
  <1>6. MaxOf(me.seq, me.restored[n][sh]) = me.seq
    <2>1. me.seq \in Nat /\ me.restored[n][sh] \in Nat
      BY PlanFacts DEF TInv, Numbered, Proc, Cursors
    <2> QED  BY <2>1 DEF MaxOf
  <1> HIDE DEF snap
  <1> QED  BY <1>3, <1>4, <1>5, <1>6

\* The files stay their owners' when n writes a snapshot of a shard of its own.
LEMMA SnapshotFiles ==
    ASSUME TInv, FInv, plan' = plan, NEW n \in Nodes, NEW s \in Nat, NEW sh \in Shards,
           Owner(sh) = n, latest'[sh].node = n, latest'[sh].seq = s, latest'[sh].cursors[n] = s,
           \A t \in Shards : t # sh => latest'[t] = latest[t],
           \A j \in journals' : \A o \in j.ops :
               /\ o.from = Owner(j.shard)
               /\ \A g \in 1..2 : j.shard \in Generations[g] => Home(g, o) = j.shard
    PROVE  FilesOfOwners'
  <1>1. \A t : Owner(t)' = Owner(t)  BY DEF Owner
  <1>2. \A g, o : Home(g, o)' = Home(g, o)  BY DEF Home
  <1>3. \A j \in journals' : \A o \in j.ops :
               /\ o.from = Owner(j.shard)'
               /\ \A g \in 1..2 : j.shard \in Generations[g] => Home(g, o) = j.shard
    BY <1>1
  <1>4. ASSUME NEW t \in Shards
        PROVE  \/ latest'[t] = NoSnapshot
               \/ /\ latest'[t].node = Owner(t)'
                  /\ latest'[t].cursors[Owner(t)'] <= latest'[t].seq
    <2>1. Owner(t)' = Owner(t)  BY <1>1
    <2>2. CASE t = sh  BY <2>1, <2>2
    <2>3. CASE t # sh  BY <2>1, <2>3 DEF FInv, FilesOfOwners
    <2> QED  BY <2>2, <2>3
  <1>5. NoSnapshot' = NoSnapshot  BY DEF NoSnapshot
  <1> QED  BY <1>3, <1>4, <1>5 DEF FilesOfOwners, Home

\* A checkpoint: the journals it removes are of a shard whose flushed operations its primary
\* holds, the pending ones included.
LEMMA FlushedCheckpoint ==
    ASSUME TInv, FInv, NEW n \in Nodes, NEW sh \in Shards, Checkpoint(n, sh)
    PROVE  FInv'
  <1> DEFINE me == node[n]
             files == journals \cup JournalsOf(n, me)
  <1>1. /\ used.writes \in Nat /\ me \in Proc(used.writes) /\ me.phase = "up"
        /\ ~shardMap.resharding /\ me.map = shardMap /\ shardMap.gen \in 1..2
        /\ Ahead(n, me) /\ Holds(n, me) /\ ToWrite(n, me)
    BY PlanFacts DEF TInv, Numbered, RInv, MapKnown, Quiet, FInv, ProcsOk, ProcOk, InStep, Checkpoint
  <1>2. Owner(sh) = n /\ sh \in Generations[shardMap.gen]
    BY <1>1 DEF Checkpoint, IsPrimary, Owner, Owned, ShardsOf
  <1>3. /\ plan' = plan /\ shardMap' = shardMap /\ stored' = stored \cup Own(n, me.pending)
        /\ WriteSnapshot(files, n, me, sh)
        /\ node' = [node EXCEPT ![n] = [me EXCEPT !.pending = {}, !.dirty = @ \ {sh}]]
    <2>1. node' = [node EXCEPT ![n].pending = {}, ![n].dirty = @ \ {sh}]  BY DEF Checkpoint
    <2>2. node' = [node EXCEPT ![n] = [me EXCEPT !.pending = {}, !.dirty = @ \ {sh}]]
      BY <2>1 DEF TInv, Numbered
    <2> QED  BY <2>2 DEF Checkpoint
  <1>4. me.restored[n][sh] <= me.seq /\ me.seq \in Nat
    BY <1>1, <1>2 DEF Ahead, Proc
  <1> HIDE DEF me, files
  <1>5. /\ latest'[sh].ops = OfShard(me.ops, me.map, sh) /\ latest'[sh].node = n
        /\ latest'[sh].seq = me.seq /\ latest'[sh].cursors[n] = me.seq
        /\ \A t \in Shards : t # sh => latest'[t] = latest[t]
    BY <1>1, <1>2, <1>3, <1>4, SnapshotLeft
  <1>6. journals' \subseteq files /\ \A j \in files : j.shard # sh => j \in journals'
    BY <1>1, <1>2, <1>3, <1>4, SnapshotLeft
  <1>7. \A o \in stored' : o \in stored \/ (o \in me.pending /\ o.from = n)
    BY <1>3 DEF Own
  <1>8. \A o \in me.pending : o.from = n => o \in me.ops /\ Owner(Home(shardMap.gen, o)) = n
    BY <1>1 DEF ToWrite
  <1>9. StoredFound'
    <2> SUFFICES ASSUME NEW o \in stored' PROVE Found(o, Home(SourceGen(shardMap), o))'
      BY DEF StoredFound
    <2>1. PICK t : t = Home(shardMap.gen, o)  OBVIOUS
    <2>2. t = Home(SourceGen(shardMap), o)'  BY <1>1, <1>3, <2>1 DEF SourceGen, Home
    <2>3. t \in Shards
      <3>1. o.id \in Ids  BY <1>1, <1>7 DEF TInv, Numbered, UpTo, Proc
      <3> QED  BY <1>1, <2>1, <3>1, ShardFacts DEF Home
    <2>4. Found(o, t)'
      <3>1. CASE t = sh
        <4>1. o \in me.ops  BY <1>1, <1>2, <1>7, <1>8, <2>1, <3>1 DEF Holds
        <4>2. ShardForObject(me.map, o) = sh  BY <1>1, <2>1, <3>1 DEF ShardForObject, Home
        <4>3. o \in latest'[t].ops  BY <1>5, <3>1, <4>1, <4>2 DEF OfShard
        <4> QED  BY <4>3 DEF Found
      <3>2. CASE t # sh
        <4>1. latest'[t] = latest[t] /\ \A j \in files : j.shard = t => j \in journals'
          BY <1>5, <1>6, <2>3, <3>2
        <4>2. CASE o \in stored
          <5>1. Found(o, t)  BY <1>1, <2>1, <4>2 DEF FInv, StoredFound, SourceGen
          <5> QED  BY <4>1, <5>1, FoundKept DEF files
        <4>3. CASE o \in me.pending /\ o.from = n
          BY <1>1, <2>1, <4>1, <4>3, PendingFound DEF me, files
        <4> QED  BY <1>7, <4>2, <4>3
      <3> QED  BY <3>1, <3>2
    <2> QED  BY <2>2, <2>4 DEF Found
  <1>10. FilesOfOwners'
    <2>1. \A j \in files : \A o \in j.ops :
            /\ o.from = Owner(j.shard)
            /\ \A g \in 1..2 : j.shard \in Generations[g] => Home(g, o) = j.shard
      BY <1>1, JournalsHome DEF FInv, FilesOfOwners, files, me
    <2> QED  BY <1>2, <1>3, <1>4, <1>5, <1>6, <2>1, SnapshotFiles
  <1>11. TargetsWhole'
    <2>1. ASSUME shardMap.gen = 1, NEW t \in Generations[2] PROVE latest'[t] = NoSnapshot
      <3>1. t \in Shards /\ t # sh  BY <1>2, <2>1, ShardFacts, RecoveryAssumption
      <3> QED  BY <1>5, <2>1, <3>1 DEF FInv, TargetsWhole
    <2> QED  BY <1>1, <1>3, <2>1 DEF FInv, TargetsWhole, NoSnapshot
  <1>12. PICK v : /\ node' = [node EXCEPT ![n] = v]
                  /\ v.phase = "up" /\ v.map = me.map /\ v.seq = me.seq /\ v.ops = me.ops
                  /\ v.restored = me.restored /\ v.pending = {} /\ v.log = me.log
    <2> DEFINE w == [me EXCEPT !.pending = {}, !.dirty = @ \ {sh}]
    <2>1. /\ w.phase = "up" /\ w.map = me.map /\ w.seq = me.seq /\ w.ops = me.ops
          /\ w.restored = me.restored /\ w.pending = {} /\ w.log = me.log
      BY <1>1 DEF Proc
    <2>2. node' = [node EXCEPT ![n] = w]  BY <1>3
    <2> HIDE DEF w
    <2> QED  BY <2>1, <2>2
  <1>13. ProcOk(n, v)'
    <2>0. \A t : Owner(t)' = Owner(t)  BY <1>3 DEF Owner
    <2>1. InStep(n, v)'  BY <1>1, <1>3, <1>12 DEF InStep
    <2>2. Ahead(n, v)'
      <3>1. ASSUME NEW t \in Shards, Owner(t) = n
            PROVE  /\ v.restored[n][t] <= v.seq
                   /\ t \in Generations[shardMap.gen] => latest'[t].cursors[n] <= v.seq
        <4>1. CASE t = sh  BY <1>1, <1>4, <1>5, <1>12, <3>1, <4>1 DEF Ahead
        <4>2. CASE t # sh  BY <1>1, <1>5, <1>12, <3>1, <4>2 DEF Ahead
        <4> QED  BY <4>1, <4>2
      <3> QED  BY <1>3, <2>0, <3>1 DEF Ahead
    <2>3. Holds(n, v)'  BY <1>1, <1>3, <1>7, <1>8, <1>12, <2>0 DEF Holds, Home
    <2>4. ToWrite(n, v)'  BY <1>1, <1>3, <1>12, <2>0 DEF ToWrite, Home
    <2> QED  BY <2>1, <2>2, <2>3, <2>4 DEF ProcOk
  <1>14. ProcsOk'
    <2>1. \A o \in stored' : o \in stored \/ Owner(Home(shardMap.gen, o)) = n  BY <1>7, <1>8
    <2>2. \A t \in Shards : Owner(t) # n =>
               /\ latest'[t] = latest[t]
               /\ \A j \in journals : j.shard = t => j \in journals'
      BY <1>2, <1>5, <1>6 DEF files
    <2> QED  BY <1>1, <1>3, <1>12, <1>13, <2>1, <2>2, OneWrites
  <1> QED  BY <1>9, <1>10, <1>11, <1>14 DEF FInv

\* The source shards show the same numbers when their files are left alone.
LEMMA SameSource ==
    ASSUME NEW S, \A t \in S : latest'[t] = latest[t],
           \A j : j.shard \in S => (j \in journals <=> j \in journals'), NEW m
    PROVE  RestoredSeq(m, Scopes(S))' = RestoredSeq(m, Scopes(S))
  <1>1. Scopes(S)' = Scopes(S) /\ Scopes(S) \subseteq S
    <2>1. \A t \in S : (\E j \in journals : j.shard = t) <=> (\E j \in journals' : j.shard = t)
      OBVIOUS
    <2> QED  BY <2>1 DEF Scopes, NoSnapshot
  <1>2. PICK R : R = Scopes(S) /\ R \subseteq S  BY <1>1
  <1>3. \A t \in R : OpenJournals(t)' = OpenJournals(t)
    BY <1>2 DEF OpenJournals, Covered
  <1>4. \A t \in R : \A j \in OpenJournals(t) : Beyond(j)' = Beyond(j)
    BY <1>2 DEF OpenJournals, Beyond
  <1>5. \A t \in R : UNION {Beyond(j)' : j \in OpenJournals(t)} = UNION {Beyond(j) : j \in OpenJournals(t)}
    BY <1>4
  <1>6. JournalOps(R)' = JournalOps(R)
    BY <1>3, <1>5 DEF JournalOps
  <1>7. {t \in R : latest'[t].node = m} = {t \in R : latest[t].node = m}  BY <1>2
  <1>8. {latest'[sh].seq : sh \in {t \in R : latest'[t].node = m}}
          = {latest[sh].seq : sh \in {t \in R : latest[t].node = m}}
    BY <1>2, <1>7
  <1>9. RestoredSeq(m, R)' = RestoredSeq(m, R)  BY <1>6, <1>8 DEF RestoredSeq
  <1> QED  BY <1>1, <1>2, <1>9 DEF RestoredSeq

\* The checkpoint of a target: it is whole, and the source shards stay as they are.
LEMMA FlushedCheckpointTarget ==
    ASSUME TInv, FInv, NEW n \in Nodes, NEW sh \in Shards, CheckpointTarget(n, sh)
    PROVE  FInv'
  <1> DEFINE me == node[n]
  <1>1. /\ used.writes \in Nat /\ me \in Proc(used.writes) /\ me.phase = "restored"
        /\ shardMap.gen = 2 /\ me.map.gen = 2
        /\ InStep(n, me) /\ Ahead(n, me) /\ Holds(n, me) /\ ToWrite(n, me)
    BY PlanFacts DEF TInv, Numbered, FInv, ProcsOk, ProcOk, InStep, CheckpointTarget
  <1>2. Owner(sh) = n /\ sh \in Generations[2]
    BY <1>1 DEF CheckpointTarget, InStep
  <1>3. /\ plan' = plan /\ shardMap' = shardMap /\ stored' = stored
        /\ WriteSnapshot(journals, n, me, sh)
        /\ node' = [node EXCEPT ![n] = [me EXCEPT !.todo = @ \ {sh}]]
    <2>1. node' = [node EXCEPT ![n].todo = @ \ {sh}]  BY DEF CheckpointTarget
    <2>2. node' = [node EXCEPT ![n] = [me EXCEPT !.todo = @ \ {sh}]]
      BY <2>1 DEF TInv, Numbered
    <2> QED  BY <2>2 DEF CheckpointTarget
  <1>4. me.restored[n][sh] <= me.seq /\ me.seq \in Nat
    BY <1>1, <1>2 DEF Ahead, Proc
  <1> HIDE DEF me
  <1>5. /\ latest'[sh].ops = OfShard(me.ops, me.map, sh) /\ latest'[sh].node = n
        /\ latest'[sh].seq = me.seq /\ latest'[sh].cursors[n] = me.seq
        /\ \A t \in Shards : t # sh => latest'[t] = latest[t]
    BY <1>1, <1>2, <1>3, <1>4, SnapshotLeft
  <1>6. journals' \subseteq journals /\ \A j \in journals : j.shard # sh => j \in journals'
    BY <1>1, <1>2, <1>3, <1>4, SnapshotLeft
  <1>7. \A o \in stored : Home(2, o) = sh => o \in latest'[sh].ops
    <2> SUFFICES ASSUME NEW o \in stored, Home(2, o) = sh PROVE o \in latest'[sh].ops
      OBVIOUS
    <2>1. o \in me.ops  BY <1>1, <1>2 DEF Holds
    <2>2. ShardForObject(me.map, o) = sh  BY <1>1 DEF ShardForObject, Home
    <2> QED  BY <1>5, <2>1, <2>2 DEF OfShard
  <1>8. \A m \in Nodes : SourceSeq(m)' = SourceSeq(m)
    <2>1. \A t \in Generations[1] : t \in Shards /\ t # sh
      BY <1>2, ShardFacts, RecoveryAssumption
    <2>2. \A t \in Generations[1] : latest'[t] = latest[t]  BY <1>5, <2>1
    <2>3. \A j : j.shard \in Generations[1] => (j \in journals <=> j \in journals')
      BY <1>6, <2>1
    <2> QED  BY <2>2, <2>3, SameSource DEF SourceSeq
  <1>9. StoredFound'
    <2> SUFFICES ASSUME NEW o \in stored PROVE Found(o, Home(SourceGen(shardMap), o))'
      BY <1>3 DEF StoredFound
    <2>1. PICK t : t = Home(SourceGen(shardMap), o)  OBVIOUS
    <2>2. t = Home(SourceGen(shardMap), o)'  BY <1>3, <2>1 DEF SourceGen, Home
    <2>3. t \in Shards  BY <2>1, StoredTyped
    <2>4. CASE t = sh
      <3>1. SourceGen(shardMap) = 2
        <4>1. SourceGen(shardMap) \in 1..2 /\ Home(1, o) \in Generations[1]  BY StoredTyped
        <4>2. SourceGen(shardMap) # 1  BY <1>2, <2>1, <2>4, <4>1, RecoveryAssumption
        <4> QED  BY <4>1, <4>2
      <3>2. o \in latest'[t].ops  BY <1>7, <2>1, <2>4, <3>1
      <3> QED  BY <2>2, <3>2 DEF Found
    <2>5. CASE t # sh
      <3>1. latest'[t] = latest[t] /\ \A j \in journals : j.shard = t => j \in journals'
        BY <1>5, <1>6, <2>3, <2>5
      <3>2. Found(o, t)  BY <2>1 DEF FInv, StoredFound
      <3>3. Found(o, t)'  BY <3>1, <3>2, FoundKept
      <3> QED  BY <2>2, <3>3 DEF Found
    <2> QED  BY <2>4, <2>5
  <1>10. FilesOfOwners'
    <2>1. \A j \in journals' : \A o \in j.ops :
            /\ o.from = Owner(j.shard)
            /\ \A g \in 1..2 : j.shard \in Generations[g] => Home(g, o) = j.shard
      BY <1>6 DEF FInv, FilesOfOwners
    <2> QED  BY <1>2, <1>3, <1>4, <1>5, <2>1, SnapshotFiles
  <1>11. TargetsWhole'
    <2>0. \A t : Owner(t)' = Owner(t)  BY <1>3 DEF Owner
    <2>1. ASSUME shardMap.resharding, NEW t \in Generations[2]
          PROVE  /\ latest'[t].cursors[Owner(t)] <= SourceSeq(Owner(t))'
                 /\ latest'[t].gen = 2 => \A o \in stored : Home(2, o) = t => o \in latest'[t].ops
      <3>1. t \in Shards  BY <2>1, ShardFacts
      <3>2. Owner(t) \in Nodes  BY <3>1, OwnerFacts DEF TInv, Numbered
      <3>3. SourceSeq(Owner(t))' = SourceSeq(Owner(t))
        <4>1. PICK m \in Nodes : m = Owner(t)  BY <3>2
        <4>2. SourceSeq(m)' = SourceSeq(m)  BY <1>8
        <4>3. m = Owner(t)'  BY <2>0, <4>1
        <4> QED  BY <4>1, <4>2, <4>3 DEF SourceSeq, RestoredSeq
      <3>4. CASE t = sh
        <4>1. me.seq = SourceSeq(n)  BY <1>1, <2>1 DEF InStep
        <4>2. latest'[t].cursors[Owner(t)] = me.seq  BY <1>2, <1>5, <3>4
        <4> QED  BY <1>2, <1>4, <1>7, <3>3, <3>4, <4>1, <4>2
      <3>5. CASE t # sh
        <4>1. latest'[t] = latest[t]  BY <1>5, <3>1, <3>5
        <4> QED  BY <2>1, <3>3, <4>1 DEF FInv, TargetsWhole
      <3> QED  BY <3>4, <3>5
    <2> QED  BY <1>1, <1>3, <2>0, <2>1 DEF FInv, TargetsWhole, Home
  <1>12. PICK v : /\ node' = [node EXCEPT ![n] = v]
                  /\ v.phase = "restored" /\ v.map = me.map /\ v.seq = me.seq /\ v.ops = me.ops
                  /\ v.restored = me.restored /\ v.pending = me.pending /\ v.log = me.log
                  /\ v.todo \subseteq me.todo
    <2> DEFINE w == [me EXCEPT !.todo = @ \ {sh}]
    <2>1. /\ w.phase = "restored" /\ w.map = me.map /\ w.seq = me.seq /\ w.ops = me.ops
          /\ w.restored = me.restored /\ w.pending = me.pending /\ w.log = me.log
          /\ w.todo \subseteq me.todo
      BY <1>1 DEF Proc
    <2>2. node' = [node EXCEPT ![n] = w]  BY <1>3
    <2> HIDE DEF w
    <2> QED  BY <2>1, <2>2
  <1>13. ProcOk(n, v)'
    <2>0. \A t : Owner(t)' = Owner(t)  BY <1>3 DEF Owner
    <2>1. InStep(n, v)'
      <3>1. SourceSeq(n)' = SourceSeq(n)  BY <1>8
      <3> QED  BY <1>1, <1>3, <1>12, <2>0, <3>1 DEF InStep
    <2>2. Ahead(n, v)'
      <3>1. ASSUME NEW t \in Shards, Owner(t) = n
            PROVE  /\ v.restored[n][t] <= v.seq
                   /\ t \in Generations[shardMap.gen] => latest'[t].cursors[n] <= v.seq
        <4>1. CASE t = sh  BY <1>1, <1>4, <1>5, <1>12, <3>1, <4>1 DEF Ahead
        <4>2. CASE t # sh  BY <1>1, <1>5, <1>12, <3>1, <4>2 DEF Ahead
        <4> QED  BY <4>1, <4>2
      <3> QED  BY <1>3, <2>0, <3>1 DEF Ahead
    <2>3. Holds(n, v)'  BY <1>1, <1>3, <1>12, <2>0 DEF Holds, Home
    <2>4. ToWrite(n, v)'
      <3>1. v.pending = {} /\ v.log = {}  BY <1>1, <1>12 DEF ToWrite
      <3> QED  BY <3>1 DEF ToWrite
    <2> QED  BY <2>1, <2>2, <2>3, <2>4 DEF ProcOk
  <1>14. ProcsOk'
    <2>1. \A t \in Shards : Owner(t) # n =>
               /\ latest'[t] = latest[t]
               /\ \A j \in journals : j.shard = t => j \in journals'
      BY <1>2, <1>5, <1>6
    <2>2. \A o \in stored' : o \in stored \/ Owner(Home(shardMap.gen, o)) = n  BY <1>3
    <2> QED  BY <1>3, <1>8, <1>12, <1>13, <2>1, <2>2, OneWrites
  <1> QED  BY <1>9, <1>10, <1>11, <1>14 DEF FInv

\* finalize: with every target written, what was flushed is found in the targets.
LEMMA FlushedFinalize ==
    ASSUME AllTakePart, TInv, FInv, NEW n \in Nodes, Finalize(n)
    PROVE  FInv'
  <1> DEFINE me == node[n]
  <1>1. /\ me \in Proc(used.writes) /\ me.phase = "restored" /\ plan \in Plans
        /\ shardMap \in Map /\ shardMap.gen = 2 /\ me.map.gen = 2
        /\ InStep(n, me) /\ Ahead(n, me) /\ Holds(n, me) /\ ToWrite(n, me)
    BY DEF TInv, Numbered, FInv, ProcsOk, ProcOk, InStep, Finalize
  <1>2. /\ plan' = plan /\ latest' = latest /\ journals' = journals /\ stored' = stored
        /\ shardMap'.gen = 2 /\ shardMap'.resharding = FALSE
        /\ \A sh : Owner(sh)' = Owner(sh)
    BY <1>1 DEF Finalize, Activated, Map, Owner
  <1>3. ASSUME shardMap.resharding, NEW o \in stored
        PROVE  o \in latest[Home(2, o)].ops
    <2>1. Home(1, o) \in Generations[1] /\ Home(2, o) \in Generations[2]  BY <1>3, StoredTyped
    <2>2. Found(o, Home(1, o))  BY <1>1, <1>3 DEF FInv, StoredFound, SourceGen
    <2>3. Home(1, o) \in Scopes(Generations[1])  BY <2>1, <2>2, FoundInScopes
    <2>4. ReshardScopes(n, me.map) # {}
      <3>1. me.map = shardMap  BY <1>1, <1>3 DEF InStep
      <3>2. Source(me.map) = Generations[1]  BY <1>1, <1>3, <3>1 DEF Source
      <3>3. Owned(n, me.map) # {}
        <4>1. plan.reshard  BY <1>1 DEF FInv, TargetsWhole
        <4>2. PICK sh \in Generations[2] : n \in PeersFor(sh)
          BY <1>1, <4>1 DEF AllTakePart
        <4> QED  BY <1>1, <4>2 DEF Owned, ShardsOf
      <3> QED  BY <2>3, <3>2, <3>3 DEF ReshardScopes
    <2>5. \A sh \in Generations[2] : latest[sh].gen = 2
      BY <1>1, <2>4 DEF Finalize, Ready, ShardsOf
    <2> QED  BY <1>3, <2>1, <2>5 DEF FInv, TargetsWhole
  <1>4. StoredFound'
    <2> SUFFICES ASSUME NEW o \in stored PROVE Found(o, Home(SourceGen(shardMap), o))'
      BY <1>2 DEF StoredFound
    <2>1. PICK t : t = Home(2, o)  OBVIOUS
    <2>2. t = Home(SourceGen(shardMap), o)'  BY <1>2, <2>1 DEF SourceGen, Home
    <2>3. Found(o, t)
      <3>1. CASE shardMap.resharding  BY <1>3, <2>1, <3>1 DEF Found
      <3>2. CASE ~shardMap.resharding
        BY <1>1, <2>1, <3>2 DEF FInv, StoredFound, SourceGen
      <3> QED  BY <3>1, <3>2
    <2>4. Found(o, t)'  BY <1>2, <2>3, FoundKept
    <2> QED  BY <2>2, <2>4 DEF Found
  <1>5. FilesOfOwners'  BY <1>2 DEF FInv, FilesOfOwners, Home, NoSnapshot
  <1>6. TargetsWhole'  BY <1>1, <1>2 DEF FInv, TargetsWhole
  <1>7. PICK v : /\ node' = [node EXCEPT ![n] = v]
                 /\ v.phase = "up" /\ v.map = shardMap' /\ v.seq = me.seq /\ v.ops = me.ops
                 /\ v.restored = me.restored /\ v.pending = {} /\ v.log = {}
    <2> DEFINE w == [me EXCEPT !.phase = "up", !.map = shardMap']
    <2>1. /\ w.phase = "up" /\ w.map = shardMap' /\ w.seq = me.seq /\ w.ops = me.ops
          /\ w.restored = me.restored /\ w.pending = {} /\ w.log = {}
      BY <1>1 DEF Proc, ToWrite
    <2>2. node' = [node EXCEPT ![n] = w]
      <3>1. node' = [node EXCEPT ![n].phase = "up", ![n].map = shardMap']
        BY DEF Finalize, Serving
      <3> QED  BY <3>1 DEF TInv, Numbered
    <2> HIDE DEF w
    <2> QED  BY <2>1, <2>2
  <1>8. ASSUME NEW m \in Nodes PROVE ProcOk(m, node[m])'
    <2>1. CASE m = n
      <3>1. PICK u : u = node'[n]  OBVIOUS
      <3>2. u = v  BY <1>7, <3>1 DEF TInv, Numbered
      <3> HIDE DEF me
      <3>3. InStep(n, u)'  BY <1>2, <1>7, <3>2 DEF InStep
      <3>4. Ahead(n, u)'  BY <1>1, <1>2, <1>7, <3>2 DEF Ahead
      <3>5. Holds(n, u)'  BY <1>1, <1>2, <1>7, <3>2 DEF Holds, Home
      <3>6. ToWrite(n, u)'  BY <1>7, <3>2 DEF ToWrite
      <3>7. ProcOk(n, u)'  BY <3>3, <3>4, <3>5, <3>6 DEF ProcOk
      <3> QED  BY <2>1, <3>1, <3>7 DEF ProcOk, InStep, Ahead, Holds, ToWrite
    <2>2. CASE m # n
      <3>1. PICK u : u = node[m]  OBVIOUS
      <3>2. ProcOk(m, u)  BY <3>1 DEF FInv, ProcsOk
      <3>3. node'[m] = u  BY <1>7, <2>2, <3>1 DEF TInv, Numbered
      <3>4. u.phase = "up" => shardMap' = shardMap
        <4>1. u.phase = "up" => ~shardMap.resharding  BY <3>1 DEF TInv, RInv, Quiet
        <4>2. ~shardMap.resharding => shardMap' = shardMap
          BY <1>1 DEF Finalize, Activated, Map
        <4> QED  BY <4>1, <4>2
      <3>5. InStep(m, u) => InStep(m, u)'  BY <1>1, <1>2, <3>4 DEF InStep
      <3>6. Ahead(m, u) => Ahead(m, u)'  BY <1>1, <1>2 DEF Ahead
      <3>7. Holds(m, u) => Holds(m, u)'  BY <1>1, <1>2 DEF Holds, Home
      <3>8. ToWrite(m, u)'
        <4>1. ToWrite(m, u)  BY <3>2 DEF ProcOk
        <4>2. \A o, sh : Found(o, sh)' <=> Found(o, sh)  BY <1>2 DEF Found, Covered
        <4> QED  BY <1>1, <1>2, <4>1, <4>2 DEF ToWrite, Home
      <3>9. ProcOk(m, u)'  BY <3>2, <3>5, <3>6, <3>7, <3>8 DEF ProcOk
      <3> QED  BY <3>3, <3>9 DEF ProcOk, InStep, Ahead, Holds, ToWrite
    <2> QED  BY <2>1, <2>2
  <1> QED  BY <1>4, <1>5, <1>6, <1>8 DEF FInv, ProcsOk

\* publishShardMap: the targets have no files yet, and no process is there.
LEMMA FlushedPublish ==
    ASSUME TInv, FInv, PublishReshard
    PROVE  FInv'
  <1>1. /\ plan' = plan /\ latest' = latest /\ journals' = journals /\ stored' = stored
        /\ node' = node /\ shardMap.gen = 1 /\ ~shardMap.resharding
        /\ shardMap'.gen = 2 /\ shardMap'.resharding /\ plan.reshard
        /\ \A sh : Owner(sh)' = Owner(sh)
    BY DEF PublishReshard, Owner
  <1>2. StoredFound'
    <2> SUFFICES ASSUME NEW o \in stored PROVE Found(o, Home(SourceGen(shardMap), o))'
      BY <1>1 DEF StoredFound
    <2>1. PICK t : t = Home(1, o)  OBVIOUS
    <2>2. t = Home(SourceGen(shardMap), o)'  BY <1>1, <2>1 DEF SourceGen, Home
    <2>3. Found(o, t)  BY <1>1, <2>1 DEF FInv, StoredFound, SourceGen
    <2>4. Found(o, t)'  BY <1>1, <2>3, FoundKept
    <2> QED  BY <2>2, <2>4 DEF Found
  <1>3. FilesOfOwners'  BY <1>1 DEF FInv, FilesOfOwners, Home, NoSnapshot
  <1>4. TargetsWhole'
    <2>1. ASSUME NEW t \in Generations[2]
          PROVE  latest'[t].cursors[Owner(t)] <= SourceSeq(Owner(t))' /\ latest'[t].gen # 2
      <3>1. latest'[t] = NoSnapshot /\ t \in Shards
        BY <1>1, <2>1, ShardFacts DEF FInv, TargetsWhole
      <3>2. PICK m \in Nodes : m = Owner(t)  BY <3>1, OwnerFacts DEF TInv, Numbered
      <3>3. SourceSeq(m)' = SourceSeq(m)
        BY <1>1, SameSource DEF SourceSeq
      <3>4. SourceSeq(m) \in Nat
        <4>1. used.writes \in Nat /\ FilesTyped(used.writes)
          BY PlanFacts DEF TInv, Numbered
        <4>2. Scopes(Generations[1]) \in SUBSET Shards  BY ShardFacts DEF Scopes
        <4> QED  BY <4>1, <4>2, RestoredSeqType DEF SourceSeq
      <3>5. latest'[t].cursors[m] = 0 /\ latest'[t].gen = 0  BY <3>1, <3>2 DEF NoSnapshot
      <3>6. SourceSeq(Owner(t))' = SourceSeq(m)
        BY <1>1, <3>2, <3>3 DEF SourceSeq, RestoredSeq
      <3> QED  BY <3>2, <3>4, <3>5, <3>6
    <2> QED  BY <1>1, <2>1 DEF TargetsWhole
  <1>5. ASSUME NEW m \in Nodes PROVE ProcOk(m, node[m])'
    <2>1. node[m].phase = "down" /\ ToWrite(m, node[m])
      BY DEF PublishReshard, FInv, ProcsOk, ProcOk
    <2>2. node[m].pending = {} /\ node[m].log = {}  BY <2>1 DEF ToWrite
    <2> QED  BY <1>1, <2>1, <2>2 DEF ProcOk, ToWrite
  <1> QED  BY <1>2, <1>3, <1>4, <1>5 DEF FInv, ProcsOk

\* A cluster that has never run has flushed nothing.
LEMMA FlushedInit == Init => FInv
  <1> SUFFICES ASSUME Init PROVE FInv
    OBVIOUS
  <1>1. /\ shardMap.gen = 1 /\ ~shardMap.resharding /\ stored = {} /\ journals = {}
        /\ \A sh \in Shards : latest[sh] = NoSnapshot /\ plan \in Plans
    BY DEF Init
  <1>2. StoredFound  BY <1>1 DEF StoredFound
  <1>3. FilesOfOwners  BY <1>1 DEF FilesOfOwners
  <1>4. TargetsWhole
    <2>1. \A t \in Generations[2] : t \in Shards  BY ShardFacts
    <2> QED  BY <1>1, <2>1 DEF TargetsWhole
  <1>5. ASSUME NEW n \in Nodes PROVE ProcOk(n, node[n])
    <2>1. node[n] = Stopped \/ node[n] = [Stopped EXCEPT !.phase = "up", !.map = shardMap]
      BY DEF Init
    <2>2. CASE node[n] = Stopped  BY <2>2 DEF ProcOk, Stopped, ToWrite
    <2>3. CASE node[n] = [Stopped EXCEPT !.phase = "up", !.map = shardMap]
      <3>1. /\ node[n].map = shardMap /\ node[n].phase = "up" /\ node[n].seq = 0
            /\ node[n].pending = {} /\ node[n].log = {}
            /\ \A sh \in Shards : node[n].restored[n][sh] = 0
        BY <2>3 DEF Stopped
      <3>2. \A sh \in Shards : latest[sh].cursors[n] = 0  BY <1>1 DEF NoSnapshot
      <3> QED  BY <1>1, <3>1, <3>2 DEF ProcOk, InStep, Ahead, Holds, ToWrite
    <2> QED  BY <2>1, <2>2, <2>3
  <1> QED  BY <1>2, <1>3, <1>4, <1>5 DEF FInv, ProcsOk

\* Every step keeps what was flushed, under the two assumptions on the scenario.
LEMMA FlushedNext ==
    ASSUME PrimariesWrite, AllTakePart, TInv, FInv, [Next]_vars
    PROVE  FInv'
  <1>1. CASE UNCHANGED vars
    <2>1. \A m \in Nodes : ProcOk(m, node'[m])  BY <1>1 DEF vars, FInv, ProcsOk
    <2>2. UNCHANGED Files  BY <1>1 DEF vars, Files
    <2> QED  BY <2>1, <2>2, QuietKeeps
  <1>2. ASSUME NEW n \in Nodes, NEW id \in Ids, Write(n, id) PROVE FInv'
    BY <1>2, FlushedWrite
  <1>3. ASSUME NEW n \in Nodes, Flush(n) \/ Stop(n) PROVE FInv'  BY <1>3, FlushedFlush
  <1>4. ASSUME NEW n \in Nodes, Crash(n) PROVE FInv'  BY <1>4, FlushedCrash
  <1>5. ASSUME NEW n \in Nodes, Start(n) PROVE FInv'  BY <1>5, FlushedStart
  <1>6. ASSUME NEW n \in Nodes, StartReshard(n) PROVE FInv'  BY <1>6, FlushedStartReshard
  <1>7. ASSUME NEW n \in Nodes, Finalize(n) PROVE FInv'  BY <1>7, FlushedFinalize
  <1>8. ASSUME NEW n \in Nodes, Wait(n) \/ Activate(n) PROVE FInv'  BY <1>8, FlushedTurn
  <1>9. ASSUME NEW n \in Nodes, NEW sh \in Shards, Checkpoint(n, sh) PROVE FInv'
    BY <1>9, FlushedCheckpoint
  <1>10. ASSUME NEW n \in Nodes, NEW sh \in Shards, CheckpointTarget(n, sh) PROVE FInv'
    BY <1>10, FlushedCheckpointTarget
  <1>11. ASSUME NEW r \in Nodes, NEW s \in Nodes, NEW sh \in Shards, Pull(r, s, sh) PROVE FInv'
    BY <1>11, FlushedPull
  <1>12. ASSUME NEW r \in Nodes, NEW s \in Nodes, NEW sh \in Shards, CatchUp(r, s, sh) PROVE FInv'
    BY <1>12, FlushedCatchUp
  <1>13. CASE PublishReshard  BY <1>13, FlushedPublish
  <1> QED
    BY <1>1, <1>2, <1>3, <1>4, <1>5, <1>6, <1>7, <1>8, <1>9, <1>10, <1>11, <1>12, <1>13 DEF Next

\* What is found is read by a restore of the shards that are the source.
LEMMA FInvFlushed ==
    ASSUME TInv, FInv
    PROVE  FlushedSurvives
  <1>1. shardMap.gen \in 1..2 /\ SourceGen(shardMap) \in 1..2
        /\ Source(shardMap) = Generations[SourceGen(shardMap)]
    BY DEF TInv, RInv, MapKnown, SourceGen, Source
  <1> SUFFICES ASSUME NEW o \in stored PROVE o \in Recoverable(Source(shardMap))
    BY DEF FlushedSurvives
  <1>2. PICK t : t = Home(SourceGen(shardMap), o)  OBVIOUS
  <1>3. t \in Source(shardMap)  BY <1>1, <1>2, StoredTyped
  <1>4. Found(o, t)  BY <1>2 DEF FInv, StoredFound
  <1> QED  BY <1>3, <1>4, FoundRecoverable

\* The scenario stays, and with it what it is assumed to be.
LEMMA PlanStays ==
    ASSUME PrimariesWrite, AllTakePart, [Next]_vars
    PROVE  PrimariesWrite' /\ AllTakePart'
  <1>1. plan' = plan
    <2>1. ASSUME NEW n \in Nodes, NEW id \in Ids, Write(n, id) PROVE plan' = plan
      BY <2>1 DEF Write
    <2>2. ASSUME NEW n \in Nodes,
                 \/ Flush(n) \/ Stop(n) \/ Crash(n) \/ Start(n)
                 \/ StartReshard(n) \/ Finalize(n) \/ Wait(n) \/ Activate(n)
          PROVE  plan' = plan
      BY <2>2 DEF Flush, Stop, Crash, Start, StartReshard, Finalize, Wait, Activate
    <2>3. ASSUME NEW n \in Nodes, NEW sh \in Shards, Checkpoint(n, sh) \/ CheckpointTarget(n, sh)
          PROVE  plan' = plan
      BY <2>3 DEF Checkpoint, CheckpointTarget
    <2>4. ASSUME NEW r \in Nodes, NEW s \in Nodes, NEW sh \in Shards,
                 Pull(r, s, sh) \/ CatchUp(r, s, sh)
          PROVE  plan' = plan
      BY <2>4 DEF Pull, CatchUp
    <2>5. PublishReshard => plan' = plan  BY DEF PublishReshard
    <2>6. UNCHANGED vars => plan' = plan  BY DEF vars
    <2> QED  BY <2>1, <2>2, <2>3, <2>4, <2>5, <2>6 DEF Next
  <1> QED  BY <1>1 DEF PrimariesWrite, AllTakePart, PeersFor, IsPrimary

\* In every cluster in which the primary of a shard takes its writes and every node owns a
\* target, what a node has flushed stays in the files a restore reads, through checkpoints,
\* compactions, crashes, catch-ups and a change of the shard count (FlushedSurvives).
THEOREM FlushedSurvivesHolds ==
    Spec /\ PrimariesWrite /\ AllTakePart => []FlushedSurvives
  <1> DEFINE I == TInv /\ FInv /\ PrimariesWrite /\ AllTakePart
  <1>1. Init /\ PrimariesWrite /\ AllTakePart => I  BY InitTInv, FlushedInit
  <1>2. I /\ [Next]_vars => I'  BY NextTInv, FlushedNext, PlanStays
  <1>3. I => FlushedSurvives  BY FInvFlushed
  <1> HIDE DEF I
  <1> QED  BY <1>1, <1>2, <1>3, PTL DEF Spec

=============================================================================
