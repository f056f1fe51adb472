---------------------------- MODULE Replication ----------------------------
(***************************************************************************)
(* The replication protocol of src/crdt.js with the HTTP transport of       *)
(* src/interfaces/cluster.js.                                               *)
(*                                                                          *)
(* Every node keeps a log of the operations it issued itself, numbered by   *)
(* its own seq.  A replica pulls: it asks an owner for the operations after *)
(* the cursor it keeps for that owner and shard, applies the batch it gets, *)
(* moves the cursor and acknowledges it.  The owner prunes its log up to    *)
(* the smallest acknowledgement it holds, less retainOps.  A pull behind    *)
(* the pruned part is answered 410; here no durable storage is configured,  *)
(* so the replica can only report LOG_TRUNCATED and try again (module       *)
(* Recovery adds the storage). Two lanes pull independently of one another: *)
(* the periodic anti-entropy pass and the pulls that hints trigger.         *)
(*                                                                          *)
(* Covered: local inserts, replacements, updates and removals, pulls with   *)
(* bounded batches, concurrent pulls of both lanes, answers and             *)
(* acknowledgements that are late, out of order or lost, pruning, 410, the  *)
(* default shard (pulled without a scope) and named shards.                 *)
(* Not covered here: node restarts and dropped collections.                 *)
(***************************************************************************)
EXTENDS Integers, Lww, FiniteSetsExt

CONSTANTS
    Nodes,         \* node ids; their order is that of the id strings
    Ids,           \* object ids
    Shards,        \* shard names
    DefaultShard,  \* the shard that is pulled without a scope
    ShardOf,       \* shardForObject: the shard of each object
    Owners,        \* the peers of each shard
    Lanes,         \* independent pull loops of a replica
    RetainOps,     \* acknowledged operations kept in the log
    BatchSize,     \* syncBatchSize
    MaxOps,        \* bound: operations each node issues
    MaxAckMsgs     \* bound: acknowledgements in flight, the others are lost

ASSUME ReplicationAssumption ==
    /\ Nodes \subseteq Nat \ {0}
    /\ IsFiniteSet(Nodes) /\ IsFiniteSet(Shards)
    /\ ShardOf \in [Ids -> Shards]
    /\ Owners \in [Shards -> SUBSET Nodes]
    /\ RetainOps \in Nat /\ BatchSize \in Nat \ {0} /\ MaxOps \in [Nodes -> Nat]
    /\ MaxAckMsgs \in Nat

VARIABLES
    clock,         \* clock[n]: Lamport counter of n
    seq,           \* seq[n]: number of the last operation n issued
    log,           \* log[n]: the operations of its own that n retains
    trimmed,       \* trimmed[n]: everything up to here was pruned
    scopeTrimmed,  \* scopeTrimmed[n][sh]: last pruned operation of the shard
    lastSeen,      \* lastSeen[r][s][sh]: cursor of r on the log of s
    acks,          \* acks[s][r][sh]: what r acknowledged to s, or NoAck
    rows,          \* rows[n][id]: the object in the store of n
    pulls,         \* pulls in flight, asked or answered
    ackMsgs,       \* acknowledgements in flight
    issued         \* history: every operation ever issued

vars == <<clock, seq, log, trimmed, scopeTrimmed, lastSeen, acks, rows,
          pulls, ackMsgs, issued>>

NoAck == -1

Op == [kind : Kinds, id : Ids, ts : Timestamp, from : Nodes, seq : Nat]

Lane == [lane : Lanes, to : Nodes, from : Nodes, shard : Shards]

Pull ==
    [lane : Lanes, to : Nodes, from : Nodes, shard : Shards,
     phase : {"asked", "truncated"}, after : Nat]
    \cup
    [lane : Lanes, to : Nodes, from : Nodes, shard : Shards,
     phase : {"answered"}, after : Nat, ops : SUBSET Op, lastSeq : Nat]

TypeOK ==
    /\ clock \in [Nodes -> Nat]
    /\ seq \in [Nodes -> Nat]
    /\ log \in [Nodes -> SUBSET Op]
    /\ trimmed \in [Nodes -> Nat]
    /\ scopeTrimmed \in [Nodes -> [Shards -> Nat]]
    /\ lastSeen \in [Nodes -> [Nodes -> [Shards -> Nat]]]
    /\ acks \in [Nodes -> [Nodes -> [Shards -> Nat \cup {NoAck}]]]
    /\ rows \in [Nodes -> [Ids -> Row]]
    /\ pulls \subseteq Pull
    /\ ackMsgs \subseteq [to : Nodes, from : Nodes, shard : Shards, after : Nat]
    /\ issued \subseteq Op

----------------------------------------------------------------------------
MaxOf(a, b) == IF a >= b THEN a ELSE b
MinOf(a, b) == IF a <= b THEN a ELSE b

\* An unscoped pull takes every operation of the node, a scoped one its shard.
MatchesScope(op, sh) == sh = DefaultShard \/ ShardOf[op.id] = sh

\* Mutants: a batch that ends at the cursor refused too, scoped pulls trusted.
NeedsSnapshotAtCursor(n, after, sh) ==
    IF sh = DefaultShard THEN after <= trimmed[n] ELSE after < scopeTrimmed[n][sh]
NeedsSnapshotUnscoped(n, after, sh) == sh = DefaultShard /\ after < trimmed[n]

\* needsSnapshot: operations after the cursor may have left the log.
NeedsSnapshot(n, after, sh) ==
    IF sh = DefaultShard THEN after < trimmed[n] ELSE after < scopeTrimmed[n][sh]

\* _opsAfter: the first BatchSize operations of the scope after the cursor.
OpsAfter(n, after, sh) ==
    LET missing == {o \in log[n] : o.seq > after /\ MatchesScope(o, sh)} IN
    {o \in missing : Cardinality({p \in missing : p.seq <= o.seq}) <= BatchSize}

LastSeq(ops) == Max({o.seq : o \in ops})

\* Mutant: applyRemote without touch.
TouchedNever(c, ops) == c

\* touch: the clock never lags behind a timestamp it has seen.
Touched(c, ops) == Max({c} \cup {o.ts.c : o \in ops})

\* A row after a batch of one node: its operations carry growing timestamps,
\* so the last one on the object decides.
MergeBatch(row, ops) ==
    IF ops = {} THEN row
    ELSE LET last == CHOOSE o \in ops : \A p \in ops : p.seq <= o.seq
         IN  Merge(row, last.kind, last.ts)

ApplyOps(store, ops) ==
    [id \in Ids |-> MergeBatch(store[id], {o \in ops : o.id = id})]

----------------------------------------------------------------------------
Init ==
    /\ clock = [n \in Nodes |-> 0]
    /\ seq = [n \in Nodes |-> 0]
    /\ log = [n \in Nodes |-> {}]
    /\ trimmed = [n \in Nodes |-> 0]
    /\ scopeTrimmed = [n \in Nodes |-> [sh \in Shards |-> 0]]
    /\ lastSeen = [n \in Nodes |-> [m \in Nodes |-> [sh \in Shards |-> 0]]]
    /\ acks = [n \in Nodes |-> [m \in Nodes |-> [sh \in Shards |-> NoAck]]]
    /\ rows = [n \in Nodes |-> [id \in Ids |-> NoRow]]
    /\ pulls = {}
    /\ ackMsgs = {}
    /\ issued = {}

\* nextTs and _logOp: the next operation of a node.
NewOp(n, kind, id) ==
    [kind |-> kind, id |-> id, ts |-> [c |-> clock[n] + 1, n |-> n],
     from |-> n, seq |-> seq[n] + 1]

\* _commitLocalOps: stamp, log and apply, in one synchronous step.
Commit(n, kind, id) ==
    LET op == NewOp(n, kind, id) IN
    /\ n \in Owners[ShardOf[id]]
    /\ seq[n] < MaxOps[n]
    /\ clock' = [clock EXCEPT ![n] = @ + 1]
    /\ seq' = [seq EXCEPT ![n] = @ + 1]
    /\ log' = [log EXCEPT ![n] = @ \cup {op}]
    /\ rows' = [rows EXCEPT ![n] = ApplyOps(@, {op})]
    /\ issued' = issued \cup {op}
    /\ UNCHANGED <<trimmed, scopeTrimmed, lastSeen, acks, pulls, ackMsgs>>

\* insertMany refuses an object that exists.
Insert(n, id) == ~rows[n][id].live /\ Commit(n, "putObj", id)

\* replaceMany and updateMany write whole objects and create missing ones.
Replace(n, id) == Commit(n, "putObj", id)

\* removeMany skips an object that does not exist.
Remove(n, id) == rows[n][id].live /\ Commit(n, "delObj", id)

\* Pulls that wait for one another: syncAll asks one peer after the other, and
\* a hint for a peer and shard that is being pulled waits in pullQueue.
SameLoop(p, l) ==
    /\ p.to = l.to /\ p.lane = l.lane
    /\ l.lane = "antiEntropy" \/ (p.from = l.from /\ p.shard = l.shard)

\* syncPeer reads the cursor and sends GET /replicate.
StartPull(l) ==
    /\ l.to # l.from /\ {l.to, l.from} \subseteq Owners[l.shard]
    /\ \A p \in pulls : ~SameLoop(p, l)
    /\ pulls' = pulls \cup
         {[lane |-> l.lane, to |-> l.to, from |-> l.from, shard |-> l.shard,
           phase |-> "asked", after |-> lastSeen[l.to][l.from][l.shard]]}
    /\ UNCHANGED <<clock, seq, log, trimmed, scopeTrimmed, lastSeen, acks, rows,
                   ackMsgs, issued>>

Of(p, l) == p.lane = l.lane /\ p.to = l.to /\ p.from = l.from /\ p.shard = l.shard

\* GET /replicate at the owner: a batch, or 410.
Answer(p) ==
    IF NeedsSnapshot(p.from, p.after, p.shard)
    THEN [p EXCEPT !.phase = "truncated"]
    ELSE [lane |-> p.lane, to |-> p.to, from |-> p.from, shard |-> p.shard,
          phase |-> "answered", after |-> p.after,
          ops |-> OpsAfter(p.from, p.after, p.shard), lastSeq |-> seq[p.from]]

Serve(l) ==
    /\ \E p \in pulls :
          /\ Of(p, l) /\ p.phase = "asked"
          /\ pulls' = (pulls \ {p}) \cup {Answer(p)}
    /\ UNCHANGED <<clock, seq, log, trimmed, scopeTrimmed, lastSeen, acks, rows,
                   ackMsgs, issued>>

\* The cursor an answer leads to.
Seen(p) == IF p.ops = {} THEN p.lastSeq ELSE LastSeq(p.ops)

\* Mutant: the last answer to arrive sets the cursor.
AdvancedBlindly(cursor, p) == Seen(p)

\* Both lanes may move one cursor: it never goes back.
Advanced(cursor, p) == MaxOf(cursor, Seen(p))

\* _ack swallows every failure: an acknowledgement may be lost.
Ack(p) == [to |-> p.from, from |-> p.to, shard |-> p.shard, after |-> Seen(p)]

\* syncPeer applies the batch, moves the cursor and sends the acknowledgement.
Receive(l) ==
    \E p \in pulls :
        /\ Of(p, l) /\ p.phase = "answered"
        /\ clock' = [clock EXCEPT ![p.to] = Touched(@, p.ops)]
        /\ rows' = [rows EXCEPT ![p.to] = ApplyOps(@, p.ops)]
        /\ lastSeen' = [lastSeen EXCEPT ![p.to][p.from][p.shard] = Advanced(@, p)]
        /\ ackMsgs' \in {ackMsgs, ackMsgs \cup {Ack(p)}}
        /\ Cardinality(ackMsgs') <= MaxAckMsgs
        /\ pulls' = pulls \ {p}
        /\ UNCHANGED <<seq, log, trimmed, scopeTrimmed, acks, issued>>

\* 410 without durable storage: syncPeer throws LOG_TRUNCATED.
ReceiveTruncated(l) ==
    /\ \E p \in pulls : Of(p, l) /\ p.phase = "truncated" /\ pulls' = pulls \ {p}
    /\ UNCHANGED <<clock, seq, log, trimmed, scopeTrimmed, lastSeen, acks, rows,
                   ackMsgs, issued>>

\* The request or its answer is lost, or the pull times out.
FailPull(l) ==
    /\ \E p \in pulls : Of(p, l) /\ pulls' = pulls \ {p}
    /\ UNCHANGED <<clock, seq, log, trimmed, scopeTrimmed, lastSeen, acks, rows,
                   ackMsgs, issued>>

\* Mutant: the largest acknowledgement decides.
WatermarkOfFastest(ackOf) ==
    Max({ackOf[r][sh] : r \in Nodes, sh \in Shards} \ {NoAck})

\* The smallest acknowledgement held; peers that never acknowledged do not count.
Watermark(ackOf) ==
    Min({ackOf[r][sh] : r \in Nodes, sh \in Shards} \ {NoAck})

\* Mutant: one operation more than everybody has acknowledged.
CutOneMore(n, ackOf) == MinOf(MaxOf(0, Watermark(ackOf) - RetainOps + 1), seq[n])

\* prune: the log without the operations up to cut.
Cut(n, ackOf) == MinOf(MaxOf(0, Watermark(ackOf) - RetainOps), seq[n])

\* Mutant: no lower bound and no early return.
PruneUnclamped(n, ackOf) ==
    LET cut == Watermark(ackOf) - RetainOps
    IN  /\ log' = [log EXCEPT ![n] = {o \in @ : o.seq > cut}]
        /\ trimmed' = [trimmed EXCEPT ![n] = cut]
        /\ UNCHANGED scopeTrimmed

Prune(n, ackOf) ==
    LET cut == Cut(n, ackOf)
        gone == {o \in log[n] : o.seq <= cut}
    IN  IF cut <= trimmed[n]
        THEN UNCHANGED <<log, trimmed, scopeTrimmed>>
        ELSE /\ log' = [log EXCEPT ![n] = @ \ gone]
             /\ trimmed' = [trimmed EXCEPT ![n] = cut]
             /\ scopeTrimmed' = [scopeTrimmed EXCEPT ![n] =
                  [sh \in Shards |->
                     Max({@[sh]} \cup {o.seq : o \in {g \in gone : ShardOf[g.id] = sh}})]]

\* receiveAck: the last acknowledgement to arrive counts, then prune.
ReceiveAck(m) ==
    /\ m \in ackMsgs
    /\ acks' = [acks EXCEPT ![m.to][m.from][m.shard] = MinOf(m.after, seq[m.to])]
    /\ Prune(m.to, acks'[m.to])
    /\ ackMsgs' = ackMsgs \ {m}
    /\ UNCHANGED <<clock, seq, lastSeen, rows, pulls, issued>>

Next ==
    \/ \E n \in Nodes, id \in Ids : Insert(n, id) \/ Replace(n, id) \/ Remove(n, id)
    \/ \E l \in Lane :
          \/ StartPull(l) \/ Serve(l) \/ Receive(l)
          \/ ReceiveTruncated(l) \/ FailPull(l)
    \/ \E m \in ackMsgs : ReceiveAck(m)

Spec == Init /\ [][Next]_vars

----------------------------------------------------------------------------
\* The operations that n holds: its own and those its cursors have passed.
Covered(n) ==
    {o \in issued :
        \/ o.from = n
        \/ \E sh \in Shards :
              MatchesScope(o, sh) /\ o.seq <= lastSeen[n][o.from][sh]}

(***************************************************************************)
(* A cursor never skips an operation.  The store of every node is exactly   *)
(* what the operations behind its cursors determine: an operation that a    *)
(* cursor has passed is in the store or superseded there, and nothing else  *)
(* is (syncPeer, applyRemote).                                              *)
(***************************************************************************)
StoreIsJoin ==
    \A n \in Nodes, id \in Ids :
        Newest({o \in Covered(n) : o.id = id}, rows[n][id])

Abstract == INSTANCE ConvergentStore
    WITH Replicas <- Nodes, Objects <- Ids, known <- [n \in Nodes |-> Covered(n)]

(***************************************************************************)
(* The protocol implements the convergent store: late, repeated and         *)
(* overlapping answers never take a replica back, a local write always      *)
(* supersedes what its node had seen (the clock is touched by every remote  *)
(* operation), and equal knowledge means equal objects.                     *)
(***************************************************************************)
ImplementsConvergentStore == Abstract!Spec

(***************************************************************************)
(* test/crdt.test.js, "retention keeps ops for a peer that acked but fell   *)
(* behind": pruning never takes away an operation from a peer that has      *)
(* acknowledged and is still within the log, however acknowledgements are   *)
(* reordered and whatever other peers acknowledge (receiveAck, prune).      *)
(***************************************************************************)
InLog(n, r, sh) == ~NeedsSnapshot(n, lastSeen[r][n][sh], sh)

AckedPeersStayInLog ==
    [][\A n, r \in Nodes, sh \in Shards :
          acks[n][r][sh] # NoAck /\ InLog(n, r, sh) => InLog(n, r, sh)']_vars

----------------------------------------------------------------------------
\* Liveness.  The anti-entropy timer never stops (setInterval in the replication
\* scheduler), an owner that keeps being asked answers in the end, and pulls
\* may fail any number of times but not every time.
AntiEntropy(r, s, sh) ==
    [lane |-> "antiEntropy", to |-> r, from |-> s, shard |-> sh]

Fairness ==
    \A r \in Nodes : \A s \in Nodes \ {r}, sh \in Shards :
        /\ WF_vars(StartPull(AntiEntropy(r, s, sh)))
        /\ SF_vars(Serve(AntiEntropy(r, s, sh)))
        /\ SF_vars(Receive(AntiEntropy(r, s, sh)))

FairSpec == Spec /\ Fairness

(***************************************************************************)
(* SERVER.md, "Periodic anti-entropy closes gaps after lost hints or        *)
(* temporary outages": once clients stop writing, the owners of a shard     *)
(* come to hold the same objects and keep them.                             *)
(***************************************************************************)
Convergence ==
    <>[](\A sh \in Shards : \A r, s \in Owners[sh], id \in Ids :
            ShardOf[id] = sh => rows[r][id] = rows[s][id])

============================================================================
