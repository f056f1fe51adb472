------------------------- MODULE ReplicationProofs -------------------------
(***************************************************************************)
(* Proofs about Replication, for every number of nodes, shards, objects and *)
(* operations, every batch size and every retention: the type invariant,    *)
(* StoreIsJoin (no cursor ever skips an operation), the refinement of the   *)
(* convergent store, and AckedPeersStayInLog (pruning spares those who      *)
(* acknowledge).                                                            *)
(*                                                                          *)
(* StoreIsJoin is not inductive by itself.  The strengthening says what the *)
(* pieces of the protocol contribute: a node's operations are numbered and  *)
(* stamped in one order; its log is what it issued above trimmed; what was  *)
(* pruned is remembered per shard; an answer in flight holds every          *)
(* operation of its scope up to the cursor it leads to; and no clock lags   *)
(* behind the operations its node holds.                                    *)
(***************************************************************************)
EXTENDS Replication, NatLemmas

\* What is not newer is at most as new: the early return of the handlers.
LEMMA NotGt ==
    ASSUME NEW a \in Timestamp, NEW b \in Timestamp
    PROVE  ~Gt(a, b) <=> Geq(b, a)
BY DEF Gt, Geq, Timestamp

LEMMA GeqTransitive ==
    ASSUME NEW a \in Timestamp, NEW b \in Timestamp, NEW c \in Timestamp,
           Geq(a, b), Geq(b, c)
    PROVE  Geq(a, c)
BY DEF Gt, Geq, Timestamp

LEMMA NoTsOldest ==
    ASSUME NEW a \in Timestamp, a # NoTs
    PROVE  NoTs \in Timestamp /\ Gt(a, NoTs)
<1>1. NoTs \in Timestamp  BY DEF NoTs, Timestamp
<1>2. a.c # 0 \/ a.n # 0  BY DEF NoTs, Timestamp
<1>3. NoTs.c = 0 /\ NoTs.n = 0  BY DEF NoTs
<1> QED  BY <1>1, <1>2, <1>3 DEF Gt, Timestamp

\* A batch whose newest operation is last, merged into a row by that operation.
LEMMA NewestMerge ==
    ASSUME NEW A, NEW B, NEW row, NEW last \in B,
           \A o \in A : o.ts \in Timestamp,
           \A o \in B : o.ts \in Timestamp /\ Geq(last.ts, o.ts),
           last.ts # NoTs,
           Newest(A, row)
    PROVE  Newest(A \cup B, Merge(row, last.kind, last.ts))
<1>1. CASE A = {} /\ row = NoRow
    <2>1. Gt(last.ts, row.ver)  BY <1>1, NoTsOldest DEF NoRow
    <2>2. Merge(row, last.kind, last.ts) =
              [ver |-> last.ts, live |-> last.kind = "putObj"]
        BY <2>1 DEF Merge
    <2> QED  BY <1>1, <2>2 DEF Newest
<1>2. ASSUME NEW top \in A,
             \A o \in A : Geq(top.ts, o.ts),
             row = [ver |-> top.ts, live |-> top.kind = "putObj"]
      PROVE  Newest(A \cup B, Merge(row, last.kind, last.ts))
    <2>1. row.ver = top.ts /\ top.ts \in Timestamp /\ last.ts \in Timestamp
        BY <1>2
    <2>2. CASE Gt(last.ts, top.ts)
        <3>1. Merge(row, last.kind, last.ts) =
                  [ver |-> last.ts, live |-> last.kind = "putObj"]
            BY <2>1, <2>2 DEF Merge
        <3>2. \A o \in A : Geq(last.ts, o.ts)
            BY <1>2, <2>1, <2>2, GeqTransitive DEF Geq
        <3>3. \A o \in A \cup B : Geq(last.ts, o.ts)  BY <3>2
        <3> QED  BY <3>1, <3>3 DEF Newest
    <2>3. CASE ~Gt(last.ts, top.ts)
        <3>1. Merge(row, last.kind, last.ts) = row  BY <2>1, <2>3 DEF Merge
        <3>2. Geq(top.ts, last.ts)  BY <2>1, <2>3, NotGt
        <3>3. \A o \in B : Geq(top.ts, o.ts)  BY <2>1, <3>2, GeqTransitive
        <3>4. \A o \in A \cup B : Geq(top.ts, o.ts)  BY <1>2, <3>3
        <3> QED  BY <1>2, <3>1, <3>4 DEF Newest
    <2> QED  BY <2>2, <2>3
<1> QED  BY <1>1, <1>2 DEF Newest

----------------------------------------------------------------------------

\* _logOp: seq and ts grow together.
Numbered ==
    \A o \in issued :
        /\ 1 <= o.seq /\ o.seq <= seq[o.from]
        /\ o.ts.n = o.from /\ 1 <= o.ts.c /\ o.ts.c <= clock[o.from]

Ordered ==
    \A o, p \in issued : o.from = p.from =>
        /\ o.seq = p.seq => o = p
        /\ o.seq < p.seq => o.ts.c < p.ts.c

\* The log of a node is what it issued and has not pruned.
LogComplete ==
    \A n \in Nodes :
        /\ IsFiniteSet(log[n])
        /\ log[n] = {o \in issued : o.from = n /\ o.seq > trimmed[n]}
        /\ trimmed[n] <= seq[n]

TrimRemembered ==
    \A o \in issued :
        o.seq <= trimmed[o.from] => o.seq <= scopeTrimmed[o.from][ShardOf[o.id]]

CursorsInLog ==
    \A r, s \in Nodes, sh \in Shards : lastSeen[r][s][sh] <= seq[s]

\* An answer holds every operation of its scope up to the cursor it leads to.
BatchComplete(p) ==
    /\ p.ops \subseteq issued
    /\ p.lastSeq <= seq[p.from]
    /\ \A o \in p.ops : o.from = p.from /\ MatchesScope(o, p.shard)
    /\ \A o \in issued :
          o.from = p.from /\ MatchesScope(o, p.shard)
            /\ p.after < o.seq /\ o.seq <= Seen(p)
          => o \in p.ops

PullsSound ==
    \A p \in pulls :
        /\ p.to # p.from
        /\ p.after <= lastSeen[p.to][p.from][p.shard]
        /\ p.phase = "answered" => BatchComplete(p)

\* applyRemote touches the clock with every operation.
ClockCovers ==
    \A n \in Nodes : \A o \in Covered(n) : o.ts.c <= clock[n]

IInv ==
    /\ TypeOK
    /\ Numbered
    /\ Ordered
    /\ LogComplete
    /\ TrimRemembered
    /\ CursorsInLog
    /\ PullsSound
    /\ ClockCovers
    /\ StoreIsJoin

----------------------------------------------------------------------------
\* Lemmas about the operators.

\* _opsAfter with a limit: a batch is a prefix of what is missing, and it is
\* empty only when nothing is missing.
LEMMA BatchIsPrefix ==
    ASSUME NEW M, IsFiniteSet(M),
           \A o \in M : o.seq \in Nat,
           \A o, p \in M : o.seq = p.seq => o = p,
           NEW B, B = {o \in M : Cardinality({p \in M : p.seq <= o.seq}) <= BatchSize}
    PROVE  /\ \A o \in M, b \in B : o.seq <= b.seq => o \in B
           /\ B = {} => M = {}
<1> DEFINE UpTo(o) == {p \in M : p.seq <= o.seq}
<1>1. \A o \in M : IsFiniteSet(UpTo(o)) /\ Cardinality(UpTo(o)) \in Nat
    BY FS_Subset, FS_CardinalityType
<1>2. BatchSize \in Nat /\ 1 <= BatchSize
    <2>1. BatchSize \in Nat \ {0}  BY ReplicationAssumption
    <2> QED  BY <2>1
<1>3. ASSUME NEW o \in M, NEW b \in B, o.seq <= b.seq PROVE o \in B
    <2>1. UpTo(o) \in SUBSET UpTo(b)  BY <1>3
    <2>2. Cardinality(UpTo(o)) <= Cardinality(UpTo(b))
        BY <1>1, <2>1, FS_Subset
    <2>3. Cardinality(UpTo(b)) <= BatchSize  OBVIOUS
    <2>4. Cardinality(UpTo(o)) <= BatchSize
        <3> HIDE DEF UpTo
        <3> QED  BY <1>1, <1>2, <2>2, <2>3
    <2> QED  BY <2>4
<1>4. ASSUME M # {} PROVE B # {}
    <2> DEFINE S == {o.seq : o \in M}
    <2>1. PICK k \in S : \A j \in S : k <= j
        <3>1. S \subseteq Nat /\ S # {}  BY <1>4
        <3> HIDE DEF S
        <3> QED  BY <3>1, LeastNat
    <2>2. PICK m \in M : m.seq = k  OBVIOUS
    <2>3. \A o \in M : m.seq <= o.seq  BY <2>1, <2>2
    <2>4. \A o \in UpTo(m) : o.seq = m.seq  BY <2>3
    <2>5. UpTo(m) = {m}  BY <2>4
    <2>6. Cardinality({m}) = 1  BY FS_Singleton
    <2>7. m \in B  BY <1>2, <2>5, <2>6
    <2> QED  BY <2>7
<1> QED  BY <1>3, <1>4

LEMMA OpFields ==
    ASSUME TypeOK, NEW o \in issued
    PROVE  /\ o.kind \in Kinds /\ o.id \in Ids /\ o.ts \in Timestamp
           /\ o.from \in Nodes /\ o.seq \in Nat /\ o.ts.c \in Nat
BY DEF TypeOK, Op, Timestamp

LEMMA PullFields ==
    ASSUME TypeOK, NEW p \in pulls
    PROVE  /\ p.lane \in Lanes /\ p.to \in Nodes /\ p.from \in Nodes
           /\ p.shard \in Shards /\ p.after \in Nat
           /\ p.phase = "answered" => p.ops \subseteq Op /\ p.lastSeq \in Nat
BY DEF TypeOK, Pull

\* Where the cursor of an answer leads: no further than the owner's log.
LEMMA SeenFacts ==
    ASSUME IInv, NEW p \in pulls, p.phase = "answered"
    PROVE  /\ Seen(p) \in Nat /\ Seen(p) <= seq[p.from]
           /\ \A o \in p.ops : o.seq <= Seen(p)
<1>1. /\ p.from \in Nodes /\ p.lastSeq \in Nat /\ seq[p.from] \in Nat
    BY PullFields DEF IInv, TypeOK
<1>2. p.ops \subseteq issued /\ p.lastSeq <= seq[p.from] /\ \A o \in p.ops : o.from = p.from
    BY DEF IInv, PullsSound, BatchComplete
<1>3. CASE p.ops = {}  BY <1>1, <1>2, <1>3 DEF Seen
<1>4. CASE p.ops # {}
    <2> DEFINE S == {o.seq : o \in p.ops}
    <2>1. S \subseteq Nat /\ S # {}  BY <1>2, <1>4, OpFields DEF IInv
    <2>2. \A k \in S : k <= seq[p.from]  BY <1>2 DEF IInv, Numbered
    <2>3. Max(S) \in S /\ \A k \in S : k <= Max(S)
        <3> HIDE DEF S
        <3> QED  BY <1>1, <2>1, <2>2, MaxOfNats
    <2>4. Seen(p) = Max(S)  BY <1>4 DEF Seen, LastSeq
    <2> QED  BY <2>1, <2>2, <2>3, <2>4
<1> QED  BY <1>3, <1>4

\* touch, for every operation of a batch.
LEMMA TouchedFacts ==
    ASSUME IInv, NEW n \in Nodes, NEW m \in Nodes,
           NEW ops, ops \subseteq issued, \A o \in ops : o.from = m
    PROVE  /\ Touched(clock[n], ops) \in Nat
           /\ clock[n] <= Touched(clock[n], ops)
           /\ \A o \in ops : o.ts.c <= Touched(clock[n], ops)
<1> DEFINE S == {clock[n]} \cup {o.ts.c : o \in ops}
<1>1. clock[n] \in Nat /\ clock[m] \in Nat  BY DEF IInv, TypeOK
<1>2. \A o \in ops : o.ts.c \in Nat /\ o.ts.c <= clock[m]
    BY OpFields DEF IInv, Numbered
<1>3. S \subseteq Nat /\ S # {}  BY <1>1, <1>2
<1>4. \A k \in S : k <= clock[n] + clock[m]  BY <1>1, <1>2
<1>5. clock[n] \in S /\ \A o \in ops : o.ts.c \in S  OBVIOUS
<1>6. Touched(clock[n], ops) = Max(S)  BY DEF Touched
<1> HIDE DEF S
<1>7. Max(S) \in S /\ \A k \in S : k <= Max(S)
    <2>1. clock[n] + clock[m] \in Nat  BY <1>1
    <2> QED  BY <1>3, <1>4, <2>1, MaxOfNats
<1> QED  BY <1>3, <1>5, <1>6, <1>7

\* A batch of one node, applied to a row that shows the newest of A.
LEMMA BatchMerged ==
    ASSUME IInv, NEW m \in Nodes,
           NEW A, \A o \in A : o.ts \in Timestamp,
           NEW B, B \subseteq issued, \A o \in B : o.from = m,
           NEW row \in Row, Newest(A, row)
    PROVE  MergeBatch(row, B) \in Row /\ Newest(A \cup B, MergeBatch(row, B))
<1>1. CASE B = {}
    <2>1. A \cup B = A  BY <1>1
    <2> QED  BY <1>1, <2>1 DEF MergeBatch
<1>2. CASE B # {}
    <2> DEFINE S == {o.seq : o \in B}
               last == CHOOSE o \in B : \A p \in B : p.seq <= o.seq
    <2>1. \A o \in B : o.seq \in Nat /\ o.ts \in Timestamp /\ o.ts.c \in Nat
        BY OpFields DEF IInv
    <2>2. PICK k \in S : \A j \in S : j <= k
        <3>1. S \subseteq Nat /\ S # {}  BY <1>2, <2>1
        <3>2. seq[m] \in Nat  BY DEF IInv, TypeOK
        <3>3. \A j \in S : j <= seq[m]  BY DEF IInv, Numbered
        <3> HIDE DEF S
        <3> QED  BY <3>1, <3>2, <3>3, GreatestNat
    <2>3. \E o \in B : \A p \in B : p.seq <= o.seq  BY <2>2
    <2>4. last \in B /\ \A p \in B : p.seq <= last.seq  BY <2>3
    <2>5. MergeBatch(row, B) = Merge(row, last.kind, last.ts)
        BY <1>2 DEF MergeBatch
    <2> HIDE DEF last
    <2>6. ASSUME NEW o \in B PROVE Geq(last.ts, o.ts)
        <3>1. o \in issued /\ last \in issued /\ o.from = last.from  BY <2>4
        <3>2. o.seq \in Nat /\ last.seq \in Nat /\ o.seq <= last.seq  BY <2>1, <2>4
        <3>3. CASE o.seq = last.seq  BY <3>1, <3>3 DEF IInv, Ordered, Geq
        <3>4. CASE o.seq < last.seq
            <4>1. o.ts.c < last.ts.c  BY <3>1, <3>4 DEF IInv, Ordered
            <4> QED  BY <2>1, <2>4, <4>1 DEF Geq, Gt
        <3> QED  BY <3>2, <3>3, <3>4
    <2>7. last.ts # NoTs
        <3>1. 1 <= last.ts.c  BY <2>4 DEF IInv, Numbered
        <3>2. NoTs.c = 0  BY DEF NoTs
        <3> QED  BY <3>1, <3>2
    <2>8. Newest(A \cup B, Merge(row, last.kind, last.ts))
        BY <2>1, <2>4, <2>6, <2>7, NewestMerge
    <2>9. Merge(row, last.kind, last.ts) \in Row
        BY <2>1, <2>4 DEF Merge, Row
    <2> QED  BY <2>5, <2>8, <2>9
<1> QED  BY <1>1, <1>2

\* What _opsAfter returns when needsSnapshot lets it: a prefix of everything
\* issued in the scope after the cursor.
LEMMA AnswerComplete ==
    ASSUME IInv, NEW n \in Nodes, NEW after \in Nat, NEW sh \in Shards,
           ~NeedsSnapshot(n, after, sh),
           NEW M, M = {o \in issued : o.from = n /\ MatchesScope(o, sh) /\ o.seq > after}
    PROVE  /\ OpsAfter(n, after, sh) \subseteq M
           /\ \A o \in M, b \in OpsAfter(n, after, sh) :
                  o.seq <= b.seq => o \in OpsAfter(n, after, sh)
           /\ OpsAfter(n, after, sh) = {} => M = {}
<1>1. /\ trimmed[n] \in Nat
      /\ IsFiniteSet(log[n])
      /\ log[n] = {o \in issued : o.from = n /\ o.seq > trimmed[n]}
    BY DEF IInv, TypeOK, LogComplete
<1>2. ASSUME NEW o \in M PROVE o \in log[n]
    <2>1. o \in issued /\ o.from = n /\ o.seq \in Nat /\ o.seq > after /\ o.id \in Ids
        BY OpFields DEF IInv
    <2>2. ~(o.seq <= trimmed[n])
        <3>1. CASE sh = DefaultShard
            <4>1. ~(after < trimmed[n])  BY <3>1 DEF NeedsSnapshot
            <4> QED  BY <1>1, <2>1, <4>1
        <3>2. CASE sh # DefaultShard
            <4>1. ~(after < scopeTrimmed[n][sh])  BY <3>2 DEF NeedsSnapshot
            <4>2. scopeTrimmed[n][sh] \in Nat  BY DEF IInv, TypeOK
            <4>3. ShardOf[o.id] = sh  BY <3>2 DEF MatchesScope
            <4>4. o.seq <= trimmed[n] => o.seq <= scopeTrimmed[n][sh]
                BY <2>1, <4>3 DEF IInv, TrimRemembered
            <4> QED  BY <2>1, <4>1, <4>2, <4>4
        <3> QED  BY <3>1, <3>2
    <2> QED  BY <1>1, <2>1, <2>2
<1>3. M = {o \in log[n] : o.seq > after /\ MatchesScope(o, sh)}
    BY <1>1, <1>2
<1>4. IsFiniteSet(M)  BY <1>1, <1>3, FS_Subset
<1>5. \A o \in M : o.seq \in Nat  BY OpFields DEF IInv
<1>6. \A o, p \in M : o.seq = p.seq => o = p  BY DEF IInv, Ordered
<1>7. OpsAfter(n, after, sh) =
          {o \in M : Cardinality({p \in M : p.seq <= o.seq}) <= BatchSize}
    BY <1>3 DEF OpsAfter
<1> QED  BY <1>4, <1>5, <1>6, <1>7, BatchIsPrefix

----------------------------------------------------------------------------
\* One lemma per action.

LEMMA InitIInv == Init => IInv
<1> SUFFICES ASSUME Init PROVE IInv
    OBVIOUS
<1> USE DEF Init
<1>1. TypeOK
    <2>1. NoRow \in Row  BY DEF NoRow, Row, NoTs, Timestamp
    <2> QED  BY <2>1 DEF TypeOK, NoAck
<1>2. Numbered /\ Ordered /\ TrimRemembered /\ PullsSound
    BY DEF Numbered, Ordered, TrimRemembered, PullsSound
<1>3. LogComplete  BY FS_EmptySet DEF LogComplete
<1>4. CursorsInLog  BY DEF CursorsInLog
<1>5. \A n \in Nodes : Covered(n) = {}  BY DEF Covered
<1>6. ClockCovers  BY <1>5 DEF ClockCovers
<1>7. StoreIsJoin  BY <1>5 DEF StoreIsJoin, Newest
<1> QED  BY <1>1, <1>2, <1>3, <1>4, <1>6, <1>7 DEF IInv

\* The steps that only send, answer or drop a pull.
LEMMA PullsOnly ==
    ASSUME IInv,
           UNCHANGED <<clock, seq, log, trimmed, scopeTrimmed, lastSeen, acks,
                       rows, ackMsgs, issued>>,
           pulls' \subseteq Pull,
           PullsSound'
    PROVE  IInv'
<1>1. TypeOK'  BY DEF IInv, TypeOK
<1>2. Numbered' /\ Ordered' /\ LogComplete' /\ TrimRemembered' /\ CursorsInLog'
    BY DEF IInv, Numbered, Ordered, LogComplete, TrimRemembered, CursorsInLog
<1>3. \A n \in Nodes : Covered(n)' = Covered(n)  BY DEF Covered
<1>4. ClockCovers' /\ StoreIsJoin'
    BY <1>3 DEF IInv, ClockCovers, StoreIsJoin
<1> QED  BY <1>1, <1>2, <1>4 DEF IInv

\* Answers in flight stay sound while operations are added and cursors advance.
LEMMA StartPullKeepsIInv ==
    ASSUME IInv, NEW l \in Lane, StartPull(l)
    PROVE  IInv'
<1> DEFINE new == [lane |-> l.lane, to |-> l.to, from |-> l.from, shard |-> l.shard,
                   phase |-> "asked", after |-> lastSeen[l.to][l.from][l.shard]]
<1>1. /\ l.lane \in Lanes /\ l.to \in Nodes /\ l.from \in Nodes /\ l.shard \in Shards
      /\ lastSeen[l.to][l.from][l.shard] \in Nat
    BY DEF Lane, IInv, TypeOK
<1>2. pulls' = pulls \cup {new} /\ l.to # l.from
    BY DEF StartPull
<1>3. new \in Pull  BY <1>1 DEF Pull
<1>4. pulls' \subseteq Pull  BY <1>2, <1>3 DEF IInv, TypeOK
<1>5. PullsSound'
    <2> SUFFICES ASSUME NEW p \in pulls'
                 PROVE  /\ p.to # p.from
                        /\ p.after <= lastSeen[p.to][p.from][p.shard]
                        /\ p.phase = "answered" => BatchComplete(p)
        BY DEF StartPull, PullsSound, BatchComplete
    <2>1. CASE p \in pulls  BY <2>1 DEF IInv, PullsSound
    <2>2. CASE p = new  BY <1>1, <1>2, <2>2
    <2> QED  BY <1>2, <2>1, <2>2
<1> QED  BY <1>4, <1>5, PullsOnly DEF StartPull

\* A pull that ends without an answer.
LEMMA EndPullKeepsIInv ==
    ASSUME IInv, NEW l \in Lane, ReceiveTruncated(l) \/ FailPull(l)
    PROVE  IInv'
<1>1. pulls' \subseteq pulls  BY DEF ReceiveTruncated, FailPull
<1>2. UNCHANGED <<clock, seq, log, trimmed, scopeTrimmed, lastSeen, acks, rows,
                  ackMsgs, issued>>
    BY DEF ReceiveTruncated, FailPull
<1>3. pulls' \subseteq Pull  BY <1>1 DEF IInv, TypeOK
<1>4. PullsSound'  BY <1>1, <1>2 DEF IInv, PullsSound, BatchComplete
<1> QED  BY <1>2, <1>3, <1>4, PullsOnly

\* GET /replicate.
LEMMA ServeKeepsIInv ==
    ASSUME IInv, NEW l \in Lane, Serve(l)
    PROVE  IInv'
<1>1. PICK p \in pulls : p.phase = "asked" /\ pulls' = (pulls \ {p}) \cup {Answer(p)}
    BY DEF Serve
<1>2. UNCHANGED <<clock, seq, log, trimmed, scopeTrimmed, lastSeen, acks, rows,
                  ackMsgs, issued>>
    BY DEF Serve
<1>3. /\ p.lane \in Lanes /\ p.to \in Nodes /\ p.from \in Nodes /\ p.shard \in Shards
      /\ p.after \in Nat /\ seq[p.from] \in Nat
      /\ p.to # p.from /\ p.after <= lastSeen[p.to][p.from][p.shard]
    BY PullFields DEF IInv, TypeOK, PullsSound
<1> DEFINE sound(q) == /\ q \in Pull
                       /\ q.to # q.from
                       /\ q.after <= lastSeen[q.to][q.from][q.shard]
                       /\ q.phase = "answered" => BatchComplete(q)
<1>4. CASE NeedsSnapshot(p.from, p.after, p.shard)
    <2>1. Answer(p) = [p EXCEPT !.phase = "truncated"]  BY <1>4 DEF Answer
    <2>2. p \in [lane : Lanes, to : Nodes, from : Nodes, shard : Shards,
                 phase : {"asked", "truncated"}, after : Nat]
        BY <1>1 DEF IInv, TypeOK, Pull
    <2>3. sound(Answer(p))  BY <1>3, <2>1, <2>2 DEF Pull
    <2> QED  BY <1>1, <1>2, <2>3, PullsOnly DEF IInv, TypeOK, PullsSound, BatchComplete
<1>5. CASE ~NeedsSnapshot(p.from, p.after, p.shard)
    <2> DEFINE B == OpsAfter(p.from, p.after, p.shard)
               a == [lane |-> p.lane, to |-> p.to, from |-> p.from, shard |-> p.shard,
                     phase |-> "answered", after |-> p.after,
                     ops |-> B, lastSeq |-> seq[p.from]]
               M == {o \in issued : /\ o.from = p.from
                                    /\ MatchesScope(o, p.shard) /\ o.seq > p.after}
    <2>1. Answer(p) = a  BY <1>5 DEF Answer
    <2>2. /\ B \subseteq M
          /\ \A o \in M, b \in B : o.seq <= b.seq => o \in B
          /\ B = {} => M = {}
        <3>1. M = {o \in issued : /\ o.from = p.from
                                  /\ MatchesScope(o, p.shard) /\ o.seq > p.after}
            OBVIOUS
        <3>2. B = OpsAfter(p.from, p.after, p.shard)  OBVIOUS
        <3>3. /\ p.from \in Nodes /\ p.shard \in Shards /\ p.after \in Nat
              /\ ~NeedsSnapshot(p.from, p.after, p.shard)
            BY <1>3, <1>5
        <3> HIDE DEF M, B, a, sound
        <3> QED  BY <3>1, <3>2, <3>3, AnswerComplete
    <2> HIDE DEF B
    <2>3. M \subseteq issued /\ issued \subseteq Op  BY DEF IInv, TypeOK
    <2>4. a \in Pull  BY <1>3, <2>2, <2>3 DEF Pull
    <2>5. BatchComplete(a)
        <3>1. a.ops = B /\ a.from = p.from /\ a.shard = p.shard /\ a.after = p.after
              /\ a.lastSeq = seq[p.from]
            OBVIOUS
        <3>2. B \subseteq issued /\ \A o \in B : o.from = p.from /\ MatchesScope(o, p.shard)
            BY <2>2
        <3>3. ASSUME NEW o \in issued, o.from = p.from, MatchesScope(o, p.shard),
                     p.after < o.seq, o.seq <= Seen(a)
              PROVE  o \in B
            <4>1. o.seq \in Nat  BY OpFields DEF IInv
            <4>2. o \in M  BY <1>3, <3>3, <4>1
            <4>3. B # {}  BY <2>2, <4>2
            <4>4. PICK b \in B : b.seq = Seen(a)
                <5> DEFINE S == {b.seq : b \in B}
                <5>1. S \subseteq Nat /\ S # {}  BY <3>2, <4>3, OpFields DEF IInv
                <5>2. \A k \in S : k <= seq[p.from]  BY <3>2 DEF IInv, Numbered
                <5>3. Max(S) \in S
                    <6> HIDE DEF S
                    <6> QED  BY <1>3, <5>1, <5>2, MaxOfNats
                <5>4. Seen(a) = Max(S)  BY <3>1, <4>3 DEF Seen, LastSeq
                <5> QED  BY <5>3, <5>4
            <4> QED  BY <2>2, <3>3, <4>2, <4>4
        <3>4. seq[p.from] <= seq[p.from]  BY <1>3
        <3> HIDE DEF a
        <3> QED  BY <3>1, <3>2, <3>3, <3>4 DEF BatchComplete
    <2>6. sound(a)  BY <1>3, <2>4, <2>5
    <2> HIDE DEF a
    <2> QED  BY <1>1, <1>2, <2>1, <2>6, PullsOnly DEF IInv, TypeOK, PullsSound, BatchComplete
<1> QED  BY <1>4, <1>5

\* The next operation of a node is numbered and stamped above everything it
\* holds, and no cursor has reached it.
LEMMA NewOpFacts ==
    ASSUME IInv, NEW n \in Nodes, NEW id \in Ids, NEW kind \in Kinds,
           NEW op, op = NewOp(n, kind, id), issued' = issued \cup {op},
           lastSeen' = lastSeen
    PROVE  /\ op.kind = kind /\ op.id = id /\ op.from = n /\ op.seq = seq[n] + 1
           /\ op.ts.c = clock[n] + 1 /\ op.ts.n = n
           /\ op.ts \in Timestamp /\ op \in Op
           /\ Covered(n)' = Covered(n) \cup {op}
           /\ \A m \in Nodes : m # n => Covered(m)' = Covered(m)
           /\ \A o \in Covered(n) :
                  o.ts \in Timestamp /\ o.ts.c \in Nat /\ o.ts.c < op.ts.c
<1>1. clock[n] \in Nat /\ seq[n] \in Nat /\ n \in Nat
    BY ReplicationAssumption DEF IInv, TypeOK
<1>2. /\ op.kind = kind /\ op.id = id /\ op.from = n /\ op.seq = seq[n] + 1
      /\ op.ts.c = clock[n] + 1 /\ op.ts.n = n
      /\ op.ts \in Timestamp /\ op \in Op
    BY <1>1 DEF NewOp, Op, Timestamp
<1>3. Covered(n)' = Covered(n) \cup {op}
    BY <1>2 DEF Covered
<1>4. ASSUME NEW m \in Nodes, m # n PROVE Covered(m)' = Covered(m)
    <2>1. \A sh \in Shards : ~(op.seq <= lastSeen[m][n][sh])
        <3>1. \A sh \in Shards : lastSeen[m][n][sh] \in Nat /\ lastSeen[m][n][sh] <= seq[n]
            BY DEF IInv, TypeOK, CursorsInLog
        <3> QED  BY <1>1, <1>2, <3>1
    <2> QED  BY <1>2, <1>4, <2>1 DEF Covered
<1>5. \A o \in Covered(n) : o.ts \in Timestamp /\ o.ts.c \in Nat /\ o.ts.c < op.ts.c
    BY <1>1, <1>2, OpFields DEF IInv, ClockCovers, Covered
<1> QED  BY <1>2, <1>3, <1>4, <1>5

\* _commitLocalOps.
LEMMA CommitKeepsIInv ==
    ASSUME IInv, NEW n \in Nodes, NEW id \in Ids, NEW kind \in Kinds,
           Commit(n, kind, id)
    PROVE  IInv'
<1> DEFINE op == NewOp(n, kind, id)
<1>1. /\ clock' = [clock EXCEPT ![n] = @ + 1]
      /\ seq' = [seq EXCEPT ![n] = @ + 1]
      /\ log' = [log EXCEPT ![n] = @ \cup {op}]
      /\ rows' = [rows EXCEPT ![n] = ApplyOps(@, {op})]
      /\ issued' = issued \cup {op}
      /\ UNCHANGED <<trimmed, scopeTrimmed, lastSeen, acks, pulls, ackMsgs>>
    BY DEF Commit
<1>2. /\ clock[n] \in Nat /\ seq[n] \in Nat /\ trimmed[n] \in Nat /\ trimmed[n] <= seq[n]
      /\ n \in Nat
    BY ReplicationAssumption DEF IInv, TypeOK, LogComplete
<1>0. op = NewOp(n, kind, id)  OBVIOUS
<1> HIDE DEF op
<1>3. /\ op.kind = kind /\ op.id = id /\ op.from = n /\ op.seq = seq[n] + 1
      /\ op.ts.c = clock[n] + 1 /\ op.ts.n = n
      /\ op.ts \in Timestamp /\ op \in Op
      /\ Covered(n)' = Covered(n) \cup {op}
      /\ \A m \in Nodes : m # n => Covered(m)' = Covered(m)
      /\ \A o \in Covered(n) : o.ts \in Timestamp /\ o.ts.c \in Nat /\ o.ts.c < op.ts.c
    BY <1>0, <1>1, NewOpFacts
<1>4. \A o \in issued : /\ o.from \in Nodes /\ o.seq \in Nat /\ o.ts.c \in Nat
                        /\ o.seq <= seq[o.from] /\ o.ts.c <= clock[o.from]
    BY OpFields DEF IInv, Numbered
<1>5. /\ \A m \in Nodes : seq[m] \in Nat /\ clock[m] \in Nat
      /\ \A m \in Nodes : /\ seq'[m] = (IF m = n THEN seq[n] + 1 ELSE seq[m])
                         /\ clock'[m] = (IF m = n THEN clock[n] + 1 ELSE clock[m])
    BY <1>1 DEF IInv, TypeOK
<1>51. \A m \in Nodes : seq[m] <= seq'[m] /\ seq[m] \in Nat /\ seq'[m] \in Nat
    BY <1>5
<1>6. Covered(n)' = Covered(n) \cup {op}  BY <1>3
<1>7. \A m \in Nodes : m # n => Covered(m)' = Covered(m)  BY <1>3
<1>8. \A o \in Covered(n) : o.ts \in Timestamp /\ o.ts.c \in Nat /\ o.ts.c < op.ts.c
    BY <1>3
<1>9. ASSUME NEW i \in Ids
      PROVE  /\ rows'[n][i] \in Row
             /\ Newest({o \in Covered(n)' : o.id = i}, rows'[n][i])
    <2> DEFINE A == {o \in Covered(n) : o.id = i}
               B == {o \in {op} : o.id = i}
    <2>1. rows[n][i] \in Row /\ Newest(A, rows[n][i])
        BY DEF IInv, TypeOK, StoreIsJoin
    <2>2. rows'[n][i] = MergeBatch(rows[n][i], B)
        <3>1. rows'[n] = ApplyOps(rows[n], {op})  BY <1>1 DEF IInv, TypeOK
        <3> QED  BY <3>1 DEF ApplyOps
    <2>3. {o \in Covered(n)' : o.id = i} = A \cup B  BY <1>6
    <2>4. CASE i # id
        <3>1. B = {}  BY <1>3, <2>4
        <3>2. A \cup B = A  BY <3>1
        <3> QED  BY <2>1, <2>2, <2>3, <3>1, <3>2 DEF MergeBatch
    <2>5. CASE i = id
        <3>1. B = {op}  BY <1>3, <2>5
        <3> DEFINE last == CHOOSE o \in {op} : \A p \in {op} : p.seq <= o.seq
        <3>2. last = op
            <4>1. op.seq <= op.seq  BY <1>2, <1>3
            <4> QED  BY <4>1
        <3>3. MergeBatch(rows[n][i], {op}) = Merge(rows[n][i], op.kind, op.ts)
            <4>1. MergeBatch(rows[n][i], {op}) = Merge(rows[n][i], last.kind, last.ts)
                BY DEF MergeBatch
            <4> HIDE DEF last
            <4> QED  BY <3>2, <4>1
        <3>4. op.ts # NoTs
            <4>1. NoTs.c = 0  BY DEF NoTs
            <4> QED  BY <1>2, <1>3, <4>1
        <3>5. \A o \in A : o.ts \in Timestamp  BY <1>8
        <3>6. \A o \in {op} : o.ts \in Timestamp /\ Geq(op.ts, o.ts)
            BY <1>3 DEF Geq
        <3> HIDE DEF A
        <3>7. Newest(A \cup {op}, Merge(rows[n][i], op.kind, op.ts))
            BY <2>1, <3>4, <3>5, <3>6, NewestMerge
        <3>8. Merge(rows[n][i], op.kind, op.ts) \in Row
            BY <1>3, <2>1 DEF Merge, Row
        <3> QED  BY <2>2, <2>3, <3>1, <3>3, <3>7, <3>8
    <2> QED  BY <2>4, <2>5
<1>10. TypeOK'
    <2>1. rows' \in [Nodes -> [Ids -> Row]]
        <3>1. \A m \in Nodes : m # n => rows'[m] = rows[m]
            BY <1>1 DEF IInv, TypeOK
        <3>2. rows'[n] = [i \in Ids |-> MergeBatch(rows[n][i], {o \in {op} : o.id = i})]
            BY <1>1 DEF IInv, TypeOK, ApplyOps
        <3>3. rows'[n] \in [Ids -> Row]  BY <1>9, <3>2
        <3> QED  BY <1>1, <3>1, <3>3 DEF IInv, TypeOK
    <2>2. /\ clock' \in [Nodes -> Nat] /\ seq' \in [Nodes -> Nat]
          /\ log' \in [Nodes -> SUBSET Op] /\ issued' \subseteq Op
        BY <1>1, <1>2, <1>3 DEF IInv, TypeOK
    <2> QED  BY <1>1, <2>1, <2>2 DEF IInv, TypeOK
<1>11. Numbered'
    BY <1>1, <1>2, <1>3, <1>4, <1>5 DEF IInv, Numbered
<1>12. Ordered'
    <2>1. \A o \in issued : o.from = n => o.seq < op.seq /\ o.ts.c < op.ts.c
        BY <1>2, <1>3, <1>4
    <2>2. op.seq \in Nat /\ op.ts.c \in Nat  BY <1>2, <1>3
    <2> QED  BY <1>1, <1>3, <1>4, <2>1, <2>2 DEF IInv, Ordered
<1>13. LogComplete'
    <2> SUFFICES ASSUME NEW m \in Nodes
                 PROVE  /\ IsFiniteSet(log'[m])
                        /\ log'[m] = {o \in issued' : o.from = m /\ o.seq > trimmed'[m]}
                        /\ trimmed'[m] <= seq'[m]
        BY DEF LogComplete
    <2>1. /\ IsFiniteSet(log[m]) /\ trimmed[m] <= seq[m] /\ trimmed[m] \in Nat
          /\ log[m] = {o \in issued : o.from = m /\ o.seq > trimmed[m]}
        BY DEF IInv, LogComplete, TypeOK
    <2>2. CASE m = n
        <3>1. log'[m] = log[m] \cup {op}  BY <1>1, <2>2 DEF IInv, TypeOK
        <3>2. IsFiniteSet(log'[m])  BY <2>1, <3>1, FS_AddElement
        <3>3. op.seq > trimmed[n]  BY <1>2, <1>3
        <3> QED  BY <1>1, <1>3, <1>5, <2>1, <2>2, <3>1, <3>2, <3>3
    <2>3. CASE m # n
        <3>1. log'[m] = log[m]  BY <1>1, <2>3 DEF IInv, TypeOK
        <3> QED  BY <1>1, <1>3, <1>5, <2>1, <2>3, <3>1
    <2> QED  BY <2>2, <2>3
<1>14. TrimRemembered'
    <2>1. ~(op.seq <= trimmed[op.from])  BY <1>2, <1>3
    <2> QED  BY <1>1, <2>1 DEF IInv, TrimRemembered
<1>15. CursorsInLog'
    <2>1. \A r, s \in Nodes, sh \in Shards :
              lastSeen[r][s][sh] \in Nat /\ lastSeen[r][s][sh] <= seq[s]
        BY DEF IInv, CursorsInLog, TypeOK
    <2>2. \A s \in Nodes : seq[s] <= seq'[s] /\ seq'[s] \in Nat  BY <1>51
    <2>3. lastSeen' = lastSeen  BY <1>1
    <2> QED  BY <1>51, <2>1, <2>2, <2>3 DEF CursorsInLog
<1>16. PullsSound'
    <2> SUFFICES ASSUME NEW p \in pulls
                 PROVE  /\ p.to # p.from
                        /\ p.after <= lastSeen[p.to][p.from][p.shard]
                        /\ p.phase = "answered" => BatchComplete(p)'
        BY <1>1 DEF PullsSound
    <2>1. /\ p.to # p.from
          /\ p.after <= lastSeen[p.to][p.from][p.shard]
          /\ p.phase = "answered" => BatchComplete(p)
        BY DEF IInv, PullsSound
    <2>2. ASSUME p.phase = "answered" PROVE BatchComplete(p)'
        <3>1. BatchComplete(p)  BY <2>1, <2>2
        <3>2. Seen(p) \in Nat /\ Seen(p) <= seq[p.from]  BY <2>2, SeenFacts
        <3>3. p.from \in Nodes /\ p.lastSeq \in Nat  BY <2>2, PullFields DEF IInv
        <3>4. ~(op.from = p.from /\ op.seq <= Seen(p))  BY <1>2, <1>3, <3>2
        <3>5. p.lastSeq <= seq'[p.from]
            <4>1. p.lastSeq <= seq[p.from]  BY <3>1 DEF BatchComplete
            <4>2. /\ seq[p.from] <= seq'[p.from]
                  /\ seq[p.from] \in Nat /\ seq'[p.from] \in Nat
                BY <1>51, <3>3
            <4> QED  BY <3>3, <4>1, <4>2
        <3> QED  BY <1>1, <3>1, <3>4, <3>5 DEF BatchComplete
    <2> QED  BY <2>1, <2>2
<1>17. ClockCovers'
    <2>1. \A o \in Covered(n)' : o.ts.c <= clock'[n]
        BY <1>2, <1>3, <1>5, <1>6, <1>8
    <2>2. \A m \in Nodes : m # n => \A o \in Covered(m)' : o.ts.c <= clock'[m]
        BY <1>5, <1>7 DEF IInv, ClockCovers
    <2> QED  BY <2>1, <2>2 DEF ClockCovers
<1>18. StoreIsJoin'
    <2>1. \A m \in Nodes : m # n => rows'[m] = rows[m]
        BY <1>1 DEF IInv, TypeOK
    <2>2. \A m \in Nodes, i \in Ids :
              m # n => Newest({o \in Covered(m)' : o.id = i}, rows'[m][i])
        BY <1>7, <2>1 DEF IInv, StoreIsJoin
    <2> QED  BY <1>9, <2>2 DEF StoreIsJoin
<1> QED
    BY <1>10, <1>11, <1>12, <1>13, <1>14, <1>15, <1>16, <1>17, <1>18 DEF IInv

\* What an answer adds to the operations a node holds, whatever other answers
\* did to the cursor since it was asked for.
MovesCursor(p) ==
    /\ lastSeen' = [lastSeen EXCEPT ![p.to][p.from][p.shard] = Advanced(@, p)]
    /\ issued' = issued

LEMMA CursorAdvances ==
    ASSUME IInv, NEW p \in pulls, p.phase = "answered", MovesCursor(p)
    PROVE  /\ lastSeen' \in [Nodes -> [Nodes -> [Shards -> Nat]]]
           /\ \A r, s \in Nodes, sh \in Shards :
                  /\ lastSeen[r][s][sh] <= lastSeen'[r][s][sh]
                  /\ lastSeen'[r][s][sh] <= seq[s]
           /\ Covered(p.to)' = Covered(p.to) \cup p.ops
           /\ \A m \in Nodes : m # p.to => Covered(m)' = Covered(m)
<1> DEFINE n == p.to
           cursor == lastSeen[n][p.from][p.shard]
<1>1. /\ p.phase = "answered"
      /\ lastSeen' = [lastSeen EXCEPT ![n][p.from][p.shard] = Advanced(@, p)]
      /\ issued' = issued
    BY DEF MovesCursor
<1>2. /\ n \in Nodes /\ p.from \in Nodes /\ p.shard \in Shards /\ p.after \in Nat
      /\ p.ops \subseteq Op /\ n # p.from /\ p.after <= cursor
    BY <1>1, PullFields DEF IInv, PullsSound
<1>3. BatchComplete(p)  BY <1>1 DEF IInv, PullsSound
<1>4. Seen(p) \in Nat /\ Seen(p) <= seq[p.from] /\ \A o \in p.ops : o.seq <= Seen(p)
    BY <1>1, SeenFacts
<1>5. cursor \in Nat /\ cursor <= seq[p.from] /\ seq[p.from] \in Nat
    BY <1>2 DEF IInv, TypeOK, CursorsInLog
<1>6. /\ Advanced(cursor, p) \in Nat
      /\ cursor <= Advanced(cursor, p) /\ Seen(p) <= Advanced(cursor, p)
      /\ Advanced(cursor, p) <= seq[p.from]
      /\ Advanced(cursor, p) = cursor \/ Advanced(cursor, p) = Seen(p)
    BY <1>4, <1>5 DEF Advanced, MaxOf
<1>7. \A r, s \in Nodes, sh \in Shards :
          lastSeen'[r][s][sh] =
              (IF r = n /\ s = p.from /\ sh = p.shard THEN Advanced(cursor, p)
                                                      ELSE lastSeen[r][s][sh])
    BY <1>1, <1>2 DEF IInv, TypeOK
<1>8. lastSeen' \in [Nodes -> [Nodes -> [Shards -> Nat]]]
    BY <1>1, <1>2, <1>6 DEF IInv, TypeOK
<1>9. \A r, s \in Nodes, sh \in Shards :
          lastSeen[r][s][sh] \in Nat /\ lastSeen'[r][s][sh] \in Nat
            /\ lastSeen[r][s][sh] <= lastSeen'[r][s][sh]
    <2>1. \A r, s \in Nodes, sh \in Shards : lastSeen[r][s][sh] \in Nat
        BY DEF IInv, TypeOK
    <2> QED  BY <1>6, <1>7, <2>1
<1>10. ASSUME NEW o \in issued
       PROVE  o \in Covered(n)' <=> o \in Covered(n) \cup p.ops
    <2>1. o.seq \in Nat /\ o.from \in Nodes  BY OpFields DEF IInv
    <2>2. ASSUME o \in Covered(n)' PROVE o \in Covered(n) \cup p.ops
        <3>1. CASE o.from = n  BY <3>1 DEF Covered
        <3>2. CASE o.from # n
            <4>1. PICK sh \in Shards : MatchesScope(o, sh) /\ o.seq <= lastSeen'[n][o.from][sh]
                BY <2>2, <3>2 DEF Covered, MatchesScope
            <4>2. CASE o.seq <= lastSeen[n][o.from][sh]
                BY <4>1, <4>2 DEF Covered
            <4>3. CASE ~(o.seq <= lastSeen[n][o.from][sh])
                <5>1. o.from = p.from /\ sh = p.shard /\ o.seq <= Advanced(cursor, p)
                    BY <1>2, <1>7, <2>1, <4>1, <4>3
                <5>2. o.seq <= Seen(p) /\ p.after < o.seq
                    BY <1>2, <1>4, <1>5, <1>6, <2>1, <4>3, <5>1
                <5> QED  BY <1>3, <4>1, <5>1, <5>2 DEF BatchComplete
            <4> QED  BY <4>2, <4>3
        <3> QED  BY <3>1, <3>2
    <2>3. ASSUME o \in Covered(n) PROVE o \in Covered(n)'
        <3>1. CASE o.from = n  BY <1>1, <3>1 DEF Covered
        <3>2. CASE o.from # n
            <4>1. PICK sh \in Shards : MatchesScope(o, sh) /\ o.seq <= lastSeen[n][o.from][sh]
                BY <2>3, <3>2 DEF Covered
            <4>2. o.seq <= lastSeen'[n][o.from][sh]
                <5>1. /\ lastSeen[n][o.from][sh] \in Nat /\ lastSeen'[n][o.from][sh] \in Nat
                      /\ lastSeen[n][o.from][sh] <= lastSeen'[n][o.from][sh]
                    BY <1>2, <1>9, <2>1
                <5> QED  BY <2>1, <4>1, <5>1
            <4> QED  BY <1>1, <4>1, <4>2 DEF Covered, MatchesScope
        <3> QED  BY <3>1, <3>2
    <2>4. ASSUME o \in p.ops PROVE o \in Covered(n)'
        <3>1. o.from = p.from /\ MatchesScope(o, p.shard)
            BY <1>3, <2>4 DEF BatchComplete
        <3>2. o.seq <= Seen(p)  BY <1>4, <2>4
        <3>3. o.seq <= lastSeen'[n][p.from][p.shard]
            BY <1>2, <1>4, <1>6, <1>7, <2>1, <3>2
        <3> QED  BY <1>1, <1>2, <3>1, <3>3 DEF Covered, MatchesScope
    <2> QED  BY <2>2, <2>3, <2>4
<1>11. Covered(n)' = Covered(n) \cup p.ops
    <2>1. Covered(n)' \subseteq issued /\ Covered(n) \subseteq issued
        BY <1>1 DEF Covered
    <2>2. p.ops \subseteq issued  BY <1>3 DEF BatchComplete
    <2> QED  BY <1>10, <2>1, <2>2
<1>12. ASSUME NEW m \in Nodes, m # n PROVE Covered(m)' = Covered(m)
    <2>1. lastSeen'[m] = lastSeen[m]  BY <1>1, <1>12 DEF IInv, TypeOK
    <2> QED  BY <1>1, <2>1 DEF Covered, MatchesScope
<1>13. \A r, s \in Nodes, sh \in Shards : lastSeen'[r][s][sh] <= seq[s]
    BY <1>6, <1>7 DEF IInv, CursorsInLog
<1> QED  BY <1>8, <1>9, <1>11, <1>12, <1>13

\* syncPeer applies an answer.
LEMMA ReceiveKeepsIInv ==
    ASSUME IInv, NEW l \in Lane, Receive(l)
    PROVE  IInv'
<1>1. PICK p \in pulls :
          /\ p.phase = "answered"
          /\ clock' = [clock EXCEPT ![p.to] = Touched(@, p.ops)]
          /\ rows' = [rows EXCEPT ![p.to] = ApplyOps(@, p.ops)]
          /\ lastSeen' = [lastSeen EXCEPT ![p.to][p.from][p.shard] = Advanced(@, p)]
          /\ ackMsgs' \in {ackMsgs, ackMsgs \cup {Ack(p)}}
          /\ pulls' = pulls \ {p}
          /\ UNCHANGED <<seq, log, trimmed, scopeTrimmed, acks, issued>>
    BY DEF Receive
<1> DEFINE n == p.to
<1>2. /\ n \in Nodes /\ p.from \in Nodes /\ p.shard \in Shards /\ p.after \in Nat
      /\ p.ops \subseteq Op
    BY <1>1, PullFields DEF IInv
<1>3. BatchComplete(p)  BY <1>1 DEF IInv, PullsSound
<1>4. Seen(p) \in Nat  BY <1>1, SeenFacts
<1>5. /\ lastSeen' \in [Nodes -> [Nodes -> [Shards -> Nat]]]
      /\ \A r, s \in Nodes, sh \in Shards :
             /\ lastSeen[r][s][sh] <= lastSeen'[r][s][sh]
             /\ lastSeen'[r][s][sh] <= seq[s]
      /\ Covered(n)' = Covered(n) \cup p.ops
      /\ \A m \in Nodes : m # n => Covered(m)' = Covered(m)
    BY <1>1, CursorAdvances DEF MovesCursor
<1>6. /\ Touched(clock[n], p.ops) \in Nat /\ clock[n] <= Touched(clock[n], p.ops)
       /\ \A o \in p.ops : o.ts.c <= Touched(clock[n], p.ops)
    BY <1>2, <1>3, TouchedFacts DEF BatchComplete
<1>7. /\ \A m \in Nodes : clock[m] \in Nat /\ clock'[m] \in Nat /\ clock[m] <= clock'[m]
       /\ clock'[n] = Touched(clock[n], p.ops)
       /\ clock' \in [Nodes -> Nat]
    <2>1. /\ \A m \in Nodes : clock[m] \in Nat
          /\ clock' \in [Nodes -> Nat]
          /\ clock'[n] = Touched(clock[n], p.ops)
          /\ \A m \in Nodes : m # n => clock'[m] = clock[m]
        BY <1>1, <1>2, <1>6 DEF IInv, TypeOK
    <2> QED  BY <1>6, <2>1
<1>7a. \A o \in p.ops : o.ts.c <= clock'[n]
    <2>1. clock'[n] = Touched(clock[n], p.ops)
        BY <1>1, <1>2, <1>6 DEF IInv, TypeOK
    <2> QED  BY <1>6, <2>1
<1>8. ASSUME NEW i \in Ids
       PROVE  /\ MergeBatch(rows[n][i], {o \in p.ops : o.id = i}) \in Row
              /\ rows'[n][i] = MergeBatch(rows[n][i], {o \in p.ops : o.id = i})
              /\ Newest({o \in Covered(n)' : o.id = i}, rows'[n][i])
    <2> DEFINE A == {o \in Covered(n) : o.id = i}
               B == {o \in p.ops : o.id = i}
    <2>1. rows[n][i] \in Row /\ Newest(A, rows[n][i])
        BY <1>2 DEF IInv, TypeOK, StoreIsJoin
    <2>2. rows'[n][i] = MergeBatch(rows[n][i], B)
        <3>1. rows'[n] = ApplyOps(rows[n], p.ops)  BY <1>1, <1>2 DEF IInv, TypeOK
        <3> QED  BY <3>1 DEF ApplyOps
    <2>3. \A o \in A : o.ts \in Timestamp  BY OpFields DEF IInv, Covered
    <2>4. B \subseteq issued /\ \A o \in B : o.from = p.from
        BY <1>3 DEF BatchComplete
    <2>5. {o \in Covered(n)' : o.id = i} = A \cup B  BY <1>5
    <2> HIDE DEF A, B
    <2>6. MergeBatch(rows[n][i], B) \in Row /\ Newest(A \cup B, MergeBatch(rows[n][i], B))
        BY <1>2, <2>1, <2>3, <2>4, BatchMerged
    <2> QED  BY <2>2, <2>5, <2>6 DEF B
<1>9. \A m \in Nodes : m # n => rows'[m] = rows[m]
    BY <1>1 DEF IInv, TypeOK
<1>10. TypeOK'
    <2>1. rows' \in [Nodes -> [Ids -> Row]]
        <3>1. rows'[n] = [i \in Ids |-> MergeBatch(rows[n][i], {o \in p.ops : o.id = i})]
            BY <1>1, <1>2 DEF IInv, TypeOK, ApplyOps
        <3>2. rows'[n] \in [Ids -> Row]  BY <1>8, <3>1
        <3> QED  BY <1>1, <1>9, <3>2 DEF IInv, TypeOK
    <2>2. Ack(p) \in [to : Nodes, from : Nodes, shard : Shards, after : Nat]
        BY <1>2, <1>4 DEF Ack
    <2>3. ackMsgs' \subseteq [to : Nodes, from : Nodes, shard : Shards, after : Nat]
        BY <1>1, <2>2 DEF IInv, TypeOK
    <2>4. pulls' \subseteq Pull  BY <1>1 DEF IInv, TypeOK
    <2> QED  BY <1>1, <1>5, <1>7, <2>1, <2>3, <2>4 DEF IInv, TypeOK
<1>11. Numbered'
    <2> SUFFICES ASSUME NEW o \in issued
                 PROVE  /\ 1 <= o.seq /\ o.seq <= seq[o.from]
                        /\ o.ts.n = o.from /\ 1 <= o.ts.c /\ o.ts.c <= clock'[o.from]
        BY <1>1 DEF Numbered
    <2>1. o.from \in Nodes /\ o.ts.c \in Nat  BY OpFields DEF IInv
    <2>2. /\ 1 <= o.seq /\ o.seq <= seq[o.from]
          /\ o.ts.n = o.from /\ 1 <= o.ts.c /\ o.ts.c <= clock[o.from]
        BY DEF IInv, Numbered
    <2>3. /\ clock[o.from] \in Nat /\ clock'[o.from] \in Nat
          /\ clock[o.from] <= clock'[o.from]
        BY <1>7, <2>1
    <2> QED  BY <2>1, <2>2, <2>3
<1>12. Ordered' /\ LogComplete' /\ TrimRemembered'
    BY <1>1 DEF IInv, Ordered, LogComplete, TrimRemembered
<1>13. CursorsInLog'  BY <1>1, <1>5 DEF CursorsInLog
<1>14. PullsSound'
    <2> SUFFICES ASSUME NEW q \in pulls
                 PROVE  /\ q.to # q.from
                        /\ q.after <= lastSeen'[q.to][q.from][q.shard]
                        /\ q.phase = "answered" => BatchComplete(q)
        BY <1>1 DEF PullsSound, BatchComplete, MatchesScope
    <2>1. /\ q.to # q.from
          /\ q.after <= lastSeen[q.to][q.from][q.shard]
          /\ q.phase = "answered" => BatchComplete(q)
        BY DEF IInv, PullsSound
    <2>2. q.to \in Nodes /\ q.from \in Nodes /\ q.shard \in Shards /\ q.after \in Nat
        BY PullFields DEF IInv
    <2>3. /\ lastSeen[q.to][q.from][q.shard] \in Nat
          /\ lastSeen'[q.to][q.from][q.shard] \in Nat
          /\ lastSeen[q.to][q.from][q.shard] <= lastSeen'[q.to][q.from][q.shard]
        BY <1>5, <2>2 DEF IInv, TypeOK
    <2> QED  BY <2>1, <2>2, <2>3
<1>15. ClockCovers'
    <2>1. \A o \in Covered(n)' : o.ts.c <= clock'[n]
        <3>1. \A o \in Covered(n) : o.ts.c \in Nat /\ o.ts.c <= clock[n]
            BY <1>2, OpFields DEF IInv, ClockCovers, Covered
        <3>2. \A o \in Covered(n) : o.ts.c <= clock'[n]
            BY <1>2, <1>7, <3>1
        <3>3. \A o \in p.ops : o.ts.c <= clock'[n]  BY <1>7a
        <3>4. Covered(n)' = Covered(n) \cup p.ops  BY <1>5
        <3> QED  BY <3>2, <3>3, <3>4
    <2>2. \A m \in Nodes : m # n => \A o \in Covered(m)' : o.ts.c <= clock'[m]
        <3>1. \A m \in Nodes : m # n => clock'[m] = clock[m]
            BY <1>1 DEF IInv, TypeOK
        <3> QED  BY <1>5, <3>1 DEF IInv, ClockCovers
    <2> QED  BY <2>1, <2>2 DEF ClockCovers
<1>16. StoreIsJoin'
    <2>1. \A m \in Nodes, i \in Ids :
              m # n => Newest({o \in Covered(m)' : o.id = i}, rows'[m][i])
        BY <1>5, <1>9 DEF IInv, StoreIsJoin
    <2> QED  BY <1>8, <2>1 DEF StoreIsJoin
<1> QED
    BY <1>10, <1>11, <1>12, <1>13, <1>14, <1>15, <1>16 DEF IInv

\* prune never cuts beyond what was issued.
LEMMA CutInLog ==
    ASSUME IInv, NEW n \in Nodes,
           NEW ackOf \in [Nodes -> [Shards -> Nat \cup {NoAck}]],
           NEW r \in Nodes, NEW sh \in Shards, ackOf[r][sh] # NoAck
    PROVE  /\ Watermark(ackOf) \in Nat
           /\ \A q \in Nodes, t \in Shards :
                  ackOf[q][t] # NoAck => Watermark(ackOf) <= ackOf[q][t]
           /\ Cut(n, ackOf) \in Nat /\ Cut(n, ackOf) <= seq[n]
           /\ Cut(n, ackOf) <= Watermark(ackOf)
<1> DEFINE S == {ackOf[q][t] : q \in Nodes, t \in Shards} \ {NoAck}
<1>1. S \subseteq Nat  OBVIOUS
<1>2. ackOf[r][sh] \in S  OBVIOUS
<1>3. \A q \in Nodes, t \in Shards : ackOf[q][t] # NoAck => ackOf[q][t] \in S
    OBVIOUS
<1>4. Watermark(ackOf) = Min(S)  BY DEF Watermark
<1> HIDE DEF S
<1>5. Min(S) \in S /\ \A k \in S : Min(S) <= k  BY <1>1, <1>2, MinOfNats
<1>6. Watermark(ackOf) \in Nat  BY <1>1, <1>4, <1>5
<1>7. seq[n] \in Nat /\ RetainOps \in Nat
    BY ReplicationAssumption DEF IInv, TypeOK
<1>8. /\ Cut(n, ackOf) \in Nat /\ Cut(n, ackOf) <= seq[n]
      /\ Cut(n, ackOf) <= Watermark(ackOf)
    BY <1>6, <1>7 DEF Cut, MinOf, MaxOf
<1> QED  BY <1>3, <1>4, <1>5, <1>6, <1>8

\* receiveAck and prune: what leaves the log is remembered.
LEMMA ReceiveAckKeepsIInv ==
    ASSUME IInv, NEW m \in ackMsgs, ReceiveAck(m)
    PROVE  IInv'
<1> DEFINE n == m.to
           cut == Cut(n, acks'[n])
           gone == {o \in log[n] : o.seq <= cut}
           goneIn(sh) == {o.seq : o \in {g \in gone : ShardOf[g.id] = sh}}
<1>1. /\ acks' = [acks EXCEPT ![n][m.from][m.shard] = MinOf(m.after, seq[n])]
      /\ Prune(n, acks'[n])
      /\ ackMsgs' = ackMsgs \ {m}
      /\ UNCHANGED <<clock, seq, lastSeen, rows, pulls, issued>>
    BY DEF ReceiveAck
<1>2. n \in Nodes /\ m.from \in Nodes /\ m.shard \in Shards /\ m.after \in Nat
    BY DEF IInv, TypeOK
<1>3. seq[n] \in Nat /\ trimmed[n] \in Nat  BY <1>2 DEF IInv, TypeOK
<1>4. MinOf(m.after, seq[n]) \in Nat  BY <1>2, <1>3 DEF MinOf
<1>5. acks' \in [Nodes -> [Nodes -> [Shards -> Nat \cup {NoAck}]]]
    BY <1>1, <1>2, <1>4 DEF IInv, TypeOK
<1>6. acks'[n][m.from][m.shard] # NoAck
    <2>1. acks'[n][m.from][m.shard] = MinOf(m.after, seq[n])
        BY <1>1, <1>2 DEF IInv, TypeOK
    <2> QED  BY <1>4, <2>1 DEF NoAck
<1>7. cut \in Nat /\ cut <= seq[n]
    <2>1. acks'[n] \in [Nodes -> [Shards -> Nat \cup {NoAck}]]  BY <1>2, <1>5
    <2> QED  BY <1>2, <1>6, <2>1, CutInLog
<1>8. ackMsgs' \subseteq [to : Nodes, from : Nodes, shard : Shards, after : Nat]
    BY <1>1 DEF IInv, TypeOK
<1>9. Numbered' /\ Ordered' /\ CursorsInLog' /\ PullsSound'
    BY <1>1 DEF IInv, Numbered, Ordered, CursorsInLog, PullsSound, BatchComplete
<1>10. ClockCovers' /\ StoreIsJoin'
    <2>1. \A k \in Nodes : Covered(k)' = Covered(k)  BY <1>1 DEF Covered
    <2> QED  BY <1>1, <2>1 DEF IInv, ClockCovers, StoreIsJoin
<1>11. CASE cut <= trimmed[n]
    <2>1. UNCHANGED <<log, trimmed, scopeTrimmed>>  BY <1>1, <1>11 DEF Prune
    <2>2. TypeOK'  BY <1>1, <1>5, <1>8, <2>1 DEF IInv, TypeOK
    <2>3. LogComplete' /\ TrimRemembered'
        BY <1>1, <2>1 DEF IInv, LogComplete, TrimRemembered
    <2> QED  BY <1>9, <1>10, <2>2, <2>3 DEF IInv
<1>12. CASE ~(cut <= trimmed[n])
    <2>1. /\ log' = [log EXCEPT ![n] = @ \ gone]
          /\ trimmed' = [trimmed EXCEPT ![n] = cut]
          /\ scopeTrimmed' = [scopeTrimmed EXCEPT ![n] =
                 [sh \in Shards |-> Max({@[sh]} \cup goneIn(sh))]]
        BY <1>1, <1>12 DEF Prune
    <2>2. /\ IsFiniteSet(log[n])
          /\ log[n] = {o \in issued : o.from = n /\ o.seq > trimmed[n]}
        BY <1>2 DEF IInv, LogComplete
    <2>3. ASSUME NEW sh \in Shards
          PROVE  /\ scopeTrimmed'[n][sh] \in Nat
                 /\ scopeTrimmed[n][sh] <= scopeTrimmed'[n][sh]
                 /\ \A o \in gone : ShardOf[o.id] = sh => o.seq <= scopeTrimmed'[n][sh]
        <3> DEFINE S == {scopeTrimmed[n][sh]} \cup goneIn(sh)
        <3>1. scopeTrimmed[n][sh] \in Nat  BY <1>2 DEF IInv, TypeOK
        <3>2. \A o \in gone : o.seq \in Nat /\ o.seq <= cut
            BY <2>2, OpFields DEF IInv
        <3>3. S \subseteq Nat /\ S # {}  BY <3>1, <3>2
        <3>4. \A k \in S : k <= scopeTrimmed[n][sh] + cut  BY <1>7, <3>1, <3>2
        <3>5. scopeTrimmed'[n][sh] = Max(S)
            <4>1. scopeTrimmed'[n] = [t \in Shards |->
                      Max({scopeTrimmed[n][t]} \cup goneIn(t))]
                BY <1>2, <2>1 DEF IInv, TypeOK
            <4> QED  BY <4>1
        <3>6. /\ scopeTrimmed[n][sh] \in S
              /\ \A o \in gone : ShardOf[o.id] = sh => o.seq \in S
            OBVIOUS
        <3> HIDE DEF S
        <3>7. Max(S) \in S /\ \A k \in S : k <= Max(S)
            <4>1. scopeTrimmed[n][sh] + cut \in Nat  BY <1>7, <3>1
            <4> QED  BY <3>3, <3>4, <4>1, MaxOfNats
        <3> QED  BY <3>3, <3>5, <3>6, <3>7
    <2>4. TypeOK'
        <3>1. log' \in [Nodes -> SUBSET Op]  BY <1>2, <2>1 DEF IInv, TypeOK
        <3>2. trimmed' \in [Nodes -> Nat]  BY <1>2, <1>7, <2>1 DEF IInv, TypeOK
        <3>3. scopeTrimmed' \in [Nodes -> [Shards -> Nat]]
            <4>1. \A k \in Nodes : k # n => scopeTrimmed'[k] = scopeTrimmed[k]
                BY <2>1 DEF IInv, TypeOK
            <4>2. scopeTrimmed'[n] = [t \in Shards |->
                      Max({scopeTrimmed[n][t]} \cup goneIn(t))]
                BY <1>2, <2>1 DEF IInv, TypeOK
            <4>3. scopeTrimmed'[n] \in [Shards -> Nat]  BY <2>3, <4>2
            <4> QED  BY <2>1, <4>1, <4>3 DEF IInv, TypeOK
        <3> QED  BY <1>1, <1>5, <1>8, <3>1, <3>2, <3>3 DEF IInv, TypeOK
    <2>5. LogComplete'
        <3> SUFFICES ASSUME NEW k \in Nodes
                     PROVE  /\ IsFiniteSet(log'[k])
                            /\ log'[k] = {o \in issued : o.from = k /\ o.seq > trimmed'[k]}
                            /\ trimmed'[k] <= seq[k]
            BY <1>1 DEF LogComplete
        <3>1. CASE k # n
            <4>1. log'[k] = log[k] /\ trimmed'[k] = trimmed[k]
                BY <2>1, <3>1 DEF IInv, TypeOK
            <4> QED  BY <4>1 DEF IInv, LogComplete
        <3>2. CASE k = n
            <4>1. log'[k] = log[n] \ gone /\ trimmed'[k] = cut
                BY <1>2, <2>1, <3>2 DEF IInv, TypeOK
            <4>2. IsFiniteSet(log'[k])
                <5>1. log'[k] \in SUBSET log[n]  BY <4>1
                <5> QED  BY <2>2, <5>1, FS_Subset
            <4>3. \A o \in issued : o.seq \in Nat  BY OpFields DEF IInv
            <4>4. log'[k] = {o \in issued : o.from = k /\ o.seq > trimmed'[k]}
                BY <1>3, <1>7, <1>12, <2>2, <3>2, <4>1, <4>3
            <4> QED  BY <1>7, <3>2, <4>1, <4>2, <4>4
        <3> QED  BY <3>1, <3>2
    <2>6. TrimRemembered'
        <3> SUFFICES ASSUME NEW o \in issued, o.seq <= trimmed'[o.from]
                     PROVE  o.seq <= scopeTrimmed'[o.from][ShardOf[o.id]]
            BY <1>1 DEF TrimRemembered
        <3>1. o.from \in Nodes /\ o.seq \in Nat /\ o.id \in Ids  BY OpFields DEF IInv
        <3>2. ShardOf[o.id] \in Shards  BY <3>1, ReplicationAssumption
        <3>3. CASE o.from # n
            <4>1. /\ trimmed'[o.from] = trimmed[o.from]
                  /\ scopeTrimmed'[o.from] = scopeTrimmed[o.from]
                BY <2>1, <3>1, <3>3 DEF IInv, TypeOK
            <4> QED  BY <4>1 DEF IInv, TrimRemembered
        <3>4. CASE o.from = n
            <4>1. trimmed'[n] = cut  BY <1>2, <2>1 DEF IInv, TypeOK
            <4>2. CASE o.seq <= trimmed[n]
                <5>1. o.seq <= scopeTrimmed[n][ShardOf[o.id]]
                    BY <3>4, <4>2 DEF IInv, TrimRemembered
                <5>2. scopeTrimmed[n][ShardOf[o.id]] \in Nat
                    BY <1>2, <3>2 DEF IInv, TypeOK
                <5> QED  BY <2>3, <3>1, <3>2, <3>4, <5>1, <5>2
            <4>3. CASE ~(o.seq <= trimmed[n])
                <5>1. o \in gone  BY <1>3, <2>2, <3>1, <3>4, <4>1, <4>3
                <5> QED  BY <2>3, <3>2, <3>4, <5>1
            <4> QED  BY <4>2, <4>3
        <3> QED  BY <3>3, <3>4
    <2> QED  BY <1>9, <1>10, <2>4, <2>5, <2>6 DEF IInv
<1> QED  BY <1>11, <1>12

LEMMA NextIInv == IInv /\ [Next]_vars => IInv'
<1> SUFFICES ASSUME IInv, [Next]_vars PROVE IInv'
    OBVIOUS
<1>1. CASE \E n \in Nodes, id \in Ids : Insert(n, id) \/ Replace(n, id) \/ Remove(n, id)
    BY <1>1, CommitKeepsIInv DEF Insert, Replace, Remove, Kinds
<1>2. CASE \E l \in Lane :
              \/ StartPull(l) \/ Serve(l) \/ Receive(l)
              \/ ReceiveTruncated(l) \/ FailPull(l)
    BY <1>2, StartPullKeepsIInv, ServeKeepsIInv, ReceiveKeepsIInv, EndPullKeepsIInv
<1>3. CASE \E m \in ackMsgs : ReceiveAck(m)
    BY <1>3, ReceiveAckKeepsIInv
<1>4. CASE UNCHANGED vars
    <2>1. UNCHANGED <<clock, seq, log, trimmed, scopeTrimmed, lastSeen, acks, rows,
                      ackMsgs, issued>> /\ pulls' = pulls
        BY <1>4 DEF vars
    <2>2. pulls' \subseteq Pull /\ PullsSound'
        BY <2>1 DEF IInv, TypeOK, PullsSound, BatchComplete
    <2> QED  BY <2>1, <2>2, PullsOnly
<1> QED  BY <1>1, <1>2, <1>3, <1>4 DEF Next

LEMMA Invariance == Spec => []IInv
BY InitIInv, NextIInv, PTL DEF Spec

----------------------------------------------------------------------------
(***************************************************************************)
(* Clocks, logs, cursors, acknowledgements and messages keep their types.   *)
(***************************************************************************)
THEOREM TypeCorrect == Spec => []TypeOK
<1>1. IInv => TypeOK  BY DEF IInv
<1> QED  BY Invariance, <1>1, PTL

(***************************************************************************)
(* No cursor ever skips an operation: in every cluster, the store of a node *)
(* is what the operations behind its cursors determine, although answers    *)
(* are cut off at syncBatchSize, overlap with those of the other lane, and  *)
(* logs are pruned meanwhile (syncPeer, applyRemote, _opsAfter, prune).     *)
(***************************************************************************)
THEOREM StoreIsJoinHolds == Spec => []StoreIsJoin
<1>1. IInv => StoreIsJoin  BY DEF IInv
<1> QED  BY Invariance, <1>1, PTL

----------------------------------------------------------------------------
\* The refinement: a commit issues, an answer applied lets its node learn, and
\* every other step is invisible.

Known == [n \in Nodes |-> Covered(n)]

LEMMA AbstractNewest ==
    ASSUME NEW ops, NEW row, Newest(ops, row)
    PROVE  Abstract!Newest(ops, row)
BY DEF Newest, Abstract!Newest, NoRow, Abstract!NoRow, NoTs, Abstract!NoTs,
       Geq, Abstract!Geq, Gt, Abstract!Gt

LEMMA InitRefines == Init => Abstract!Init
<1> SUFFICES ASSUME Init PROVE Abstract!Init
    OBVIOUS
<1>1. \A n \in Nodes : Covered(n) = {}  BY DEF Init, Covered
<1>2. NoRow = Abstract!NoRow  BY DEF NoRow, Abstract!NoRow, NoTs, Abstract!NoTs
<1>3. rows = [n \in Nodes |-> [id \in Ids |-> Abstract!NoRow]]
    BY <1>2 DEF Init
<1> QED  BY <1>1, <1>3 DEF Init, Abstract!Init

\* Every node shows the newest of what it knows after the step.
AllShow == \A n \in Nodes : Abstract!Shows(Covered(n), rows[n])

LEMMA StoresShow == IInv => AllShow
BY AbstractNewest DEF IInv, StoreIsJoin, Abstract!Shows, AllShow

LEMMA CommitRefines ==
    ASSUME IInv, NEW n \in Nodes, NEW id \in Ids, NEW kind \in Kinds,
           Commit(n, kind, id),
           AllShow'
    PROVE  Abstract!Issue(n)
<1> DEFINE op == NewOp(n, kind, id)
<1>1. /\ issued' = issued \cup {op} /\ lastSeen' = lastSeen
      /\ rows' = [rows EXCEPT ![n] = ApplyOps(@, {op})]
    BY DEF Commit
<1>2. /\ op.from = n /\ op.seq = seq[n] + 1 /\ op.ts.c = clock[n] + 1 /\ op.ts.n = n
      /\ Covered(n)' = Covered(n) \cup {op}
      /\ \A m \in Nodes : m # n => Covered(m)' = Covered(m)
      /\ \A o \in Covered(n) : o.ts.c \in Nat /\ o.ts.c < op.ts.c
    BY <1>1, NewOpFacts
<1> HIDE DEF op
<1>3. clock[n] \in Nat /\ seq[n] \in Nat  BY DEF IInv, TypeOK
<1>4. \A o \in issued : o.ts # op.ts
    <2> SUFFICES ASSUME NEW o \in issued, o.ts = op.ts PROVE FALSE
        OBVIOUS
    <2>1. o.from = n  BY <1>2 DEF IInv, Numbered
    <2>2. o.ts.c <= clock[n] /\ o.ts.c \in Nat
        BY <2>1, OpFields DEF IInv, Numbered
    <2> QED  BY <1>2, <1>3, <2>2
<1>5. op \in issued' \ issued  BY <1>1, <1>4
<1>6. Known' = [Known EXCEPT ![n] = @ \cup {op}]  BY <1>2 DEF Known
<1>7. \A k \in Known[n] : Abstract!Gt(op.ts, k.ts)
    BY <1>2, <1>3 DEF Known, Abstract!Gt
<1>8. Abstract!Shows(Known'[n], rows'[n])  BY DEF Known, AllShow
<1>9. \A m \in Nodes \ {n} : rows'[m] = rows[m]  BY <1>1 DEF IInv, TypeOK
<1> QED  BY <1>1, <1>4, <1>5, <1>6, <1>7, <1>8, <1>9 DEF Abstract!Issue, Known

LEMMA ReceiveRefines ==
    ASSUME IInv, NEW l \in Lane, Receive(l),
           AllShow'
    PROVE  \E n \in Nodes : Abstract!Learn(n)
<1>1. PICK p \in pulls :
          /\ p.phase = "answered"
          /\ rows' = [rows EXCEPT ![p.to] = ApplyOps(@, p.ops)]
          /\ lastSeen' = [lastSeen EXCEPT ![p.to][p.from][p.shard] = Advanced(@, p)]
          /\ issued' = issued
    BY DEF Receive
<1> DEFINE n == p.to
<1>2. n \in Nodes  BY PullFields DEF IInv
<1>3. /\ Covered(n)' = Covered(n) \cup p.ops
      /\ \A m \in Nodes : m # n => Covered(m)' = Covered(m)
    BY <1>1, CursorAdvances DEF MovesCursor
<1>4. p.ops \subseteq issued  BY <1>1 DEF IInv, PullsSound, BatchComplete
<1>5. Covered(n) \subseteq issued  BY DEF Covered
<1>6. /\ Known[n] \subseteq Known'[n] /\ Known'[n] \subseteq issued
      /\ Abstract!Shows(Known'[n], rows'[n])
    BY <1>2, <1>3, <1>4, <1>5 DEF Known, AllShow
<1>7. \A m \in Nodes \ {n} : Known'[m] = Known[m] /\ rows'[m] = rows[m]
    BY <1>1, <1>2, <1>3 DEF Known, IInv, TypeOK
<1>8. Abstract!Learn(n)  BY <1>1, <1>6, <1>7 DEF Abstract!Learn, Known
<1> QED  BY <1>2, <1>8

LEMMA StepRefines ==
    ASSUME IInv, [Next]_vars,
           AllShow'
    PROVE  [Abstract!Next]_(Abstract!vars)
<1>1. CASE UNCHANGED <<issued, lastSeen, rows>>
    <2>1. Known' = Known  BY <1>1 DEF Known, Covered
    <2> QED  BY <1>1, <2>1 DEF Abstract!vars, Known
<1>2. CASE \E n \in Nodes, id \in Ids : Insert(n, id) \/ Replace(n, id) \/ Remove(n, id)
    BY <1>2, CommitRefines DEF Insert, Replace, Remove, Kinds, Abstract!Next
<1>3. CASE \E l \in Lane : Receive(l)
    BY <1>3, ReceiveRefines DEF Abstract!Next
<1>4. CASE \E l \in Lane : \/ StartPull(l) \/ Serve(l)
                           \/ ReceiveTruncated(l) \/ FailPull(l)
    BY <1>1, <1>4 DEF StartPull, Serve, ReceiveTruncated, FailPull
<1>5. CASE \E m \in ackMsgs : ReceiveAck(m)
    BY <1>1, <1>5 DEF ReceiveAck
<1>6. CASE UNCHANGED vars
    BY <1>1, <1>6 DEF vars
<1> QED  BY <1>2, <1>3, <1>4, <1>5, <1>6 DEF Next

(***************************************************************************)
(* The protocol implements the convergent store: in every cluster, a local  *)
(* write supersedes all its node had seen, answers only ever add to what a  *)
(* replica knows, and a replica shows the newest of what it knows           *)
(* (_commitLocalOps, syncPeer, applyRemote).                                *)
(***************************************************************************)
THEOREM ConvergentStoreRefinement == Spec => ImplementsConvergentStore
<1>1. IInv' => AllShow'  BY StoresShow, PTL
<1>2. IInv /\ IInv' /\ [Next]_vars => [Abstract!Next]_(Abstract!vars)
    BY <1>1, StepRefines
<1> QED
    BY InitRefines, <1>2, Invariance, PTL
    DEF Spec, ImplementsConvergentStore, Abstract!Spec

----------------------------------------------------------------------------
\* An acknowledgement, in flight or recorded, is behind the cursor of the
\* replica that sent it, and cursors only advance.

Cursors(r, s, sh) == lastSeen[r][s][sh]

AcksBehindCursors ==
    /\ \A n, r \in Nodes, sh \in Shards : acks[n][r][sh] <= Cursors(r, n, sh)
    /\ \A m \in ackMsgs : m.after <= Cursors(m.from, m.to, m.shard)

CursorsAdvance ==
    \A r, s \in Nodes, sh \in Shards : Cursors(r, s, sh) <= Cursors(r, s, sh)'

LEMMA AckFields ==
    ASSUME TypeOK, NEW m \in ackMsgs
    PROVE  m.to \in Nodes /\ m.from \in Nodes /\ m.shard \in Shards /\ m.after \in Nat
BY DEF TypeOK

LEMMA CursorTypes ==
    ASSUME TypeOK
    PROVE  /\ \A r, s \in Nodes, sh \in Shards : Cursors(r, s, sh) \in Nat
           /\ \A n, r \in Nodes, sh \in Shards : acks[n][r][sh] \in Nat \cup {NoAck}
BY DEF TypeOK, Cursors

LEMMA InitAcks == Init => AcksBehindCursors
BY DEF Init, AcksBehindCursors, Cursors, NoAck

\* syncPeer acknowledges the cursor it has just reached.
LEMMA ReceiveKeepsAcks ==
    ASSUME IInv, AcksBehindCursors, NEW l \in Lane, Receive(l)
    PROVE  AcksBehindCursors' /\ CursorsAdvance
<1>1. PICK p \in pulls :
          /\ p.phase = "answered"
          /\ lastSeen' = [lastSeen EXCEPT ![p.to][p.from][p.shard] = Advanced(@, p)]
          /\ ackMsgs' \in {ackMsgs, ackMsgs \cup {Ack(p)}}
          /\ UNCHANGED <<acks, issued>>
    BY DEF Receive
<1>2. /\ lastSeen' \in [Nodes -> [Nodes -> [Shards -> Nat]]]
      /\ \A r, s \in Nodes, sh \in Shards : lastSeen[r][s][sh] <= lastSeen'[r][s][sh]
    BY <1>1, CursorAdvances DEF MovesCursor
<1>3. \A r, s \in Nodes, sh \in Shards :
          Cursors(r, s, sh) \in Nat /\ Cursors(r, s, sh)' \in Nat
    BY <1>2 DEF IInv, TypeOK, Cursors
<1>4. CursorsAdvance  BY <1>2 DEF CursorsAdvance, Cursors
<1>5. p.to \in Nodes /\ p.from \in Nodes /\ p.shard \in Shards /\ Seen(p) \in Nat
    BY <1>1, PullFields, SeenFacts DEF IInv
<1>6. Seen(p) <= Cursors(p.to, p.from, p.shard)'
    <2>1. lastSeen'[p.to][p.from][p.shard] = Advanced(lastSeen[p.to][p.from][p.shard], p)
        BY <1>1, <1>5 DEF IInv, TypeOK
    <2>2. lastSeen[p.to][p.from][p.shard] \in Nat  BY <1>5 DEF IInv, TypeOK
    <2> QED  BY <1>5, <2>1, <2>2 DEF Advanced, MaxOf, Cursors
<1>7. ASSUME NEW n \in Nodes, NEW r \in Nodes, NEW sh \in Shards
      PROVE  acks'[n][r][sh] <= Cursors(r, n, sh)'
    <2>1. acks[n][r][sh] \in Nat \cup {NoAck}  BY CursorTypes DEF IInv
    <2>2. acks[n][r][sh] <= Cursors(r, n, sh)  BY DEF AcksBehindCursors
    <2>3. Cursors(r, n, sh) <= Cursors(r, n, sh)'  BY <1>4 DEF CursorsAdvance
    <2> QED  BY <1>1, <1>3, <2>1, <2>2, <2>3 DEF NoAck
<1>8. ASSUME NEW m \in ackMsgs'
      PROVE  m.after <= Cursors(m.from, m.to, m.shard)'
    <2>1. CASE m \in ackMsgs
        <3>1. m.to \in Nodes /\ m.from \in Nodes /\ m.shard \in Shards /\ m.after \in Nat
            BY <2>1, AckFields DEF IInv
        <3>2. m.after <= Cursors(m.from, m.to, m.shard)  BY <2>1 DEF AcksBehindCursors
        <3>3. Cursors(m.from, m.to, m.shard) <= Cursors(m.from, m.to, m.shard)'
            BY <1>4, <3>1 DEF CursorsAdvance
        <3> QED  BY <1>3, <3>1, <3>2, <3>3
    <2>2. CASE m = Ack(p)
        <3>1. m.after = Seen(p) /\ m.from = p.to /\ m.to = p.from /\ m.shard = p.shard
            BY <2>2 DEF Ack
        <3> QED  BY <1>6, <3>1
    <2> QED  BY <1>1, <2>1, <2>2
<1> QED  BY <1>4, <1>7, <1>8 DEF AcksBehindCursors

\* receiveAck records no more than the acknowledgement says.
LEMMA ReceiveAckKeepsAcks ==
    ASSUME IInv, AcksBehindCursors, NEW m \in ackMsgs, ReceiveAck(m)
    PROVE  AcksBehindCursors' /\ CursorsAdvance
<1>1. /\ acks' = [acks EXCEPT ![m.to][m.from][m.shard] = MinOf(m.after, seq[m.to])]
      /\ ackMsgs' = ackMsgs \ {m}
      /\ lastSeen' = lastSeen
    BY DEF ReceiveAck
<1>2. m.to \in Nodes /\ m.from \in Nodes /\ m.shard \in Shards /\ m.after \in Nat
    BY AckFields DEF IInv
<1>3. seq[m.to] \in Nat  BY <1>2 DEF IInv, TypeOK
<1>4. MinOf(m.after, seq[m.to]) \in Nat /\ MinOf(m.after, seq[m.to]) <= m.after
    BY <1>2, <1>3 DEF MinOf
<1>5. \A r, s \in Nodes, sh \in Shards :
          Cursors(r, s, sh) \in Nat /\ Cursors(r, s, sh)' = Cursors(r, s, sh)
    BY <1>1, CursorTypes DEF IInv, Cursors
<1>6. CursorsAdvance  BY <1>5 DEF CursorsAdvance
<1>7. ASSUME NEW n \in Nodes, NEW r \in Nodes, NEW sh \in Shards
      PROVE  acks'[n][r][sh] <= Cursors(r, n, sh)'
    <2>1. acks[n][r][sh] <= Cursors(r, n, sh)  BY DEF AcksBehindCursors
    <2>2. m.after <= Cursors(m.from, m.to, m.shard)  BY DEF AcksBehindCursors
    <2>3. CASE n = m.to /\ r = m.from /\ sh = m.shard
        <3>1. acks'[n][r][sh] = MinOf(m.after, seq[m.to])
            BY <1>1, <1>2, <2>3 DEF IInv, TypeOK
        <3> QED  BY <1>2, <1>4, <1>5, <2>2, <2>3, <3>1
    <2>4. CASE ~(n = m.to /\ r = m.from /\ sh = m.shard)
        <3>1. acks'[n][r][sh] = acks[n][r][sh]
            BY <1>1, <1>2, <2>4 DEF IInv, TypeOK
        <3> QED  BY <1>5, <2>1, <3>1
    <2> QED  BY <2>3, <2>4
<1>8. \A k \in ackMsgs' : k.after <= Cursors(k.from, k.to, k.shard)'
    BY <1>1, <1>5, AckFields DEF IInv, AcksBehindCursors
<1> QED  BY <1>6, <1>7, <1>8 DEF AcksBehindCursors

\* The other steps leave cursors, acknowledgements and pruning alone.
LEMMA QuietStep ==
    ASSUME IInv, [Next]_vars,
           ~\E l \in Lane : Receive(l),
           ~\E m \in ackMsgs : ReceiveAck(m)
    PROVE  UNCHANGED <<lastSeen, acks, ackMsgs, trimmed, scopeTrimmed>>
<1>1. CASE \E n \in Nodes, id \in Ids : Insert(n, id) \/ Replace(n, id) \/ Remove(n, id)
    BY <1>1 DEF Insert, Replace, Remove, Commit
<1>2. CASE \E l \in Lane : StartPull(l) \/ Serve(l)
    BY <1>2 DEF StartPull, Serve
<1>3. CASE \E l \in Lane : ReceiveTruncated(l) \/ FailPull(l)
    BY <1>3 DEF ReceiveTruncated, FailPull
<1>4. CASE UNCHANGED vars  BY <1>4 DEF vars
<1> QED  BY <1>1, <1>2, <1>3, <1>4 DEF Next

LEMMA NextAcks ==
    IInv /\ AcksBehindCursors /\ [Next]_vars => AcksBehindCursors' /\ CursorsAdvance
<1> SUFFICES ASSUME IInv, AcksBehindCursors, [Next]_vars
             PROVE  AcksBehindCursors' /\ CursorsAdvance
    OBVIOUS
<1>1. CASE \E l \in Lane : Receive(l)  BY <1>1, ReceiveKeepsAcks
<1>2. CASE \E m \in ackMsgs : ReceiveAck(m)  BY <1>2, ReceiveAckKeepsAcks
<1>3. CASE ~(\E l \in Lane : Receive(l)) /\ ~\E m \in ackMsgs : ReceiveAck(m)
    <2>1. UNCHANGED <<lastSeen, acks, ackMsgs>>  BY <1>3, QuietStep
    <2>2. AcksBehindCursors'  BY <2>1 DEF AcksBehindCursors, Cursors
    <2>3. \A r, s \in Nodes, sh \in Shards :
              Cursors(r, s, sh) \in Nat /\ Cursors(r, s, sh)' = Cursors(r, s, sh)
        BY <2>1, CursorTypes DEF IInv, Cursors
    <2> QED  BY <2>2, <2>3 DEF CursorsAdvance
<1> QED  BY <1>1, <1>2, <1>3

\* What a pruning takes away, everybody who acknowledges has passed.
LEMMA PruneBehindCursors ==
    ASSUME IInv, AcksBehindCursors', NEW m \in ackMsgs, ReceiveAck(m),
           NEW r \in Nodes, NEW sh \in Shards,
           acks[m.to][r][sh] # NoAck,
           Cut(m.to, acks'[m.to]) > trimmed[m.to]
    PROVE  /\ trimmed'[m.to] <= Cursors(r, m.to, sh)
           /\ \/ scopeTrimmed'[m.to][sh] = scopeTrimmed[m.to][sh]
              \/ scopeTrimmed'[m.to][sh] <= Cursors(r, m.to, sh)
<1> DEFINE n == m.to
           cut == Cut(n, acks'[n])
           goneIn == {o.seq : o \in {g \in {o \in log[n] : o.seq <= cut} : ShardOf[g.id] = sh}}
           S == {scopeTrimmed[n][sh]} \cup goneIn
<1>1. /\ acks' = [acks EXCEPT ![n][m.from][m.shard] = MinOf(m.after, seq[n])]
      /\ Prune(n, acks'[n])
      /\ lastSeen' = lastSeen
    BY DEF ReceiveAck
<1>2. n \in Nodes /\ m.from \in Nodes /\ m.shard \in Shards /\ m.after \in Nat
    BY AckFields DEF IInv
<1>3. /\ seq[n] \in Nat /\ trimmed[n] \in Nat /\ scopeTrimmed[n][sh] \in Nat
      /\ Cursors(r, n, sh) \in Nat
    BY <1>2, CursorTypes DEF IInv, TypeOK
<1>4. MinOf(m.after, seq[n]) \in Nat  BY <1>2, <1>3 DEF MinOf
<1>5. /\ acks'[n] \in [Nodes -> [Shards -> Nat \cup {NoAck}]]
      /\ acks'[n][r][sh] \in Nat \cup {NoAck}
    BY <1>1, <1>2, <1>4 DEF IInv, TypeOK
<1>6. acks'[n][r][sh] # NoAck
    <2>1. CASE r = m.from /\ sh = m.shard
        <3>1. acks'[n][r][sh] = MinOf(m.after, seq[n])
            BY <1>1, <1>2, <2>1 DEF IInv, TypeOK
        <3> QED  BY <1>4, <3>1 DEF NoAck
    <2>2. CASE ~(r = m.from /\ sh = m.shard)
        <3>1. acks'[n][r][sh] = acks[n][r][sh]
            BY <1>1, <1>2, <2>2 DEF IInv, TypeOK
        <3> QED  BY <3>1
    <2> QED  BY <2>1, <2>2
<1>7. cut \in Nat /\ cut <= Watermark(acks'[n]) /\ Watermark(acks'[n]) \in Nat
      /\ Watermark(acks'[n]) <= acks'[n][r][sh]
    BY <1>2, <1>5, <1>6, CutInLog
<1>8. acks'[n][r][sh] <= Cursors(r, n, sh)
    BY <1>1, <1>2 DEF AcksBehindCursors, Cursors
<1> HIDE DEF cut
<1>9. cut <= Cursors(r, n, sh)  BY <1>3, <1>5, <1>6, <1>7, <1>8
<1> USE DEF cut
<1>10. /\ trimmed' = [trimmed EXCEPT ![n] = cut]
       /\ scopeTrimmed' = [scopeTrimmed EXCEPT ![n] =
              [t \in Shards |-> Max({@[t]} \cup {o.seq : o \in
                  {g \in {o \in log[n] : o.seq <= cut} : ShardOf[g.id] = t}})]]
    <2>1. ~(cut <= trimmed[n])  BY <1>3, <1>7
    <2> QED  BY <1>1, <2>1 DEF Prune
<1>11. trimmed'[n] = cut  BY <1>2, <1>10 DEF IInv, TypeOK
<1>12. scopeTrimmed'[n][sh] = Max(S)  BY <1>2, <1>10 DEF IInv, TypeOK
<1>13. \A k \in goneIn : k \in Nat /\ k <= cut
    BY <1>2, OpFields DEF IInv, LogComplete
<1> HIDE DEF goneIn, cut
<1>14. /\ S \subseteq Nat /\ S # {}
       /\ \A k \in S : k <= scopeTrimmed[n][sh] + cut
       /\ scopeTrimmed[n][sh] + cut \in Nat
    BY <1>3, <1>7, <1>13
<1>15. \A k \in S : k = scopeTrimmed[n][sh] \/ k <= cut  BY <1>13
<1> HIDE DEF S
<1>16. Max(S) \in S  BY <1>14, MaxOfNats
<1>17. CASE Max(S) = scopeTrimmed[n][sh]  BY <1>9, <1>11, <1>12, <1>17
<1>18. CASE Max(S) <= cut
    <2>1. Max(S) \in Nat  BY <1>14, <1>16
    <2>2. Max(S) <= Cursors(r, n, sh)  BY <1>3, <1>7, <1>9, <1>18, <2>1
    <2> QED  BY <1>9, <1>11, <1>12, <2>2
<1> QED  BY <1>15, <1>16, <1>17, <1>18

\* The action of AckedPeersStayInLog.
StaysInLog ==
    \A n, r \in Nodes, sh \in Shards :
        acks[n][r][sh] # NoAck /\ InLog(n, r, sh) => InLog(n, r, sh)'

LEMMA StaysWhileNotPruned ==
    ASSUME IInv, CursorsAdvance, lastSeen' \in [Nodes -> [Nodes -> [Shards -> Nat]]],
           NEW n \in Nodes, NEW r \in Nodes, NEW sh \in Shards,
           trimmed'[n] = trimmed[n], scopeTrimmed'[n][sh] = scopeTrimmed[n][sh],
           InLog(n, r, sh)
    PROVE  InLog(n, r, sh)'
<1>1. lastSeen[r][n][sh] <= lastSeen'[r][n][sh]  BY DEF CursorsAdvance, Cursors
<1>2. /\ trimmed[n] \in Nat /\ scopeTrimmed[n][sh] \in Nat
      /\ lastSeen[r][n][sh] \in Nat /\ lastSeen'[r][n][sh] \in Nat
    BY DEF IInv, TypeOK
<1> QED  BY <1>1, <1>2 DEF InLog, NeedsSnapshot

LEMMA StepStaysInLog ==
    ASSUME IInv, IInv', AcksBehindCursors, AcksBehindCursors', [Next]_vars
    PROVE  StaysInLog
<1>1. CursorsAdvance  BY NextAcks
<1>2. lastSeen' \in [Nodes -> [Nodes -> [Shards -> Nat]]]  BY DEF IInv, TypeOK
<1> SUFFICES ASSUME NEW n \in Nodes, NEW r \in Nodes, NEW sh \in Shards,
                    acks[n][r][sh] # NoAck, InLog(n, r, sh)
             PROVE  InLog(n, r, sh)'
    BY DEF StaysInLog
<1>3. CASE UNCHANGED <<trimmed, scopeTrimmed>>
    BY <1>1, <1>2, <1>3, StaysWhileNotPruned
<1>4. ASSUME NEW m \in ackMsgs, ReceiveAck(m)
      PROVE  InLog(n, r, sh)'
    <2>1. m.to \in Nodes  BY AckFields DEF IInv
    <2>2. Prune(m.to, acks'[m.to]) /\ lastSeen' = lastSeen  BY <1>4 DEF ReceiveAck
    <2>3. CASE n # m.to
        <3>1. trimmed'[n] = trimmed[n] /\ scopeTrimmed'[n] = scopeTrimmed[n]
            BY <2>1, <2>2, <2>3 DEF Prune, IInv, TypeOK
        <3> QED  BY <1>1, <1>2, <3>1, StaysWhileNotPruned
    <2>4. CASE Cut(m.to, acks'[m.to]) <= trimmed[m.to]
        <3>1. UNCHANGED <<trimmed, scopeTrimmed>>  BY <2>2, <2>4 DEF Prune
        <3> QED  BY <1>1, <1>2, <3>1, StaysWhileNotPruned
    <2>5. CASE n = m.to /\ ~(Cut(m.to, acks'[m.to]) <= trimmed[m.to])
        <3>1. /\ trimmed'[n] \in Nat /\ scopeTrimmed[n][sh] \in Nat
              /\ scopeTrimmed'[n][sh] \in Nat /\ lastSeen[r][n][sh] \in Nat
              /\ trimmed[n] \in Nat
            BY DEF IInv, TypeOK
        <3>2. Cut(m.to, acks'[m.to]) > trimmed[m.to]
            <4>1. Cut(m.to, acks'[m.to]) \in Nat
                <5>1. acks'[m.to] \in [Nodes -> [Shards -> Nat \cup {NoAck}]]
                    BY <2>1 DEF IInv, TypeOK
                <5>2. acks'[m.to][m.from][m.shard] # NoAck
                    <6>1. acks'[m.to][m.from][m.shard] = MinOf(m.after, seq[m.to])
                        BY <1>4, AckFields DEF ReceiveAck, IInv, TypeOK
                    <6>2. m.after \in Nat /\ seq[m.to] \in Nat
                        BY AckFields DEF IInv, TypeOK
                    <6> QED  BY <6>1, <6>2 DEF MinOf, NoAck
                <5>3. m.from \in Nodes /\ m.shard \in Shards  BY AckFields DEF IInv
                <5> QED  BY <2>1, <5>1, <5>2, <5>3, CutInLog
            <4> QED  BY <2>5, <3>1, <4>1
        <3>3. /\ trimmed'[n] <= Cursors(r, n, sh)
              /\ \/ scopeTrimmed'[n][sh] = scopeTrimmed[n][sh]
                 \/ scopeTrimmed'[n][sh] <= Cursors(r, n, sh)
            BY <1>4, <2>5, <3>2, PruneBehindCursors
        <3> QED  BY <2>2, <3>1, <3>3 DEF InLog, NeedsSnapshot, Cursors
    <2> QED  BY <2>3, <2>4, <2>5
<1>5. CASE ~\E m \in ackMsgs : ReceiveAck(m)
    <2>1. CASE \E l \in Lane : Receive(l)
        <3>1. UNCHANGED <<trimmed, scopeTrimmed>>  BY <2>1 DEF Receive
        <3> QED  BY <1>3, <3>1
    <2>2. CASE ~\E l \in Lane : Receive(l)
        <3>1. UNCHANGED <<trimmed, scopeTrimmed>>  BY <1>5, <2>2, QuietStep
        <3> QED  BY <1>3, <3>1
    <2> QED  BY <2>1, <2>2
<1> QED  BY <1>4, <1>5

(***************************************************************************)
(* In every cluster, pruning takes nothing away from a peer that has        *)
(* acknowledged and is within the log: whatever the order in which          *)
(* acknowledgements arrive, each is behind the cursor of its sender, and    *)
(* the log is cut no further than the smallest (receiveAck, prune,          *)
(* needsSnapshot).                                                          *)
(***************************************************************************)
THEOREM AckedPeersStayInLogHolds == Spec => AckedPeersStayInLog
<1>1. IInv /\ IInv' /\ AcksBehindCursors /\ AcksBehindCursors' /\ [Next]_vars
          => [StaysInLog]_vars
    BY StepStaysInLog
<1>2. Spec => [][StaysInLog]_vars
    BY <1>1, InitAcks, NextAcks, Invariance, PTL DEF Spec
<1> QED  BY <1>2 DEF AckedPeersStayInLog, StaysInLog

============================================================================
